----------------------------- MODULE MCScheduler -----------------------------
(***************************************************************************)
(* An instance of Scheduler for TLC: a battle response and a script that   *)
(* share an image.                                                         *)
(***************************************************************************)
EXTENDS Scheduler

CONSTANTS battle, script, image, sound

MCUrls == {battle, script, image, sound}
MCBattles == {battle}
MCType == [u \in Urls |-> IF u = script THEN 0 ELSE 2]

\* The script is deferred in the battle. Together the two name one asset more than
\* tables of two entries have room for; which one is left out depends on which of
\* the two comes first.
MCBodies ==
  [u \in Urls |->
     CASE u = battle -> {<<<<script, TRUE>>, <<image, FALSE>>>>}
       [] u = script -> {<<<<image, FALSE>>, <<sound, FALSE>>>>}
       [] u \in {image, sound} -> {}]

\* Only assets become ready, and no browser is ahead of the preload of image or sound.
Roles ==
  /\ ready \subseteq {script, image, sound}
  /\ Asked \ {script} \subseteq running
  /\ Asked \cap {image, sound} = {}

=============================================================================
