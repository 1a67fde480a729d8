------------------------------- MODULE MCCache -------------------------------
(***************************************************************************)
(* Instances of Cache for TLC.                                             *)
(***************************************************************************)
EXTENDS Cache, TLC

CONSTANTS k1, va, vb, r1, r2, c1, c2, f1, f2

MCKeys == {k1}
MCOneVersion == {1}
MCVersions == {1, 2}
MCOneVariant == {va}
MCVariants == {va, vb}
MCRequest == {r1}
MCRequests == {r1, r2}
MCKeyOf == [r \in Requests |-> k1]
\* Two header sets of one URL, of the same or of different variants.
MCSameVariant == [r \in Requests |-> va]
MCOwnVariant == [r \in Requests |-> IF r = r1 THEN va ELSE vb]
MCClient == {c1}
MCClients == {c1, c2}
MCFlight == {f1}
MCFlights == {f1, f2}

MCBodies == {"ok", "notmodified"}
MCStreamOnly == {"stream", "failed"}
MCAnswers == AnswerKinds

\* The restore task is left to the runs of Storage and to the one-client run.
NoRestore == restorer = "off"

\* The restore task and close() in one history are left to the runs of Storage.
RestoreOrClose == stage = "open" \/ NoRestore

\* Runs about coalescing leave close() to the other runs.
StaysOpen == stage = "open" /\ NoRestore

\* Runs about the age of bodies leave bypasses and background jobs to the others;
\* a stale hit still starts a flight that nobody waits for.
Browsing == \A c \in Clients : cstep[c] # "direct" /\ ~Background(c)

\* In those runs a reply is read, a result collected and an ended task dropped
\* before anything else happens.
Leaving == {c \in Clients : cstep[c] = "served"}
Ended == {f \in Flights : fstep[f] = "gone" /\ Unreferenced(f)}
Returned == {f \in Flights : job[f] # NoJob /\ job[f].step = "done"}
AtOnce ==
  Leaving \cup Ended \cup Returned # {} =>
    \/ \E c \in Leaving : cstep'[c] = "idle"
    \/ \E f \in Ended : fstep'[f] = "blank"
    \/ \E f \in Returned : job'[f] = NoJob

Symmetric == Permutations(Clients) \cup Permutations(Flights)

=============================================================================
