------------------------------- MODULE MCEngine -------------------------------
(***************************************************************************)
(* A page that names two resources, one of which names a third. With one   *)
(* slot the second waits for the first; with room for two requests one of  *)
(* the three is queued without a request, and skipped when its turn comes. *)
(***************************************************************************)
EXTENDS Engine

CONSTANTS Page, X, Y, Z, B1

MCUrls == {Page, X, Y, Z}
MCAssets == {X, Y, Z}
MCTargets == [u \in MCUrls |-> IF u = Page THEN {X, Y} ELSE IF u = X THEN {Z} ELSE {}]
MCBrowsers == {B1}

=============================================================================
