------------------------------ MODULE MCService ------------------------------
(***************************************************************************)
(* Two processes with homes of their own: `a' runs the service and changes *)
(* its directories, `b' owns, while it lives, the directory that `a' would *)
(* move its cache to, and clears it.  Both want the same logs directory.   *)
(* `a' is not asked to stop: closing, and a start whose settings cannot be *)
(* saved, take the same steps.                                             *)
(***************************************************************************)
EXTENDS Service, TLC

CONSTANTS a, b, f, g

MCInstances == {a, b}
MCNames == {f, g}
MCPaths == {"c1", "c2", "l"}
MCAt == [p \in MCPaths |-> CASE p = "c1" -> 1 [] p = "c2" -> 2 [] p = "l" -> 3]

\* The cache to move; the other directory is empty or holds a file of its name.
MCFiles == {[n \in 1..4 |-> CASE n = 1 -> {f, g} [] n = 2 -> x [] n > 2 -> {}] :
              x \in {{}, {f}, {g}}}
MCTargets == [cache |-> {"c1", "c2"}, logs |-> {"l"}]
MCFirst == [i \in MCInstances |->
    [cache |-> IF i = a THEN "c1" ELSE "c2", logs |-> "l", keep |-> i = b]]
MCAsks == [i \in MCInstances |->
    IF i = a THEN {"status", "start", "export", "close", "directory",
                   "settings"}
    ELSE {"clear"}]
\* One process starts its service while the other takes a directory.
MCStartAsks == [i \in MCInstances |-> IF i = a THEN {"directory"} ELSE {"start"}]

\* The two cache files are alike: every operation treats them the same.
NameSymmetry == Permutations(MCNames)
=============================================================================
