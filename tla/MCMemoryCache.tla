----------------------------- MODULE MCMemoryCache -----------------------------
(***************************************************************************)
(* An instance of MemoryCache for TLC. With a limit of 6 the hot tier may  *)
(* hold 5 and restores 3, so two large copies overfill the hot tier, three *)
(* small ones fill the cache, and a huge one never fits.                   *)
(***************************************************************************)
EXTENDS MemoryCache, TLC

CONSTANTS k1, k2, k3, k4, small, large, huge

MCKeys == {k1, k2, k3, k4}
MCEntries == {small, large, huge}
MCWeight == [e \in Entries |-> CASE e = small -> 2 [] e = large -> 3 [] e = huge -> 7]

Symmetric == Permutations(MCKeys)

=============================================================================
