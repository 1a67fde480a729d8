------------------------------ MODULE MCStorage ------------------------------
(***************************************************************************)
(* Instances of Storage for TLC: two writers that contend for one disk     *)
(* permit, two keys and two bodies (a key to write and one to be evicted,  *)
(* an old body and a new one).                                             *)
(***************************************************************************)
EXTENDS Storage, TLC

CONSTANTS k1, k2, w1, w2, va

MCKeys == {k1, k2}
MCVersions == {1, 2}
MCOneVariant == {va}
MCWriters == {w1, w2}

Symmetric == Permutations(MCKeys) \cup Permutations(MCWriters)

=============================================================================
