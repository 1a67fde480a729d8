--------------------------- MODULE MemoryContract ---------------------------
(***************************************************************************)
(* What the rest of the core may rely on when it calls MemoryCache         *)
(* (core/src/memory.rs): the set of contents each operation can leave      *)
(* behind, without the weights, tiers and ages that decide which one.      *)
(* Storage and Cache are built on this contract; MemoryCache is the        *)
(* detailed component, and MemoryCache shows it keeps the contract.        *)
(***************************************************************************)
EXTENDS Naturals

CONSTANTS
  Keys,      \* resource keys (the hash of a URL)
  Entries,   \* stored responses
  NoEntry    \* "no copy"

Admission == {"Demand", "Preload", "Refresh"}

Memories == [Keys -> Entries \cup {NoEntry}]

EmptyMemory == [k \in Keys |-> NoEntry]

Without(m, k) == [m EXCEPT ![k] = NoEntry]

Resident(m) == {k \in Keys : m[k] # NoEntry}

\* Contents that keep some of m's copies and add none: idle copies expire,
\* pressure evicts.
Shrunk(m) == {n \in Memories : \A k \in Keys : n[k] \in {m[k], NoEntry}}

(***************************************************************************)
(* put(k, e, a): the previous copy of k never survives, so k holds e or    *)
(* nothing; a Refresh admits nothing that was not resident; other keys     *)
(* only lose their copies.                                                 *)
(***************************************************************************)
AfterPut(m, k, e, a) ==
  {n \in Memories :
     /\ n[k] \in {e, NoEntry}
     /\ a = "Refresh" /\ m[k] = NoEntry => n[k] = NoEntry
     /\ \A j \in Keys \ {k} : n[j] \in {m[j], NoEntry}}

\* restore(k, e): a resident copy is left alone, otherwise a background put.
AfterRestore(m, k, e) ==
  IF m[k] # NoEntry THEN {m} ELSE AfterPut(m, k, e, "Preload")

=============================================================================
