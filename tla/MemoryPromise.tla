---------------------------- MODULE MemoryPromise ----------------------------
(***************************************************************************)
(* The memory cache as its callers see it: contents that change only as    *)
(* MemoryContract allows. Abstract specification of MemoryCache.           *)
(***************************************************************************)
EXTENDS MemoryContract

VARIABLES
  copies,  \* key -> the copy held
  closed   \* close() was called

promiseVars == <<copies, closed>>

Init == copies = EmptyMemory /\ closed = FALSE

\* A look-up, an expiry or a removal: copies only disappear.
Lose ==
  /\ copies' \in Shrunk(copies)
  /\ UNCHANGED closed

Put(k, e, a) ==
  /\ copies' \in IF closed THEN {Without(copies, k)} ELSE AfterPut(copies, k, e, a)
  /\ UNCHANGED closed

Restore(k, e) ==
  /\ ~closed /\ copies' \in AfterRestore(copies, k, e)
  /\ UNCHANGED closed

Close == copies' = EmptyMemory /\ closed' = TRUE

Next ==
  \/ Lose \/ Close
  \/ \E k \in Keys, e \in Entries :
       Restore(k, e) \/ \E a \in Admission : Put(k, e, a)

Spec == Init /\ [][Next]_promiseVars

=============================================================================
