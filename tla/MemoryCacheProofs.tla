-------------------------- MODULE MemoryCacheProofs --------------------------
(***************************************************************************)
(* What MemoryCache keeps for all keys, entries, weights, limits and ages. *)
(*                                                                         *)
(* The first half is about the contents alone: which copies an operation   *)
(* may leave, however many bytes they come to. The second half is about    *)
(* the bytes. Its base are the equations of a sum of weights, which hold   *)
(* of any finite set of keys; its inductive invariant is LimitsInv.        *)
(***************************************************************************)
EXTENDS MemoryCache, FiniteSetTheorems, WellFoundedInduction, TLAPS

Queues == [Keys -> Weighted \cup {NoEntry}]

LEMMA NoCopyIsNoRecord == NoEntry \notin Weighted /\ NoEntry \notin Entries
BY WeightsAssumption DEF Weighted, Tiers, UNUSED, CANDIDATE, HOT

LEMMA TakeContents ==
  ASSUME NEW s, s.q \in Queues, NEW S
  PROVE  /\ Take(s, S).q \in Queues
         /\ \A k \in Keys : Take(s, S).q[k] = IF k \in S THEN NoEntry ELSE s.q[k]
BY DEF Take, Queues

LEMMA InsertContents ==
  ASSUME NEW s, s.q \in Queues, NEW k \in Keys, NEW c \in Weighted
  PROVE  /\ Insert(s, k, c).q \in Queues
         /\ \A j \in Keys : Insert(s, k, c).q[j] = IF j = k THEN c ELSE s.q[j]
BY DEF Insert, Queues

\* Balancing changes tiers, never contents.
LEMMA BalanceContents ==
  ASSUME NEW s, s.q \in Queues, NEW b \in Balance(s)
  PROVE  /\ b.q \in Queues
         /\ \A k \in Keys : /\ b.q[k] = NoEntry <=> s.q[k] = NoEntry
                            /\ s.q[k] # NoEntry => b.q[k].entry = s.q[k].entry
<1>1. PICK D \in SUBSET In(s.q, HOT) : b = Demote(s, D)
  BY DEF Balance, Victims
<1>2. \A k \in D : s.q[k] \in Weighted
  BY <1>1 DEF In, Held, Queues
<1>3. CANDIDATE \in Tiers
  BY DEF Tiers
<1>4. QED
  BY <1>1, <1>2, <1>3, NoCopyIsNoRecord DEF Demote, Copy, Queues, Weighted

LEMMA EvictContents ==
  ASSUME NEW s, s.q \in Queues, NEW b \in Evict(s)
  PROVE  /\ b.q \in Queues
         /\ \A k \in Keys : b.q[k] \in {s.q[k], NoEntry}
<1>1. PICK D : b = Take(s, D)
  BY DEF Evict
<1>2. QED
  BY <1>1, TakeContents

-----------------------------------------------------------------------------
(* put().                                                                  *)

LEMMA HeatType ==
  ASSUME NEW previous \in Weighted \cup {NoEntry}, NEW a
  PROVE  Heat(previous, a).age \in 0..Idle /\ Heat(previous, a).tier \in Tiers
<1>1. Idle \in Nat /\ 0 \in 0..Idle
  BY WeightsAssumption
<1>2. previous # NoEntry => previous.age \in 0..Idle /\ previous.tier \in Tiers
  BY DEF Weighted
<1>3. previous # NoEntry => MinTier(previous.tier + 1, HOT) \in Tiers
  BY <1>2 DEF MinTier, Tiers, UNUSED, CANDIDATE, HOT
<1>4. UNUSED \in Tiers /\ CANDIDATE \in Tiers
  BY DEF Tiers
<1>5. CASE previous = NoEntry
  BY <1>1, <1>4, <1>5 DEF Heat
<1>6. CASE previous # NoEntry
  BY <1>1, <1>2, <1>3, <1>6 DEF Heat
<1>7. QED
  BY <1>5, <1>6

\* What put() leaves: its key holds the new entry or nothing, the others what
\* they held or nothing, and a refresh needs a copy to refresh.
LEMMA PutContents ==
  ASSUME queues \in Queues, NEW k \in Keys, NEW e \in Entries, NEW a,
         NEW r \in PutResults(Now, k, e, a)
  PROVE  /\ r.q \in Queues
         /\ r.q[k] # NoEntry => r.q[k].entry = e
         /\ a = "Refresh" /\ queues[k] = NoEntry => r.q[k] = NoEntry
         /\ closed => r.q[k] = NoEntry /\ \A j \in Keys \ {k} : r.q[j] = queues[j]
         /\ \A j \in Keys \ {k} :
              r.q[j] # NoEntry => queues[j] # NoEntry /\ r.q[j].entry = queues[j].entry
<1> DEFINE previous == IF Live(queues, k) THEN queues[k] ELSE NoEntry
           taken == Take(Now, {k})
           room == IF Fits(taken, e) THEN taken ELSE Expire(taken)
           heat == Heat(previous, a)
           copy == Copy(e, heat.age, heat.tier)
<1>1. /\ taken.q \in Queues /\ taken.q[k] = NoEntry
      /\ \A j \in Keys \ {k} : taken.q[j] = queues[j]
  BY TakeContents DEF Now
<1>2. /\ room.q \in Queues /\ room.q[k] = NoEntry
      /\ \A j \in Keys \ {k} : room.q[j] \in {queues[j], NoEntry}
  <2>1. CASE Fits(taken, e)
    BY <1>1, <2>1
  <2>2. CASE ~Fits(taken, e)
    <3>1. Expire(taken).q \in Queues
      BY <1>1, TakeContents DEF Expire
    <3>2. \A j \in Keys : Expire(taken).q[j] \in {taken.q[j], NoEntry}
      BY <1>1, TakeContents DEF Expire
    <3>3. QED
      BY <1>1, <2>2, <3>1, <3>2
  <2>3. QED
    BY <2>1, <2>2
<1>3. copy \in Weighted /\ copy.entry = e
  <2>1. previous \in Weighted \cup {NoEntry}
    BY DEF Queues
  <2>2. QED
    BY <2>1, HeatType DEF Copy, Weighted
<1>4. \/ r = taken
      \/ r = room /\ a # "Demand"
      \/ /\ ~closed /\ ~VoidRefresh(previous, a)
         /\ \E b \in Balance(Insert(room, k, copy)) : r \in Evict(b)
  BY DEF PutResults, Now, Refused
<1>5. CASE r = taken
  BY <1>1, <1>5
<1>6. CASE r = room /\ r # taken
  BY <1>2, <1>6 DEF PutResults, Now, Refused
<1> HIDE DEF room, copy, taken, heat, previous
<1>7. CASE /\ ~closed /\ ~VoidRefresh(previous, a)
           /\ \E b \in Balance(Insert(room, k, copy)) : r \in Evict(b)
  <2>1. PICK b \in Balance(Insert(room, k, copy)) : r \in Evict(b)
    BY <1>7
  <2>2. /\ Insert(room, k, copy).q \in Queues
        /\ \A j \in Keys : Insert(room, k, copy).q[j] = IF j = k THEN copy ELSE room.q[j]
    BY <1>2, <1>3, InsertContents
  <2>3. /\ b.q \in Queues
        /\ \A j \in Keys :
             /\ b.q[j] = NoEntry <=> Insert(room, k, copy).q[j] = NoEntry
             /\ Insert(room, k, copy).q[j] # NoEntry
                  => b.q[j].entry = Insert(room, k, copy).q[j].entry
    BY <2>1, <2>2, BalanceContents
  <2>4. r.q \in Queues /\ \A j \in Keys : r.q[j] \in {b.q[j], NoEntry}
    BY <2>1, <2>3, EvictContents
  <2>5. r.q[k] # NoEntry => r.q[k].entry = e
    BY <1>3, <2>2, <2>3, <2>4, NoCopyIsNoRecord
  <2>6. \A j \in Keys \ {k} :
          r.q[j] # NoEntry => queues[j] # NoEntry /\ r.q[j].entry = queues[j].entry
    <3> SUFFICES ASSUME NEW j \in Keys \ {k}, r.q[j] # NoEntry
                 PROVE  queues[j] # NoEntry /\ r.q[j].entry = queues[j].entry
      OBVIOUS
    <3>1. r.q[j] = b.q[j] /\ b.q[j] # NoEntry
      BY <2>4
    <3>2. room.q[j] # NoEntry /\ b.q[j].entry = room.q[j].entry
      BY <2>2, <2>3, <3>1
    <3>3. QED
      BY <1>2, <3>1, <3>2
  <2>7. ~(a = "Refresh" /\ queues[k] = NoEntry)
    BY <1>7 DEF VoidRefresh, Live, previous
  <2>8. QED
    BY <1>7, <2>4, <2>5, <2>6, <2>7
<1>8. QED
  BY <1>4, <1>5, <1>6, <1>7

-----------------------------------------------------------------------------
(* Every operation.                                                        *)

LEMMA GetContents ==
  ASSUME queues \in Queues, NEW k \in Keys, NEW d \in BOOLEAN, Get(k, d)
  PROVE  queues' \in Queues /\ Copies' \in Promise!Shrunk(Copies)
<1>1. \A j \in Keys : queues[j] # NoEntry => queues[j] \in Weighted
  BY DEF Queues
<1>2. ASSUME queues' \in Queues,
             \A j \in Keys : queues'[j] # NoEntry
                => queues[j] # NoEntry /\ queues'[j].entry = queues[j].entry
      PROVE  Copies' \in Promise!Shrunk(Copies)
  BY <1>2 DEF Copies, Promise!Shrunk, Promise!Memories, Queues, Weighted
<1>3. CASE Becomes(Take(Now, {k})) \/ Becomes(Now)
  BY <1>2, <1>3, TakeContents DEF Becomes, Now
<1>4. CASE Live(queues, k) /\ \E s \in Balance(Insert(Take(Now, {k}), k,
             Copy(queues[k].entry, 0, MinTier(queues[k].tier + 1, HOT)))) : Becomes(s)
  <2> DEFINE hotter == Copy(queues[k].entry, 0, MinTier(queues[k].tier + 1, HOT))
             taken == Take(Now, {k})
  <2>1. hotter \in Weighted /\ hotter.entry = queues[k].entry
    BY <1>1, <1>4, WeightsAssumption
       DEF Live, Copy, Weighted, MinTier, Tiers, UNUSED, CANDIDATE, HOT
  <2>2. taken.q \in Queues /\ \A j \in Keys : taken.q[j] = IF j = k THEN NoEntry ELSE queues[j]
    BY TakeContents DEF Now
  <2> HIDE DEF hotter, taken
  <2>3. /\ Insert(taken, k, hotter).q \in Queues
        /\ \A j \in Keys :
             Insert(taken, k, hotter).q[j] = IF j = k THEN hotter ELSE taken.q[j]
    BY <2>1, <2>2, InsertContents
  <2>4. PICK s \in Balance(Insert(taken, k, hotter)) : Becomes(s)
    BY <1>4 DEF taken, hotter
  <2>5. /\ queues' \in Queues
        /\ \A j \in Keys :
             /\ queues'[j] = NoEntry <=> Insert(taken, k, hotter).q[j] = NoEntry
             /\ Insert(taken, k, hotter).q[j] # NoEntry
                  => queues'[j].entry = Insert(taken, k, hotter).q[j].entry
    BY <2>3, <2>4, BalanceContents DEF Becomes
  <2>6. ASSUME NEW j \in Keys, queues'[j] # NoEntry
        PROVE  queues[j] # NoEntry /\ queues'[j].entry = queues[j].entry
    BY <1>4, <2>1, <2>2, <2>3, <2>5, <2>6 DEF Live
  <2>7. QED
    BY <1>2, <2>5, <2>6
<1>5. QED
  BY <1>3, <1>4 DEF Get

LEMMA PutKept ==
  ASSUME queues \in Queues, NEW k \in Keys, NEW e \in Entries, NEW a \in Admission,
         Put(k, e, a)
  PROVE  queues' \in Queues /\ Promise!Put(k, e, a)
<1>1. PICK r \in PutResults(Now, k, e, a) : queues' = r.q
  BY DEF Put, Becomes
<1>2. /\ queues' \in Queues
      /\ queues'[k] # NoEntry => queues'[k].entry = e
      /\ a = "Refresh" /\ queues[k] = NoEntry => queues'[k] = NoEntry
      /\ closed => queues'[k] = NoEntry /\ \A j \in Keys \ {k} : queues'[j] = queues[j]
      /\ \A j \in Keys \ {k} :
           queues'[j] # NoEntry => queues[j] # NoEntry /\ queues'[j].entry = queues[j].entry
  BY <1>1, PutContents
<1>3. Copies \in Promise!Memories /\ Copies' \in Promise!Memories
  BY <1>2 DEF Copies, Promise!Memories, Queues, Weighted
<1>4. closed => Copies' = Promise!Without(Copies, k)
  BY <1>2 DEF Copies, Promise!Without
<1>5. Copies' \in Promise!AfterPut(Copies, k, e, a)
  <2>1. Copies'[k] \in {e, NoEntry}
    BY <1>2 DEF Copies
  <2>2. a = "Refresh" /\ Copies[k] = NoEntry => Copies'[k] = NoEntry
    BY <1>2, NoCopyIsNoRecord DEF Copies, Queues, Weighted
  <2>3. \A j \in Keys \ {k} : Copies'[j] \in {Copies[j], NoEntry}
    BY <1>2 DEF Copies
  <2>4. QED
    BY <1>3, <2>1, <2>2, <2>3 DEF Promise!AfterPut
<1>6. QED
  BY <1>2, <1>4, <1>5 DEF Put, Promise!Put

LEMMA RestoreKept ==
  ASSUME queues \in Queues, NEW k \in Keys, NEW e \in Entries, Restore(k, e)
  PROVE  queues' \in Queues /\ Promise!Restore(k, e)
<1>1. PICK r \in PutResults(Now, k, e, "Preload") : queues' = r.q
  BY DEF Restore, Becomes
<1>2. /\ queues' \in Queues
      /\ queues'[k] # NoEntry => queues'[k].entry = e
      /\ \A j \in Keys \ {k} :
           queues'[j] # NoEntry => queues[j] # NoEntry /\ queues'[j].entry = queues[j].entry
  BY <1>1, PutContents
<1>3. Copies \in Promise!Memories /\ Copies' \in Promise!Memories
  BY <1>2 DEF Copies, Promise!Memories, Queues, Weighted
<1>4. Copies[k] = NoEntry /\ ~closed /\ UNCHANGED closed
  BY DEF Copies, Restore
<1>5. Copies'[k] \in {e, NoEntry} /\ \A j \in Keys \ {k} : Copies'[j] \in {Copies[j], NoEntry}
  BY <1>2 DEF Copies
<1>6. Copies' \in Promise!AfterPut(Copies, k, e, "Preload")
  BY <1>3, <1>5 DEF Promise!AfterPut
<1>7. QED
  BY <1>2, <1>4, <1>6 DEF Promise!Restore, Promise!AfterRestore

\* An expiry and a removal take some copies and leave the others as they are.
LEMMA TakeLoses ==
  ASSUME queues \in Queues, NEW S, Becomes(Take(Now, S))
  PROVE  queues' \in Queues /\ Copies' \in Promise!Shrunk(Copies)
<1>1. queues' \in Queues /\ \A j \in Keys : queues'[j] = IF j \in S THEN NoEntry ELSE queues[j]
  BY TakeContents DEF Becomes, Now
<1>2. QED
  BY <1>1 DEF Copies, Promise!Shrunk, Promise!Memories, Queues, Weighted

LEMMA TickKeepsContents ==
  ASSUME queues \in Queues, Tick
  PROVE  queues' \in Queues /\ Copies' = Copies
<1>1. ASSUME NEW k \in Keys, Live(queues, k)
      PROVE  Copy(queues[k].entry, queues[k].age + 1, queues[k].tier) \in Weighted
  BY <1>1, WeightsAssumption DEF Live, Copy, Weighted, Queues
<1>2. queues' \in Queues
  BY <1>1 DEF Tick, Queues
<1>3. ASSUME NEW k \in Keys
      PROVE  /\ queues'[k] = NoEntry <=> queues[k] = NoEntry
             /\ queues[k] # NoEntry => queues'[k].entry = queues[k].entry
  BY <1>1, <1>3, NoCopyIsNoRecord DEF Tick, Live, Copy
<1>4. QED
  BY <1>2, <1>3 DEF Copies

LEMMA CloseEmpties ==
  ASSUME Close
  PROVE  queues' \in Queues /\ Promise!Close
BY DEF Close, Queues, Copies, Promise!Close, Promise!EmptyMemory

-----------------------------------------------------------------------------
(* The theorems.                                                           *)

\* A step of the component keeps the queues well formed, and is a step or a
\* stutter of its promise.
LEMMA StepKept ==
  ASSUME queues \in Queues, [Next]_vars
  PROVE  queues' \in Queues /\ [Promise!Next]_(Promise!promiseVars)
<1>1. ASSUME NEW k \in Keys, NEW d \in BOOLEAN, Get(k, d)
      PROVE  queues' \in Queues /\ Promise!Lose
  BY <1>1, GetContents DEF Get, Promise!Lose
<1>2. ASSUME NEW k \in Keys, NEW e \in Entries, NEW a \in Admission, Put(k, e, a)
      PROVE  queues' \in Queues /\ Promise!Next
  <2>1. queues' \in Queues /\ Promise!Put(k, e, a)
    BY <1>2, PutKept
  <2>2. a \in Promise!Admission
    BY DEF Admission, Promise!Admission
  <2>3. QED
    BY <2>1, <2>2 DEF Promise!Next
<1>3. ASSUME NEW k \in Keys, NEW e \in Entries, Restore(k, e)
      PROVE  queues' \in Queues /\ Promise!Next
  BY <1>3, RestoreKept DEF Promise!Next
<1>4. ASSUME NEW k \in Keys, Remove(k)
      PROVE  queues' \in Queues /\ Promise!Lose
  BY <1>4, TakeLoses DEF Remove, Promise!Lose
<1>5. CASE ExpireIdle
  BY <1>5, TakeLoses DEF ExpireIdle, Expire, Promise!Lose, Promise!Next
<1>6. CASE Close
  BY <1>6, CloseEmpties DEF Promise!Next
<1>7. CASE Tick
  BY <1>7, TickKeepsContents DEF Tick, Promise!promiseVars
<1>8. CASE UNCHANGED vars
  BY <1>8 DEF vars, Copies, Promise!promiseVars
<1>9. QED
  BY <1>1, <1>2, <1>3, <1>4, <1>5, <1>6, <1>7, <1>8 DEF Next, Promise!Next

\* What is held is always an entry with an age no more than Idle and a tier.
THEOREM QueuesTyped == Spec => [](queues \in Queues)
<1>1. Init => queues \in Queues
  BY DEF Init, Queues
<1>2. queues \in Queues /\ [Next]_vars => (queues \in Queues)'
  BY StepKept
<1>3. QED
  BY <1>1, <1>2, PTL DEF Spec

\* The memory cache implements its promise: whatever the weights, the limit, the
\* heats and the ages, its contents change only as the core counts on.
THEOREM KeepsPromise == Spec => Promise!Spec
<1>1. Init => Promise!Init
  BY DEF Init, Copies, Promise!Init, Promise!EmptyMemory
<1>2. queues \in Queues /\ [Next]_vars => [Promise!Next]_(Promise!promiseVars)
  BY StepKept
<1>3. QED
  BY <1>1, <1>2, QueuesTyped, PTL DEF Spec, Promise!Spec

\* And each put keeps its own part of the contract: its key holds the new entry
\* or nothing, and a refresh brings nothing in.
THEOREM KeepsContract == Spec => ContractKept
<1>1. queues \in Queues =>
        (\A k \in Keys, e \in Entries, a \in Admission :
           Put(k, e, a) => Promise!Put(k, e, a))
  BY PutKept
<1>2. QED
  BY <1>1, QueuesTyped, KeepsPromise, PTL DEF Spec, PutsKept, ContractKept

-----------------------------------------------------------------------------
(* Sums of weights.                                                        *)

\* A family of subsets that contains a set whenever it contains its proper
\* subsets contains every finite set.
LEMMA FiniteSetsByInduction ==
  ASSUME NEW S, IsFiniteSet(S), NEW T,
         \A R \in SUBSET S : (\A U \in SUBSET R : U # R => U \in T) => R \in T
  PROVE  \A R \in SUBSET S : R \in T
<1> DEFINE bad == {R \in SUBSET S : R \notin T}
<1>1. SUFFICES ASSUME bad # {} PROVE FALSE
  OBVIOUS
<1>2. bad \subseteq FiniteSubsetsOf(S)
  BY FS_Subset DEF FiniteSubsetsOf
<1>3. PICK R \in bad : \A U \in bad : <<U, R>> \notin StrictSubsetOrdering(S)
  <2> DEFINE Less == StrictSubsetOrdering(S)
  <2>1. IsWellFoundedOn(Less, FiniteSubsetsOf(S))
    BY FS_StrictSubsetOrderingWellFounded
  <2> HIDE DEF bad, Less
  <2>2. \E R \in bad : \A U \in bad : <<U, R>> \notin Less
    BY <1>1, <1>2, <2>1, WFMin
  <2>3. QED
    BY <2>2 DEF Less
<1>4. \A U \in SUBSET R : U # R => U \in T
  BY <1>3 DEF StrictSubsetOrdering
<1>5. QED
  BY <1>3, <1>4

\* The same of the natural numbers.
LEMMA NaturalsByInduction ==
  ASSUME NEW T, 0 \in T, \A n \in Nat : n \in T => n + 1 \in T
  PROVE  Nat \subseteq T
<1> DEFINE bad == {n \in Nat : n \notin T}
<1>1. SUFFICES ASSUME bad # {} PROVE FALSE
  OBVIOUS
<1>2. PICK n \in bad : \A m \in bad : <<m, n>> \notin OpToRel(<, Nat)
  BY <1>1, NatLessThanWellFounded, WFMin
<1>3. n # 0 /\ n - 1 \in Nat /\ n - 1 < n
  OBVIOUS
<1>4. n - 1 \in T
  BY <1>2, <1>3 DEF OpToRel
<1>5. QED
  BY <1>3, <1>4

\* MapThenSumSet is a CHOOSE of a function on the subsets of S that meets the
\* equations IsSum: each takes the first element of the set off.
First(s) == CHOOSE x \in s : TRUE
After(q, g, s) == IF s = {} THEN 0 ELSE Weight[q[First(s)].entry] + g[s \ {First(s)}]
IsSum(q, S, g) == g = [s \in SUBSET S |-> After(q, g, s)]

LEMMA LoadIsSum ==
  ASSUME NEW q, NEW S
  PROVE  Load(q, S) = (CHOOSE g : IsSum(q, S, g))[S]
BY DEF Load, MapThenSumSet, MapThenFoldSet, IsSum, After, First

LEMMA FirstOfSet ==
  ASSUME NEW s, s # {}
  PROVE  First(s) \in s
BY DEF First

\* There is such a function: it is built up by cardinality.
LEMMA SumExists ==
  ASSUME NEW q, NEW S, IsFiniteSet(S)
  PROVE  \E g : IsSum(q, S, g)
<1> DEFINE upTo(n) == {s \in SUBSET S : Cardinality(s) <= n}
           good == {n \in Nat : \E g : DOMAIN g = SUBSET S
                      /\ \A s \in upTo(n) : g[s] = After(q, g, s)}
<1>0. \A s \in SUBSET S : IsFiniteSet(s) /\ Cardinality(s) \in Nat
  BY FS_Subset, FS_CardinalityType
<1>1. 0 \in good
  <2> DEFINE g == [s \in SUBSET S |-> 0]
  <2>1. \A s \in upTo(0) : s = {}
    BY <1>0, FS_EmptySet
  <2>2. DOMAIN g = SUBSET S /\ \A s \in upTo(0) : g[s] = After(q, g, s)
    BY <2>1 DEF After
  <2> HIDE DEF g
  <2>3. QED
    BY <2>2
<1>2. ASSUME NEW n \in Nat, n \in good
      PROVE  n + 1 \in good
  <2>1. PICK g : DOMAIN g = SUBSET S /\ \A s \in upTo(n) : g[s] = After(q, g, s)
    BY <1>2
  <2> DEFINE h == [s \in SUBSET S |-> IF s \in upTo(n) THEN g[s] ELSE After(q, g, s)]
  <2>2. ASSUME NEW s \in upTo(n + 1), s # {}
        PROVE  s \ {First(s)} \in upTo(n)
    BY <1>0, <2>2, FirstOfSet, FS_RemoveElement
  <2>3. ASSUME NEW s \in upTo(n + 1)
        PROVE  h[s] = After(q, h, s)
    <3>1. h[s] = After(q, g, s)
      BY <2>1
    <3>2. CASE s = {}
      BY <3>1, <3>2 DEF After
    <3>3. CASE s # {}
      <4>1. h[s \ {First(s)}] = g[s \ {First(s)}]
        BY <2>2, <3>3
      <4>2. QED
        BY <3>1, <3>3, <4>1 DEF After
    <3>4. QED
      BY <3>2, <3>3
  <2>4. DOMAIN h = SUBSET S
    OBVIOUS
  <2> HIDE DEF h
  <2>5. QED
    BY <2>3, <2>4
<1>3. Cardinality(S) \in good
  <2> HIDE DEF good
  <2>1. QED
    BY <1>0, <1>1, <1>2, NaturalsByInduction
<1>4. PICK g : DOMAIN g = SUBSET S /\ \A s \in upTo(Cardinality(S)) : g[s] = After(q, g, s)
  BY <1>3
<1>5. \A s \in SUBSET S : s \in upTo(Cardinality(S))
  BY FS_Subset
<1>6. QED
  <2> DEFINE h == [s \in SUBSET S |-> g[s]]
  <2>1. \A s \in SUBSET S : After(q, h, s) = After(q, g, s)
    BY FirstOfSet DEF After
  <2>2. h = [s \in SUBSET S |-> After(q, h, s)]
    BY <1>4, <1>5, <2>1
  <2> HIDE DEF h
  <2>3. QED
    BY <2>2 DEF IsSum

\* And the functions of two sets agree on what they share.
LEMMA SumsAgree ==
  ASSUME NEW q, NEW S, NEW g, IsSum(q, S, g), NEW R, NEW h, IsSum(q, R, h),
         IsFiniteSet(R), R \subseteq S
  PROVE  g[R] = h[R]
<1> DEFINE same == {U \in SUBSET R : g[U] = h[U]}
<1>1. ASSUME NEW U \in SUBSET R, \A V \in SUBSET U : V # U => V \in same
      PROVE  U \in same
  <2>1. g[U] = After(q, g, U) /\ h[U] = After(q, h, U)
    BY DEF IsSum
  <2>2. CASE U = {}
    BY <2>1, <2>2 DEF After
  <2>3. CASE U # {}
    <3>1. U \ {First(U)} \in same
      BY <1>1, <2>3, FirstOfSet
    <3>2. QED
      BY <2>1, <2>3, <3>1 DEF After
  <2>4. QED
    BY <2>2, <2>3
<1>2. \A U \in SUBSET R : U \in same
  <2> HIDE DEF same
  <2>1. QED
    BY <1>1, FiniteSetsByInduction
<1>3. QED
  BY <1>2

\* The equations of a sum of weights.
LEMMA LoadEmpty ==
  ASSUME NEW q
  PROVE  Load(q, {}) = 0
<1>1. PICK g : IsSum(q, {}, g)
  BY SumExists, FS_EmptySet
<1>2. IsSum(q, {}, CHOOSE h : IsSum(q, {}, h))
  BY <1>1
<1>3. QED
  BY <1>2, LoadIsSum DEF IsSum, After

LEMMA LoadFirst ==
  ASSUME NEW q, NEW S, IsFiniteSet(S), S # {}
  PROVE  Load(q, S) = Weight[q[First(S)].entry] + Load(q, S \ {First(S)})
<1> DEFINE R == S \ {First(S)}
           g == CHOOSE f : IsSum(q, S, f)
           h == CHOOSE f : IsSum(q, R, f)
<1>1. IsFiniteSet(R) /\ R \subseteq S
  BY FS_RemoveElement
<1>2. IsSum(q, S, g) /\ IsSum(q, R, h)
  BY <1>1, SumExists
<1>3. Load(q, S) = g[S] /\ Load(q, R) = h[R]
  BY LoadIsSum
<1>4. g[S] = After(q, g, S)
  BY <1>2 DEF IsSum
<1> HIDE DEF g, h
<1>5. g[R] = h[R]
  BY <1>1, <1>2, SumsAgree
<1>6. QED
  BY <1>3, <1>4, <1>5 DEF After

\* A finite set of keys that all hold an entry, which has a weight.
Weighed(q, S) == IsFiniteSet(S) /\ \A x \in S : q[x].entry \in Entries

LEMMA LoadIsNatural ==
  ASSUME NEW q, NEW S, Weighed(q, S)
  PROVE  Load(q, S) \in Nat
<1> DEFINE good == {R \in SUBSET S : Load(q, R) \in Nat}
<1>1. ASSUME NEW R \in SUBSET S, \A U \in SUBSET R : U # R => U \in good
      PROVE  R \in good
  <2>1. CASE R = {}
    BY <2>1, LoadEmpty
  <2>2. CASE R # {}
    <3>1. First(R) \in R /\ IsFiniteSet(R)
      BY <2>2, FirstOfSet, FS_Subset DEF Weighed
    <3>2. Load(q, R \ {First(R)}) \in Nat
      BY <1>1, <3>1
    <3>3. Weight[q[First(R)].entry] \in Nat
      BY <3>1, WeightsAssumption DEF Weighed
    <3>4. QED
      BY <2>2, <3>1, <3>2, <3>3, LoadFirst
  <2>3. QED
    BY <2>1, <2>2
<1>2. \A R \in SUBSET S : R \in good
  <2> HIDE DEF good
  <2>1. QED
    BY <1>1, FiniteSetsByInduction DEF Weighed
<1>3. QED
  BY <1>2

\* Any element may be weighed first.
LEMMA LoadSplits ==
  ASSUME NEW q, NEW S, Weighed(q, S), NEW x \in S
  PROVE  Load(q, S) = Weight[q[x].entry] + Load(q, S \ {x})
<1> DEFINE W(y) == Weight[q[y].entry]
           good == {R \in SUBSET S :
                      \A y \in R : Load(q, R) = W(y) + Load(q, R \ {y})}
<1>1. \A R \in SUBSET S : IsFiniteSet(R) /\ Load(q, R) \in Nat
  BY FS_Subset, LoadIsNatural DEF Weighed
<1>2. \A y \in S : W(y) \in Nat
  BY WeightsAssumption DEF Weighed
<1>3. ASSUME NEW R \in SUBSET S, \A U \in SUBSET R : U # R => U \in good
      PROVE  R \in good
  <2> SUFFICES ASSUME NEW y \in R
               PROVE  Load(q, R) = W(y) + Load(q, R \ {y})
    OBVIOUS
  <2> DEFINE f == First(R)
  <2>1. f \in R /\ Load(q, R) = W(f) + Load(q, R \ {f})
    BY <1>1, FirstOfSet, LoadFirst
  <2> HIDE DEF f
  <2>2. CASE y = f
    BY <2>1, <2>2
  <2>3. CASE y # f
    <3>1. Load(q, R \ {f}) = W(y) + Load(q, (R \ {f}) \ {y})
      BY <1>3, <2>1, <2>3
    <3>2. Load(q, R \ {y}) = W(f) + Load(q, (R \ {y}) \ {f})
      BY <1>3, <2>1, <2>3
    <3>3. (R \ {f}) \ {y} = (R \ {y}) \ {f}
      OBVIOUS
    <3>4. /\ W(f) \in Nat /\ W(y) \in Nat /\ Load(q, (R \ {y}) \ {f}) \in Nat
      BY <1>1, <1>2, <2>1
    <3> HIDE DEF W
    <3>5. QED
      BY <2>1, <3>1, <3>2, <3>3, <3>4
  <2>4. QED
    BY <2>2, <2>3
<1>4. \A R \in SUBSET S : R \in good
  <2> HIDE DEF good
  <2>1. QED
    BY <1>3, FiniteSetsByInduction DEF Weighed
<1>5. QED
  BY <1>4

\* Ages and tiers weigh nothing.
LEMMA LoadOfEntries ==
  ASSUME NEW q, NEW S, Weighed(q, S), NEW p, \A x \in S : p[x].entry = q[x].entry
  PROVE  Load(p, S) = Load(q, S)
<1> DEFINE good == {R \in SUBSET S : Load(p, R) = Load(q, R)}
<1>1. ASSUME NEW R \in SUBSET S, \A U \in SUBSET R : U # R => U \in good
      PROVE  R \in good
  <2>1. CASE R = {}
    BY <2>1, LoadEmpty
  <2>2. CASE R # {}
    <3>1. First(R) \in R /\ IsFiniteSet(R)
      BY <2>2, FirstOfSet, FS_Subset DEF Weighed
    <3>2. Load(p, R \ {First(R)}) = Load(q, R \ {First(R)})
      BY <1>1, <3>1
    <3>3. QED
      BY <2>2, <3>1, <3>2, LoadFirst
  <2>3. QED
    BY <2>1, <2>2
<1>2. \A R \in SUBSET S : R \in good
  <2> HIDE DEF good
  <2>1. QED
    BY <1>1, FiniteSetsByInduction DEF Weighed
<1>3. QED
  BY <1>2

\* The sum over two disjoint sets.
LEMMA LoadOfUnion ==
  ASSUME NEW q, NEW A, NEW B, Weighed(q, A), Weighed(q, B), A \cap B = {}
  PROVE  Load(q, A \cup B) = Load(q, A) + Load(q, B)
<1> DEFINE good == {R \in SUBSET A : Load(q, R \cup B) = Load(q, R) + Load(q, B)}
<1>1. ASSUME NEW R \in SUBSET A, \A U \in SUBSET R : U # R => U \in good
      PROVE  R \in good
  <2>0. /\ Weighed(q, R) /\ Weighed(q, R \cup B)
        /\ Load(q, B) \in Nat /\ Load(q, R) \in Nat
    BY FS_Subset, FS_Union, LoadIsNatural DEF Weighed
  <2>1. CASE R = {}
    BY <2>0, <2>1, LoadEmpty
  <2>2. CASE R # {}
    <3>1. PICK x \in R : TRUE
      BY <2>2
    <3>2. Load(q, R \cup B) = Weight[q[x].entry] + Load(q, (R \cup B) \ {x})
      BY <2>0, LoadSplits
    <3>3. Load(q, R) = Weight[q[x].entry] + Load(q, R \ {x})
      BY <2>0, LoadSplits
    <3>4. (R \cup B) \ {x} = (R \ {x}) \cup B
      OBVIOUS
    <3>5. Load(q, (R \ {x}) \cup B) = Load(q, R \ {x}) + Load(q, B)
      BY <1>1
    <3>6. Weight[q[x].entry] \in Nat /\ Load(q, R \ {x}) \in Nat
      BY <2>0, WeightsAssumption, LoadIsNatural, FS_RemoveElement DEF Weighed
    <3>7. QED
      BY <2>0, <3>2, <3>3, <3>4, <3>5, <3>6
  <2>3. QED
    BY <2>1, <2>2
<1>2. \A R \in SUBSET A : R \in good
  <2> HIDE DEF good
  <2>1. QED
    BY <1>1, FiniteSetsByInduction DEF Weighed
<1>3. QED
  BY <1>2

\* What is left of a set when a part of it goes.
LEMMA LoadOfRest ==
  ASSUME NEW q, NEW S, Weighed(q, S), NEW D \in SUBSET S
  PROVE  /\ Weighed(q, D) /\ Weighed(q, S \ D)
         /\ Load(q, D) \in Nat /\ Load(q, S \ D) \in Nat
         /\ Load(q, S) = Load(q, D) + Load(q, S \ D)
<1>1. Weighed(q, D) /\ Weighed(q, S \ D)
  BY FS_Subset, FS_Difference DEF Weighed
<1>2. S = D \cup (S \ D) /\ D \cap (S \ D) = {}
  OBVIOUS
<1>3. QED
  BY <1>1, <1>2, LoadOfUnion, LoadIsNatural

-----------------------------------------------------------------------------
(* Counters that say what is held.                                         *)

\* The counters of the code are the weights of its queues; in the middle of an
\* operation too.
Accounted(s) ==
  /\ s.q \in Queues /\ IsFiniteSet(Held(s.q))
  /\ s.b = [t \in Tiers |-> Load(s.q, In(s.q, t))]

LEMMA QueuesWeighed ==
  ASSUME NEW q \in Queues, IsFiniteSet(Held(q))
  PROVE  /\ Weighed(q, Held(q))
         /\ \A S \in SUBSET Held(q) : Weighed(q, S) /\ Load(q, S) \in Nat
<1>1. \A x \in Held(q) : q[x].entry \in Entries
  BY DEF Held, Queues, Weighted
<1>2. \A S \in SUBSET Held(q) : Weighed(q, S)
  BY <1>1, FS_Subset DEF Weighed
<1>3. QED
  BY <1>2, LoadIsNatural

\* So the counters together are the weight of all that is held.
LEMMA AccountedTotal ==
  ASSUME NEW s, Accounted(s)
  PROVE  /\ \A t \in Tiers : s.b[t] \in Nat
         /\ s.b[UNUSED] \in Nat /\ s.b[CANDIDATE] \in Nat /\ s.b[HOT] \in Nat
         /\ Total(s.b) = Load(s.q, Held(s.q))
<1> DEFINE q == s.q
           A == In(q, UNUSED)
           B == In(q, CANDIDATE)
           C == In(q, HOT)
<1>1. UNUSED \in Tiers /\ CANDIDATE \in Tiers /\ HOT \in Tiers
  BY DEF Tiers
<1>2. \A t \in Tiers : In(q, t) \in SUBSET Held(q)
  BY DEF In
<1>3. \A t \in Tiers : Weighed(q, In(q, t)) /\ s.b[t] = Load(q, In(q, t)) /\ s.b[t] \in Nat
  BY <1>2, QueuesWeighed DEF Accounted
<1>4. A \cap B = {} /\ (A \cup B) \cap C = {}
  BY DEF In, UNUSED, CANDIDATE, HOT
<1>5. Held(q) = (A \cup B) \cup C
  BY DEF In, Held, Queues, Weighted, Tiers, Accounted
<1>6. Weighed(q, A \cup B)
  BY <1>5, QueuesWeighed DEF Accounted
<1> HIDE DEF A, B, C
<1>7. Load(q, A \cup B) = Load(q, A) + Load(q, B)
  BY <1>1, <1>3, <1>4, LoadOfUnion DEF A, B
<1>8. Load(q, (A \cup B) \cup C) = Load(q, A \cup B) + Load(q, C)
  BY <1>1, <1>3, <1>4, <1>6, LoadOfUnion DEF C
<1>9. QED
  BY <1>1, <1>3, <1>5, <1>7, <1>8 DEF Total, A, B, C

\* take(), the insertion and the demotion keep the books.
LEMMA TakeAccounted ==
  ASSUME NEW s, Accounted(s), NEW S
  PROVE  /\ Accounted(Take(s, S))
         /\ Held(Take(s, S).q) = Held(s.q) \ S
         /\ \A t \in Tiers : Take(s, S).b[t] <= s.b[t]
         /\ Total(Take(s, S).b) = Total(s.b) - Load(s.q, S \cap Held(s.q))
         /\ Total(Take(s, S).b) <= Total(s.b)
<1> DEFINE r == Take(s, S)
<1>0. r.q = [k \in Keys |-> IF k \in S THEN NoEntry ELSE s.q[k]]
  BY DEF Take
<1>1. r.q \in Queues /\ \A k \in Keys : r.q[k] = IF k \in S THEN NoEntry ELSE s.q[k]
  BY <1>0 DEF Queues, Accounted
<1>2. r.b = [t \in Tiers |-> s.b[t] - Load(s.q, S \cap In(s.q, t))]
  BY DEF Take
<1> HIDE DEF r
<1>3. Held(r.q) = Held(s.q) \ S
  BY <1>1 DEF Held
<1>4. ASSUME NEW t
      PROVE  In(r.q, t) = In(s.q, t) \ S
  <2>1. \A k \in Held(s.q) \ S : r.q[k] = s.q[k]
    BY <1>1 DEF Held
  <2>2. In(r.q, t) = {k \in Held(s.q) \ S : r.q[k].tier = t}
    BY <1>3 DEF In
  <2>3. QED
    BY <2>1, <2>2 DEF In
<1>5. IsFiniteSet(Held(r.q))
  <2>1. IsFiniteSet(Held(s.q) \ S)
    BY FS_Difference DEF Accounted
  <2>2. QED
    BY <1>3, <2>1
<1>6. ASSUME NEW T \in SUBSET Held(s.q)
      PROVE  /\ Load(s.q, T) = Load(s.q, S \cap T) + Load(r.q, T \ S)
             /\ Load(s.q, S \cap T) \in Nat /\ Load(r.q, T \ S) \in Nat
  <2>1. Weighed(s.q, T)
    BY QueuesWeighed DEF Accounted
  <2>2. PICK D \in SUBSET T : D = S \cap T
    OBVIOUS
  <2>3. /\ Weighed(s.q, T \ S)
        /\ Load(s.q, T) = Load(s.q, S \cap T) + Load(s.q, T \ S)
        /\ Load(s.q, S \cap T) \in Nat /\ Load(s.q, T \ S) \in Nat
    <3>1. T \ D = T \ S
      BY <2>2
    <3>2. /\ Weighed(s.q, T \ D)
          /\ Load(s.q, T) = Load(s.q, D) + Load(s.q, T \ D)
          /\ Load(s.q, D) \in Nat /\ Load(s.q, T \ D) \in Nat
      BY <2>1, LoadOfRest
    <3>3. QED
      BY <2>2, <3>1, <3>2
  <2>4. \A x \in T \ S : r.q[x].entry = s.q[x].entry
    BY <1>1 DEF Held
  <2>5. Load(r.q, T \ S) = Load(s.q, T \ S)
    BY <2>3, <2>4, LoadOfEntries
  <2>6. QED
    BY <2>3, <2>5
<1>7. ASSUME NEW t \in Tiers
      PROVE  r.b[t] = Load(r.q, In(r.q, t)) /\ r.b[t] <= s.b[t]
  <2>1. In(s.q, t) \in SUBSET Held(s.q)
    BY DEF In
  <2>2. s.b[t] = Load(s.q, In(s.q, t))
    BY DEF Accounted
  <2>3. r.b[t] = s.b[t] - Load(s.q, S \cap In(s.q, t))
    BY <1>2
  <2>4. In(r.q, t) = In(s.q, t) \ S
    BY <1>4
  <2>5. PICK T \in SUBSET Held(s.q) : T = In(s.q, t)
    BY <2>1
  <2>6. /\ Load(s.q, T) = Load(s.q, S \cap T) + Load(r.q, T \ S)
        /\ Load(s.q, S \cap T) \in Nat /\ Load(r.q, T \ S) \in Nat
    BY <1>6
  <2>7. QED
    BY <2>2, <2>3, <2>4, <2>5, <2>6
<1>8. Accounted(r)
  BY <1>1, <1>2, <1>5, <1>7 DEF Accounted
<1>9. /\ Total(r.b) = Total(s.b) - Load(s.q, S \cap Held(s.q))
      /\ Total(r.b) <= Total(s.b)
  <2>1. Total(r.b) = Load(r.q, Held(s.q) \ S) /\ Total(s.b) = Load(s.q, Held(s.q))
    BY <1>3, <1>8, AccountedTotal
  <2>2. Held(s.q) \in SUBSET Held(s.q)
    OBVIOUS
  <2>3. PICK T \in SUBSET Held(s.q) : T = Held(s.q)
    BY <2>2
  <2>4. /\ Load(s.q, T) = Load(s.q, S \cap T) + Load(r.q, T \ S)
        /\ Load(s.q, S \cap T) \in Nat /\ Load(r.q, T \ S) \in Nat
    BY <1>6
  <2>5. QED
    BY <2>1, <2>3, <2>4
<1>10. QED
  BY <1>3, <1>7, <1>8, <1>9 DEF r

LEMMA InsertAccounted ==
  ASSUME NEW s, Accounted(s), NEW k \in Keys, s.q[k] = NoEntry, NEW c \in Weighted
  PROVE  /\ Accounted(Insert(s, k, c))
         /\ Held(Insert(s, k, c).q) = Held(s.q) \cup {k}
         /\ Total(Insert(s, k, c).b) = Total(s.b) + Weight[c.entry]
<1> DEFINE r == Insert(s, k, c)
<1>1. r.q \in Queues /\ \A j \in Keys : r.q[j] = IF j = k THEN c ELSE s.q[j]
  BY DEF Insert, Queues, Accounted
<1>2. r.b = [s.b EXCEPT ![c.tier] = s.b[c.tier] + Weight[c.entry]]
  BY DEF Insert
<1> HIDE DEF r
<1>3. Held(r.q) = Held(s.q) \cup {k} /\ k \notin Held(s.q)
  BY <1>1, NoCopyIsNoRecord DEF Held
<1>4. \A t : In(r.q, t) = IF c.tier = t THEN In(s.q, t) \cup {k} ELSE In(s.q, t)
  BY <1>1, <1>3 DEF In, Held
<1>5. IsFiniteSet(Held(r.q))
  BY <1>3, FS_AddElement DEF Accounted
<1>6. ASSUME NEW T \in SUBSET Held(s.q)
      PROVE  /\ Load(r.q, T) = Load(s.q, T)
             /\ Load(r.q, T \cup {k}) = Load(s.q, T) + Weight[c.entry]
  <2>1. Weighed(s.q, T) /\ Weighed(r.q, T \cup {k}) /\ Load(s.q, T) \in Nat
    BY <1>1, <1>3, <1>5, QueuesWeighed DEF Accounted
  <2>2. \A x \in T : r.q[x].entry = s.q[x].entry
    BY <1>1, <1>3 DEF Held
  <2>3. Load(r.q, T) = Load(s.q, T)
    BY <2>1, <2>2, LoadOfEntries
  <2>4. (T \cup {k}) \ {k} = T /\ r.q[k].entry = c.entry
    BY <1>1, <1>3
  <2>5. Load(r.q, T \cup {k}) = Weight[c.entry] + Load(r.q, T)
    BY <2>1, <2>4, LoadSplits
  <2>6. Weight[c.entry] \in Nat
    BY WeightsAssumption DEF Weighted
  <2>7. QED
    BY <2>1, <2>3, <2>5, <2>6
<1>7. ASSUME NEW t \in Tiers
      PROVE  r.b[t] = Load(r.q, In(r.q, t))
  <2>1. In(s.q, t) \in SUBSET Held(s.q)
    BY DEF In
  <2>2. s.b[t] = Load(s.q, In(s.q, t)) /\ DOMAIN s.b = Tiers
    BY DEF Accounted
  <2>3. r.b[t] = IF c.tier = t THEN s.b[t] + Weight[c.entry] ELSE s.b[t]
    BY <1>2, <2>2
  <2>4. In(r.q, t) = IF c.tier = t THEN In(s.q, t) \cup {k} ELSE In(s.q, t)
    BY <1>4
  <2>5. PICK T \in SUBSET Held(s.q) : T = In(s.q, t)
    BY <2>1
  <2>6. Load(r.q, T) = Load(s.q, T) /\ Load(r.q, T \cup {k}) = Load(s.q, T) + Weight[c.entry]
    BY <1>6
  <2>7. CASE c.tier = t
    BY <2>2, <2>3, <2>4, <2>5, <2>6, <2>7
  <2>8. CASE c.tier # t
    BY <2>2, <2>3, <2>4, <2>5, <2>6, <2>8
  <2>9. QED
    BY <2>7, <2>8
<1>8. Accounted(r)
  <2>1. r.b = [t \in Tiers |-> r.b[t]]
    BY <1>2 DEF Accounted
  <2>2. QED
    BY <1>1, <1>5, <1>7, <2>1 DEF Accounted
<1>9. Total(r.b) = Total(s.b) + Weight[c.entry]
  <2>1. Total(r.b) = Load(r.q, Held(s.q) \cup {k}) /\ Total(s.b) = Load(s.q, Held(s.q))
    BY <1>3, <1>8, AccountedTotal
  <2>2. QED
    BY <2>1, <1>6
<1>10. QED
  BY <1>3, <1>8, <1>9 DEF r

LEMMA DemoteAccounted ==
  ASSUME NEW s, Accounted(s), NEW D \in SUBSET In(s.q, HOT)
  PROVE  /\ Accounted(Demote(s, D))
         /\ Held(Demote(s, D).q) = Held(s.q)
         /\ Total(Demote(s, D).b) = Total(s.b)
         /\ Demote(s, D).b[HOT] = s.b[HOT] - Load(s.q, D)
<1> DEFINE r == Demote(s, D)
<1>0. CANDIDATE \in Tiers /\ HOT \in Tiers /\ UNUSED \in Tiers
      /\ CANDIDATE # HOT /\ UNUSED # CANDIDATE /\ UNUSED # HOT
  BY DEF Tiers, CANDIDATE, HOT, UNUSED
<1>1. \A k \in D : s.q[k] \in Weighted /\ k \in Keys /\ s.q[k].tier = HOT
  BY DEF In, Held, Queues, Accounted
<1>2. /\ r.q \in Queues
      /\ \A j \in Keys :
           r.q[j] = IF j \in D THEN Copy(s.q[j].entry, s.q[j].age, CANDIDATE) ELSE s.q[j]
  BY <1>0, <1>1 DEF Demote, Copy, Queues, Weighted, Accounted
<1>3. r.b = [t \in Tiers |-> CASE t = UNUSED -> s.b[t]
                           [] t = CANDIDATE -> s.b[t] + Load(s.q, D)
                           [] t = HOT -> s.b[t] - Load(s.q, D)]
  BY DEF Demote
<1> HIDE DEF r
<1>4. \A j \in D : r.q[j] # NoEntry /\ r.q[j].tier = CANDIDATE /\ r.q[j].entry = s.q[j].entry
  <2>1. \A j \in D : r.q[j] \in Weighted
    <3>1. \A j \in D : Copy(s.q[j].entry, s.q[j].age, CANDIDATE) \in Weighted
      BY <1>0, <1>1 DEF Copy, Weighted
    <3>2. QED
      BY <1>1, <1>2, <3>1
  <2>2. ASSUME NEW j \in D
        PROVE  r.q[j] # NoEntry /\ r.q[j].tier = CANDIDATE /\ r.q[j].entry = s.q[j].entry
    <3>1. r.q[j] = Copy(s.q[j].entry, s.q[j].age, CANDIDATE)
      BY <1>1, <1>2
    <3>2. r.q[j] \in Weighted
      BY <2>1
    <3>3. QED
      BY <3>1, <3>2, NoCopyIsNoRecord DEF Copy
  <2>3. QED
    BY <2>2
<1>5. Held(r.q) = Held(s.q)
  BY <1>1, <1>2, <1>4, NoCopyIsNoRecord DEF Held
<1>6. \A j \in Held(s.q) : r.q[j].entry = s.q[j].entry
  BY <1>2, <1>4 DEF Held
<1>7. /\ In(r.q, UNUSED) = In(s.q, UNUSED)
      /\ In(r.q, CANDIDATE) = In(s.q, CANDIDATE) \cup D
      /\ In(r.q, HOT) = In(s.q, HOT) \ D
      /\ In(s.q, CANDIDATE) \cap D = {}
  <2>1. D \subseteq Held(s.q)
    BY DEF In
  <2>2. \A j \in Held(s.q) \ D : r.q[j] = s.q[j]
    BY <1>2 DEF Held
  <2>3. \A j \in D : s.q[j].tier = HOT /\ r.q[j].tier = CANDIDATE
    BY <1>1, <1>4
  <2>4. QED
    BY <1>0, <1>5, <2>1, <2>2, <2>3 DEF In
<1>8. ASSUME NEW T \in SUBSET Held(s.q)
      PROVE  Load(r.q, T) = Load(s.q, T) /\ Weighed(s.q, T) /\ Load(s.q, T) \in Nat
  <2>1. Weighed(s.q, T) /\ Load(s.q, T) \in Nat
    BY QueuesWeighed DEF Accounted
  <2>2. QED
    BY <1>6, <2>1, LoadOfEntries
<1>9. \A t : In(s.q, t) \in SUBSET Held(s.q)
  BY DEF In
<1>10. D \in SUBSET Held(s.q)
  BY <1>9
<1>11. \A t \in Tiers : s.b[t] = Load(s.q, In(s.q, t))
  BY DEF Accounted
<1>12. /\ r.b[UNUSED] = s.b[UNUSED]
       /\ r.b[CANDIDATE] = s.b[CANDIDATE] + Load(s.q, D)
       /\ r.b[HOT] = s.b[HOT] - Load(s.q, D)
  BY <1>0, <1>3
<1>13. r.b[UNUSED] = Load(r.q, In(r.q, UNUSED))
  BY <1>0, <1>7, <1>8, <1>9, <1>11, <1>12
<1>14. r.b[CANDIDATE] = Load(r.q, In(r.q, CANDIDATE))
  <2>1. Load(s.q, In(s.q, CANDIDATE) \cup D) = Load(s.q, In(s.q, CANDIDATE)) + Load(s.q, D)
    BY <1>7, <1>8, <1>9, <1>10, LoadOfUnion
  <2>2. In(s.q, CANDIDATE) \cup D \in SUBSET Held(s.q)
    BY <1>9, <1>10
  <2>3. QED
    BY <1>0, <1>7, <1>8, <1>11, <1>12, <2>1, <2>2
<1>15. r.b[HOT] = Load(r.q, In(r.q, HOT))
  <2>0. Weighed(s.q, In(s.q, HOT))
    BY <1>8, <1>9
  <2>1. Load(s.q, In(s.q, HOT)) = Load(s.q, D) + Load(s.q, In(s.q, HOT) \ D)
    BY <2>0, LoadOfRest
  <2>2. In(s.q, HOT) \ D \in SUBSET Held(s.q)
    BY <1>9
  <2>3. QED
    BY <1>0, <1>7, <1>8, <1>10, <1>11, <1>12, <2>1, <2>2
<1>16. Accounted(r)
  <2>1. \A t \in Tiers : r.b[t] = Load(r.q, In(r.q, t))
    BY <1>13, <1>14, <1>15 DEF Tiers
  <2>2. r.b = [t \in Tiers |-> r.b[t]]
    BY <1>3
  <2>3. QED
    BY <1>2, <1>5, <2>1, <2>2 DEF Accounted
<1>17. Total(r.b) = Total(s.b)
  BY <1>5, <1>8, <1>16, AccountedTotal
<1>18. QED
  BY <1>5, <1>12, <1>16, <1>17 DEF r

\* The hot tier may hold four fifths of the limit.
HotLimit == Limit - Limit \div 5

LEMMA LimitsAreNaturals ==
  /\ Limit \in Nat /\ HotLimit \in Nat
  /\ Limit \div 2 \in Nat /\ Limit \div 2 <= Limit
BY WeightsAssumption DEF HotLimit

\* balance() brings the hot tier within its limit.
LEMMA BalanceAccounted ==
  ASSUME NEW s, Accounted(s), NEW r \in Balance(s)
  PROVE  /\ Accounted(r)
         /\ Held(r.q) = Held(s.q) /\ Total(r.b) = Total(s.b)
         /\ r.b[HOT] <= HotLimit
<1> DEFINE hot == In(s.q, HOT)
<1>1. PICK D \in SUBSET hot :
        /\ r = Demote(s, D)
        /\ s.b[HOT] - Load(s.q, D) <= HotLimit \/ D = hot
  BY DEF Balance, Victims, HotLimit
<1>2. s.b[HOT] = Load(s.q, hot)
  BY DEF Accounted, Tiers
<1>3. s.b[HOT] \in Nat
  BY AccountedTotal
<1>4. QED
  BY <1>1, <1>2, <1>3, DemoteAccounted, LimitsAreNaturals

\* The eviction brings the whole within the limit.
LEMMA EvictAccounted ==
  ASSUME NEW s, Accounted(s), NEW r \in Evict(s)
  PROVE  /\ Accounted(r)
         /\ Total(r.b) <= Limit
         /\ r.b[HOT] <= s.b[HOT]
<1> DEFINE held == Held(s.q)
<1>1. PICK D \in SUBSET held :
        /\ r = Take(s, D)
        /\ Total(s.b) - Load(s.q, D) <= Limit \/ D = held
  BY DEF Evict, Victims, Within
<1>2. D \cap held = D
  OBVIOUS
<1>3. /\ Accounted(r) /\ \A t \in Tiers : r.b[t] <= s.b[t]
      /\ Total(r.b) = Total(s.b) - Load(s.q, D)
  BY <1>1, <1>2, TakeAccounted
<1>4. Total(s.b) = Load(s.q, held) /\ Total(r.b) \in Int
  <2>1. Total(s.b) = Load(s.q, held)
    BY AccountedTotal
  <2>2. r.b[UNUSED] \in Nat /\ r.b[CANDIDATE] \in Nat /\ r.b[HOT] \in Nat
    BY <1>3, AccountedTotal
  <2>3. QED
    BY <2>1, <2>2 DEF Total
<1>5. Load(s.q, held) \in Nat /\ Load(s.q, D) \in Nat
  BY QueuesWeighed DEF Accounted
<1>6. HOT \in Tiers
  BY DEF Tiers
<1>7. QED
  BY <1>1, <1>3, <1>4, <1>5, <1>6, LimitsAreNaturals

-----------------------------------------------------------------------------
(* What is taken, and in which order.                                      *)

\* balance() leaves the ages, takes from the hot tier alone, the oldest first, and
\* nothing when the tier is within its limit.
LEMMA BalanceHeat ==
  ASSUME NEW s, Accounted(s), NEW r \in Balance(s), NEW i \in Held(s.q)
  PROVE  /\ r.q[i] \in Weighted
         /\ r.q[i].entry = s.q[i].entry /\ r.q[i].age = s.q[i].age
         /\ \/ r.q[i] = s.q[i]
            \/ /\ s.q[i].tier = HOT /\ r.q[i].tier = CANDIDATE
               /\ s.b[HOT] > HotLimit
               /\ \A j \in Held(s.q) : r.q[j].tier = HOT => Older(s.q, i, j)
<1> DEFINE hot == In(s.q, HOT)
           before == {p \in hot \X hot : Older(s.q, p[1], p[2])}
           enough == {D \in SUBSET hot : s.b[HOT] - Load(s.q, D) <= Limit - Limit \div 5}
<1>1. PICK D \in Victims(hot, before, enough) : r = Demote(s, D)
  BY DEF Balance
<1>2. D \in SUBSET hot
  BY DEF Victims
<1>3. \A j \in Held(s.q) : s.q[j] \in Weighted /\ j \in Keys
  BY DEF Held, Accounted, Queues
<1>4. \A j \in Keys : r.q[j] = IF j \in D THEN Copy(s.q[j].entry, s.q[j].age, CANDIDATE) ELSE s.q[j]
  BY <1>1 DEF Demote
<1>5. CASE i \notin D
  BY <1>3, <1>4, <1>5
<1>6. CASE i \in D
  <2>1. r.q[i] = Copy(s.q[i].entry, s.q[i].age, CANDIDATE)
    BY <1>3, <1>4, <1>6
  <2>2. r.q[i] \in Weighted
    BY <1>3, <2>1 DEF Copy, Weighted, Tiers
  <2>3. s.q[i].tier = HOT
    BY <1>2, <1>6 DEF In
  <2>4. ASSUME NEW j \in Held(s.q), r.q[j].tier = HOT
        PROVE  Older(s.q, i, j)
    <3>1. j \notin D
      <4>1. Copy(s.q[j].entry, s.q[j].age, CANDIDATE).tier # HOT
        BY DEF Copy, HOT, CANDIDATE
      <4>2. QED
        BY <1>3, <1>4, <2>4, <4>1
    <3>2. j \in hot \ D
      BY <1>3, <1>4, <2>4, <3>1 DEF In
    <3>3. <<i, j>> \in before
      BY <1>6, <3>2 DEF Victims
    <3>4. QED
      BY <3>3
  <2>5. s.b[HOT] > HotLimit
    <3>1. IsFiniteSet(hot) /\ Weighed(s.q, hot)
      BY QueuesWeighed DEF Accounted, In, Weighed
    <3>2. PICK last \in D : D \ {last} \notin enough
      <4> HIDE DEF hot, before, enough
      <4>1. QED
        BY <1>1, <1>6 DEF Victims
    <3>3. D \ {last} \in SUBSET hot
      BY <1>2
    <3>4. ~(s.b[HOT] - Load(s.q, D \ {last}) <= Limit - Limit \div 5)
      BY <3>2, <3>3
    <3>5. Load(s.q, D \ {last}) \in Nat
      BY <3>1, <3>3, LoadOfRest
    <3>6. s.b[HOT] \in Nat
      BY AccountedTotal
    <3>7. QED
      BY <3>4, <3>5, <3>6, LimitsAreNaturals DEF HotLimit
  <2>6. QED
    BY <2>1, <2>2, <2>3, <2>4, <2>5 DEF Copy
<1>7. QED
  BY <1>5, <1>6

\* The eviction takes the colder before the warmer.
LEMMA EvictOrder ==
  ASSUME NEW s, Accounted(s), NEW r \in Evict(s), NEW i \in Held(s.q), NEW j \in Held(s.q)
  PROVE  /\ r.q[j] \in {s.q[j], NoEntry}
         /\ r.q[i] = NoEntry /\ r.q[j] # NoEntry => ColderFirst(s.q, i, j)
<1> DEFINE held == Held(s.q)
           before == {p \in held \X held : ColderFirst(s.q, p[1], p[2])}
           enough == {D \in SUBSET held : Within(Total(s.b) - Load(s.q, D))}
<1>1. PICK D \in Victims(held, before, enough) : r = Take(s, D)
  BY DEF Evict
<1>2. \A k \in held : k \in Keys /\ s.q[k] # NoEntry
                      /\ r.q[k] = IF k \in D THEN NoEntry ELSE s.q[k]
  BY <1>1 DEF Take, Held
<1>3. ASSUME r.q[i] = NoEntry, r.q[j] # NoEntry
      PROVE  ColderFirst(s.q, i, j)
  <2>1. <<i, j>> \in D \X (held \ D)
    BY <1>2, <1>3
  <2>2. <<i, j>> \in before
    BY <2>1 DEF Victims
  <2>3. QED
    BY <2>2
<1>4. QED
  BY <1>2, <1>3

\* And with the last victim back there was too much.
LEMMA EvictNeeds ==
  ASSUME NEW s, Accounted(s), NEW r \in Evict(s), NEW i \in Held(s.q), r.q[i] = NoEntry
  PROVE  /\ Total(s.b) > Limit
         /\ \E last \in Held(s.q) :
              r.q[last] = NoEntry /\ Total(r.b) + Weight[s.q[last].entry] > Limit
<1> DEFINE held == Held(s.q)
           before == {p \in held \X held : ColderFirst(s.q, p[1], p[2])}
           enough == {D \in SUBSET held : Within(Total(s.b) - Load(s.q, D))}
<1>1. PICK D \in Victims(held, before, enough) : r = Take(s, D)
  BY DEF Evict
<1>2. D \in SUBSET held
  BY DEF Victims
<1>3. \A k \in held : k \in Keys /\ s.q[k] # NoEntry /\ s.q[k] \in Weighted
                      /\ r.q[k] = IF k \in D THEN NoEntry ELSE s.q[k]
  BY <1>1 DEF Take, Held, Accounted, Queues
<1>4. i \in D
  BY <1>3
<1>5. IsFiniteSet(held) /\ Weighed(s.q, held)
  BY QueuesWeighed DEF Accounted
<1>6. PICK last \in D : D \ {last} \notin enough
  <2> HIDE DEF held, before, enough
  <2>1. QED
    BY <1>1, <1>4 DEF Victims
<1>7. ~(Total(s.b) - Load(s.q, D \ {last}) <= Limit)
  BY <1>2, <1>6 DEF Within
<1>8. /\ Load(s.q, D) = Weight[s.q[last].entry] + Load(s.q, D \ {last})
      /\ Load(s.q, D \ {last}) \in Nat
  <2>1. Weighed(s.q, D) /\ Weighed(s.q, D \ {last})
    BY <1>2, QueuesWeighed DEF Accounted
  <2>2. QED
    BY <2>1, LoadSplits, LoadIsNatural
<1>9. Weight[s.q[last].entry] \in Nat
  BY <1>2, <1>3, WeightsAssumption DEF Weighted
<1>10. Total(s.b) \in Nat
  BY AccountedTotal DEF Total
<1>11. Total(r.b) = Total(s.b) - Load(s.q, D)
  <2>1. D \cap held = D
    BY <1>2
  <2>2. QED
    BY <1>1, <2>1, TakeAccounted
<1>12. Total(s.b) > Limit /\ Total(r.b) + Weight[s.q[last].entry] > Limit
  BY <1>7, <1>8, <1>9, <1>10, <1>11, LimitsAreNaturals
<1>13. last \in held /\ r.q[last] = NoEntry
  BY <1>2, <1>3
<1>14. QED
  BY <1>12, <1>13

-----------------------------------------------------------------------------
(* put(), step by step.                                                    *)

\* The stages of put_at(): the live copy of the key, what is left without it, what
\* is left when idle copies had to go, and the copy that is put in.
Previous(k) == IF Live(queues, k) THEN queues[k] ELSE NoEntry
Taken(k) == Take(Now, {k})
Room(k, e) == IF Fits(Taken(k), e) THEN Taken(k) ELSE Expire(Taken(k))
NewCopy(k, e, a) == Copy(e, Heat(Previous(k), a).age, Heat(Previous(k), a).tier)

LEMMA TakenKeeps ==
  ASSUME Accounted(Now), NEW k \in Keys
  PROVE  /\ Accounted(Taken(k)) /\ Taken(k).q[k] = NoEntry
         /\ \A j \in Keys \ {k} : Taken(k).q[j] = queues[j]
         /\ Total(Taken(k).b) <= Total(bytes)
<1>1. Accounted(Taken(k)) /\ Total(Taken(k).b) <= Total(Now.b)
  BY TakeAccounted DEF Taken
<1>2. \A j \in Keys : Taken(k).q[j] = IF j = k THEN NoEntry ELSE queues[j]
  BY DEF Taken, Take, Now
<1>3. QED
  BY <1>1, <1>2 DEF Now

\* Making room takes idle copies only, and only if there was no room.
LEMMA RoomKeeps ==
  ASSUME Accounted(Now), NEW k \in Keys, NEW e \in Entries
  PROVE  /\ Accounted(Room(k, e)) /\ Room(k, e).q[k] = NoEntry
         /\ \A j \in Keys \ {k} :
              \/ Room(k, e).q[j] = queues[j]
              \/ Room(k, e).q[j] = NoEntry /\ ~Live(queues, j)
         /\ \/ Fits(Room(k, e), e)
            \/ \A j \in Held(Room(k, e).q) : Live(queues, j)
<1>1. CASE Fits(Taken(k), e)
  BY <1>1, TakenKeeps DEF Room
<1>2. CASE ~Fits(Taken(k), e)
  <2> DEFINE idle == {j \in Held(Taken(k).q) : ~Live(Taken(k).q, j)}
  <2>1. Room(k, e) = Take(Taken(k), idle)
    BY <1>2 DEF Room, Expire
  <2>2. Accounted(Room(k, e)) /\ Held(Room(k, e).q) = Held(Taken(k).q) \ idle
    <3> HIDE DEF idle
    <3>1. Accounted(Taken(k))
      BY TakenKeeps
    <3>2. /\ Accounted(Take(Taken(k), idle))
          /\ Held(Take(Taken(k), idle).q) = Held(Taken(k).q) \ idle
      BY <3>1, TakeAccounted
    <3>3. QED
      BY <2>1, <3>2
  <2>3. \A j \in Keys : Room(k, e).q[j] = IF j \in idle THEN NoEntry ELSE Taken(k).q[j]
    BY <2>1 DEF Take
  <2>4. \A j \in Keys \ {k} : Live(Taken(k).q, j) <=> Live(queues, j)
    BY TakenKeeps DEF Live
  <2>5. \A j \in Keys : j \in idle => j # k /\ ~Live(queues, j)
    BY <2>4, TakenKeeps DEF Held
  <2>6. \A j \in Held(Taken(k).q) \ idle : Live(queues, j)
    BY <2>4, TakenKeeps DEF Held
  <2> HIDE DEF idle
  <2>7. QED
    BY <2>2, <2>3, <2>5, <2>6, TakenKeeps
<1>3. QED
  BY <1>1, <1>2

LEMMA PreviousType ==
  ASSUME Accounted(Now), NEW k \in Keys
  PROVE  Previous(k) \in Weighted \cup {NoEntry}
BY DEF Previous, Accounted, Queues, Now

LEMMA NewCopyType ==
  ASSUME Accounted(Now), NEW k \in Keys, NEW e \in Entries, NEW a
  PROVE  /\ NewCopy(k, e, a) \in Weighted /\ NewCopy(k, e, a).entry = e
         /\ NewCopy(k, e, a).age = Heat(Previous(k), a).age
         /\ NewCopy(k, e, a).tier = Heat(Previous(k), a).tier
BY PreviousType, HeatType DEF NewCopy, Copy, Weighted

\* put() is refused, or goes without for want of room, or inserts, balances and evicts.
LEMMA PutShape ==
  ASSUME NEW k, NEW e, NEW a, NEW r \in PutResults(Now, k, e, a)
  PROVE  \/ Refused(Previous(k), e, a) /\ r = Taken(k)
         \/ a # "Demand" /\ ~Fits(Room(k, e), e) /\ r = Room(k, e)
         \/ /\ a = "Demand" \/ Fits(Room(k, e), e)
            /\ \E b \in Balance(Insert(Room(k, e), k, NewCopy(k, e, a))) : r \in Evict(b)
BY DEF PutResults, Previous, Taken, Room, NewCopy, Now

\* What is in memory when put() has inserted and balanced, and before it evicts.
LEMMA Inserted ==
  ASSUME Accounted(Now), NEW k \in Keys, NEW e \in Entries, NEW a,
         NEW b \in Balance(Insert(Room(k, e), k, NewCopy(k, e, a)))
  PROVE  LET insert == Insert(Room(k, e), k, NewCopy(k, e, a)) IN
         /\ Accounted(insert) /\ Accounted(b)
         /\ Held(b.q) = Held(insert.q)
         /\ Held(insert.q) = Held(Room(k, e).q) \cup {k}
         /\ insert.q[k] = NewCopy(k, e, a)
         /\ \A j \in Held(Room(k, e).q) : j # k /\ insert.q[j] = queues[j]
         /\ Total(b.b) = Total(Room(k, e).b) + Weight[e]
<1> DEFINE insert == Insert(Room(k, e), k, NewCopy(k, e, a))
<1>1. Accounted(Room(k, e)) /\ Room(k, e).q[k] = NoEntry
  BY RoomKeeps
<1>2. /\ Accounted(insert) /\ Held(insert.q) = Held(Room(k, e).q) \cup {k}
      /\ Total(insert.b) = Total(Room(k, e).b) + Weight[e]
  BY <1>1, NewCopyType, InsertAccounted
<1>3. \A j \in Keys : insert.q[j] = IF j = k THEN NewCopy(k, e, a) ELSE Room(k, e).q[j]
  BY <1>1 DEF Insert, Accounted, Queues
<1>4. \A j \in Held(Room(k, e).q) : j # k /\ Room(k, e).q[j] = queues[j]
  BY RoomKeeps DEF Held
<1> HIDE DEF insert
<1>5. Accounted(b) /\ Held(b.q) = Held(insert.q) /\ Total(b.b) = Total(insert.b)
  BY <1>2, BalanceAccounted DEF insert
<1>6. QED
  BY <1>2, <1>3, <1>4, <1>5 DEF insert, Held

-----------------------------------------------------------------------------
(* The limits.                                                             *)

\* The limits, of what an operation starts from and of what it leaves.
Limited(s) == Accounted(s) /\ Total(s.b) <= Limit /\ s.b[HOT] <= HotLimit

LEMMA TakeLimited ==
  ASSUME NEW s, Limited(s), NEW S
  PROVE  Limited(Take(s, S))
<1>1. /\ Accounted(Take(s, S)) /\ Take(s, S).b[HOT] <= s.b[HOT]
      /\ Total(Take(s, S).b) <= Total(s.b)
  BY TakeAccounted DEF Limited, Tiers
<1>2. s.b[HOT] \in Nat /\ Take(s, S).b[HOT] \in Nat
  BY <1>1, AccountedTotal DEF Limited
<1>3. Total(s.b) \in Nat /\ Total(Take(s, S).b) \in Nat
  BY <1>1, AccountedTotal DEF Limited, Total
<1>4. QED
  BY <1>1, <1>2, <1>3, LimitsAreNaturals DEF Limited

LEMMA PutLimited ==
  ASSUME Limited(Now), NEW k \in Keys, NEW e \in Entries, NEW a,
         NEW r \in PutResults(Now, k, e, a)
  PROVE  Limited(r)
<1> DEFINE insert == Insert(Room(k, e), k, NewCopy(k, e, a))
<1>1. Limited(Taken(k))
  BY TakeLimited DEF Taken
<1>2. Limited(Room(k, e))
  BY <1>1, TakeLimited DEF Room, Expire
<1>3. CASE \E b \in Balance(insert) : r \in Evict(b)
  <2>1. PICK b \in Balance(insert) : r \in Evict(b)
    BY <1>3
  <2>2. Accounted(insert)
    BY <2>1, Inserted DEF Limited
  <2> HIDE DEF insert
  <2>3. Accounted(b) /\ b.b[HOT] <= HotLimit
    BY <2>1, <2>2, BalanceAccounted
  <2>4. Accounted(r) /\ Total(r.b) <= Limit /\ r.b[HOT] <= b.b[HOT]
    BY <2>1, <2>3, EvictAccounted
  <2>5. r.b[HOT] \in Nat /\ b.b[HOT] \in Nat
    BY <2>3, <2>4, AccountedTotal
  <2>6. QED
    BY <2>3, <2>4, <2>5, LimitsAreNaturals DEF Limited
<1>4. QED
  BY <1>1, <1>2, <1>3, PutShape

\* A look-up that promotes takes the copy out and puts the same weight back.
LEMMA GetLimited ==
  ASSUME Limited(Now), NEW k \in Keys, NEW d \in BOOLEAN, Get(k, d)
  PROVE  Limited(Now')
<1>1. CASE Becomes(Take(Now, {k}))
  <2>1. Limited(Take(Now, {k}))
    BY TakeLimited
  <2>2. Now' = Take(Now, {k})
    BY <1>1 DEF Becomes, Now, Take
  <2>3. QED
    BY <2>1, <2>2
<1>2. CASE Becomes(Now)
  BY <1>2 DEF Becomes, Now
<1>3. CASE Live(queues, k) /\ \E s \in Balance(Insert(Take(Now, {k}), k,
             Copy(queues[k].entry, 0, MinTier(queues[k].tier + 1, HOT)))) : Becomes(s)
  <2> DEFINE hotter == Copy(queues[k].entry, 0, MinTier(queues[k].tier + 1, HOT))
             taken == Take(Now, {k})
             insert == Insert(taken, k, hotter)
  <2>1. hotter \in Weighted /\ hotter.entry = queues[k].entry
    BY <1>3, WeightsAssumption
       DEF Live, Copy, Weighted, MinTier, Tiers, UNUSED, CANDIDATE, HOT,
           Limited, Accounted, Queues, Now
  <2>2. Weight[queues[k].entry] \in Nat /\ k \in Held(queues)
    BY <1>3, WeightsAssumption DEF Live, Held, Limited, Accounted, Queues, Weighted, Now
  <2>3. /\ Accounted(taken) /\ taken.q[k] = NoEntry
        /\ Total(taken.b) = Total(bytes) - Weight[queues[k].entry]
    <3>1. /\ Accounted(taken) /\ Held(taken.q) = Held(queues) \ {k}
          /\ Total(taken.b) = Total(bytes) - Load(queues, {k} \cap Held(queues))
      <4>1. Now.q = queues /\ Now.b = bytes /\ Accounted(Now)
        BY DEF Limited, Now
      <4> HIDE DEF taken
      <4>2. /\ Accounted(taken) /\ Held(taken.q) = Held(Now.q) \ {k}
            /\ Total(taken.b) = Total(Now.b) - Load(Now.q, {k} \cap Held(Now.q))
        BY <4>1, TakeAccounted DEF taken
      <4>3. QED
        BY <4>1, <4>2
    <3>2. {k} \cap Held(queues) = {k}
      BY <2>2
    <3>3. Weighed(queues, {k})
      BY <2>2, QueuesWeighed DEF Limited, Accounted, Now
    <3>4. Load(queues, {k}) = Weight[queues[k].entry] + Load(queues, {k} \ {k})
      BY <3>3, LoadSplits
    <3>5. {k} \ {k} = {}
      OBVIOUS
    <3>6. Load(queues, {k} \cap Held(queues)) = Weight[queues[k].entry]
      BY <2>2, <3>2, <3>4, <3>5, LoadEmpty
    <3>7. QED
      BY <3>1, <3>6 DEF Held
  <2>4. PICK s \in Balance(insert) : Becomes(s)
    BY <1>3
  <2> HIDE DEF hotter, taken
  <2>5. Accounted(insert) /\ Total(insert.b) = Total(bytes)
    <3>1. Accounted(insert) /\ Total(insert.b) = Total(taken.b) + Weight[queues[k].entry]
      BY <2>1, <2>3, InsertAccounted
    <3>2. Total(bytes) \in Nat
      BY AccountedTotal DEF Limited, Now, Total
    <3>3. QED
      BY <2>2, <2>3, <3>1, <3>2
  <2> HIDE DEF insert
  <2>6. Limited(s)
    BY <2>4, <2>5, BalanceAccounted DEF Limited, Now
  <2>7. Now'.q = s.q /\ Now'.b = s.b
    BY <2>4 DEF Becomes, Now
  <2>8. QED
    BY <2>6, <2>7 DEF Limited, Accounted
<1>4. QED
  BY <1>1, <1>2, <1>3 DEF Get

LEMMA TickLimited ==
  ASSUME Limited(Now), Tick
  PROVE  Limited(Now')
<1>1. \A k \in Keys : queues[k] # NoEntry => queues[k] \in Weighted
  BY DEF Limited, Accounted, Queues, Now
<1>2. ASSUME NEW k \in Keys
      PROVE  /\ queues'[k] \in Weighted \cup {NoEntry}
             /\ queues'[k] = NoEntry <=> queues[k] = NoEntry
             /\ queues[k] # NoEntry => /\ queues'[k].entry = queues[k].entry
                                       /\ queues'[k].tier = queues[k].tier
  <2>1. CASE Live(queues, k)
    <3>1. queues'[k] = Copy(queues[k].entry, queues[k].age + 1, queues[k].tier)
      BY <2>1 DEF Tick
    <3>2. queues'[k] \in Weighted
      BY <1>1, <2>1, <3>1, WeightsAssumption DEF Live, Copy, Weighted
    <3>3. QED
      BY <2>1, <3>1, <3>2, NoCopyIsNoRecord DEF Copy, Live
  <2>2. CASE ~Live(queues, k)
    BY <1>1, <2>2 DEF Tick
  <2>3. QED
    BY <2>1, <2>2
<1>3. queues' \in Queues
  BY <1>2 DEF Tick, Queues
<1>4. Held(queues') = Held(queues)
  BY <1>2 DEF Held
<1>5. ASSUME NEW t \in Tiers
      PROVE  /\ In(queues', t) = In(queues, t)
             /\ Load(queues', In(queues, t)) = Load(queues, In(queues, t))
  <2>1. \A k \in Held(queues) : /\ queues'[k].tier = queues[k].tier
                                /\ queues'[k].entry = queues[k].entry
    BY <1>2 DEF Held
  <2>2. In(queues', t) = In(queues, t)
    BY <1>4, <2>1 DEF In
  <2>3. Weighed(queues, In(queues, t))
    BY QueuesWeighed DEF Limited, Accounted, In, Now
  <2>4. Load(queues', In(queues, t)) = Load(queues, In(queues, t))
    BY <2>1, <2>3, LoadOfEntries DEF In
  <2>5. QED
    BY <2>2, <2>4
<1>6. bytes' = bytes
  BY DEF Tick
<1>7. bytes' = [t \in Tiers |-> Load(queues', In(queues', t))]
  BY <1>5, <1>6 DEF Limited, Accounted, Now
<1>8. QED
  BY <1>3, <1>4, <1>6, <1>7 DEF Limited, Accounted, Now

LEMMA CloseLimited ==
  ASSUME Close
  PROVE  Limited(Now')
<1>1. queues' \in Queues /\ Held(queues') = {}
  BY DEF Close, Queues, Held
<1>2. \A t \in Tiers : In(queues', t) = {}
  BY <1>1 DEF In
<1>3. bytes' = [t \in Tiers |-> Load(queues', In(queues', t))]
  BY <1>2, LoadEmpty DEF Close
<1>4. Total(bytes') = 0 /\ bytes'[HOT] = 0
  BY DEF Close, Total, Tiers
<1>5. QED
  BY <1>1, <1>3, <1>4, FS_EmptySet, LimitsAreNaturals DEF Limited, Accounted, Now

LEMMA InitLimited ==
  ASSUME Init
  PROVE  Limited(Now)
<1>1. queues \in Queues /\ Held(queues) = {}
  BY DEF Init, Queues, Held
<1>2. \A t \in Tiers : In(queues, t) = {}
  BY <1>1 DEF In
<1>3. bytes = [t \in Tiers |-> Load(queues, In(queues, t))]
  BY <1>2, LoadEmpty DEF Init
<1>4. Total(bytes) = 0 /\ bytes[HOT] = 0
  BY DEF Init, Total, Tiers
<1>5. QED
  BY <1>1, <1>3, <1>4, FS_EmptySet, LimitsAreNaturals DEF Limited, Accounted, Now

LEMMA BecomesLimited ==
  ASSUME NEW s, Limited(s), Becomes(s)
  PROVE  Limited(Now')
BY DEF Limited, Accounted, Now, Becomes

\* The inductive invariant: the books and both limits, and what restore() has used.
LimitsInv ==
  Limited(Now) /\ restored \in 0..(Limit \div 2) /\ closed \in BOOLEAN

\* What restore() puts in comes out of half of the limit.
LEMMA RestoreFits ==
  ASSUME LimitsInv, NEW k \in Keys, NEW e \in Entries, Restore(k, e)
  PROVE  /\ restored' \in 0..(Limit \div 2)
         /\ Weight[e] + Total(bytes) <= Limit \div 2
         /\ Weight[e] > 0
<1>1. Weight[e] \in Nat /\ Weight[e] > 0
  BY WeightsAssumption
<1>2. Total(bytes) \in Nat
  BY AccountedTotal DEF LimitsInv, Limited, Now, Total
<1>3. Weight[e] <= RestoreRemaining /\ restored' = restored + Weight[e]
  BY DEF Restore
<1>4. QED
  BY <1>1, <1>2, <1>3, LimitsAreNaturals DEF RestoreRemaining, MinTier, LimitsInv

LEMMA StepLimited ==
  ASSUME LimitsInv, [Next]_vars
  PROVE  LimitsInv'
<1>1. ASSUME NEW k \in Keys, NEW d \in BOOLEAN, Get(k, d)
      PROVE  LimitsInv'
  BY <1>1, GetLimited DEF LimitsInv, Get
<1>2. ASSUME NEW k \in Keys, NEW e \in Entries, NEW a \in Admission, Put(k, e, a)
      PROVE  LimitsInv'
  BY <1>2, PutLimited, BecomesLimited DEF LimitsInv, Put
<1>3. ASSUME NEW k \in Keys, NEW e \in Entries, Restore(k, e)
      PROVE  LimitsInv'
  <2>1. PICK s \in PutResults(Now, k, e, "Preload") : Becomes(s)
    BY <1>3 DEF Restore
  <2>2. Limited(Now')
    BY <2>1, PutLimited, BecomesLimited DEF LimitsInv
  <2>3. QED
    BY <1>3, <2>2, RestoreFits DEF LimitsInv, Restore
<1>4. ASSUME NEW k \in Keys, Remove(k)
      PROVE  LimitsInv'
  BY <1>4, TakeLimited, BecomesLimited DEF LimitsInv, Remove
<1>5. CASE ExpireIdle
  BY <1>5, TakeLimited, BecomesLimited DEF LimitsInv, ExpireIdle, Expire
<1>6. CASE Close
  BY <1>6, CloseLimited DEF LimitsInv, Close
<1>7. CASE Tick
  BY <1>7, TickLimited DEF LimitsInv, Tick
<1>8. CASE UNCHANGED vars
  BY <1>8 DEF LimitsInv, vars, Now
<1>9. QED
  BY <1>1, <1>2, <1>3, <1>4, <1>5, <1>6, <1>7, <1>8 DEF Next

LEMMA LimitsImplied ==
  ASSUME LimitsInv
  PROVE  WithinLimits
<1>1. /\ \A t \in Tiers : bytes[t] \in Nat
      /\ bytes[UNUSED] \in Nat /\ bytes[CANDIDATE] \in Nat /\ bytes[HOT] \in Nat
      /\ Total(bytes) = Load(queues, Held(queues))
  BY AccountedTotal DEF LimitsInv, Limited, Now
<1>2. Total(bytes) <= Limit /\ Limit \in Nat
  BY LimitsAreNaturals DEF LimitsInv, Limited, Now
<1>3. \A t \in Tiers : bytes[t] \in 0..Limit
  BY <1>1, <1>2 DEF Total, Tiers
<1>4. \A t \in Tiers : bytes[t] = Load(queues, In(queues, t))
  BY DEF LimitsInv, Limited, Accounted, Now
<1>5. TypeOK
  <2>1. bytes = [t \in Tiers |-> bytes[t]]
    BY DEF LimitsInv, Limited, Accounted, Now
  <2>2. bytes \in [Tiers -> 0..Limit]
    BY <1>3, <2>1
  <2>3. QED
    BY <2>2 DEF TypeOK, LimitsInv, Limited, Accounted, Queues, Now
<1>6. Load(queues, In(queues, HOT)) <= Limit - Limit \div 5
  BY <1>4 DEF LimitsInv, Limited, Now, HotLimit, Tiers
<1>7. QED
  BY <1>1, <1>2, <1>4, <1>5, <1>6 DEF WithinLimits

\* Every step keeps the books and the limits.
THEOREM LimitsInvariant == Spec => []LimitsInv
<1>1. Init => LimitsInv
  <2>1. Init => restored \in 0..(Limit \div 2) /\ closed \in BOOLEAN
    <3>1. 0 \in 0..(Limit \div 2)
      BY LimitsAreNaturals
    <3>2. QED
      BY <3>1 DEF Init
  <2>2. QED
    BY <2>1, InitLimited DEF LimitsInv
<1>2. LimitsInv /\ [Next]_vars => LimitsInv'
  BY StepLimited
<1>3. QED
  BY <1>1, <1>2, PTL DEF Spec

\* After any sequence of operations the counters are the weight of what is held, the
\* whole is within the limit and the hot tier within four fifths of it.
THEOREM LimitsKept == Spec => []WithinLimits
<1>1. LimitsInv => WithinLimits
  BY LimitsImplied
<1>2. QED
  BY <1>1, LimitsInvariant, PTL

-----------------------------------------------------------------------------
(* The background.                                                         *)

\* A write of the background takes no live copy but that of its own key, and
\* makes none younger or hotter.
LEMMA BackgroundPut ==
  ASSUME LimitsInv, NEW k \in Keys, NEW e \in Entries, NEW a, a # "Demand",
         NEW r \in PutResults(Now, k, e, a), NEW j \in Keys, Live(queues, j)
  PROVE  /\ j # k => r.q[j] # NoEntry
         /\ r.q[j] # NoEntry => r.q[j].age >= queues[j].age /\ r.q[j].tier <= queues[j].tier
<1> DEFINE insert == Insert(Room(k, e), k, NewCopy(k, e, a))
<1>1. Accounted(Now)
  BY DEF LimitsInv, Limited
<1>2. /\ queues[j] \in Weighted /\ queues[j] # NoEntry
      /\ queues[j].age \in Nat /\ queues[j].tier \in {0, 1, 2}
  BY <1>1, WeightsAssumption
     DEF Accounted, Queues, Live, Now, Weighted, Tiers, UNUSED, CANDIDATE, HOT
<1>3. CASE r = Taken(k)
  BY <1>1, <1>2, <1>3, TakenKeeps
<1>4. CASE r = Room(k, e)
  <2>1. j # k => r.q[j] = queues[j]
    BY <1>1, <1>4, RoomKeeps
  <2>2. r.q[k] = NoEntry
    BY <1>1, <1>4, RoomKeeps
  <2>3. QED
    BY <1>2, <2>1, <2>2
<1>5. CASE Fits(Room(k, e), e) /\ \E b \in Balance(insert) : r \in Evict(b)
  <2>1. PICK b \in Balance(insert) : r \in Evict(b)
    BY <1>5
  <2>2. /\ Accounted(insert) /\ Accounted(b)
        /\ Held(b.q) = Held(insert.q)
        /\ Held(insert.q) = Held(Room(k, e).q) \cup {k}
        /\ insert.q[k] = NewCopy(k, e, a)
        /\ \A i \in Held(Room(k, e).q) : i # k /\ insert.q[i] = queues[i]
        /\ Total(b.b) = Total(Room(k, e).b) + Weight[e]
    BY <1>1, <2>1, Inserted
  <2> HIDE DEF insert
  <2>3. j \in Held(b.q)
    BY <1>1, <1>2, <2>2, RoomKeeps DEF Held
  <2>4. Total(b.b) <= Limit
    <3>1. Weight[e] \in Nat /\ Total(Room(k, e).b) \in Nat
      BY <1>1, RoomKeeps, AccountedTotal, WeightsAssumption DEF Total
    <3>2. QED
      BY <1>5, <2>2, <3>1 DEF Fits
  <2>5. r.q[j] = b.q[j] /\ b.q[j] # NoEntry
    <3>1. r.q[j] # NoEntry
      <4>1. Total(b.b) \in Nat
        BY <2>2, AccountedTotal DEF Total
      <4>2. QED
        BY <2>1, <2>2, <2>3, <2>4, <4>1, EvictNeeds, LimitsAreNaturals
    <3>2. QED
      BY <2>1, <2>2, <2>3, <3>1, EvictOrder
  <2>6. insert.q[j].age = queues[j].age /\ insert.q[j].tier = queues[j].tier
    <3>1. CASE j = k
      <4>1. Previous(k) = queues[k]
        BY <3>1 DEF Previous
      <4>2. Heat(Previous(k), a) = [age |-> queues[k].age, tier |-> queues[k].tier]
        BY <1>2, <3>1, <4>1 DEF Heat
      <4>3. QED
        BY <1>1, <2>2, <3>1, <4>2, NewCopyType
    <3>2. CASE j # k
      BY <2>2, <2>3, <3>2
    <3>3. QED
      BY <3>1, <3>2
  <2>7. /\ b.q[j].age = insert.q[j].age
        /\ b.q[j] = insert.q[j] \/ (insert.q[j].tier = HOT /\ b.q[j].tier = CANDIDATE)
    BY <2>1, <2>2, <2>3, BalanceHeat
  <2>8. b.q[j].tier <= queues[j].tier
    BY <1>2, <2>6, <2>7 DEF HOT, CANDIDATE
  <2>9. QED
    BY <1>2, <2>5, <2>6, <2>7, <2>8
<1>6. QED
  BY <1>3, <1>4, <1>5, PutShape


\* A step that is no demand makes no live copy younger or hotter.
LEMMA DemandAloneStep ==
  ASSUME LimitsInv, [Next]_vars, ~Demanded, NEW j \in Keys,
         Live(queues, j), queues'[j] # NoEntry
  PROVE  queues'[j].age >= queues[j].age /\ queues'[j].tier <= queues[j].tier
<1>1. /\ queues[j] \in Weighted /\ queues[j] # NoEntry
      /\ queues[j].age \in Nat /\ queues[j].tier \in Nat
  BY WeightsAssumption
     DEF LimitsInv, Limited, Accounted, Queues, Live, Now, Weighted, Tiers, UNUSED, CANDIDATE, HOT
<1>2. ASSUME NEW S, Becomes(Take(Now, S))
      PROVE  queues'[j] = queues[j]
  BY <1>2 DEF Becomes, Take, Now
<1>3. ASSUME NEW k \in Keys, NEW d \in BOOLEAN, Get(k, d)
      PROVE  queues'[j] = queues[j]
  <2>1. Becomes(Take(Now, {k})) \/ Becomes(Now)
    BY <1>3 DEF Get, Demanded
  <2>2. QED
    BY <1>2, <2>1 DEF Becomes, Now
<1>4. ASSUME NEW k \in Keys, NEW e \in Entries, NEW a \in Admission, Put(k, e, a)
      PROVE  queues'[j].age >= queues[j].age /\ queues'[j].tier <= queues[j].tier
  <2>1. a # "Demand"
    BY <1>4 DEF Demanded
  <2>2. PICK r \in PutResults(Now, k, e, a) : queues' = r.q
    BY <1>4 DEF Put, Becomes
  <2>3. QED
    BY <2>1, <2>2, BackgroundPut
<1>5. ASSUME NEW k \in Keys, NEW e \in Entries, Restore(k, e)
      PROVE  queues'[j].age >= queues[j].age /\ queues'[j].tier <= queues[j].tier
  <2>1. PICK r \in PutResults(Now, k, e, "Preload") : queues' = r.q
    BY <1>5 DEF Restore, Becomes
  <2>2. QED
    BY <2>1, BackgroundPut
<1>6. ASSUME NEW k \in Keys, Remove(k)
      PROVE  queues'[j] = queues[j]
  BY <1>2, <1>6 DEF Remove
<1>7. CASE ExpireIdle
  BY <1>1, <1>2, <1>7 DEF ExpireIdle, Expire
<1>8. CASE Close
  BY <1>8 DEF Close
<1>9. CASE Tick
  <2>1. queues'[j] = Copy(queues[j].entry, queues[j].age + 1, queues[j].tier)
    BY <1>9 DEF Tick
  <2>2. QED
    BY <1>1, <2>1 DEF Copy
<1>10. CASE UNCHANGED vars
  BY <1>1, <1>10 DEF vars
<1>11. QED
  BY <1>1, <1>3, <1>4, <1>5, <1>6, <1>7, <1>8, <1>9, <1>10 DEF Next

\* restore() adds one unused copy to what is there, within half of the limit.
LEMMA RestoreStep ==
  ASSUME LimitsInv, NEW k \in Keys, NEW e \in Entries, Restore(k, e)
  PROVE  /\ Total(bytes') <= Limit \div 2
         /\ queues[k] = NoEntry /\ queues'[k] # NoEntry /\ queues'[k].tier = UNUSED
         /\ \A j \in Keys \ {k} : queues'[j] = queues[j]
<1> DEFINE a == "Preload"
           insert == Insert(Room(k, e), k, NewCopy(k, e, a))
<1>1. PICK r \in PutResults(Now, k, e, a) : Becomes(r)
  BY DEF Restore
<1>2. queues[k] = NoEntry /\ ~closed
  BY DEF Restore
<1>3. Accounted(Now) /\ Total(bytes) \in Nat
  BY AccountedTotal DEF LimitsInv, Limited, Total, Now
<1>4. Weight[e] \in Nat /\ Weight[e] + Total(bytes) <= Limit \div 2
  BY RestoreFits, WeightsAssumption
<1>5. Fits(Taken(k), e) /\ Room(k, e) = Taken(k)
  <2>1. Total(Taken(k).b) \in Nat /\ Total(Taken(k).b) <= Total(bytes)
    BY <1>3, TakenKeeps, AccountedTotal DEF Total
  <2>2. Fits(Taken(k), e)
    BY <1>3, <1>4, <2>1, LimitsAreNaturals DEF Fits
  <2>3. QED
    BY <2>2 DEF Room
<1>6. ~Refused(Previous(k), e, a)
  <2>1. Weight[e] <= Limit
    BY <1>3, <1>4, LimitsAreNaturals
  <2>2. ~VoidRefresh(Previous(k), a)
    BY DEF VoidRefresh
  <2>3. QED
    BY <1>2, <1>4, <2>1, <2>2, LimitsAreNaturals DEF Refused
<1>7. PICK b \in Balance(insert) : r \in Evict(b)
  BY <1>1, <1>5, <1>6, PutShape
<1>8. /\ Accounted(insert) /\ Accounted(b)
      /\ Held(b.q) = Held(insert.q)
      /\ Held(insert.q) = Held(Taken(k).q) \cup {k}
      /\ insert.q[k] = NewCopy(k, e, a)
      /\ \A i \in Held(Taken(k).q) : i # k /\ insert.q[i] = queues[i]
      /\ Total(b.b) = Total(Taken(k).b) + Weight[e]
  BY <1>3, <1>5, <1>7, Inserted
<1>9. Total(b.b) <= Limit \div 2 /\ Total(b.b) \in Nat
  <2>1. Total(Taken(k).b) \in Nat /\ Total(Taken(k).b) <= Total(bytes)
    BY <1>3, TakenKeeps, AccountedTotal DEF Total
  <2>2. QED
    BY <1>3, <1>4, <1>8, <2>1, LimitsAreNaturals
<1>10. NewCopy(k, e, a) \in Weighted /\ NewCopy(k, e, a).tier = UNUSED
  <2>1. Previous(k) = NoEntry
    BY <1>2 DEF Previous
  <2>2. Heat(Previous(k), a) = [age |-> 0, tier |-> UNUSED]
    BY <2>1 DEF Heat
  <2>3. QED
    BY <1>3, <2>2, NewCopyType
<1>11. insert.b[HOT] <= HotLimit
  <2>1. insert.b = [Room(k, e).b EXCEPT ![UNUSED] = Room(k, e).b[UNUSED] + Weight[e]]
    BY <1>3, <1>10, NewCopyType DEF Insert
  <2>2. insert.b[HOT] = Taken(k).b[HOT]
    <3>1. DOMAIN Taken(k).b = Tiers
      <4>1. Accounted(Taken(k))
        BY <1>3, TakenKeeps
      <4>2. QED
        BY <4>1 DEF Accounted
    <3>2. HOT \in Tiers /\ HOT # UNUSED
      BY DEF Tiers, HOT, UNUSED
    <3>3. QED
      BY <1>5, <2>1, <3>1, <3>2
  <2>3. Taken(k).b[HOT] <= Now.b[HOT]
    BY <1>3, TakeAccounted DEF Taken, Tiers
  <2>4. Taken(k).b[HOT] \in Nat /\ Now.b[HOT] \in Nat
    BY <1>3, TakenKeeps, AccountedTotal
  <2>5. QED
    BY <2>2, <2>3, <2>4, LimitsAreNaturals DEF LimitsInv, Limited, Now
<1> HIDE DEF insert
<1>12. \A i \in Held(insert.q) : b.q[i] = insert.q[i]
  <2>1. insert.b[HOT] \in Nat
    BY <1>8, AccountedTotal
  <2>2. QED
    BY <1>7, <1>8, <1>11, <2>1, BalanceHeat, LimitsAreNaturals
<1>13. \A i \in Held(insert.q) : r.q[i] = b.q[i]
  <2>1. ASSUME NEW i \in Held(insert.q)
        PROVE  r.q[i] # NoEntry
    BY <1>7, <1>8, <1>9, EvictNeeds, LimitsAreNaturals
  <2>2. QED
    BY <1>7, <1>8, <2>1, EvictOrder
<1>14. r.q[k] # NoEntry /\ r.q[k].tier = UNUSED
  <2>1. r.q[k] = NewCopy(k, e, a)
    BY <1>8, <1>12, <1>13
  <2>2. QED
    BY <1>10, <2>1, NoCopyIsNoRecord
<1>15. ASSUME NEW j \in Keys \ {k}
       PROVE  r.q[j] = queues[j]
  <2>1. Taken(k).q[j] = queues[j]
    BY <1>3, TakenKeeps
  <2>2. CASE queues[j] # NoEntry
    <3>1. j \in Held(Taken(k).q)
      BY <2>1, <2>2 DEF Held
    <3>2. QED
      BY <1>8, <1>12, <1>13, <3>1
  <2>3. CASE queues[j] = NoEntry
    <3>1. j \notin Held(b.q)
      BY <1>8, <2>1, <2>3 DEF Held
    <3>2. b.q[j] = NoEntry
      BY <3>1 DEF Held
    <3>3. PICK D : r = Take(b, D)
      BY <1>7 DEF Evict
    <3>4. QED
      BY <2>3, <3>2, <3>3 DEF Take
  <2>4. QED
    BY <2>2, <2>3
<1>16. Total(r.b) <= Limit \div 2
  <2>1. PICK D : r = Take(b, D)
    BY <1>7 DEF Evict
  <2>2. Accounted(r) /\ Total(r.b) <= Total(b.b)
    BY <1>8, <2>1, TakeAccounted
  <2>3. Total(r.b) \in Nat
    BY <2>2, AccountedTotal DEF Total
  <2>4. QED
    BY <1>9, <2>2, <2>3, LimitsAreNaturals
<1>17. QED
  BY <1>1, <1>2, <1>14, <1>15, <1>16 DEF Becomes

\* Only demand heats, a background write evicts nothing, and a restore disturbs nothing.
THEOREM BackgroundKept == Spec => BackgroundIsGentle
<1>1. LimitsInv /\ [Next]_vars =>
        (\A k \in Keys :
           /\ Live(queues, k) /\ queues'[k] # NoEntry
           /\ queues'[k].age < queues[k].age \/ queues'[k].tier > queues[k].tier
           => Demanded)
  <2> SUFFICES ASSUME LimitsInv, [Next]_vars, NEW k \in Keys, ~Demanded,
                      Live(queues, k), queues'[k] # NoEntry
               PROVE  ~(queues'[k].age < queues[k].age \/ queues'[k].tier > queues[k].tier)
    OBVIOUS
  <2>1. queues'[k].age >= queues[k].age /\ queues'[k].tier <= queues[k].tier
    BY DemandAloneStep
  <2>2. queues[k] \in Weighted
    BY DEF LimitsInv, Limited, Accounted, Queues, Live, Now
  <2>3. queues'[k] \in Weighted
    <3>1. LimitsInv'
      BY StepLimited
    <3>2. QED
      BY <3>1 DEF LimitsInv, Limited, Accounted, Queues, Now
  <2>4. QED
    BY <2>1, <2>2, <2>3, WeightsAssumption DEF Weighted, Tiers, UNUSED, CANDIDATE, HOT
<1>2. LimitsInv =>
        (\A j \in Keys :
           Live(queues, j) /\ queues'[j] = NoEntry =>
             ~ \E k \in Keys \ {j}, e \in Entries, a \in {"Preload", "Refresh"} :
                 Put(k, e, a))
  <2> SUFFICES ASSUME LimitsInv, NEW j \in Keys, Live(queues, j),
                      NEW k \in Keys \ {j}, NEW e \in Entries,
                      NEW a \in {"Preload", "Refresh"}, Put(k, e, a)
               PROVE  queues'[j] # NoEntry
    OBVIOUS
  <2>1. PICK r \in PutResults(Now, k, e, a) : queues' = r.q
    BY DEF Put, Becomes
  <2>2. QED
    BY <2>1, BackgroundPut
<1>3. LimitsInv /\ [Next]_vars =>
        (restored' # restored =>
           /\ Total(bytes') <= Limit \div 2
           /\ \E k \in Keys :
                /\ queues[k] = NoEntry /\ queues'[k] # NoEntry
                /\ queues'[k].tier = UNUSED
                /\ \A j \in Keys \ {k} : queues'[j] = queues[j])
  <2> SUFFICES ASSUME LimitsInv, [Next]_vars, restored' # restored
               PROVE  \E k \in Keys, e \in Entries : Restore(k, e)
    BY RestoreStep
  <2>1. QED
    BY DEF Next, Get, Put, Remove, ExpireIdle, Close, Tick, vars
<1>4. QED
  BY <1>1, <1>2, <1>3, LimitsInvariant, PTL
     DEF Spec, BackgroundIsGentle, DemandAlone, BackgroundEvictsNothing, RestoreIsGentle


-----------------------------------------------------------------------------
(* The demand.                                                             *)

\* A demand that evicts a live copy j was not refused, and evicted j from what
\* was there with its own entry in.
LEMMA DemandEvicts ==
  ASSUME Accounted(Now), NEW k \in Keys, NEW e \in Entries,
         NEW r \in PutResults(Now, k, e, "Demand"),
         NEW j \in Keys \ {k}, Live(queues, j), r.q[j] = NoEntry
  PROVE  /\ \E b \in Balance(Insert(Room(k, e), k, NewCopy(k, e, "Demand"))) : r \in Evict(b)
         /\ j \in Held(Room(k, e).q)
<1>1. queues[j] # NoEntry
  BY DEF Live
<1>2. r # Taken(k)
  BY <1>1, TakenKeeps
<1>3. j \in Held(Room(k, e).q)
  BY <1>1, RoomKeeps DEF Held
<1>4. QED
  BY <1>2, <1>3, PutShape

\* What a demand puts in overfills the hot tier only if its entry did so on top of
\* what was hot before it.
LEMMA HotOverfilled ==
  ASSUME Accounted(Now), NEW k \in Keys, NEW e \in Entries,
         Insert(Room(k, e), k, NewCopy(k, e, "Demand")).b[HOT] > HotLimit
  PROVE  OverfillsHot(k, e)
<1> DEFINE c == NewCopy(k, e, "Demand")
           insert == Insert(Room(k, e), k, c)
           others == Load(queues, In(queues, HOT) \ {k})
<1>1. c \in Weighted /\ c.entry = e /\ Weight[e] \in Nat
  BY NewCopyType, WeightsAssumption
<1>2. Accounted(Taken(k)) /\ Accounted(Room(k, e))
  BY TakenKeeps, RoomKeeps
<1>3. /\ Room(k, e).b[HOT] \in Nat /\ Taken(k).b[HOT] \in Nat
      /\ Room(k, e).b[HOT] <= Taken(k).b[HOT]
  <2>1. Room(k, e).b[HOT] \in Nat /\ Taken(k).b[HOT] \in Nat
    BY <1>2, AccountedTotal
  <2>2. Room(k, e).b[HOT] <= Taken(k).b[HOT]
    <3>1. CASE Fits(Taken(k), e)
      BY <2>1, <3>1 DEF Room
    <3>2. CASE ~Fits(Taken(k), e)
      <4>1. HOT \in Tiers
        BY DEF Tiers
      <4>2. QED
        BY <1>2, <3>2, <4>1, TakeAccounted DEF Room, Expire
    <3>3. QED
      BY <3>1, <3>2
  <2>3. QED
    BY <2>1, <2>2
<1>4. insert.b[HOT] <= Room(k, e).b[HOT] + Weight[e]
  <2>1. DOMAIN Room(k, e).b = Tiers /\ HOT \in Tiers
    BY <1>2 DEF Accounted, Tiers
  <2>2. insert.b = [Room(k, e).b EXCEPT ![c.tier] = Room(k, e).b[c.tier] + Weight[e]]
    BY <1>1 DEF Insert
  <2>3. CASE c.tier = HOT
    BY <1>1, <1>3, <2>1, <2>2, <2>3
  <2>4. CASE c.tier # HOT
    BY <1>1, <1>3, <2>1, <2>2, <2>4
  <2>5. QED
    BY <2>3, <2>4
<1>5. Taken(k).b[HOT] = others /\ others \in Nat
  <2>1. /\ Taken(k).b[HOT] = Now.b[HOT] - Load(queues, {k} \cap In(queues, HOT))
        /\ Now.b[HOT] = Load(queues, In(queues, HOT))
    BY DEF Taken, Take, Accounted, Now, Tiers
  <2>2. Weighed(queues, In(queues, HOT)) /\ Weighed(queues, In(queues, HOT) \ {k})
    BY QueuesWeighed DEF Accounted, In, Now
  <2>3. others \in Nat
    BY <2>2, LoadIsNatural
  <2>4. CASE k \in In(queues, HOT)
    <3>1. {k} \cap In(queues, HOT) = {k}
      BY <2>4
    <3>2. Load(queues, In(queues, HOT)) = Weight[queues[k].entry] + others
      BY <2>2, <2>4, LoadSplits
    <3>3. Load(queues, {k}) = Weight[queues[k].entry] + Load(queues, {})
      <4>1. Weighed(queues, {k}) /\ {k} \ {k} = {}
        BY <2>4, QueuesWeighed DEF Accounted, In, Now
      <4>2. QED
        BY <4>1, LoadSplits
    <3>4. Load(queues, {}) = 0
      BY LoadEmpty
    <3>5. Weight[queues[k].entry] \in Nat
      BY <2>4, WeightsAssumption DEF In, Held, Accounted, Queues, Weighted, Now
    <3> HIDE DEF others
    <3>6. /\ Taken(k).b[HOT] = Now.b[HOT] - Weight[queues[k].entry]
          /\ Now.b[HOT] = Weight[queues[k].entry] + others
      <4>1. Load(queues, {k}) = Weight[queues[k].entry]
        BY <3>3, <3>4, <3>5
      <4>2. QED
        BY <2>1, <3>1, <3>2, <4>1
    <3>7. QED
      BY <2>3, <3>5, <3>6
  <2>5. CASE k \notin In(queues, HOT)
    <3>1. {k} \cap In(queues, HOT) = {} /\ In(queues, HOT) \ {k} = In(queues, HOT)
      BY <2>5
    <3>2. Load(queues, {}) = 0
      BY LoadEmpty
    <3>3. Taken(k).b[HOT] = Now.b[HOT] - 0 /\ Now.b[HOT] = others
      BY <2>1, <3>1, <3>2
    <3> HIDE DEF others
    <3>4. QED
      BY <2>3, <3>3
  <2>6. QED
    BY <2>4, <2>5
<1>6. others + Weight[e] > HotLimit
  <2>1. insert.b[HOT] > HotLimit /\ HotLimit \in Nat
    BY LimitsAreNaturals DEF HotLimit
  <2>2. insert.b[HOT] \in Int
    <3>1. insert.b[HOT] = Room(k, e).b[HOT] \/ insert.b[HOT] = Room(k, e).b[HOT] + Weight[e]
      BY <1>2, <1>1 DEF Insert, Accounted, Tiers
    <3> HIDE DEF insert
    <3>2. QED
      BY <1>1, <1>3, <3>1
  <2> HIDE DEF others, insert
  <2>3. QED
    BY <1>1, <1>3, <1>4, <1>5, <2>1, <2>2
<1>7. QED
  BY <1>6 DEF OverfillsHot, HotLimit

\* A demand that evicts i and keeps j found j at least as warm, or demoted i first.
LEMMA ColdestGoes ==
  ASSUME Accounted(Now), NEW i \in Keys, NEW j \in Keys,
         Live(queues, i), queues'[i] = NoEntry, queues[j] # NoEntry, queues'[j] # NoEntry,
         NEW k \in Keys \ {i, j}, NEW e \in Entries, Put(k, e, "Demand")
  PROVE  \/ queues[i].tier < queues'[j].tier
         \/ /\ queues[i].age >= queues[j].age
            /\ \/ queues[i].tier = queues'[j].tier
               \/ /\ queues[i].tier = HOT /\ queues'[j].tier = CANDIDATE
                  /\ OverfillsHot(k, e)
<1> DEFINE insert == Insert(Room(k, e), k, NewCopy(k, e, "Demand"))
<1>1. PICK r \in PutResults(Now, k, e, "Demand") : queues' = r.q
  BY DEF Put, Becomes
<1>2. PICK b \in Balance(insert) : r \in Evict(b)
  BY <1>1, DemandEvicts
<1>3. i \in Held(Room(k, e).q)
  BY <1>1, DemandEvicts
<1>4. /\ Accounted(insert) /\ Accounted(b)
      /\ Held(b.q) = Held(insert.q)
      /\ Held(insert.q) = Held(Room(k, e).q) \cup {k}
      /\ \A x \in Held(Room(k, e).q) : x # k /\ insert.q[x] = queues[x]
  BY <1>2, Inserted
<1> HIDE DEF insert
<1>5. j \in Held(Room(k, e).q)
  <2>1. PICK D : r = Take(b, D)
    BY <1>2 DEF Evict
  <2>2. b.q[j] # NoEntry
    BY <1>1, <2>1 DEF Take
  <2>3. j \in Held(b.q)
    BY <2>2 DEF Held
  <2>4. QED
    BY <1>4, <2>3
<1>6. insert.q[i] = queues[i] /\ insert.q[j] = queues[j] /\ i \in Held(insert.q) /\ j \in Held(insert.q)
  BY <1>3, <1>4, <1>5
<1>7. /\ queues[i] \in Weighted /\ queues[j] \in Weighted
      /\ b.q[i] \in Weighted /\ b.q[j] \in Weighted
      /\ b.q[i].age = queues[i].age /\ b.q[j].age = queues[j].age
      /\ \/ b.q[i] = queues[i]
         \/ /\ queues[i].tier = HOT /\ b.q[i].tier = CANDIDATE
            /\ insert.b[HOT] > HotLimit
            /\ b.q[j].tier = HOT => Older(insert.q, i, j)
  <2>1. queues[i] \in Weighted /\ queues[j] \in Weighted
    BY DEF Accounted, Queues, Live, Now
  <2>2. QED
    BY <1>2, <1>4, <1>6, <2>1, BalanceHeat
<1>8. r.q[j] = b.q[j] /\ ColderFirst(b.q, i, j)
  BY <1>1, <1>2, <1>4, <1>6, EvictOrder
<1>9. /\ \A c \in {queues[i], queues[j], b.q[i], b.q[j]} : c.tier \in {0, 1, 2}
  BY <1>7 DEF Weighted, Tiers, UNUSED, CANDIDATE, HOT
<1>10. queues'[j].tier = b.q[j].tier
  BY <1>1, <1>8
<1>11. CASE b.q[i] = queues[i]
  BY <1>7, <1>8, <1>9, <1>10, <1>11 DEF ColderFirst, Older
<1>12. CASE /\ queues[i].tier = HOT /\ b.q[i].tier = CANDIDATE
            /\ insert.b[HOT] > HotLimit
            /\ b.q[j].tier = HOT => Older(insert.q, i, j)
  <2>1. CASE b.q[j].tier = HOT
    BY <1>6, <1>10, <1>12, <2>1 DEF Older
  <2>2. CASE b.q[j].tier # HOT
    <3>1. b.q[i].tier = b.q[j].tier /\ Older(b.q, i, j)
      BY <1>8, <1>9, <1>12, <2>2 DEF ColderFirst, HOT, CANDIDATE
    <3>2. OverfillsHot(k, e)
      BY <1>12, HotOverfilled DEF insert
    <3>3. QED
      BY <1>7, <1>10, <1>12, <3>1, <3>2 DEF Older
  <2>3. QED
    BY <2>1, <2>2
<1>13. QED
  BY <1>7, <1>11, <1>12

\* A demand that evicts a live copy would exceed the limit with its last victim back;
\* the victim is live, because making room had taken the idle ones.
LEMMA NoMoreThanNeeded ==
  ASSUME Accounted(Now), NEW k \in Keys, NEW e \in Entries, Put(k, e, "Demand"),
         NEW j \in Keys \ {k}, Live(queues, j), queues'[j] = NoEntry
  PROVE  \/ queues'[k] = NoEntry /\ Total(bytes') + Weight[e] > Limit
         \/ \E i \in Keys \ {k} : /\ Live(queues, i) /\ queues'[i] = NoEntry
                                  /\ Total(bytes') + Weight[queues[i].entry] > Limit
<1> DEFINE insert == Insert(Room(k, e), k, NewCopy(k, e, "Demand"))
<1>1. PICK r \in PutResults(Now, k, e, "Demand") : queues' = r.q /\ bytes' = r.b
  BY DEF Put, Becomes
<1>2. PICK b \in Balance(insert) : r \in Evict(b)
  BY <1>1, DemandEvicts
<1>3. /\ Accounted(insert) /\ Accounted(b)
      /\ Held(b.q) = Held(insert.q)
      /\ Held(insert.q) = Held(Room(k, e).q) \cup {k}
      /\ insert.q[k] = NewCopy(k, e, "Demand")
      /\ \A x \in Held(Room(k, e).q) : x # k /\ insert.q[x] = queues[x]
      /\ Total(b.b) = Total(Room(k, e).b) + Weight[e]
  BY <1>2, Inserted
<1>4. j \in Held(b.q)
  BY <1>1, <1>3, DemandEvicts
<1> HIDE DEF insert
<1>5. PICK last \in Held(b.q) :
        r.q[last] = NoEntry /\ Total(r.b) + Weight[b.q[last].entry] > Limit
  BY <1>1, <1>2, <1>3, <1>4, EvictNeeds
<1>6. b.q[last].entry = insert.q[last].entry
  BY <1>2, <1>3, BalanceHeat
<1>7. CASE last = k
  <2>1. insert.q[k].entry = e
    BY <1>3, NewCopyType
  <2>2. QED
    BY <1>1, <1>5, <1>6, <1>7, <2>1
<1>8. CASE last # k
  <2>1. last \in Held(Room(k, e).q) /\ insert.q[last] = queues[last]
    BY <1>3, <1>8
  <2>2. ~Fits(Room(k, e), e)
    <3>1. Total(b.b) > Limit
      BY <1>1, <1>2, <1>3, <1>4, EvictNeeds
    <3>2. Weight[e] \in Nat /\ Total(Room(k, e).b) \in Nat
      BY RoomKeeps, AccountedTotal, WeightsAssumption DEF Total
    <3>3. QED
      BY <1>3, <3>1, <3>2, LimitsAreNaturals DEF Fits
  <2>3. Live(queues, last)
    BY <2>1, <2>2, RoomKeeps
  <2>4. last \in Keys \ {k}
    BY <1>8 DEF Held
  <2>5. QED
    BY <1>1, <1>5, <1>6, <2>1, <2>3, <2>4
<1>9. QED
  BY <1>7, <1>8

\* A demand that needs room takes the coldest copies, and no more than it needs.
THEOREM DemandKept == Spec => DemandEvictsInOrder
<1>1. LimitsInv =>
        (\A i, j \in Keys : \A k \in Keys \ {i, j}, e \in Entries :
           /\ Live(queues, i) /\ queues'[i] = NoEntry
           /\ queues[j] # NoEntry /\ queues'[j] # NoEntry
           /\ Put(k, e, "Demand")
           => \/ queues[i].tier < queues'[j].tier
              \/ /\ queues[i].age >= queues[j].age
                 /\ \/ queues[i].tier = queues'[j].tier
                    \/ /\ queues[i].tier = HOT /\ queues'[j].tier = CANDIDATE
                       /\ OverfillsHot(k, e))
  BY ColdestGoes DEF LimitsInv, Limited
<1>2. LimitsInv =>
        (LET gone == {i \in Keys : Live(queues, i) /\ queues'[i] = NoEntry} IN
           \A k \in Keys, e \in Entries :
             gone \ {k} # {} /\ Put(k, e, "Demand") =>
               \/ queues'[k] = NoEntry /\ Total(bytes') + Weight[e] > Limit
               \/ \E i \in gone \ {k} : Total(bytes') + Weight[queues[i].entry] > Limit)
  <2> DEFINE gone == {i \in Keys : Live(queues, i) /\ queues'[i] = NoEntry}
  <2> SUFFICES ASSUME LimitsInv, NEW k \in Keys, NEW e \in Entries,
                      gone \ {k} # {}, Put(k, e, "Demand")
               PROVE  \/ queues'[k] = NoEntry /\ Total(bytes') + Weight[e] > Limit
                      \/ \E i \in gone \ {k} : Total(bytes') + Weight[queues[i].entry] > Limit
    OBVIOUS
  <2>1. PICK j \in gone \ {k} : TRUE
    OBVIOUS
  <2>2. QED
    BY <2>1, NoMoreThanNeeded DEF LimitsInv, Limited
<1>3. QED
  BY <1>1, <1>2, LimitsInvariant, PTL
     DEF Spec, DemandEvictsInOrder, ColdestEvicted, EvictsNoMoreThanNeeded

=============================================================================
