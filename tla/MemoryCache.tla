----------------------------- MODULE MemoryCache -----------------------------
(***************************************************************************)
(* core/src/memory.rs: the weighted memory cache with three tiers of heat. *)
(*                                                                         *)
(* Time is kept as the age of each copy since its last demand, counted up  *)
(* to Idle, from where on the code treats all ages alike. The loops of     *)
(* balance() and put() are given in closed form: a shortest sequence of    *)
(* victims, coldest first. Which of two equally old copies goes first      *)
(* (the code asks the LRU order) is left open.                             *)
(***************************************************************************)
EXTENDS FiniteSetsExt, Naturals

CONSTANTS
  Keys,
  Entries,
  Weight,   \* entry -> bytes it is accounted for
  Limit,    \* bytes the cache may hold
  Idle,     \* age at which a copy expires (5 minutes in the code)
  NoEntry   \* "no copy"

ASSUME WeightsAssumption ==
  /\ Weight \in [Entries -> Nat \ {0}]
  /\ Limit \in Nat /\ Idle \in Nat \ {0}
  /\ NoEntry \notin Entries \cup [entry : Entries, age : 0..Idle, tier : {0, 1, 2}]

UNUSED == 0
CANDIDATE == 1
HOT == 2
Tiers == {UNUSED, CANDIDATE, HOT}

Admission == {"Demand", "Preload", "Refresh"}

Weighted == [entry : Entries, age : 0..Idle, tier : Tiers]

Copy(e, age, tier) == [entry |-> e, age |-> age, tier |-> tier]

VARIABLES
  queues,    \* key -> its copy, in the queue of its tier
  bytes,     \* tier -> the byte counter the code keeps for it
  restored,  \* bytes restore() has put in
  closed

vars == <<queues, bytes, restored, closed>>

TypeOK ==
  /\ queues \in [Keys -> Weighted \cup {NoEntry}]
  /\ bytes \in [Tiers -> 0..Limit]
  /\ restored \in 0..(Limit \div 2)
  /\ closed \in BOOLEAN

Init ==
  /\ queues = [k \in Keys |-> NoEntry]
  /\ bytes = [t \in Tiers |-> 0]
  /\ restored = 0
  /\ closed = FALSE

-----------------------------------------------------------------------------
(* The queues together with their counters, as the private methods see     *)
(* them in the middle of an operation.                                     *)

Held(q) == {k \in Keys : q[k] # NoEntry}
In(q, t) == {k \in Held(q) : q[k].tier = t}
Load(q, S) == MapThenSumSet(LAMBDA k : Weight[q[k].entry], S)
Total(b) == b[UNUSED] + b[CANDIDATE] + b[HOT]
Live(q, k) == q[k] # NoEntry /\ q[k].age < Idle
MinTier(i, j) == IF i < j THEN i ELSE j

Now == [q |-> queues, b |-> bytes]

\* take(), of every key of S.
Take(s, S) ==
  [q |-> [k \in Keys |-> IF k \in S THEN NoEntry ELSE s.q[k]],
   b |-> [t \in Tiers |-> s.b[t] - Load(s.q, S \cap In(s.q, t))]]

Insert(s, k, copy) ==
  [q |-> [s.q EXCEPT ![k] = copy],
   b |-> [s.b EXCEPT ![copy.tier] = s.b[copy.tier] + Weight[copy.entry]]]

Expire(s) == Take(s, {k \in Held(s.q) : ~Live(s.q, k)})

\* The ways to take victims from S in the order of the pairs in `before`, until
\* one of the sets in `enough` is taken.
Victims(S, before, enough) ==
  {D \in SUBSET S :
     /\ D \X (S \ D) \subseteq before
     /\ D \in enough \/ D = S
     /\ D # {} => \E last \in D : /\ \A i \in D : <<i, last>> \in before
                                 /\ D \ {last} \notin enough}

Older(q, i, j) == q[i].age >= q[j].age

Demote(s, D) ==
  [q |-> [k \in Keys |-> IF k \in D THEN Copy(s.q[k].entry, s.q[k].age, CANDIDATE) ELSE s.q[k]],
   b |-> [t \in Tiers |-> CASE t = UNUSED -> s.b[t]
                           [] t = CANDIDATE -> s.b[t] + Load(s.q, D)
                           [] t = HOT -> s.b[t] - Load(s.q, D)]]

\* Mutant: nothing is demoted.
Unbalanced(s) == {s}

\* balance(): the oldest hot copies go back to CANDIDATE, their age with them.
Balance(s) ==
  LET hot == In(s.q, HOT)
      before == {p \in hot \X hot : Older(s.q, p[1], p[2])}
      enough == {D \in SUBSET hot : s.b[HOT] - Load(s.q, D) <= Limit - Limit \div 5}
  IN {Demote(s, D) : D \in Victims(hot, before, enough)}

\* Mutant: the oldest goes first, whatever its heat.
OldestFirst(q, i, j) == Older(q, i, j)

\* The order of eviction: by tier, and by age within a tier.
ColderFirst(q, i, j) ==
  q[i].tier < q[j].tier \/ (q[i].tier = q[j].tier /\ Older(q, i, j))

Within(total) == total <= Limit

Evict(s) ==
  LET held == Held(s.q)
      before == {p \in held \X held : ColderFirst(s.q, p[1], p[2])}
      enough == {D \in SUBSET held : Within(Total(s.b) - Load(s.q, D))}
  IN {Take(s, D) : D \in Victims(held, before, enough)}

\* Mutant: a background write may make room for itself.
AlwaysFits(s, e) == TRUE

Fits(s, e) == Weight[e] + Total(s.b) <= Limit

\* Tier and age of the new copy of a key whose live copy was previous.
Heat(previous, a) ==
  CASE a = "Demand" /\ previous = NoEntry -> [age |-> 0, tier |-> CANDIDATE]
    [] a = "Demand" /\ previous # NoEntry -> [age |-> 0, tier |-> MinTier(previous.tier + 1, HOT)]
    [] a # "Demand" /\ previous = NoEntry -> [age |-> 0, tier |-> UNUSED]
    [] a # "Demand" /\ previous # NoEntry -> [age |-> previous.age, tier |-> previous.tier]

\* Mutant: a refresh may bring a resource into memory.
NeverVoid(previous, a) == FALSE

VoidRefresh(previous, a) == a = "Refresh" /\ previous = NoEntry

Refused(previous, e, a) == closed \/ VoidRefresh(previous, a) \/ Weight[e] > Limit

\* put_at(): what it may leave of the queues and counters s.
PutResults(s, k, e, a) ==
  LET previous == IF Live(s.q, k) THEN s.q[k] ELSE NoEntry
      taken == Take(s, {k})
      room == IF Fits(taken, e) THEN taken ELSE Expire(taken)
      heat == Heat(previous, a)
      copy == Copy(e, heat.age, heat.tier)
  IN IF Refused(previous, e, a) THEN {taken}
     ELSE IF a # "Demand" /\ ~Fits(room, e) THEN {room}
     ELSE UNION {Evict(b) : b \in Balance(Insert(room, k, copy))}

Becomes(s) == queues' = s.q /\ bytes' = s.b

-----------------------------------------------------------------------------
(* The operations.                                                         *)

\* get(): an idle copy is removed; a demand makes a live one young and hotter.
Get(k, demand) ==
  /\ \/ queues[k] # NoEntry /\ ~Live(queues, k) /\ Becomes(Take(Now, {k}))
     \/ Live(queues, k) /\ ~demand /\ Becomes(Now)
     \/ /\ Live(queues, k) /\ demand
        /\ \E s \in Balance(Insert(Take(Now, {k}), k,
                Copy(queues[k].entry, 0, MinTier(queues[k].tier + 1, HOT)))) : Becomes(s)
  /\ UNCHANGED <<restored, closed>>

Put(k, e, a) ==
  /\ \E s \in PutResults(Now, k, e, a) : Becomes(s)
  /\ UNCHANGED <<restored, closed>>

\* restore_remaining(); the subtractions saturate.
RestoreRemaining ==
  IF Total(bytes) > Limit \div 2 THEN 0
  ELSE MinTier(Limit \div 2 - restored, Limit \div 2 - Total(bytes))

\* restore(): a resident key is left alone; otherwise a preload of an entry
\* that fits in what remains of half the limit.
Restore(k, e) ==
  /\ ~closed /\ queues[k] = NoEntry
  /\ Weight[e] <= RestoreRemaining
  /\ \E s \in PutResults(Now, k, e, "Preload") : Becomes(s)
  /\ restored' = restored + Weight[e]
  /\ UNCHANGED closed

ExpireIdle ==
  /\ Becomes(Expire(Now))
  /\ UNCHANGED <<restored, closed>>

Remove(k) ==
  /\ Becomes(Take(Now, {k}))
  /\ UNCHANGED <<restored, closed>>

Close ==
  /\ closed' = TRUE
  /\ queues' = [k \in Keys |-> NoEntry]
  /\ bytes' = [t \in Tiers |-> 0]
  /\ UNCHANGED restored

Tick ==
  /\ queues' = [k \in Keys |->
       IF Live(queues, k) THEN Copy(queues[k].entry, queues[k].age + 1, queues[k].tier)
       ELSE queues[k]]
  /\ UNCHANGED <<bytes, restored, closed>>

Next ==
  \/ \E k \in Keys, demand \in BOOLEAN : Get(k, demand)
  \/ \E k \in Keys, e \in Entries, a \in Admission : Put(k, e, a)
  \/ \E k \in Keys, e \in Entries : Restore(k, e)
  \/ \E k \in Keys : Remove(k)
  \/ ExpireIdle \/ Close \/ Tick

Spec == Init /\ [][Next]_vars

-----------------------------------------------------------------------------
(* Properties.                                                             *)

\* The contract the other components are built on: whatever the weights, heats
\* and ages, the contents only change as MemoryPromise allows, and each put keeps
\* its own part of it, so that a refresh brings nothing in that was not there.
Copies == [k \in Keys |-> IF queues[k] = NoEntry THEN NoEntry ELSE queues[k].entry]

Promise == INSTANCE MemoryPromise WITH copies <- Copies

PutsKept ==
  [][\A k \in Keys, e \in Entries, a \in Admission :
       Put(k, e, a) => Promise!Put(k, e, a)]_vars

ContractKept == Promise!Spec /\ PutsKept

\* After any sequence of promotions, demotions, replacements and evictions the
\* limits hold of what is held, because the counters that enforce them are its
\* weight: in all the limit, and in the hot tier four fifths of it. (With the types.)
WithinLimits ==
  /\ TypeOK
  /\ \A t \in Tiers : bytes[t] = Load(queues, In(queues, t))
  /\ Load(queues, Held(queues)) <= Limit
  /\ Load(queues, In(queues, HOT)) <= Limit - Limit \div 5

Demanded ==
  \/ \E k \in Keys : Get(k, TRUE)
  \/ \E k \in Keys, e \in Entries : Put(k, e, "Demand")

\* Only browser demand makes a copy younger or hotter: a preload, a refresh, a
\* background look-up or a restore that replaces a copy keeps both.
DemandAlone ==
  [][\A k \in Keys :
       /\ Live(queues, k) /\ queues'[k] # NoEntry
       /\ queues'[k].age < queues[k].age \/ queues'[k].tier > queues[k].tier
       => Demanded]_vars

\* A background write evicts nothing that is live: it may replace the copy of its
\* own key, and otherwise goes without.
BackgroundEvictsNothing ==
  [][\A j \in Keys :
       Live(queues, j) /\ queues'[j] = NoEntry =>
         ~ \E k \in Keys \ {j}, e \in Entries, a \in {"Preload", "Refresh"} :
             Put(k, e, a)]_vars

\* Restoring never displaces or heats anything, and never fills more than half
\* of the limit, however much was restored and removed before.
RestoreIsGentle ==
  [][restored' # restored =>
       /\ Total(bytes') <= Limit \div 2
       /\ \E k \in Keys :
            /\ queues[k] = NoEntry /\ queues'[k] # NoEntry
            /\ queues'[k].tier = UNUSED
            /\ \A j \in Keys \ {k} : queues'[j] = queues[j]]_vars

\* Whatever happens in the background leaves what the browser made warm alone.
BackgroundIsGentle == DemandAlone /\ BackgroundEvictsNothing /\ RestoreIsGentle

\* With e hot under k, the hot tier would hold more than its four fifths.
OverfillsHot(k, e) ==
  Load(queues, In(queues, HOT) \ {k}) + Weight[e] > Limit - Limit \div 5

\* Pressure takes the coldest: no live copy goes while a colder one stays, by tier
\* and by age within a tier. A hot copy goes before a candidate only as a candidate
\* itself, demoted because the same demand overfilled the hot tier, and older.
ColdestEvicted ==
  [][\A i, j \in Keys : \A k \in Keys \ {i, j}, e \in Entries :
       /\ Live(queues, i) /\ queues'[i] = NoEntry
       /\ queues[j] # NoEntry /\ queues'[j] # NoEntry
       /\ Put(k, e, "Demand")
       => \/ queues[i].tier < queues'[j].tier
          \/ /\ queues[i].age >= queues[j].age
             /\ \/ queues[i].tier = queues'[j].tier
                \/ /\ queues[i].tier = HOT /\ queues'[j].tier = CANDIDATE
                   /\ OverfillsHot(k, e)]_vars

\* A demand evicts no more than it must: with the last victim back, the limit
\* would be exceeded. (An entry that weighs more than the hot tier leaves it is
\* its own last victim.)
EvictsNoMoreThanNeeded ==
  [][LET gone == {i \in Keys : Live(queues, i) /\ queues'[i] = NoEntry} IN
       \A k \in Keys, e \in Entries :
         gone \ {k} # {} /\ Put(k, e, "Demand") =>
           \/ queues'[k] = NoEntry /\ Total(bytes') + Weight[e] > Limit
           \/ \E i \in gone \ {k} : Total(bytes') + Weight[queues[i].entry] > Limit]_vars

\* A demand that needs room takes it from the coldest, and no more than it needs.
DemandEvictsInOrder == ColdestEvicted /\ EvictsNoMoreThanNeeded

=============================================================================
