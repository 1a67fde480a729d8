---------------------------- MODULE SchedulerProofs ----------------------------
(***************************************************************************)
(* Proofs about Scheduler, for any finite set of urls, any responses, sizes*)
(* of the tables, windows and numbers of failures.                         *)
(*                                                                         *)
(* Most of the work is in Discover: references are numbered by counting    *)
(* those that come before them, and such a numbering has neither gaps nor  *)
(* repetitions.                                                            *)
(***************************************************************************)
EXTENDS Scheduler, TLAPS, FiniteSetTheorems, FunctionTheorems, WellFoundedInduction

LEMMA ConstantTypes ==
  /\ IsFiniteSet(Urls) /\ Battles \subseteq Urls /\ Type \in [Urls -> 0..2]
  /\ Capacity \in Nat /\ MaxFailures \in Nat /\ MaxFailures > 0 /\ Slots \in Nat
  /\ Fresh \in Nat /\ Warm \in Nat /\ Warm > 0 /\ Window \in Nat /\ Window > 0
  /\ MaxTime \in Nat /\ NoJob \notin Urls
  /\ LongAgo = 0 - Warm /\ LongAgo \in Times /\ 0 \in Times /\ LongAgo < 0
  /\ Times \subseteq Int
  /\ \A t \in Times : LongAgo <= t /\ t <= MaxTime
BY SchedulerAssumption DEF LongAgo, Times

LEMMA RecordsApart ==
  /\ \A g \in Group : g # NoRecord
  /\ \A j \in Job : j # NoRecord
BY RecordAssumption

LEMMA SubsetsOfUrls ==
  ASSUME NEW S \in SUBSET Urls
  PROVE  IsFiniteSet(S) /\ Cardinality(S) \in Nat
BY ConstantTypes, FS_Subset, FS_CardinalityType

-----------------------------------------------------------------------------
(* The latest of some times.                                               *)

Less == {ss \in Nat \X Nat : ss[1] < ss[2]}

LEMMA SmallestExists ==
  ASSUME NEW S \in SUBSET Nat, S # {}
  PROVE  \E x \in S : \A y \in S : x <= y
<1>1. IsWellFoundedOn(Less, Nat)
  BY NatLessThanWellFounded, Zenon DEF OpToRel, Less
<1>2. PICK x \in S : \A y \in S : ~(<<y, x>> \in Less)
  BY <1>1, WFMin
<1>3. x \in Nat /\ \A y \in S : y \in Nat
  OBVIOUS
<1>4. \A y \in S : ~(y < x)
  BY <1>2, <1>3 DEF Less
<1>5. QED
  BY <1>3, <1>4

LEMMA LatestIsTime ==
  ASSUME NEW S \in SUBSET Times, S # {}
  PROVE  Max(S) \in S
<1> DEFINE N == {MaxTime - t : t \in S}
<1>0. \A t \in S : t \in Int /\ t <= MaxTime /\ MaxTime - t \in Nat
  BY ConstantTypes
<1>1. N \in SUBSET Nat /\ N # {}
  BY <1>0
<1>2. PICK n \in N : \A m \in N : n <= m
  BY <1>1, SmallestExists
<1>3. PICK t \in S : n = MaxTime - t
  BY <1>2
<1>4. \A y \in S : t >= y
  <2> SUFFICES ASSUME NEW y \in S PROVE t >= y
    OBVIOUS
  <2>1. MaxTime - t <= MaxTime - y
    BY <1>2, <1>3
  <2>2. QED
    BY <2>1, ConstantTypes
<1>5. QED
  BY <1>4 DEF Max

LEMMA ChainIsTime ==
  ASSUME recent \in [Urls -> Times], NEW u \in Urls
  PROVE  Chain(u) \in Times
<1> DEFINE S == {LongAgo} \cup {recent[r] : r \in {r \in Asked : u \in From(dependencies, {r})}}
<1>1. S \in SUBSET Times /\ S # {}
  BY ConstantTypes DEF Asked
<1>2. Max(S) \in S
  BY <1>1, LatestIsTime
<1>3. QED
  BY <1>1, <1>2 DEF Chain

LEMMA LaterIsTime ==
  ASSUME NEW s \in Times, NEW t \in Times
  PROVE  Later(s, t) \in Times
BY DEF Later

-----------------------------------------------------------------------------
(* Counting references.                                                    *)

\* The references of a response, each url once.
References(refs) ==
  /\ refs \in Seq(Urls \X BOOLEAN)
  /\ \A i, j \in DOMAIN refs : refs[i][1] = refs[j][1] => i = j

LEMMA BodiesAreReferences ==
  ASSUME NEW u \in Urls, NEW refs \in Bodies[u]
  PROVE  References(refs)
BY SchedulerAssumption DEF References

LEMMA ReferenceTypes ==
  ASSUME NEW refs, References(refs)
  PROVE  /\ DOMAIN refs = 1..Len(refs) /\ Len(refs) \in Nat /\ IsFiniteSet(DOMAIN refs)
         /\ \A i \in DOMAIN refs : i \in Nat /\ refs[i][1] \in Urls /\ refs[i][2] \in BOOLEAN
                                   /\ Type[refs[i][1]] \in Nat
<1>1. DOMAIN refs = 1..Len(refs) /\ Len(refs) \in Nat
  BY DEF References
<1>2. IsFiniteSet(DOMAIN refs)
  BY <1>1, FS_Interval
<1>3. \A i \in DOMAIN refs : refs[i] \in Urls \X BOOLEAN /\ i \in Nat
  BY <1>1 DEF References
<1>4. QED
  BY <1>1, <1>2, <1>3, ConstantTypes

\* NotAfter is a total order of the references.
LEMMA NotAfterIsOrder ==
  ASSUME NEW refs, References(refs), NEW i \in DOMAIN refs, NEW j \in DOMAIN refs,
         NEW k \in DOMAIN refs
  PROVE  /\ NotAfter(refs, i, i)
         /\ NotAfter(refs, i, j) \/ NotAfter(refs, j, i)
         /\ NotAfter(refs, i, j) /\ NotAfter(refs, j, i) => i = j
         /\ NotAfter(refs, i, j) /\ NotAfter(refs, j, k) => NotAfter(refs, i, k)
BY ReferenceTypes DEF NotAfter

\* The references to S that do not come after i.
Ahead(refs, i, S) == {j \in DOMAIN refs : refs[j][1] \in S /\ NotAfter(refs, j, i)}

LEMMA AheadFinite ==
  ASSUME NEW refs, References(refs), NEW i \in DOMAIN refs, NEW S
  PROVE  /\ IsFiniteSet(Ahead(refs, i, S)) /\ Rank(refs, i, S) = Cardinality(Ahead(refs, i, S))
         /\ Rank(refs, i, S) \in Nat
BY ReferenceTypes, FS_Subset, FS_CardinalityType DEF Ahead, Rank

LEMMA RankIsPositive ==
  ASSUME NEW refs, References(refs), NEW S, NEW i \in DOMAIN refs, refs[i][1] \in S
  PROVE  Rank(refs, i, S) \in Nat \ {0}
<1>1. i \in Ahead(refs, i, S)
  BY NotAfterIsOrder DEF Ahead
<1>2. QED
  BY <1>1, AheadFinite, FS_EmptySet

LEMMA RankGrows ==
  ASSUME NEW refs, References(refs), NEW S, NEW i \in DOMAIN refs, NEW j \in DOMAIN refs,
         NotAfter(refs, i, j)
  PROVE  /\ Rank(refs, i, S) <= Rank(refs, j, S)
         /\ i # j /\ refs[j][1] \in S => Rank(refs, i, S) < Rank(refs, j, S)
<1>1. Ahead(refs, i, S) \subseteq Ahead(refs, j, S)
  BY NotAfterIsOrder DEF Ahead
<1>2. Rank(refs, i, S) <= Rank(refs, j, S)
  BY <1>1, AheadFinite, FS_Subset
<1>3. ASSUME i # j, refs[j][1] \in S PROVE Rank(refs, i, S) < Rank(refs, j, S)
  <2>1. j \in Ahead(refs, j, S) /\ j \notin Ahead(refs, i, S)
    BY <1>3, NotAfterIsOrder DEF Ahead
  <2>2. QED
    BY <1>1, <2>1, AheadFinite, FS_Subset
<1>4. QED
  BY <1>2, <1>3

\* Different references have different places.
LEMMA RanksDiffer ==
  ASSUME NEW refs, References(refs), NEW S, NEW i \in DOMAIN refs, NEW j \in DOMAIN refs,
         refs[i][1] \in S, refs[j][1] \in S, Rank(refs, i, S) = Rank(refs, j, S)
  PROVE  i = j
<1>1. Rank(refs, i, S) \in Nat /\ Rank(refs, j, S) \in Nat
  BY AheadFinite
<1>2. NotAfter(refs, i, j) \/ NotAfter(refs, j, i)
  BY NotAfterIsOrder
<1>3. QED
  BY <1>1, <1>2, RankGrows

\* An injection between finite sets of one size reaches everything.
LEMMA InjectionFills ==
  ASSUME NEW N, IsFiniteSet(N), NEW n \in Nat, Cardinality(N) = n, NEW f \in [N -> 1..n],
         \A a, b \in N : f[a] = f[b] => a = b
  PROVE  \A m \in 1..n : \E u \in N : f[u] = m
<1>1. f \in Injection(N, 1..n)
  BY Fun_IsInj
<1>2. IsFiniteSet(1..n) /\ Cardinality(1..n) = n
  BY FS_Interval
<1> DEFINE K == 1..n
<1>3. f \in Surjection(N, K)
  BY <1>1, <1>2, FS_Injection
<1>4. \A m \in K : \E u \in N : f[u] = m
  <2> HIDE DEF K
  <2>1. QED
    BY <1>3, Fun_SurjectionProperties
<1>5. QED
  BY <1>4

LEMMA InjectionBounds ==
  ASSUME NEW A, NEW N, IsFiniteSet(N), NEW f \in [A -> N], \A a, b \in A : f[a] = f[b] => a = b
  PROVE  Cardinality(A) <= Cardinality(N)
BY Fun_IsInj, FS_Injection

\* The accepted references are a front part: what comes before one of them is one.
LEMMA AcceptedIsFront ==
  ASSUME NEW refs, References(refs), NEW i \in Accepted(refs), NEW j \in DOMAIN refs,
         NotAfter(refs, j, i)
  PROVE  j \in Accepted(refs)
<1> DEFINE S == Urls \ Found
<1>1. i \in DOMAIN refs /\ Cardinality(Found) + Rank(refs, i, S) <= Capacity
  BY DEF Accepted
<1>2. Rank(refs, j, S) <= Rank(refs, i, S)
  BY <1>1, RankGrows
<1>3. Cardinality(Found) \in Nat /\ Rank(refs, i, S) \in Nat /\ Rank(refs, j, S) \in Nat
  BY <1>1, AheadFinite, SubsetsOfUrls DEF Found
<1>4. Cardinality(Found) + Rank(refs, j, S) <= Capacity
  BY <1>1, <1>2, <1>3, ConstantTypes
<1>5. QED
  BY <1>4 DEF Accepted

LEMMA TargetsAt ==
  ASSUME NEW refs, References(refs)
  PROVE  /\ Targets(refs) \subseteq Urls
         /\ \A u \in Targets(refs) :
              /\ At(refs, u) \in Accepted(refs) /\ At(refs, u) \in DOMAIN refs
              /\ refs[At(refs, u)][1] = u /\ Deferred(refs, u) \in BOOLEAN
<1>1. Targets(refs) \subseteq Urls
  BY ReferenceTypes DEF Targets, Accepted
<1>2. ASSUME NEW u \in Targets(refs)
      PROVE  /\ At(refs, u) \in Accepted(refs) /\ At(refs, u) \in DOMAIN refs
             /\ refs[At(refs, u)][1] = u /\ Deferred(refs, u) \in BOOLEAN
  <2>1. PICK i \in Accepted(refs) : refs[i][1] = u
    BY <1>2 DEF Targets
  <2>2. i \in DOMAIN refs
    BY DEF Accepted
  <2>3. At(refs, u) \in DOMAIN refs /\ refs[At(refs, u)][1] = u
    BY <2>1, <2>2 DEF At
  <2>4. At(refs, u) = i
    BY <2>1, <2>2, <2>3 DEF References
  <2>5. QED
    BY <2>1, <2>3, <2>4, ReferenceTypes DEF Deferred
<1>3. QED
  BY <1>1, <1>2

\* The targets in S are numbered from 1, without gaps or repetitions.
LEMMA Numbering ==
  ASSUME NEW refs, References(refs), NEW S \in SUBSET Urls
  PROVE  LET N == Targets(refs) \cap S
             r(u) == Rank(refs, At(refs, u), S) IN
         /\ IsFiniteSet(N) /\ Cardinality(N) \in Nat
         /\ \A u \in N : r(u) \in 1..Cardinality(N)
         /\ \A u, v \in N : r(u) = r(v) => u = v
         /\ \A m \in 1..Cardinality(N) : \E u \in N : r(u) = m
<1> DEFINE N == Targets(refs) \cap S
           r(u) == Rank(refs, At(refs, u), S)
<1>1. IsFiniteSet(N) /\ Cardinality(N) \in Nat
  BY SubsetsOfUrls
<1>2. \A u \in N : At(refs, u) \in DOMAIN refs /\ At(refs, u) \in Accepted(refs)
                   /\ refs[At(refs, u)][1] = u
  BY TargetsAt
<1>3. \A u \in N : r(u) \in 1..Cardinality(N)
  <2> SUFFICES ASSUME NEW u \in N PROVE r(u) \in 1..Cardinality(N)
    OBVIOUS
  <2> DEFINE A == Ahead(refs, At(refs, u), S)
             f == [i \in A |-> refs[i][1]]
  <2>1. A \subseteq Accepted(refs) /\ A \subseteq DOMAIN refs /\ \A i \in A : refs[i][1] \in S
    BY <1>2, AcceptedIsFront DEF Ahead
  <2>2. f \in [A -> N]
    BY <2>1 DEF Targets
  <2>3. \A a, b \in A : f[a] = f[b] => a = b
    BY <2>1 DEF References
  <2>4. Cardinality(A) <= Cardinality(N)
    <3> HIDE DEF N, A, f
    <3>1. QED
      BY <1>1, <2>2, <2>3, InjectionBounds
  <2>5. r(u) = Cardinality(A) /\ r(u) \in Nat \ {0}
    BY <1>2, AheadFinite, RankIsPositive
  <2>6. QED
    BY <1>1, <2>4, <2>5
<1>4. \A u, v \in N : r(u) = r(v) => u = v
  <2> SUFFICES ASSUME NEW u \in N, NEW v \in N, r(u) = r(v) PROVE u = v
    OBVIOUS
  <2>1. At(refs, u) = At(refs, v)
    BY <1>2, RanksDiffer
  <2>2. QED
    BY <1>2, <2>1
<1>5. \A m \in 1..Cardinality(N) : \E u \in N : r(u) = m
  <2> DEFINE n == Cardinality(N)
             f == [u \in N |-> r(u)]
  <2>1. f \in [N -> 1..n] /\ \A a, b \in N : f[a] = f[b] => a = b
    BY <1>3, <1>4
  <2>2. \A m \in 1..n : \E u \in N : f[u] = m
    <3> HIDE DEF N, f
    <3>1. QED
      BY <1>1, <2>1, InjectionFills
  <2>3. QED
    BY <2>2
<1>6. QED
  BY <1>1, <1>3, <1>4, <1>5

-----------------------------------------------------------------------------
(* The invariant.                                                          *)

\* What links the tables, without the types, which change in other ways.
Links ==
  /\ queue \subseteq Found
  /\ \A u \in Found : known[u].sources # {} /\ known[u].sources \subseteq Sources
  /\ \A s \in Sources :
       /\ Named(groups[s].order) = {u \in Found : s \in known[u].sources}
       /\ \A u, v \in Found :
            groups[s].order[u] = groups[s].order[v] /\ groups[s].order[u] # 0 => u = v
  /\ \A s, u \in Urls :
       <<s, u>> \in dependencies \cup weak <=> u \in Found /\ s \in known[u].sources
  /\ {known[u].sequence : u \in Found} = 1..Cardinality(Found)
  /\ \A s \in Sources : \A u \in Urls : groups[s].order[u] <= Cardinality(Named(groups[s].order))

\* The types, the links between the tables, targets numbered without gaps, and
\* windows that end within their length of the demand they were opened by.
SInv ==
  /\ TypeOK /\ Links /\ Servable
  /\ jobs \subseteq Found
  /\ WindowsEnd
  /\ sceneUntil <= now + Window
  /\ \A u \in Urls : recent[u] <= now

LEMMA SInvLinks == SInv => Linked
BY Zenon DEF SInv, Linked, Links, Named

LEMMA WithLast ==
  ASSUME NEW g \in Group, NEW t \in Times
  PROVE  LET h == [g EXCEPT !.last = t] IN
         /\ h \in Group /\ h.last = t /\ h.order = g.order
         /\ h.failures = g.failures /\ h.served = g.served
<1> DEFINE h == [g EXCEPT !["last"] = t]
<1>1. h \in Group /\ h.last = t /\ h.order = g.order /\ h.failures = g.failures /\ h.served = g.served
  BY DEF Group
<1>2. [g EXCEPT !.last = t] = h
  BY Zenon
<1>3. QED
  BY <1>1, <1>2, Zenon

LEMMA WithServed ==
  ASSUME NEW g \in Group, NEW n \in Nat
  PROVE  LET h == [g EXCEPT !.served = n] IN
         h \in Group /\ h.last = g.last /\ h.order = g.order /\ h.failures = g.failures
<1> DEFINE h == [g EXCEPT !["served"] = n]
<1>1. h \in Group /\ h.last = g.last /\ h.order = g.order /\ h.failures = g.failures
  BY DEF Group
<1>2. [g EXCEPT !.served = n] = h
  BY Zenon
<1>3. QED
  BY <1>1, <1>2, Zenon

LEMMA WithFailure ==
  ASSUME NEW g \in Group
  PROVE  LET h == [g EXCEPT !.failures = @ + 1] IN
         h \in Group /\ h.last = g.last /\ h.order = g.order
<1> DEFINE h == [g EXCEPT !["failures"] = g.failures + 1]
<1>1. h \in Group /\ h.last = g.last /\ h.order = g.order
  BY DEF Group
<1>2. [g EXCEPT !.failures = @ + 1] = h
  BY Zenon
<1>3. QED
  BY <1>1, <1>2, Zenon

\* Groups h hold the same sources as g, with the same targets, numbered as they were.
SameTargets(g, h) ==
  /\ h \in [Urls -> Group \cup {NoRecord}]
  /\ \A s \in Urls : g[s] = NoRecord <=> h[s] = NoRecord
  /\ \A s \in Urls : g[s] # NoRecord => h[s].order = g[s].order

LEMMA WarmedKeeps ==
  ASSUME NEW g \in [Urls -> Group \cup {NoRecord}], NEW t,
         \A s \in Urls : s \in DOMAIN t => t[s] \in Times
  PROVE  /\ SameTargets(g, Warmed(g, t))
         /\ \A s \in Urls : g[s] # NoRecord => Warmed(g, t)[s].failures = g[s].failures
<1>1. ASSUME NEW s \in Urls
      PROVE  /\ Warmed(g, t)[s] \in Group \cup {NoRecord}
             /\ g[s] = NoRecord <=> Warmed(g, t)[s] = NoRecord
             /\ g[s] # NoRecord => /\ Warmed(g, t)[s].order = g[s].order
                                   /\ Warmed(g, t)[s].failures = g[s].failures
  <2>1. CASE s \in DOMAIN t /\ g[s] # NoRecord
    <3> DEFINE h == [g[s] EXCEPT !.last = Later(g[s].last, t[s])]
    <3>1. Warmed(g, t)[s] = h
      BY <2>1, Zenon DEF Warmed
    <3>2. g[s] \in Group /\ g[s].last \in Times
      BY <2>1 DEF Group
    <3>3. Later(g[s].last, t[s]) \in Times
      BY <2>1, <3>2, LaterIsTime
    <3>4. h \in Group /\ h.order = g[s].order /\ h.failures = g[s].failures
      BY <3>2, <3>3, WithLast, Zenon
    <3> HIDE DEF h
    <3>5. h # NoRecord
      BY <3>4, RecordsApart
    <3>6. QED
      BY <2>1, <3>1, <3>4, <3>5
  <2>2. CASE ~(s \in DOMAIN t /\ g[s] # NoRecord)
    <3>1. Warmed(g, t)[s] = g[s]
      BY <2>2, Zenon DEF Warmed
    <3>2. QED
      BY <3>1
  <2>3. QED
    BY <2>1, <2>2
<1>2. Warmed(g, t) = [s \in Urls |-> Warmed(g, t)[s]]
  BY Zenon DEF Warmed
<1>3. Warmed(g, t) \in [Urls -> Group \cup {NoRecord}]
  BY <1>1, <1>2
<1>4. QED
  BY <1>1, <1>3 DEF SameTargets

\* Steps that find nothing new keep the links.
LEMMA LinksKept ==
  ASSUME Links, SameTargets(groups, groups'), queue' \subseteq queue,
         UNCHANGED <<known, dependencies, weak>>
  PROVE  Links'
<1>1. Found' = Found /\ Sources' = Sources
  BY DEF Found, Sources, SameTargets
<1>2. \A s \in Sources : groups'[s].order = groups[s].order
  BY DEF Sources, SameTargets
<1>3. \A s \in Sources : Named(groups'[s].order) = Named(groups[s].order)
  BY <1>2 DEF Named
<1>4. QED
  BY <1>1, <1>2, <1>3 DEF Links

-----------------------------------------------------------------------------
(* The steps.                                                              *)

\* Sources that fail no more often vouch for what they vouched for.
LEMMA ServableKept ==
  ASSUME Links, Servable, SameTargets(groups, groups'), queue' \subseteq queue, UNCHANGED known,
         \A s \in Urls : groups[s] # NoRecord => groups'[s].failures = groups[s].failures
  PROVE  Servable'
<1>1. \A s \in Urls : Blocked(s)' = Blocked(s)
  BY DEF Blocked, SameTargets
<1>2. ASSUME NEW u \in queue' PROVE Unblocked(u)' # {}
  <2>1. PICK s \in known[u].sources : ~Blocked(s)
    BY <1>2 DEF Servable, Unblocked
  <2>2. s \in Urls
    BY <1>2, <2>1 DEF Links, Sources, Found
  <2>3. QED
    BY <1>1, <2>1, <2>2 DEF Unblocked
<1>3. QED
  BY <1>2 DEF Servable

LEMMA DemandKeeps ==
  ASSUME SInv, NEW u \in Urls, Demand(u)
  PROVE  SInv'
<1>0. TypeOK /\ Links /\ Servable /\ jobs \subseteq Found /\ WindowsEnd
      /\ sceneUntil <= now + Window /\ \A r \in Urls : recent[r] <= now
  BY DEF SInv
<1>1. UNCHANGED <<dependencies, weak, known, queue, ready, turn, now, jobs>>
  BY DEF Demand
<1>2. now \in Times /\ now >= 0 /\ now \in Nat /\ now <= MaxTime /\ now # LongAgo
  BY <1>0, ConstantTypes DEF TypeOK, Times
<1>3. CASE Cardinality(Asked) >= Capacity /\ u \notin Asked
  <2>1. limit' = "recent" /\ UNCHANGED <<recent, running, sceneUntil, windows, groups>>
    BY <1>3 DEF Demand
  <2>2. TypeOK'
    BY <1>0, <1>1, <2>1 DEF TypeOK
  <2>3. SameTargets(groups, groups')
    BY <1>0, <2>1 DEF SameTargets, TypeOK
  <2>4. Links' /\ Servable'
    BY <1>0, <1>1, <2>1, <2>3, LinksKept, ServableKept
  <2>5. WindowsEnd' /\ sceneUntil' <= now' + Window /\ (\A r \in Urls : recent'[r] <= now')
        /\ jobs' \subseteq Found'
    BY <1>0, <1>1, <2>1 DEF WindowsEnd, Found, Asked
  <2>6. QED
    BY <2>2, <2>4, <2>5 DEF SInv
<1>4. CASE ~(Cardinality(Asked) >= Capacity /\ u \notin Asked)
  <2>1. /\ recent' = [recent EXCEPT ![u] = now]
        /\ running' = running \cup {u}
        /\ sceneUntil' = IF u \in Battles THEN now + Window ELSE sceneUntil
        /\ windows' = IF now < sceneUntil' THEN Opened(u, sceneUntil') ELSE windows
        /\ groups' = IF u \in Found
                       THEN Warmed(groups, [s \in known[u].sources |-> now]) ELSE groups
        /\ UNCHANGED limit
    BY <1>4, Zenon DEF Demand
  <2>2. SameTargets(groups, groups')
        /\ \A s \in Urls : groups[s] # NoRecord => groups'[s].failures = groups[s].failures
    <3>1. groups \in [Urls -> Group \cup {NoRecord}]
      BY <1>0 DEF TypeOK
    <3>2. CASE u \notin Found
      BY <2>1, <3>1, <3>2 DEF SameTargets
    <3>3. CASE u \in Found
      <4> DEFINE t == [s \in known[u].sources |-> now]
      <4>1. \A s \in Urls : s \in DOMAIN t => t[s] \in Times
        BY <1>2
      <4>2. groups' = Warmed(groups, t)
        BY <2>1, <3>3
      <4> HIDE DEF t
      <4>3. QED
        BY <3>1, <4>1, <4>2, WarmedKeeps
    <3>4. QED
      BY <3>2, <3>3
  <2>3. sceneUntil' \in 0..(MaxTime + Window) /\ sceneUntil' <= now + Window
    BY <1>0, <1>2, <2>1, ConstantTypes DEF TypeOK
  <2>4. windows' \in [Urls -> 0..(MaxTime + Window)]
        /\ \A r \in Urls : windows'[r] = windows[r] \/ (r = u /\ windows'[r] = sceneUntil')
    BY <1>0, <2>1, <2>3 DEF TypeOK, Opened
  <2>5. recent' \in [Urls -> Times] /\ recent'[u] = now /\ \A r \in Urls \ {u} : recent'[r] = recent[r]
    BY <1>0, <1>2, <2>1 DEF TypeOK
  <2>6. TypeOK'
    <3>1. groups' \in [Urls -> Group \cup {NoRecord}]
      BY <2>2 DEF SameTargets
    <3>2. QED
      BY <1>0, <1>1, <2>1, <2>3, <2>4, <2>5, <3>1 DEF TypeOK
  <2>7. Links' /\ Servable'
    BY <1>0, <1>1, <2>2, LinksKept, ServableKept
  <2>8. WindowsEnd'
    <3> SUFFICES ASSUME NEW r \in Urls, windows'[r] > 0
                 PROVE  recent'[r] # LongAgo /\ windows'[r] <= recent'[r] + Window
      BY DEF WindowsEnd, Asked
    <3>1. CASE r # u
      BY <1>0, <2>4, <2>5, <3>1 DEF WindowsEnd, Asked
    <3>2. CASE r = u /\ windows'[r] = sceneUntil'
      BY <1>2, <2>3, <2>5, <3>2
    <3>3. CASE r = u /\ windows'[r] = windows[r]
      <4>1. windows[u] <= recent[u] + Window /\ recent[u] <= now /\ recent[u] \in Int
        BY <1>0, <3>3, ConstantTypes DEF WindowsEnd, TypeOK
      <4>2. windows[u] \in Int
        BY <1>0, ConstantTypes DEF TypeOK
      <4>3. QED
        BY <1>2, <2>5, <3>3, <4>1, <4>2, ConstantTypes
    <3>4. QED
      BY <2>4, <3>1, <3>2, <3>3
  <2>9. sceneUntil' <= now' + Window /\ (\A r \in Urls : recent'[r] <= now')
        /\ jobs' \subseteq Found'
    BY <1>0, <1>1, <1>2, <2>3, <2>5 DEF Found
  <2>10. QED
    BY <2>6, <2>7, <2>8, <2>9 DEF SInv
<1>5. QED
  BY <1>3, <1>4

LEMMA ResponseKeeps ==
  ASSUME SInv, NEW u \in Urls, NEW ok \in BOOLEAN, Response(u, ok)
  PROVE  SInv'
<1>1. running' = running \ {u} /\ ready' \in {ready, ready \cup {u}}
      /\ UNCHANGED <<groups, dependencies, weak, recent, known, queue, windows, sceneUntil,
                     turn, limit, now, jobs>>
  BY DEF Response
<1>2. TypeOK'
  BY <1>1 DEF SInv, TypeOK
<1>3. SameTargets(groups, groups')
  BY <1>1 DEF SInv, SameTargets, TypeOK
<1>4. Links' /\ Servable'
  BY <1>1, <1>3, LinksKept, ServableKept DEF SInv
<1>5. WindowsEnd' /\ sceneUntil' <= now' + Window /\ (\A r \in Urls : recent'[r] <= now')
      /\ jobs' \subseteq Found'
  BY <1>1 DEF SInv, WindowsEnd, Found, Asked
<1>6. QED
  BY <1>2, <1>4, <1>5 DEF SInv

LEMMA TickKeeps ==
  ASSUME SInv, Tick
  PROVE  SInv'
<1>1. now' = now + 1 /\ now < MaxTime
      /\ UNCHANGED <<groups, dependencies, weak, recent, known, queue, ready, running,
                     windows, sceneUntil, turn, limit, jobs>>
  BY DEF Tick
<1>2. now \in 0..MaxTime /\ sceneUntil \in Int /\ \A r \in Urls : recent[r] \in Int
  <2>1. TypeOK
    BY DEF SInv
  <2>2. recent \in [Urls -> Times] /\ now \in 0..MaxTime /\ sceneUntil \in Nat
    BY <2>1 DEF TypeOK
  <2>3. \A t \in Times : t \in Int
    BY DEF Times
  <2>4. QED
    BY <2>2, <2>3
<1>3. TypeOK'
  BY <1>1, <1>2, ConstantTypes DEF SInv, TypeOK
<1>4. SameTargets(groups, groups')
  BY <1>1 DEF SInv, SameTargets, TypeOK
<1>5. Links' /\ Servable'
  BY <1>1, <1>4, LinksKept, ServableKept DEF SInv
<1>6. WindowsEnd' /\ jobs' \subseteq Found'
  BY <1>1 DEF SInv, WindowsEnd, Found, Asked
<1>7. sceneUntil' <= now' + Window /\ \A r \in Urls : recent'[r] <= now'
  BY <1>1, <1>2, ConstantTypes DEF SInv
<1>8. QED
  BY <1>3, <1>5, <1>6, <1>7 DEF SInv

\* take() leaves the windows that are open as they are.
LEMMA TakeKeeps ==
  ASSUME SInv, Take
  PROVE  SInv'
<1>0. TypeOK /\ Links /\ Servable /\ jobs \subseteq Found /\ WindowsEnd
  BY DEF SInv
<1>1. UNCHANGED <<dependencies, weak, recent, known, ready, running, sceneUntil, limit, now>>
  BY DEF Take
<1>2. Eligible \subseteq queue
  BY DEF Eligible
<1> DEFINE Changes ==
             /\ SameTargets(groups, groups')
             /\ \A s \in Urls : groups[s] # NoRecord => groups'[s].failures = groups[s].failures
             /\ queue' \subseteq queue /\ turn' \in Nat
             /\ windows' \in [Urls -> 0..(MaxTime + Window)]
             /\ \A r \in Urls : windows'[r] \in {windows[r], 0}
             /\ jobs' \subseteq jobs \cup queue
<1>3. Changes
  <2>1. CASE TakeNothing
    BY <1>0, <2>1 DEF TakeNothing, SameTargets, TypeOK
  <2>2. ASSUME NEW c \in Candidates, TakeFirst(c[1], c[2])
        PROVE  Changes
    <3>1. c[1] \in Sources /\ c[2] \in Eligible /\ c[1] \in Urls
      BY <2>2 DEF Candidates, Sources
    <3> DEFINE t == [r \in {r \in Urls : Chain(r) # LongAgo} |-> Chain(r)]
               w == Warmed(groups, t)
    <3>2. /\ groups' = [w EXCEPT ![c[1]] = [w[c[1]] EXCEPT !.served = turn + 1]]
          /\ queue' = Eligible \ {c[2]}
          /\ windows' = [r \in Urls |-> IF now < windows[r] THEN windows[r] ELSE 0]
          /\ turn' = turn + 1
          /\ jobs' = jobs \cup {c[2]}
      BY <2>2, Zenon DEF TakeFirst
    <3>3. \A r \in Urls : r \in DOMAIN t => t[r] \in Times
      BY <1>0, ChainIsTime DEF TypeOK
    <3>4. /\ SameTargets(groups, w)
          /\ \A s \in Urls : groups[s] # NoRecord => w[s].failures = groups[s].failures
      <4> HIDE DEF t
      <4>1. QED
        BY <1>0, <3>3, WarmedKeeps DEF TypeOK
    <3> HIDE DEF t, w
    <3> DEFINE h == [w[c[1]] EXCEPT !.served = turn + 1]
    <3>5. w[c[1]] \in Group /\ groups[c[1]] # NoRecord
      BY <3>1, <3>4 DEF SameTargets, Sources
    <3>6. h \in Group /\ h.order = w[c[1]].order /\ h.failures = w[c[1]].failures
      <4>1. turn + 1 \in Nat
        BY <1>0 DEF TypeOK
      <4>2. QED
        BY <3>5, <4>1, WithServed, Zenon
    <3>7. h # NoRecord
      BY <3>6, RecordsApart
    <3>8. groups' = [w EXCEPT ![c[1]] = h]
      BY <3>2
    <3> HIDE DEF h
    <3>9. SameTargets(groups, groups')
          /\ \A s \in Urls : groups[s] # NoRecord => groups'[s].failures = groups[s].failures
      BY <3>1, <3>4, <3>5, <3>6, <3>7, <3>8 DEF SameTargets
    <3>10. windows' \in [Urls -> 0..(MaxTime + Window)]
           /\ \A r \in Urls : windows'[r] \in {windows[r], 0}
      BY <1>0, <3>2, ConstantTypes DEF TypeOK
    <3>11. turn' \in Nat /\ queue' \subseteq queue /\ jobs' \subseteq jobs \cup queue
      BY <1>0, <1>2, <3>1, <3>2 DEF TypeOK
    <3>12. QED
      BY <3>9, <3>10, <3>11
  <2>3. QED
    BY <2>1, <2>2 DEF Take
<1>4. TypeOK'
  <2>1. jobs' \subseteq Urls /\ queue' \subseteq Urls /\ groups' \in [Urls -> Group \cup {NoRecord}]
    BY <1>0, <1>3 DEF TypeOK, SameTargets
  <2>2. QED
    BY <1>0, <1>1, <1>3, <2>1 DEF TypeOK
<1>5. Links' /\ Servable'
  BY <1>0, <1>1, <1>3, LinksKept, ServableKept
<1>6. jobs' \subseteq Found'
  BY <1>0, <1>1, <1>3 DEF Links, Found
<1>7. WindowsEnd'
  BY <1>0, <1>1, <1>3 DEF WindowsEnd, Asked
<1>8. QED
  BY <1>1, <1>4, <1>5, <1>6, <1>7 DEF SInv

LEMMA CompleteKeeps ==
  ASSUME SInv, NEW u \in Urls, NEW code \in {"ok", "missing", "failed"}, Complete(u, code)
  PROVE  SInv'
<1>0. TypeOK /\ Links /\ Servable /\ jobs \subseteq Found /\ WindowsEnd
  BY DEF SInv
<1>1. /\ u \in jobs /\ jobs' = jobs \ {u} /\ ready' \in {ready, ready \cup {u}}
      /\ UNCHANGED <<dependencies, weak, recent, known, running, windows, sceneUntil,
                     turn, limit, now>>
  BY DEF Complete
<1>2. SameTargets(groups, groups') /\ queue' \subseteq queue /\ Servable'
  <2>1. CASE code # "missing"
    <3>1. UNCHANGED <<groups, queue>>
      BY <2>1 DEF Complete
    <3>2. SameTargets(groups, groups')
      BY <1>0, <3>1 DEF SameTargets, TypeOK
    <3>3. QED
      BY <1>0, <1>1, <3>1, <3>2, ServableKept
  <2>2. CASE code = "missing"
    <3> DEFINE h(s) == [groups[s] EXCEPT !.failures = @ + 1]
    <3>1. /\ groups' = [s \in Urls |-> IF s \in known[u].sources THEN h(s) ELSE groups[s]]
          /\ queue' = Pruned(groups')
      BY <2>2, Zenon DEF Complete
    <3>2. known[u].sources \subseteq Sources
      BY <1>0, <1>1 DEF Links
    <3>3. \A s \in Sources : h(s) \in Group /\ h(s).order = groups[s].order /\ h(s) # NoRecord
      <4> SUFFICES ASSUME NEW s \in Sources
                   PROVE  h(s) \in Group /\ h(s).order = groups[s].order /\ h(s) # NoRecord
        OBVIOUS
      <4>1. groups[s] \in Group
        BY <1>0 DEF Sources, TypeOK
      <4>2. h(s) \in Group /\ h(s).order = groups[s].order
        BY <4>1, WithFailure, Zenon
      <4>3. QED
        BY <4>2, RecordsApart
    <3> HIDE DEF h
    <3>4. groups \in [Urls -> Group \cup {NoRecord}]
      BY <1>0 DEF TypeOK
    <3>5. SameTargets(groups, groups')
      BY <3>1, <3>2, <3>3, <3>4 DEF SameTargets, Sources
    <3>6. queue' = {v \in queue : \E s \in known[v].sources : groups'[s].failures < MaxFailures}
      BY <3>1 DEF Pruned
    <3>7. Servable'
      <4> SUFFICES ASSUME NEW v \in queue' PROVE Unblocked(v)' # {}
        BY DEF Servable
      <4>1. PICK s \in known[v].sources : groups'[s].failures < MaxFailures
        BY <3>6
      <4>2. s \in Sources /\ s \in Urls
        BY <1>0, <3>6, <4>1 DEF Links, Sources
      <4>3. groups'[s] \in Group
        BY <3>5, <4>2 DEF SameTargets, Sources
      <4>4. groups'[s].failures \in Nat
        BY <4>3 DEF Group
      <4>5. ~Blocked(s)'
        BY <4>1, <4>4, ConstantTypes DEF Blocked
      <4>6. QED
        BY <1>1, <4>1, <4>5 DEF Unblocked
    <3>8. QED
      BY <3>5, <3>6, <3>7
  <2>3. QED
    BY <2>1, <2>2
<1>3. TypeOK'
  <2>1. groups' \in [Urls -> Group \cup {NoRecord}] /\ queue' \subseteq Urls
    BY <1>0, <1>2 DEF TypeOK, SameTargets
  <2>2. QED
    BY <1>0, <1>1, <2>1 DEF TypeOK
<1>4. Links'
  BY <1>0, <1>1, <1>2, LinksKept
<1>5. jobs' \subseteq Found' /\ WindowsEnd'
  BY <1>0, <1>1 DEF Found, WindowsEnd, Asked
<1>6. QED
  BY <1>1, <1>2, <1>3, <1>4, <1>5 DEF SInv

LEMMA DisjointUnion ==
  ASSUME NEW A, NEW B, IsFiniteSet(A), IsFiniteSet(B), A \cap B = {}
  PROVE  Cardinality(A \cup B) = Cardinality(A) + Cardinality(B)
<1>1. Cardinality(A) \in Nat /\ Cardinality(B) \in Nat
  BY FS_CardinalityType
<1>2. Cardinality(A \cup B) = Cardinality(A) + Cardinality(B) - Cardinality(A \cap B)
  BY FS_Union
<1>3. Cardinality(A \cap B) = 0
  BY FS_EmptySet
<1>4. QED
  BY <1>1, <1>2, <1>3

\* New targets of a source get the numbers after those it named.
LEMMA Renumbered ==
  ASSUME NEW refs, References(refs), NEW o \in [Urls -> Nat],
         \A u, v \in Named(o) : o[u] = o[v] => u = v, \A u \in Urls : o[u] <= Cardinality(Named(o))
  PROVE  /\ Numbered(o, refs) \in [Urls -> Nat]
         /\ Named(Numbered(o, refs)) = Named(o) \cup Targets(refs)
         /\ \A u, v \in Named(Numbered(o, refs)) :
              Numbered(o, refs)[u] = Numbered(o, refs)[v] => u = v
         /\ \A u \in Urls : Numbered(o, refs)[u] <= Cardinality(Named(Numbered(o, refs)))
<1> DEFINE N == Named(o)
<1>0. N \in SUBSET Urls /\ \A u \in Urls : u \in N <=> o[u] # 0
  BY DEF Named
<1> DEFINE S == Targets(refs) \ N
           r == [u \in S |-> Rank(refs, At(refs, u), S)]
           m == Cardinality(N)
           n == Cardinality(S)
           p == [u \in Urls |-> IF u \in S THEN m + Rank(refs, At(refs, u), S) ELSE o[u]]
<1>1. S \in SUBSET Urls /\ Targets(refs) \cap S = S /\ N \cup Targets(refs) = N \cup S /\ N \cap S = {}
  BY <1>0, TargetsAt
<1>2. r \in [S -> 1..n] /\ n \in Nat /\ IsFiniteSet(S) /\ \A u, v \in S : r[u] = r[v] => u = v
  <2>1. \A u \in S : Rank(refs, At(refs, u), S) \in 1..n
    BY <1>1, Numbering, Zenon
  <2>2. \A u, v \in S : Rank(refs, At(refs, u), S) = Rank(refs, At(refs, v), S) => u = v
    BY <1>1, Numbering, Zenon
  <2>3. IsFiniteSet(S) /\ n \in Nat
    BY <1>1, SubsetsOfUrls
  <2>4. QED
    BY <2>1, <2>2, <2>3
<1>3. m \in Nat /\ IsFiniteSet(N)
  BY <1>0, SubsetsOfUrls
<1>4. Cardinality(N \cup S) = m + n
  BY <1>1, <1>2, <1>3, DisjointUnion
<1>5. p = [u \in Urls |-> IF u \in S THEN m + r[u] ELSE o[u]]
  OBVIOUS
<1> HIDE DEF p, r, S, m, n, N
<1>6. \A u \in Urls : o[u] <= m
  BY DEF m, N
<1>7. /\ p \in [Urls -> Nat]
      /\ \A u \in Urls : u \in N \cup S <=> p[u] # 0
      /\ \A u, v \in N \cup S : p[u] = p[v] => u = v
      /\ \A u \in Urls : p[u] <= m + n
  <2>1. \A u \in S : p[u] = m + r[u] /\ r[u] \in 1..n
    BY <1>0, <1>1, <1>2, <1>5
  <2>2. \A u \in Urls \ S : p[u] = o[u] /\ o[u] \in Nat /\ o[u] <= m
    BY <1>5, <1>6
  <2>3. \A u \in S : p[u] \in Nat /\ p[u] > m /\ p[u] <= m + n
    BY <1>2, <1>3, <2>1
  <2>4. \A u \in Urls : p[u] \in Nat /\ p[u] <= m + n
    BY <1>2, <1>3, <2>2, <2>3
  <2>5. p \in [Urls -> Nat]
    BY <1>5, <2>4
  <2>6. \A u \in Urls : u \in N \cup S <=> p[u] # 0
    BY <1>0, <1>1, <1>3, <2>2, <2>3
  <2>7. ASSUME NEW u \in N \cup S, NEW v \in N \cup S, p[u] = p[v] PROVE u = v
    <3>1. CASE u \in S /\ v \in S
      BY <1>2, <1>3, <2>1, <2>7, <3>1
    <3>2. CASE u \in N /\ v \in N
      BY <1>0, <1>1, <2>2, <2>7, <3>2 DEF N
    <3>3. ~(u \in N /\ v \in S) /\ ~(u \in S /\ v \in N)
      BY <1>0, <1>1, <1>3, <2>2, <2>3, <2>7
    <3>4. QED
      BY <2>7, <3>1, <3>2, <3>3
  <2>8. QED
    BY <2>4, <2>5, <2>6, <2>7
<1>8. /\ p \in [Urls -> Nat]
      /\ \A u \in Urls : u \in N \cup Targets(refs) <=> p[u] # 0
      /\ \A u, v \in N \cup Targets(refs) : p[u] = p[v] => u = v
      /\ \A u \in Urls : p[u] <= Cardinality(N \cup Targets(refs))
  BY <1>1, <1>4, <1>7
<1>9. Numbered(o, refs) = p
  BY Zenon DEF Numbered, p, S, m, N
<1>10. Named(p) = N \cup Targets(refs)
  BY <1>0, <1>1, <1>8 DEF Named
<1>11. QED
  BY <1>8, <1>9, <1>10 DEF N

\* The numbers w of the targets K are 1 to as many as there are.
Sequenced(w, K) ==
  /\ \A u \in K : w[u] \in 1..Cardinality(K)
  /\ \A m \in 1..Cardinality(K) : \E u \in K : w[u] = m

\* New targets get the sequence numbers after those of the targets there are.
LEMMA Resequenced ==
  ASSUME NEW refs, References(refs), NEW K \in SUBSET Urls, NEW w,
         Sequenced(w, K),
         \A u \in Targets(refs) \ K :
           w[u] = Cardinality(K) + Rank(refs, At(refs, u), Urls \ K)
  PROVE  Sequenced(w, K \cup Targets(refs))
<1> DEFINE S == Urls \ K
           N == Targets(refs) \cap S
           r(u) == Rank(refs, At(refs, u), S)
           k == Cardinality(K)
           n == Cardinality(N)
<1>1. Targets(refs) \subseteq Urls /\ N = Targets(refs) \ K /\ K \cap N = {}
      /\ K \cup Targets(refs) = K \cup N
  BY TargetsAt
<1>2. IsFiniteSet(K) /\ k \in Nat
  BY SubsetsOfUrls
<1>3. /\ IsFiniteSet(N) /\ n \in Nat
      /\ \A u \in N : r(u) \in 1..n
      /\ \A m \in 1..n : \E u \in N : r(u) = m
  BY Numbering
<1>4. \A u \in N : w[u] = k + r(u)
  BY <1>1
<1>5. Cardinality(K \cup N) = k + n
  <2> HIDE DEF N
  <2>1. QED
    BY <1>1, <1>2, <1>3, DisjointUnion
<1>6. \A u \in K : w[u] \in 1..k
  BY DEF Sequenced
<1>7. \A m \in 1..k : \E u \in K : w[u] = m
  BY DEF Sequenced
<1> HIDE DEF N, r, k, n
<1>8. \A u \in K \cup N : w[u] \in 1..(k + n)
  BY <1>2, <1>3, <1>4, <1>6
<1>9. ASSUME NEW m \in 1..(k + n) PROVE \E u \in K \cup N : w[u] = m
  <2>1. CASE m <= k
    <3>1. m \in 1..k
      BY <1>2, <1>3, <2>1
    <3>2. QED
      BY <1>7, <3>1
  <2>2. CASE m > k
    <3>1. m - k \in 1..n
      BY <1>2, <1>3, <2>2
    <3>2. PICK u \in N : r(u) = m - k
      BY <1>3, <3>1
    <3>3. w[u] = m
      BY <1>2, <1>3, <1>4, <3>2
    <3>4. QED
      BY <3>3
  <2>3. QED
    BY <1>2, <1>3, <2>1, <2>2
<1>10. QED
  BY <1>1, <1>5, <1>8, <1>9 DEF Sequenced

LEMMA DiscoverKeeps ==
  ASSUME SInv, NEW s \in Urls, NEW refs \in Bodies[s], Discover(s, refs)
  PROVE  /\ SInv'
         /\ \/ Found' = Found /\ queue' = queue
            \/ Found' = Found \cup Targets(refs) /\ queue' = Queued(Targets(refs))
<1>0. TypeOK /\ Links /\ Servable /\ jobs \subseteq Found /\ WindowsEnd
  BY DEF SInv
<1>1. UNCHANGED <<recent, ready, running, windows, sceneUntil, turn, now, jobs>> /\ ~Blocked(s)
  BY DEF Discover
<1>2. References(refs)
  BY BodiesAreReferences
<1>3. WindowsEnd' /\ sceneUntil' <= now' + Window /\ \A r \in Urls : recent'[r] <= now'
  BY <1>1 DEF SInv, WindowsEnd, Asked
<1>4. CASE Cardinality(Sources) >= Capacity /\ s \notin Sources
  <2>1. limit' = "groups" /\ UNCHANGED <<groups, dependencies, weak, known, queue>>
    BY <1>4 DEF Discover
  <2>2. TypeOK'
    BY <1>0, <1>1, <2>1 DEF TypeOK
  <2>3. SameTargets(groups, groups')
    BY <1>0, <2>1 DEF SameTargets, TypeOK
  <2>4. Links' /\ Servable'
    BY <1>0, <2>1, <2>3, LinksKept, ServableKept
  <2>5. jobs' \subseteq Found' /\ Found' = Found
    BY <1>0, <1>1, <2>1 DEF Found
  <2>6. QED
    BY <1>3, <2>1, <2>2, <2>4, <2>5 DEF SInv
<1>5. CASE ~(Cardinality(Sources) >= Capacity /\ s \notin Sources)
  <2> DEFINE targets == Targets(refs)
             Weak(u) == Inherited(s) \/ Deferred(refs, u)
             old == IF groups[s] = NoRecord THEN NewGroup ELSE groups[s]
             named == Named(old.order)
             order == Numbered(old.order, refs)
             g == [last |-> Later(old.last, Chain(s)), served |-> old.served,
                   order |-> order, failures |-> old.failures]
             job(u) == IF u \notin targets THEN known[u]
                       ELSE IF u \in Found
                         THEN [sequence |-> known[u].sequence, sources |-> AllSources(u, s),
                               speculative |-> known[u].speculative /\ Weak(u)]
                         ELSE [sequence |-> Cardinality(Found)
                                              + Rank(refs, At(refs, u), Urls \ Found),
                               sources |-> {s}, speculative |-> Weak(u)]
  <2>1. /\ groups' = [groups EXCEPT ![s] = g]
        /\ known' = [u \in Urls |-> job(u)]
        /\ queue' = Queued(targets)
        /\ dependencies' = dependencies \cup {<<s, u>> : u \in {u \in targets : ~Deferred(refs, u)}}
        /\ weak' = weak \cup {<<s, u>> : u \in {u \in targets : Deferred(refs, u)}}
        /\ limit' = IF Accepted(refs) = DOMAIN refs THEN limit ELSE "candidates"
    BY <1>5, Zenon DEF Discover
  <2>2. targets \subseteq Urls /\ \A u \in targets : Deferred(refs, u) \in BOOLEAN
    BY <1>2, TargetsAt
  <2>3. /\ old \in Group /\ old.failures < MaxFailures
        /\ groups[s] # NoRecord => old = groups[s]
        /\ groups[s] = NoRecord => \A u \in Urls : old.order[u] = 0
    <3>1. groups[s] # NoRecord => groups[s] \in Group
      BY <1>0 DEF TypeOK
    <3>2. NewGroup \in Group /\ NewGroup.failures = 0 /\ \A u \in Urls : NewGroup.order[u] = 0
      BY ConstantTypes DEF NewGroup, Group
    <3>3. groups[s] # NoRecord => groups[s].failures < MaxFailures
      <4>1. groups[s] # NoRecord => groups[s].failures \in Nat
        BY <3>1 DEF Group
      <4>2. QED
        BY <1>1, <4>1, ConstantTypes DEF Blocked
    <3>4. QED
      BY <3>1, <3>2, <3>3, ConstantTypes
  <2>4. /\ \A u \in named : u \in Found /\ s \in known[u].sources /\ s \in Sources
        /\ \A u \in Urls : u \in named <=> u \in Found /\ s \in known[u].sources
        /\ \A u, v \in named : old.order[u] = old.order[v] => u = v
        /\ \A u \in Urls : old.order[u] <= Cardinality(named)
    <3>1. CASE groups[s] = NoRecord
      <4>2. \A u \in Urls : old.order[u] = 0
        BY <2>3, <3>1
      <4>1. named = {} /\ s \notin Sources
        BY <3>1, <4>2 DEF Sources, Named
      <4>3. Cardinality(named) = 0
        BY <4>1, FS_EmptySet
      <4>4. \A u \in Found : s \notin known[u].sources
        BY <1>0, <4>1 DEF Links
      <4> HIDE DEF named, old
      <4>5. QED
        BY <4>1, <4>2, <4>3, <4>4
    <3>2. CASE groups[s] # NoRecord
      <4>1. old = groups[s] /\ s \in Sources /\ named = Named(groups[s].order)
        BY <2>3, <3>2 DEF Sources
      <4>2. Named(groups[s].order) = {u \in Found : s \in known[u].sources}
        BY <1>0, <4>1 DEF Links
      <4>3. \A u \in Named(groups[s].order) : groups[s].order[u] # 0
        BY DEF Named
      <4>4. \A u \in Urls : groups[s].order[u] <= Cardinality(Named(groups[s].order))
        BY <1>0, <4>1 DEF Links
      <4>5. \A u, v \in Named(groups[s].order) : groups[s].order[u] = groups[s].order[v] => u = v
        BY <1>0, <4>1, <4>2, <4>3 DEF Links
      <4> HIDE DEF named, old
      <4>6. QED
        BY <4>1, <4>2, <4>4, <4>5 DEF Found
    <3>3. QED
      BY <3>1, <3>2
  <2>5. /\ order \in [Urls -> Nat]
        /\ Named(order) = named \cup targets
        /\ \A u, v \in Named(order) : order[u] = order[v] => u = v
        /\ \A u \in Urls : order[u] <= Cardinality(Named(order))
    <3>1. old.order \in [Urls -> Nat]
      BY <2>3 DEF Group
    <3> HIDE DEF old
    <3>2. QED
      BY <1>2, <2>4, <3>1, Renumbered
  <2>6. g \in Group /\ g # NoRecord /\ g.order = order /\ g.failures = old.failures
    <3>1. Chain(s) \in Times
      BY <1>0, ChainIsTime DEF TypeOK
    <3>2. old.last \in Times /\ old.served \in Nat /\ old.failures \in Nat
      BY <2>3 DEF Group
    <3>3. Later(old.last, Chain(s)) \in Times
      BY <3>1, <3>2, LaterIsTime
    <3> HIDE DEF old, order
    <3>4. g \in Group /\ g.order = order /\ g.failures = old.failures
      BY <2>5, <3>2, <3>3 DEF Group
    <3> HIDE DEF g
    <3>5. QED
      BY <3>4, RecordsApart
  <2>7. /\ \A u \in Urls \ targets : known'[u] = known[u]
        /\ \A u \in targets \cap Found :
             /\ known'[u] \in Job /\ known'[u].sequence = known[u].sequence
             /\ known'[u].sources = known[u].sources \cup {s}
        /\ \A u \in targets \ Found :
             /\ known'[u] \in Job
             /\ known'[u].sequence = Cardinality(Found) + Rank(refs, At(refs, u), Urls \ Found)
             /\ known'[u].sources = {s}
    <3>1. \A u \in Urls : known'[u] = job(u)
      BY <2>1
    <3>2. \A u \in Found : known[u] \in Job
      BY <1>0 DEF Found, TypeOK
    <3>3. \A u \in targets : Weak(u) \in BOOLEAN
      <4>1. Inherited(s) \in BOOLEAN
        BY Zenon DEF Inherited
      <4>2. QED
        BY <2>2, <4>1, Zenon
    <3> HIDE DEF Weak
    <3>4. ASSUME NEW u \in targets \cap Found
          PROVE  /\ known'[u] \in Job /\ known'[u].sequence = known[u].sequence
                 /\ known'[u].sources = known[u].sources \cup {s}
      <4> DEFINE spec == known[u].speculative /\ Weak(u)
      <4>1. u \in Urls /\ known[u].sequence \in Nat /\ known[u].sources \subseteq Urls
        BY <2>2, <3>2 DEF Job
      <4>2. spec \in BOOLEAN
        BY Zenon
      <4>3. known'[u] = [sequence |-> known[u].sequence, sources |-> known[u].sources \cup {s},
                         speculative |-> spec]
        <5>1. known'[u] = job(u)
          BY <3>1, <4>1
        <5>2. QED
          BY <5>1, Zenon DEF AllSources
      <4> HIDE DEF spec
      <4>4. QED
        BY <4>1, <4>2, <4>3 DEF Job
    <3>5. ASSUME NEW u \in targets \ Found
          PROVE  /\ known'[u] \in Job
                 /\ known'[u].sequence = Cardinality(Found) + Rank(refs, At(refs, u), Urls \ Found)
                 /\ known'[u].sources = {s}
      <4> DEFINE n == Cardinality(Found) + Rank(refs, At(refs, u), Urls \ Found)
      <4>1. u \in Urls /\ u \in targets /\ u \notin Found
        BY <2>2
      <4>2. n \in Nat
        <5>1. Cardinality(Found) \in Nat
          BY SubsetsOfUrls DEF Found
        <5>2. At(refs, u) \in DOMAIN refs
          BY <1>2, <4>1, TargetsAt
        <5>3. Rank(refs, At(refs, u), Urls \ Found) \in Nat
          BY <1>2, <5>2, AheadFinite
        <5>4. QED
          BY <5>1, <5>3
      <4>3. known'[u] = [sequence |-> n, sources |-> {s}, speculative |-> Weak(u)]
        <5>1. known'[u] = job(u)
          BY <3>1, <4>1
        <5>2. QED
          BY <4>1, <5>1, Zenon
      <4> HIDE DEF n
      <4>4. known'[u] \in Job /\ known'[u].sequence = n /\ known'[u].sources = {s}
        BY <3>3, <4>1, <4>2, <4>3 DEF Job
      <4>5. QED
        BY <4>4 DEF n
    <3>6. \A u \in Urls \ targets : known'[u] = known[u]
      BY <3>1
    <3>7. QED
      BY <3>4, <3>5, <3>6
  <2> HIDE DEF job, g, order, old
  <2>8. /\ groups' \in [Urls -> Group \cup {NoRecord}]
        /\ groups'[s] = g /\ \A r \in Urls \ {s} : groups'[r] = groups[r]
        /\ Sources' = Sources \cup {s}
    <3>1. groups \in [Urls -> Group \cup {NoRecord}]
      BY <1>0 DEF TypeOK
    <3>2. QED
      BY <2>1, <2>6, <3>1 DEF Sources
  <2>9. known' \in [Urls -> Job \cup {NoRecord}] /\ Found' = Found \cup targets
    <3>1. known \in [Urls -> Job \cup {NoRecord}]
      BY <1>0 DEF TypeOK
    <3>2. \A u \in targets : known'[u] \in Job /\ known'[u] # NoRecord
      BY <2>7, RecordsApart
    <3>3. known' = [u \in Urls |-> known'[u]]
      BY <2>1
    <3>4. known' \in [Urls -> Job \cup {NoRecord}]
      BY <2>7, <3>1, <3>2, <3>3
    <3>5. QED
      BY <2>2, <2>7, <3>2, <3>4 DEF Found
  <2>10. queue' \subseteq queue \cup targets
    BY <2>1 DEF Queued
  <2>11. \A r, u \in Urls :
           <<r, u>> \in dependencies' \cup weak' <=>
             <<r, u>> \in dependencies \cup weak \/ (r = s /\ u \in targets)
    BY <2>1, <2>2
  <2>12. TypeOK'
    <3>1. dependencies' \subseteq Urls \X Urls /\ weak' \subseteq Urls \X Urls /\ queue' \subseteq Urls
      BY <1>0, <2>1, <2>2, <2>10 DEF TypeOK
    <3>2. limit' \in {"none", "recent", "groups", "candidates"}
      BY <1>0, <2>1 DEF TypeOK
    <3>3. QED
      BY <1>0, <1>1, <2>8, <2>9, <3>1, <3>2 DEF TypeOK
  <2> HIDE DEF targets
  <2>13. Links'
    <3> DEFINE of(r) == {u \in Found : r \in known[u].sources}
    <3>1. queue' \subseteq Found'
      BY <1>0, <2>9, <2>10 DEF Links
    <3>2. \A u \in Found' : known'[u].sources # {} /\ known'[u].sources \subseteq Sources'
      <4> SUFFICES ASSUME NEW u \in Found'
                   PROVE  known'[u].sources # {} /\ known'[u].sources \subseteq Sources'
        OBVIOUS
      <4>1. CASE u \in Found
        <5>1. known[u].sources # {} /\ known[u].sources \subseteq Sources
          BY <1>0, <4>1 DEF Links
        <5>2. known'[u].sources \in {known[u].sources, known[u].sources \cup {s}}
          BY <2>7, <4>1 DEF Found
        <5>3. QED
          BY <2>8, <5>1, <5>2
      <4>2. CASE u \notin Found
        BY <2>7, <2>8, <2>9, <4>2
      <4>3. QED
        BY <4>1, <4>2
    <3>3. \A r, u \in Urls : u \in Found' /\ r \in known'[u].sources <=>
            (u \in Found /\ r \in known[u].sources) \/ (r = s /\ u \in targets)
      BY <2>2, <2>7, <2>9
    <3>4. \A r, u \in Urls :
            <<r, u>> \in dependencies' \cup weak' <=> u \in Found' /\ r \in known'[u].sources
      BY <1>0, <2>11, <3>3 DEF Links
    <3>5. ASSUME NEW r \in Sources'
          PROVE  /\ Named(groups'[r].order) = {u \in Found' : r \in known'[u].sources}
                 /\ \A u, v \in Found' : groups'[r].order[u] = groups'[r].order[v]
                                         /\ groups'[r].order[u] # 0 => u = v
                 /\ \A u \in Urls : groups'[r].order[u] <= Cardinality(Named(groups'[r].order))
      <4>0. \A o : Named(o) \subseteq Urls /\ \A u \in Urls : u \in Named(o) <=> o[u] # 0
        BY DEF Named
      <4>1. CASE r = s
        <5>1. groups'[r].order = order
          BY <2>6, <2>8, <4>1
        <5>2. \A u \in Urls : u \in Named(order) <=> u \in Found' /\ s \in known'[u].sources
          BY <2>2, <2>4, <2>5, <3>3
        <5>3. Named(order) = {u \in Found' : s \in known'[u].sources}
          BY <4>0, <5>2 DEF Found
        <5>4. \A u, v \in Found' : order[u] = order[v] /\ order[u] # 0 => u = v
          BY <2>5, <4>0 DEF Found
        <5>5. QED
          BY <2>5, <4>1, <5>1, <5>3, <5>4
      <4>2. CASE r # s
        <5>1. r \in Sources /\ groups'[r] = groups[r] /\ r \in Urls
          BY <2>8, <4>2 DEF Sources
        <5>2. Named(groups[r].order) = {u \in Found : r \in known[u].sources}
          BY <1>0, <5>1 DEF Links
        <5>3. {u \in Found' : r \in known'[u].sources} = {u \in Found : r \in known[u].sources}
          BY <3>3, <4>2, <5>1 DEF Found
        <5>4. \A u, v \in Found : groups[r].order[u] = groups[r].order[v]
                                  /\ groups[r].order[u] # 0 => u = v
          BY <1>0, <5>1 DEF Links
        <5>5. \A u \in Urls : groups[r].order[u] # 0 => u \in Found
          BY <4>0, <5>2
        <5>6. \A u, v \in Found' : groups[r].order[u] = groups[r].order[v]
                                   /\ groups[r].order[u] # 0 => u = v
          BY <5>4, <5>5 DEF Found
        <5>7. \A u \in Urls : groups[r].order[u] <= Cardinality(Named(groups[r].order))
          BY <1>0, <5>1 DEF Links
        <5>8. QED
          BY <5>1, <5>2, <5>3, <5>6, <5>7
      <4>3. QED
        BY <4>1, <4>2
    <3>6. {known'[u].sequence : u \in Found'} = 1..Cardinality(Found')
      <4> DEFINE w == [u \in Urls |-> known'[u].sequence]
                 k == Cardinality(Found)
      <4>1. Found \in SUBSET Urls /\ Found' \in SUBSET Urls
        BY DEF Found
      <4>2. {known[u].sequence : u \in Found} = 1..k
        BY <1>0 DEF Links
      <4>3. \A u \in Found : w[u] = known[u].sequence
        BY <2>7, <4>1
      <4>4. Sequenced(w, Found)
        BY <4>2, <4>3 DEF Sequenced
      <4>5. \A u \in targets \ Found : w[u] = k + Rank(refs, At(refs, u), Urls \ Found)
        BY <2>2, <2>7
      <4>6. \A u \in Urls : known'[u].sequence = w[u]
        OBVIOUS
      <4> HIDE DEF w
      <4>7. Sequenced(w, Found \cup targets)
        BY <1>2, <4>1, <4>4, <4>5, Resequenced DEF targets
      <4>8. {w[u] : u \in Found'} = 1..Cardinality(Found')
        BY <2>9, <4>7 DEF Sequenced
      <4>9. QED
        BY <4>1, <4>6, <4>8
    <3>7. QED
      BY <3>1, <3>2, <3>4, <3>5, <3>6 DEF Links
  <2>14. Servable'
    <3>1. \A r \in Urls : ~Blocked(r) /\ (r = s \/ groups[r] # NoRecord) => ~Blocked(r)'
      <4>1. ~Blocked(s)'
        <5>1. old.failures \in Nat /\ old.failures < MaxFailures
          BY <2>3 DEF Group
        <5>2. groups'[s].failures = old.failures
          BY <2>6, <2>8
        <5>3. QED
          BY <5>1, <5>2, ConstantTypes DEF Blocked
      <4>2. \A r \in Urls \ {s} : Blocked(r)' <=> Blocked(r)
        BY <2>8 DEF Blocked
      <4>3. QED
        BY <4>1, <4>2
    <3> SUFFICES ASSUME NEW u \in queue' PROVE Unblocked(u)' # {}
      BY DEF Servable
    <3>2. CASE u \in targets
      <4>1. s \in known'[u].sources
        BY <2>7, <3>2
      <4>2. QED
        BY <1>1, <3>1, <4>1 DEF Unblocked
    <3>3. CASE u \notin targets
      <4>1. u \in queue /\ u \in Found /\ known'[u] = known[u]
        BY <1>0, <2>7, <2>10, <3>3 DEF Links, Found
      <4>2. PICK r \in known[u].sources : ~Blocked(r)
        BY <1>0, <4>1 DEF Servable, Unblocked
      <4>3. r \in Urls /\ groups[r] # NoRecord
        BY <1>0, <4>1, <4>2 DEF Links, Sources
      <4>4. QED
        BY <3>1, <4>1, <4>2, <4>3 DEF Unblocked
    <3>4. QED
      BY <3>2, <3>3
  <2>15. jobs' \subseteq Found'
    BY <1>0, <1>1, <2>9
  <2>16. Found' = Found \cup Targets(refs) /\ queue' = Queued(Targets(refs))
    BY <2>1, <2>9 DEF targets
  <2>17. QED
    BY <1>3, <2>12, <2>13, <2>14, <2>15, <2>16 DEF SInv
<1>6. QED
  BY <1>4, <1>5

LEMMA InitHolds == Init => SInv
<1> SUFFICES ASSUME Init PROVE SInv
  OBVIOUS
<1>1. TypeOK
  BY ConstantTypes DEF Init, TypeOK
<1>2. Found = {} /\ Sources = {} /\ Asked = {}
  BY DEF Init, Found, Sources, Asked
<1>3. Cardinality(Found) = 0
  BY <1>2, FS_EmptySet
<1>4. Links
  <2>1. {known[u].sequence : u \in Found} = 1..Cardinality(Found)
    BY <1>2, <1>3
  <2>2. QED
    BY <1>2, <2>1 DEF Init, Links
<1>5. Servable /\ WindowsEnd /\ jobs \subseteq Found
  BY <1>2 DEF Init, Servable, WindowsEnd
<1>6. sceneUntil <= now + Window /\ \A u \in Urls : recent[u] <= now
  BY ConstantTypes DEF Init
<1>7. QED
  BY <1>1, <1>4, <1>5, <1>6 DEF SInv

LEMMA NextKeeps == SInv /\ [Next]_vars => SInv'
<1> SUFFICES ASSUME SInv, [Next]_vars PROVE SInv'
  OBVIOUS
<1>1. CASE UNCHANGED vars
  <2>1. TypeOK'
    BY <1>1 DEF vars, SInv, TypeOK
  <2>2. SameTargets(groups, groups')
    BY <1>1 DEF vars, SInv, TypeOK, SameTargets
  <2>3. Links' /\ Servable'
    BY <1>1, <2>2, LinksKept, ServableKept DEF vars, SInv
  <2>4. WindowsEnd' /\ jobs' \subseteq Found'
    BY <1>1 DEF vars, SInv, WindowsEnd, Found, Asked
  <2>5. QED
    BY <1>1, <2>1, <2>3, <2>4 DEF vars, SInv
<1>2. ASSUME NEW u \in Urls, Demand(u) PROVE SInv'
  BY <1>2, DemandKeeps
<1>3. ASSUME NEW u \in Urls, NEW ok \in BOOLEAN, Response(u, ok) PROVE SInv'
  BY <1>3, ResponseKeeps
<1>4. ASSUME NEW u \in Urls, NEW refs \in Bodies[u], Discover(u, refs) PROVE SInv'
  BY <1>4, DiscoverKeeps
<1>5. ASSUME NEW u \in Urls, NEW code \in {"ok", "missing", "failed"}, Complete(u, code)
      PROVE  SInv'
  BY <1>5, CompleteKeeps
<1>6. CASE Take
  BY <1>6, TakeKeeps
<1>7. CASE Tick
  BY <1>7, TickKeeps
<1>8. QED
  BY <1>1, <1>2, <1>3, <1>4, <1>5, <1>6, <1>7 DEF Next

LEMMA SInvHolds == Spec => []SInv
BY InitHolds, NextKeeps, PTL DEF Spec

-----------------------------------------------------------------------------
(* What follows from it.                                                   *)

\* The tables always fit together: no look-up of take() or completion() can fail.
THEOREM TablesAreLinked == Spec => []Linked
BY SInvHolds, SInvLinks, PTL

\* Whatever waits has a source that vouches for it.
THEOREM QueueIsServable == Spec => []Servable
<1>1. SInv => Servable
  BY DEF SInv
<1>2. QED
  BY <1>1, SInvHolds, PTL

\* Every window ends within its length of the last demand of its own response.
THEOREM BattleWindowsEnd == Spec => []WindowsEnd
<1>1. SInv => WindowsEnd
  BY DEF SInv
<1>2. QED
  BY <1>1, SInvHolds, PTL

LEMMA TierIs ==
  ASSUME NEW s, NEW u \in Urls
  PROVE  /\ Tier(s, u) \in Nat
         /\ Tier(s, u) = 0 <=> s \in WindowReach(dependencies) /\ Edge(s, u)
         /\ Tier(s, u) < 2 <=> (s \in WindowReach(dependencies) /\ Edge(s, u))
                               \/ s \in WindowReach(dependencies \cup weak)
<1> DEFINE a == s \in WindowReach(dependencies) /\ Edge(s, u)
           b == s \in WindowReach(dependencies \cup weak)
<1>1. Type[u] \in Nat
  BY ConstantTypes
<1>2. Tier(s, u) = IF a THEN 0 ELSE IF b THEN 1 ELSE 2 + Type[u]
  BY DEF Tier
<1>3. QED
  BY <1>1, <1>2

\* take() compares the tiers first.
LEMMA FirstHasLeastTier ==
  ASSUME SInv, NEW c \in Candidates, TakeFirst(c[1], c[2]), NEW d \in Candidates
  PROVE  Tier(c[1], c[2]) <= Tier(d[1], d[2])
<1> DEFINE w == Warmed(groups, [r \in {r \in Urls : Chain(r) # LongAgo} |-> Chain(r)])
           p == Priority(w, c[1], c[2])
           q == Priority(w, d[1], d[2])
<1>1. ~Before(q, p)
  BY Zenon DEF TakeFirst
<1>2. p[1] = Tier(c[1], c[2]) /\ q[1] = Tier(d[1], d[2])
  BY DEF Priority
<1>3. c[2] \in Urls /\ d[2] \in Urls
  BY DEF Candidates, Eligible, SInv, TypeOK
<1> HIDE DEF p, q
<1>4. ~(q[1] < p[1])
  <2> SUFFICES ASSUME q[1] < p[1] PROVE Before(q, p)
    BY <1>1
  <2>1. 1 \in 1..6 /\ \A j \in 1..(1 - 1) : q[j] = p[j]
    OBVIOUS
  <2>2. QED
    BY <2>1 DEF Before
<1>5. QED
  BY <1>2, <1>3, <1>4, TierIs

\* What a battle requires comes first, then what it reaches, then the rest.
THEOREM BattleComesFirst == Spec => BattleFirst
<1> DEFINE A == \A u \in jobs' \ jobs :
                  /\ (\E v \in Eligible : Required(v)) => Required(u)
                  /\ (\E v \in Eligible : Reached(v)) => Required(u) \/ Reached(u)
<1>1. SInv /\ [Next]_vars => [A]_vars
  <2> SUFFICES ASSUME SInv, Next, NEW u \in jobs' \ jobs
               PROVE  /\ (\E v \in Eligible : Required(v)) => Required(u)
                      /\ (\E v \in Eligible : Reached(v)) => Required(u) \/ Reached(u)
    OBVIOUS
  <2>1. PICK c \in Candidates : TakeFirst(c[1], c[2]) /\ u = c[2]
    BY DEF Next, Demand, Response, Discover, Complete, Take, TakeNothing, TakeFirst, Tick
  <2>2. c[1] \in Unblocked(u) /\ u \in Urls
    BY <2>1 DEF Candidates, Eligible, SInv, TypeOK
  <2>3. ASSUME NEW v \in Eligible, NEW s \in Unblocked(v)
        PROVE  <<s, v>> \in Candidates /\ v \in Urls
    <3>1. v \in queue /\ v \in Found /\ v \in Urls
      BY DEF Eligible, SInv, Links, TypeOK
    <3>2. s \in Sources
      BY <3>1 DEF Unblocked, SInv, Links
    <3>3. QED
      BY <3>1, <3>2 DEF Candidates
  <2>4. ASSUME NEW v \in Eligible, Required(v) PROVE Required(u)
    <3>1. PICK s \in Unblocked(v) : s \in WindowReach(dependencies) /\ Edge(s, v)
      BY <2>4 DEF Required
    <3>2. Tier(s, v) = 0 /\ <<s, v>> \in Candidates
      BY <2>3, <3>1, TierIs
    <3>3. Tier(c[1], u) <= Tier(s, v)
      BY <2>1, <3>2, FirstHasLeastTier
    <3>4. Tier(c[1], u) = 0
      BY <2>2, <3>2, <3>3, TierIs
    <3>5. QED
      BY <2>2, <3>4, TierIs DEF Required
  <2>5. ASSUME NEW v \in Eligible, Reached(v) PROVE Required(u) \/ Reached(u)
    <3>1. PICK s \in Unblocked(v) : s \in WindowReach(dependencies \cup weak)
      BY <2>5 DEF Reached
    <3>2. Tier(s, v) < 2 /\ Tier(s, v) \in Nat /\ <<s, v>> \in Candidates
      BY <2>3, <3>1, TierIs
    <3>3. Tier(c[1], u) <= Tier(s, v)
      BY <2>1, <3>2, FirstHasLeastTier
    <3>4. Tier(c[1], u) < 2
      BY <2>2, <3>2, <3>3, TierIs
    <3>5. QED
      BY <2>2, <3>4, TierIs DEF Required, Reached
  <2>6. QED
    BY <2>4, <2>5
<1>2. QED
  BY <1>1, SInvHolds, PTL DEF Spec, BattleFirst

-----------------------------------------------------------------------------
(* The engine's view.                                                      *)

LEMMA PromiseInit == Init => Promise!Init
BY DEF Init, Promise!Init, Found

LEMMA NothingLearned ==
  ASSUME NEW targets, Found' = Found, queue' = queue
  PROVE  Promise!Learn(targets)
<1>1. {} \in SUBSET (targets \ Found)
  OBVIOUS
<1>2. Found' = Found \cup {} /\ queue' = queue \cup {}
  OBVIOUS
<1>3. QED
  BY <1>1, <1>2 DEF Promise!Learn

\* Every step is one of the promised scheduler, or none it could see.
LEMMA PromiseStep == SInv /\ [Next]_vars => [Promise!Next]_Promise!promiseVars
<1> SUFFICES ASSUME SInv, [Next]_vars PROVE [Promise!Next]_Promise!promiseVars
  OBVIOUS
<1>0. Found \subseteq Urls
  BY DEF Found
<1>1. CASE UNCHANGED vars
  BY <1>1 DEF vars, Promise!promiseVars, Found
<1>2. ASSUME NEW u \in Urls, Demand(u) PROVE Promise!Next
  <2>1. Found' = Found /\ UNCHANGED <<queue, ready, jobs>> /\ running' \in {running, running \cup {u}}
    BY <1>2 DEF Demand, Found
  <2>2. Promise!Demand(u)
    BY <2>1 DEF Promise!Demand
  <2>3. QED
    BY <2>2 DEF Promise!Next
<1>3. ASSUME NEW u \in Urls, NEW ok \in BOOLEAN, Response(u, ok) PROVE Promise!Next
  <2>1. Found' = Found /\ UNCHANGED <<queue, jobs>> /\ running' = running \ {u}
        /\ ready' = IF ok THEN ready \cup {u} ELSE ready
    BY <1>3 DEF Response, Found
  <2>2. Promise!Response(u, ok, {})
    BY <2>1, NothingLearned DEF Promise!Response
  <2>3. QED
    BY <2>2 DEF Promise!Next
<1>4. ASSUME NEW s \in Urls, NEW refs \in Bodies[s], Discover(s, refs) PROVE Promise!Next
  <2>1. UNCHANGED <<ready, running, jobs>>
    BY <1>4 DEF Discover
  <2>2. \/ Found' = Found /\ queue' = queue
        \/ Found' = Found \cup Targets(refs) /\ queue' = queue \cup (Targets(refs) \ Found)
    BY <1>4, DiscoverKeeps DEF Queued
  <2>3. Promise!Learn(Urls)
    <3>1. CASE Found' = Found /\ queue' = queue
      BY <3>1, NothingLearned
    <3>2. CASE Found' = Found \cup Targets(refs) /\ queue' = queue \cup (Targets(refs) \ Found)
      <4>1. Targets(refs) \subseteq Urls
        BY BodiesAreReferences, TargetsAt
      <4>2. Targets(refs) \ Found \in SUBSET (Urls \ Found)
        BY <4>1
      <4>3. Found' = Found \cup (Targets(refs) \ Found)
        BY <3>2
      <4>4. QED
        BY <3>2, <4>2, <4>3 DEF Promise!Learn
    <3>3. QED
      BY <2>2, <3>1, <3>2
  <2>4. QED
    BY <2>1, <2>3 DEF Promise!Next
<1>5. ASSUME NEW u \in Urls, NEW code \in {"ok", "missing", "failed"}, Complete(u, code)
      PROVE  Promise!Next
  <2>1. /\ Found' = Found /\ running' = running /\ u \in jobs /\ jobs' = jobs \ {u}
        /\ ready' = IF code = "ok" THEN ready \cup {u} ELSE ready
        /\ IF code = "missing" THEN queue' = Pruned(groups') ELSE queue' = queue
    BY <1>5 DEF Complete, Found
  <2>2. code = "missing" => queue' \in SUBSET queue
    BY <2>1 DEF Pruned
  <2>3. Promise!Complete(u, code, {})
    BY <2>1, <2>2, NothingLearned DEF Promise!Complete
  <2>4. QED
    BY <2>3 DEF Promise!Next
<1>6. CASE Take
  <2>1. Found' = Found /\ UNCHANGED <<ready, running>> /\ Promise!Eligible = Eligible
    BY <1>6 DEF Take, Found, Eligible, Promise!Eligible
  <2>2. CASE TakeNothing
    <3>1. Promise!Take(NoJob)
      BY <2>1, <2>2 DEF TakeNothing, Promise!Take
    <3>2. QED
      BY <3>1 DEF Promise!Next
  <2>3. ASSUME NEW c \in Candidates, TakeFirst(c[1], c[2]) PROVE Promise!Next
    <3>1. c[2] \in Eligible /\ c[2] \in Urls /\ c[2] # NoJob
      BY ConstantTypes DEF Candidates, Eligible, SInv, TypeOK
    <3>2. queue' = Eligible \ {c[2]} /\ jobs' = jobs \cup {c[2]}
      BY <2>3 DEF TakeFirst
    <3>3. Promise!Take(c[2])
      BY <2>1, <3>1, <3>2 DEF Promise!Take
    <3>4. QED
      BY <3>1, <3>3 DEF Promise!Next
  <2>4. QED
    BY <1>6, <2>2, <2>3 DEF Take
<1>7. CASE Tick
  BY <1>7 DEF Tick, Promise!promiseVars, Found
<1>8. QED
  BY <1>1, <1>2, <1>3, <1>4, <1>5, <1>6, <1>7 DEF Next

\* Scheduler does what the engine is promised, whatever it ranks and prunes.
THEOREM SchedulerKeepsPromise == Spec => PromiseKept
BY PromiseInit, PromiseStep, SInvHolds, PTL DEF Spec, PromiseKept, Promise!Spec
=============================================================================
