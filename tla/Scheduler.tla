------------------------------- MODULE Scheduler -------------------------------
(***************************************************************************)
(* core/src/scheduler.rs: which of the resources found in responses is     *)
(* downloaded next.                                                        *)
(*                                                                         *)
(* Edges lead from a response to the resources it names: strong ones       *)
(* (needed now) and weak ones (deferred). Browser demand warms what it     *)
(* reaches over strong edges; a battle opens a window in which whatever    *)
(* the demanded responses reach goes first. Times are those of the events, *)
(* taken to arrive in order; 0 stands for a window that never was.         *)
(***************************************************************************)
EXTENDS Integers, Sequences, FiniteSetsExt

CONSTANTS
  Urls,
  Battles,      \* requests that start a battle
  Type,         \* url -> 0 script, 1 style, 2 anything else
  Bodies,       \* url -> the reference lists its responses may hold
  Capacity,     \* size of the tables (65536 in the code)
  MaxFailures,  \* missing resources after which a source is blocked (5)
  Window,       \* length of a battle window (30 s)
  Fresh, Warm,  \* ages at which a source cools down (2 s and 10 s)
  Slots,        \* downloads at a time, kept by the engine (2)
  MaxTime,      \* where the clock of the model stops
  NoRecord,     \* an absent table entry
  NoJob         \* take() found nothing

ASSUME SchedulerAssumption ==
  /\ IsFiniteSet(Urls) /\ Battles \subseteq Urls
  /\ Type \in [Urls -> 0..2]
  /\ \A u \in Urls : \A refs \in Bodies[u] :
       /\ refs \in Seq(Urls \X BOOLEAN)
       /\ \A i, j \in DOMAIN refs : refs[i][1] = refs[j][1] => i = j \* an IndexMap
  /\ Capacity \in Nat /\ MaxFailures \in Nat \ {0} /\ Slots \in Nat \ {0}
  /\ Fresh \in Nat \ {0} /\ Warm \in Nat /\ Fresh <= Warm
  /\ Window \in Nat \ {0} /\ MaxTime \in Nat
  /\ NoJob \notin Urls

VARIABLES
  groups,        \* url -> its record as a source
  dependencies,  \* strong edges
  weak,          \* deferred edges
  recent,        \* url -> time of its last demand, or LongAgo
  known,         \* url -> its record as a target
  queue,         \* targets that wait
  ready,         \* resources that were downloaded
  running,       \* resources a browser is downloading (demand_running)
  windows,       \* url -> end of the window it was demanded in (window_sources)
  sceneUntil,    \* end of the latest battle window
  turn,          \* takes so far
  limit,         \* the table that was found full
  now,           \* the clock
  jobs           \* the engine's: taken and not completed

vars == <<groups, dependencies, weak, recent, known, queue, ready, running,
          windows, sceneUntil, turn, limit, now, jobs>>

LongAgo == 0 - Warm
Times == LongAgo..MaxTime

\* A source: its targets are numbered as they were found, 0 for what it did not name.
Group == [last : Times, served : Nat, order : [Urls -> Nat], failures : Nat]
Job == [sequence : Nat, sources : SUBSET Urls, speculative : BOOLEAN]

ASSUME RecordAssumption == NoRecord \notin Group \cup Job

Found == {u \in Urls : known[u] # NoRecord}
Asked == {u \in Urls : recent[u] # LongAgo}
Sources == {u \in Urls : groups[u] # NoRecord}
Blocked(s) == groups[s] # NoRecord /\ groups[s].failures >= MaxFailures
Edge(s, u) == <<s, u>> \in dependencies

TypeOK ==
  /\ groups \in [Urls -> Group \cup {NoRecord}]
  /\ dependencies \subseteq Urls \X Urls
  /\ weak \subseteq Urls \X Urls
  /\ recent \in [Urls -> Times]
  /\ known \in [Urls -> Job \cup {NoRecord}]
  /\ queue \subseteq Urls /\ ready \subseteq Urls /\ running \subseteq Urls
  /\ windows \in [Urls -> 0..(MaxTime + Window)]
  /\ sceneUntil \in 0..(MaxTime + Window)
  /\ turn \in Nat
  /\ limit \in {"none", "recent", "groups", "candidates"}
  /\ now \in 0..MaxTime
  /\ jobs \subseteq Urls

Init ==
  /\ groups = [u \in Urls |-> NoRecord]
  /\ dependencies = {} /\ weak = {}
  /\ recent = [u \in Urls |-> LongAgo]
  /\ known = [u \in Urls |-> NoRecord]
  /\ queue = {} /\ ready = {} /\ running = {}
  /\ windows = [u \in Urls |-> 0]
  /\ sceneUntil = 0 /\ turn = 0 /\ limit = "none" /\ now = 0 /\ jobs = {}

-----------------------------------------------------------------------------
(* Reachability.                                                           *)

\* The nodes of S and those that edges E lead to from them.
From(E, S) ==
  LET after[n \in 0..Cardinality(Urls)] ==
        IF n = 0 THEN S
        ELSE after[n - 1] \cup {e[2] : e \in {e \in E : e[1] \in after[n - 1]}}
  IN after[Cardinality(Urls)]

\* reach(): the latest demand that leads to u over strong edges.
Chain(u) == Max({LongAgo} \cup {recent[r] : r \in {r \in Asked : u \in From(dependencies, {r})}})

\* window_reach(): what the open windows lead to.
Open(until) == {u \in Urls : now < until[u]}
WindowReach(edges) == From(edges, Open(windows))

Later(s, t) == IF s < t THEN t ELSE s

\* The sources in DOMAIN t were last needed at t[s], if that is later than they knew.
Warmed(g, t) ==
  [s \in Urls |-> IF s \in DOMAIN t /\ g[s] # NoRecord
                    THEN [g[s] EXCEPT !.last = Later(g[s].last, t[s])] ELSE g[s]]

-----------------------------------------------------------------------------
(* The operations.                                                         *)

\* Mutant: a demand prolongs the windows of the demands before it.
AllWindows(u, until) == [s \in Urls |-> IF s = u \/ windows[s] > now THEN until ELSE windows[s]]

Opened(u, until) == [windows EXCEPT ![u] = until]

Demand(u) ==
  /\ IF Cardinality(Asked) >= Capacity /\ u \notin Asked
       THEN /\ limit' = "recent"
            /\ UNCHANGED <<recent, running, sceneUntil, windows, groups>>
       ELSE /\ recent' = [recent EXCEPT ![u] = now]
            /\ running' = running \cup {u}
            /\ sceneUntil' = IF u \in Battles THEN now + Window ELSE sceneUntil
            /\ windows' = IF now < sceneUntil' THEN Opened(u, sceneUntil') ELSE windows
            /\ groups' = IF u \in Found
                           THEN Warmed(groups, [s \in known[u].sources |-> now]) ELSE groups
            /\ UNCHANGED limit
  /\ UNCHANGED <<dependencies, weak, known, queue, ready, turn, now, jobs>>

\* The answer to a browser; a full table may have forgotten its demand.
Response(u, successfulAsset) ==
  /\ u \in Asked \/ limit = "recent"
  /\ running' = running \ {u}
  /\ ready' = IF successfulAsset THEN ready \cup {u} ELSE ready
  /\ UNCHANGED <<groups, dependencies, weak, recent, known, queue, windows, sceneUntil,
                 turn, limit, now, jobs>>

\* References are taken by type, scripts first, and in document order.
NotAfter(refs, j, i) ==
  LET t == Type[refs[j][1]]
      q == Type[refs[i][1]]
  IN t < q \/ (t = q /\ j <= i)

\* The place of reference i among those to S.
Rank(refs, i, S) ==
  Cardinality({j \in DOMAIN refs : refs[j][1] \in S /\ NotAfter(refs, j, i)})

\* The references up to the first new one that finds the tables full.
Accepted(refs) ==
  {i \in DOMAIN refs : Cardinality(Found) + Rank(refs, i, Urls \ Found) <= Capacity}

\* What a response names, as far as it is accepted, and where it does.
Targets(refs) == {refs[i][1] : i \in Accepted(refs)}
At(refs, u) == CHOOSE i \in DOMAIN refs : refs[i][1] = u
Deferred(refs, u) == refs[At(refs, u)][2]

\* Mutant: only the first source of a target is kept.
FirstSource(u, s) == known[u].sources

AllSources(u, s) == known[u].sources \cup {s}

Queued(targets) == queue \cup (targets \ Found)

NewGroup == [last |-> LongAgo, served |-> 0, order |-> [u \in Urls |-> 0], failures |-> 0]

\* What only speculation reaches names speculative targets.
Inherited(s) == s \in Found /\ known[s].speculative /\ Chain(s) = LongAgo

\* What a source has named, and its numbers when more is.
Named(order) == {u \in Urls : order[u] # 0}

Numbered(order, refs) ==
  LET new == Targets(refs) \ Named(order)
  IN [u \in Urls |-> IF u \in new THEN Cardinality(Named(order)) + Rank(refs, At(refs, u), new)
                                  ELSE order[u]]

Discover(s, refs) ==
  LET targets == Targets(refs)
      Weak(u) == Inherited(s) \/ Deferred(refs, u)
      old == IF groups[s] = NoRecord THEN NewGroup ELSE groups[s]
  IN
  /\ s \in Asked \cup Found \/ limit = "recent"
  /\ refs # <<>> /\ ~Blocked(s)
  /\ IF Cardinality(Sources) >= Capacity /\ s \notin Sources
       THEN /\ limit' = "groups"
            /\ UNCHANGED <<groups, dependencies, weak, known, queue>>
       ELSE /\ groups' = [groups EXCEPT ![s] =
                 [last |-> Later(old.last, Chain(s)), served |-> old.served,
                  order |-> Numbered(old.order, refs), failures |-> old.failures]]
            /\ known' = [u \in Urls |->
                 IF u \notin targets THEN known[u]
                 ELSE IF u \in Found
                   THEN [sequence |-> known[u].sequence, sources |-> AllSources(u, s),
                         speculative |-> known[u].speculative /\ Weak(u)]
                   ELSE [sequence |-> Cardinality(Found) + Rank(refs, At(refs, u), Urls \ Found),
                         sources |-> {s}, speculative |-> Weak(u)]]
            /\ queue' = Queued(targets)
            /\ dependencies' = dependencies \cup {<<s, u>> : u \in {u \in targets : ~Deferred(refs, u)}}
            /\ weak' = weak \cup {<<s, u>> : u \in {u \in targets : Deferred(refs, u)}}
            /\ limit' = IF Accepted(refs) = DOMAIN refs THEN limit ELSE "candidates"
  /\ UNCHANGED <<recent, ready, running, windows, sceneUntil, turn, now, jobs>>

Heat(age) == CASE age < Fresh -> 0 [] age \in Fresh..(Warm - 1) -> 1 [] age >= Warm -> 2

\* Mutant: a deferred target of a window source ranks with the required ones.
AnyInWindow(s, u) ==
  CASE s \in WindowReach(dependencies \cup weak) -> 0
    [] OTHER -> 2 + Type[u]

\* Required in a battle window, otherwise reached from one, otherwise by type.
Tier(s, u) ==
  CASE s \in WindowReach(dependencies) /\ Edge(s, u) -> 0
    [] ~(s \in WindowReach(dependencies) /\ Edge(s, u))
       /\ s \in WindowReach(dependencies \cup weak) -> 1
    [] OTHER -> 2 + Type[u]

\* What take() compares, smallest first, with the groups as it has warmed them.
Priority(g, s, u) ==
  LET tier == Tier(s, u)
      needed == Edge(s, u) /\ (~known[u].speculative \/ Chain(s) # LongAgo)
      urgent == tier < 2
  IN <<tier,
       IF urgent THEN Type[u] ELSE IF needed THEN 0 ELSE 1,
       IF urgent THEN 0 ELSE Heat(now - g[s].last),
       g[s].served, g[s].order[u], known[u].sequence>>

Before(r, q) ==
  \E i \in 1..6 : r[i] < q[i] /\ \A j \in 1..(i - 1) : r[j] = q[j]

Unblocked(u) == {s \in known[u].sources : ~Blocked(s)}

\* Mutant: what a browser is downloading is taken as well.
NotReady == queue \ ready

Eligible == queue \ (ready \cup running)

Candidates == {c \in Sources \X Eligible : c[1] \in Unblocked(c[2])}

\* take(): what is ready or with a browser leaves the queue, the sources are
\* warmed, and the first candidate is handed out on account of its source.
TakeNothing ==
  /\ Eligible = {}
  /\ queue' = {}
  /\ UNCHANGED <<groups, windows, turn, jobs>>

TakeFirst(s, u) ==
  LET warmed == Warmed(groups, [r \in {r \in Urls : Chain(r) # LongAgo} |-> Chain(r)]) IN
    /\ <<s, u>> \in Candidates
    /\ \A c \in Candidates : ~Before(Priority(warmed, c[1], c[2]), Priority(warmed, s, u))
    /\ groups' = [warmed EXCEPT ![s] = [@ EXCEPT !.served = turn + 1]]
    /\ queue' = Eligible \ {u}
    /\ windows' = [r \in Urls |-> IF now < windows[r] THEN windows[r] ELSE 0]
    /\ turn' = turn + 1
    /\ jobs' = jobs \cup {u}

Take ==
  /\ Cardinality(jobs) < Slots
  /\ TakeNothing \/ \E c \in Candidates : TakeFirst(c[1], c[2])
  /\ UNCHANGED <<dependencies, weak, recent, known, ready, running, sceneUntil, limit, now>>

\* Mutant: blocking a source leaves its targets queued.
Unpruned(failed) == queue

\* Targets that still have a source worth following.
Pruned(failed) ==
  {u \in queue : \E s \in known[u].sources : failed[s].failures < MaxFailures}

Complete(u, code) ==
  /\ u \in jobs /\ jobs' = jobs \ {u}
  /\ ready' = IF code = "ok" THEN ready \cup {u} ELSE ready
  /\ IF code = "missing"
       THEN /\ groups' = [s \in Urls |->
                 IF s \in known[u].sources
                   THEN [groups[s] EXCEPT !.failures = @ + 1] ELSE groups[s]]
            /\ queue' = Pruned(groups')
       ELSE UNCHANGED <<groups, queue>>
  /\ UNCHANGED <<dependencies, weak, recent, known, running, windows, sceneUntil,
                 turn, limit, now>>

Tick ==
  /\ now < MaxTime /\ now' = now + 1
  /\ UNCHANGED <<groups, dependencies, weak, recent, known, queue, ready, running,
                 windows, sceneUntil, turn, limit, jobs>>

Next ==
  \/ \E u \in Urls :
       \/ Demand(u)
       \/ \E ok \in BOOLEAN : Response(u, ok)
       \/ \E refs \in Bodies[u] : Discover(u, refs)
       \/ \E code \in {"ok", "missing", "failed"} : Complete(u, code)
  \/ Take
  \/ Tick

Spec == Init /\ [][Next]_vars
-----------------------------------------------------------------------------
(* Properties.                                                             *)

\* The engine may use this scheduler as one that only queues, gives and forgets.
Promise == INSTANCE SchedulerPromise WITH known <- Found

PromiseKept == Promise!Spec

\* The tables fit together, whatever was discovered twice, cut off at a full table
\* or pruned: none of the look-ups take() and completion() index with can fail.
\* (With the types.)
Linked ==
  /\ TypeOK
  /\ queue \subseteq Found
  /\ \A u \in Found : known[u].sources # {} /\ known[u].sources \subseteq Sources
  /\ \A s \in Sources :
       /\ Named(groups[s].order) = {u \in Found : s \in known[u].sources}
       /\ \A u, v \in Found :
            groups[s].order[u] = groups[s].order[v] /\ groups[s].order[u] # 0 => u = v
  /\ \A s, u \in Urls :
       <<s, u>> \in dependencies \cup weak <=> u \in Found /\ s \in known[u].sources
  /\ {known[u].sequence : u \in Found} = 1..Cardinality(Found)

\* Whatever waits can be taken: blocking a source for its missing resources never
\* leaves a target queued that no source vouches for, so a slot never idles
\* beside a queue it cannot serve.
Servable == \A u \in queue : Unblocked(u) # {}

\* A new battle does not prolong the windows of older responses: each window ends
\* within its length of the last demand of its own response.
WindowsEnd ==
  \A u \in Urls : windows[u] > 0 => u \in Asked /\ windows[u] <= recent[u] + Window

Required(v) == \E s \in Unblocked(v) : s \in WindowReach(dependencies) /\ Edge(s, v)
Reached(v) == \E s \in Unblocked(v) : s \in WindowReach(dependencies \cup weak)

\* What an open battle window requires is taken before what it only reaches, and
\* that before everything else, over any chain of responses and whatever other
\* sources the resources have.
BattleFirst ==
  [][\A u \in jobs' \ jobs :
       /\ (\E v \in Eligible : Required(v)) => Required(u)
       /\ (\E v \in Eligible : Reached(v)) => Required(u) \/ Reached(u)]_vars

=============================================================================
