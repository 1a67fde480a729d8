--------------------------- MODULE SchedulerPromise ---------------------------
(***************************************************************************)
(* The preload scheduler as the engine sees it: which resources it knows,  *)
(* which of them wait for a slot, and which need none any more; not how it *)
(* ranks them. Abstract specification of Scheduler, and the scheduler the  *)
(* Engine is built on.                                                     *)
(***************************************************************************)
CONSTANTS
  Urls,
  NoJob  \* take() found nothing

VARIABLES
  known,    \* resources found in some response
  queue,    \* those that wait to be downloaded
  ready,    \* resources that were downloaded
  running,  \* resources a browser is downloading
  jobs      \* taken and not completed

promiseVars == <<known, queue, ready, running, jobs>>

TypeOK ==
  /\ known \subseteq Urls
  /\ queue \subseteq known
  /\ ready \subseteq Urls
  /\ running \subseteq Urls
  /\ jobs \subseteq Urls

Init == known = {} /\ queue = {} /\ ready = {} /\ running = {} /\ jobs = {}

\* A full table of recent demands ignores the demand.
Demand(u) ==
  /\ running' \in {running, running \cup {u}}
  /\ UNCHANGED <<known, queue, ready, jobs>>

\* Only what was unknown is queued, as far as the tables have room.
Learn(targets) ==
  \E new \in SUBSET (targets \ known) :
    known' = known \cup new /\ queue' = queue \cup new

\* A browser's answer, and what it names.
Response(u, ok, targets) ==
  /\ running' = running \ {u}
  /\ ready' = IF ok THEN ready \cup {u} ELSE ready
  /\ Learn(targets)
  /\ UNCHANGED jobs

\* A download's answer, and what it names; missing resources may take others out
\* of the queue with their sources.
Complete(u, code, targets) ==
  /\ u \in jobs /\ jobs' = jobs \ {u}
  /\ ready' = IF code = "ok" THEN ready \cup {u} ELSE ready
  /\ IF code = "missing" THEN queue' \in SUBSET queue /\ UNCHANGED known
                        ELSE Learn(targets)
  /\ UNCHANGED running

\* Mutant: what a browser is downloading is downloaded again.
NotReady == queue \ ready

Eligible == queue \ (ready \cup running)

\* Nothing is taken only when nothing is eligible; what is not leaves the queue.
Take(u) ==
  /\ u \in IF Eligible = {} THEN {NoJob} ELSE Eligible
  /\ queue' = Eligible \ {u}
  /\ jobs' = jobs \cup ({u} \ {NoJob})
  /\ UNCHANGED <<known, ready, running>>

Next ==
  \/ \E u \in Urls, targets \in SUBSET Urls :
       \/ Demand(u)
       \/ \E ok \in BOOLEAN : Response(u, ok, targets)
       \/ \E code \in {"ok", "missing", "failed"} : Complete(u, code, targets)
  \/ Learn(Urls) /\ UNCHANGED <<ready, running, jobs>>
  \/ \E u \in Urls \cup {NoJob} : Take(u)

Spec == Init /\ [][Next]_promiseVars

=============================================================================
