-------------------------------- MODULE Engine --------------------------------
(***************************************************************************)
(* core/src/engine.rs: the thread that feeds the scheduler with what       *)
(* browsers ask and get, keeps two background downloads going, and is      *)
(* stopped with the cache.                                                 *)
(*                                                                         *)
(* Everybody talks to the thread through one bounded channel: browsers     *)
(* never wait and drop what does not fit, downloads wait for room. The     *)
(* scheduler is SchedulerPromise, which Scheduler implements.              *)
(***************************************************************************)
EXTENDS FiniteSets, Naturals, Sequences

CONSTANTS
  Urls,
  Assets,        \* urls the cache keeps
  Targets,       \* url -> the resources its response names
  Browsers,      \* requests a browser may have open at a time
  ChannelRoom,   \* events the channel holds (65536 in the code)
  RequestRoom,   \* requests kept for discovered resources (65536)
  Slots,         \* background downloads at a time (2)
  MaxAsks,       \* where the model stops browsing
  NoJob, NoUrl

ASSUME EngineAssumption ==
  /\ Assets \subseteq Urls
  /\ Targets \in [Urls -> SUBSET Urls]
  /\ ChannelRoom \in Nat \ {0} /\ RequestRoom \in Nat
  /\ Slots \in Nat \ {0} /\ MaxAsks \in Nat
  /\ NoJob \notin Urls /\ NoUrl \notin Urls

VARIABLES
  known, queue, ready, running, jobs, \* see SchedulerPromise
  channel,    \* events on their way to the thread
  loop,       \* where the thread is
  active,     \* its count of downloads
  requests,   \* resources it has a request for
  task,       \* url -> its background download
  browser,    \* open request -> its url
  asks,       \* browser requests so far
  cancelled,  \* the cache was cancelled
  phase       \* progress of close()

schedulerVars == <<known, queue, ready, running, jobs>>
threadVars == <<schedulerVars, loop, active, requests>>
vars == <<threadVars, channel, task, browser, asks, cancelled, phase>>

Scheduler == INSTANCE SchedulerPromise

\* A body, a stream that is not parsed, 404 or 410, anything else.
Codes == {"ok", "stream", "missing", "failed"}

Events ==
  [kind : {"demand"}, url : Urls]
    \cup [kind : {"answer", "download"}, url : Urls, code : Codes]
    \cup [kind : {"stop"}]

TypeOK ==
  /\ Scheduler!TypeOK
  /\ channel \in Seq(Events) /\ Len(channel) <= ChannelRoom
  /\ loop \in {"waiting", "assigning", "ended"}
  /\ active \in 0..Slots
  /\ requests \subseteq Urls
  /\ task \in [Urls -> {"none", "fetching"} \cup Codes]
  /\ browser \in [Browsers -> Urls \cup {NoUrl}]
  /\ asks \in 0..MaxAsks
  /\ cancelled \in BOOLEAN
  /\ phase \in {"open", "cancelled", "stopping", "waiting", "closed", "dropped"}

Init ==
  /\ Scheduler!Init
  /\ channel = <<>> /\ loop = "waiting" /\ active = 0 /\ requests = {}
  /\ task = [u \in Urls |-> "none"]
  /\ browser = [b \in Browsers |-> NoUrl]
  /\ asks = 0 /\ cancelled = FALSE /\ phase = "open"

-----------------------------------------------------------------------------
(* Browsers: request(), and the gateway that may drop its future.          *)

\* try_send(): what does not fit, or comes too late, is dropped.
Emit(event) ==
  channel' = IF Len(channel) < ChannelRoom /\ loop # "ended"
               THEN Append(channel, event) ELSE channel

Ask(b, u) ==
  /\ phase = "open" /\ browser[b] = NoUrl /\ asks < MaxAsks
  /\ asks' = asks + 1
  /\ browser' = [browser EXCEPT ![b] = u]
  /\ Emit([kind |-> "demand", url |-> u])
  /\ UNCHANGED <<threadVars, task, cancelled, phase>>

Answer(b, code) ==
  /\ browser[b] # NoUrl
  /\ browser' = [browser EXCEPT ![b] = NoUrl]
  /\ Emit([kind |-> "answer", url |-> browser[b], code |-> code])
  /\ UNCHANGED <<threadVars, task, asks, cancelled, phase>>

\* The connection breaks: nobody reports the end of the request.
HangUp(b) ==
  /\ browser[b] # NoUrl
  /\ browser' = [browser EXCEPT ![b] = NoUrl]
  /\ UNCHANGED <<threadVars, channel, task, asks, cancelled, phase>>

-----------------------------------------------------------------------------
(* The thread.                                                             *)

\* Requests are kept for the resources a response names, while there is room.
Keep(targets) ==
  \E new \in SUBSET (targets \ requests) :
    /\ requests' = requests \cup new
    /\ Cardinality(requests') <= RequestRoom \/ new = {}
    /\ targets \subseteq requests' \/ Cardinality(requests') >= RequestRoom

\* What is parsed out of a response.
Named(event) == IF event.code = "ok" THEN Targets[event.url] ELSE {}

\* The scheduler only tells 200, 404 or 410, and the rest apart.
Verdict(code) == IF code = "stream" THEN "ok" ELSE code

\* Mutant: only a download that brought something frees its slot.
FreedBySuccess(event) == IF event.code = "ok" THEN active - 1 ELSE active

Freed(event) == active - 1

Handle(event) ==
  \/ /\ event.kind = "demand"
     /\ Scheduler!Demand(event.url)
     /\ UNCHANGED <<active, requests>>
  \/ /\ event.kind = "answer"
     /\ Scheduler!Response(event.url,
          event.code \in {"ok", "stream"} /\ event.url \in Assets, Named(event))
     /\ Keep(Named(event))
     /\ UNCHANGED active
  \/ /\ event.kind = "download"
     /\ active' = Freed(event)
     /\ Scheduler!Complete(event.url, Verdict(event.code), Named(event))
     /\ Keep(Named(event))

\* Mutant: slots are filled when something was asked or answered, not when one
\* becomes free.
AfterLastButDownload(event) == IF event.kind = "download" THEN "waiting" ELSE "assigning"

AfterLast(event) == "assigning"

\* Events are drained before freed slots are assigned.
Receive ==
  /\ loop = "waiting" /\ channel # <<>>
  /\ ~cancelled /\ Head(channel).kind # "stop"
  /\ Handle(Head(channel))
  /\ channel' = Tail(channel)
  /\ loop' = IF Tail(channel) = <<>> THEN AfterLast(Head(channel)) ELSE "waiting"
  /\ UNCHANGED <<task, browser, asks, cancelled, phase>>

\* A cancelled cache, the stop event, or the last sender's end: the thread ends
\* and takes the channel with it.
End ==
  /\ loop = "waiting"
  /\ \/ channel # <<>> /\ (cancelled \/ Head(channel).kind = "stop")
     \/ /\ channel = <<>> /\ phase \in {"dropped", "closed"}
        /\ \A u \in Urls : task[u] = "none"
  /\ loop' = "ended" /\ channel' = <<>>
  /\ UNCHANGED <<schedulerVars, active, requests, task, browser, asks, cancelled, phase>>

\* A free slot is given to the next job, if the scheduler has one and its request
\* was kept; a job without a request is skipped. (The thread's weak sender always
\* upgrades here: the senders only go after close(), when the thread has ended, or
\* with an engine that was dropped unused, for which there is no job to take.)
Assign ==
  /\ loop = "assigning"
  /\ active < Slots /\ ~cancelled
  /\ \E u \in Urls :
       /\ Scheduler!Take(u)
       /\ UNCHANGED loop
       /\ IF u \in requests
            THEN active' = active + 1 /\ task' = [task EXCEPT ![u] = "fetching"]
            ELSE UNCHANGED <<active, task>>
  /\ UNCHANGED <<requests, channel, browser, asks, cancelled, phase>>

Assigned ==
  /\ loop = "assigning"
  /\ IF active = Slots \/ cancelled THEN UNCHANGED schedulerVars
                                     ELSE Scheduler!Take(NoJob)
  /\ loop' = "waiting"
  /\ UNCHANGED <<active, requests, channel, task, browser, asks, cancelled, phase>>

-----------------------------------------------------------------------------
(* Background downloads.                                                   *)

\* Cache::get() has returned, well or badly.
Fetched(u, code) ==
  /\ task[u] = "fetching"
  /\ task' = [task EXCEPT ![u] = code]
  /\ UNCHANGED <<threadVars, channel, browser, asks, cancelled, phase>>

\* The result waits for room in the channel.
Send(u) ==
  /\ task[u] \in Codes
  /\ Len(channel) < ChannelRoom \/ loop = "ended"
  /\ task' = [task EXCEPT ![u] = "none"]
  /\ Emit([kind |-> "download", url |-> u, code |-> task[u]])
  /\ UNCHANGED <<threadVars, browser, asks, cancelled, phase>>

\* Or is given up with the cache.
GiveUp(u) ==
  /\ task[u] \in Codes /\ cancelled
  /\ task' = [task EXCEPT ![u] = "none"]
  /\ UNCHANGED <<threadVars, channel, browser, asks, cancelled, phase>>

-----------------------------------------------------------------------------
(* close(), called when the gateway has ended its connections.             *)

Cancel ==
  /\ phase = "open" /\ \A b \in Browsers : browser[b] = NoUrl
  /\ cancelled' = TRUE /\ phase' = "cancelled"
  /\ UNCHANGED <<threadVars, channel, task, browser, asks>>

\* Cache::close() has returned.
CacheClosed ==
  /\ phase = "cancelled" /\ phase' = "stopping"
  /\ UNCHANGED <<threadVars, channel, task, browser, asks, cancelled>>

\* Mutant: the sender waits for room that nobody makes any more.
HasRoom == Len(channel) < ChannelRoom /\ loop # "ended"

Sendable == Len(channel) < ChannelRoom \/ loop = "ended"

SendStop ==
  /\ phase = "stopping" /\ Sendable
  /\ Emit([kind |-> "stop"])
  /\ phase' = "waiting"
  /\ UNCHANGED <<threadVars, task, browser, asks, cancelled>>

Done ==
  /\ phase = "waiting" /\ loop = "ended"
  /\ phase' = "closed"
  /\ UNCHANGED <<threadVars, channel, task, browser, asks, cancelled>>

CloseStep == CacheClosed \/ SendStop \/ Done

\* An engine whose gateway could not start is dropped without close().
Drop ==
  /\ phase = "open" /\ asks = 0
  /\ cancelled' = TRUE /\ phase' = "dropped"
  /\ UNCHANGED <<threadVars, channel, task, browser, asks>>

ThreadStep == Receive \/ End \/ Assign \/ Assigned

TaskStep(u) == (\E code \in Codes : Fetched(u, code)) \/ Send(u) \/ GiveUp(u)

Next ==
  \/ \E b \in Browsers :
       \/ \E u \in Urls : Ask(b, u)
       \/ \E code \in Codes : Answer(b, code)
       \/ HangUp(b)
  \/ ThreadStep
  \/ \E u \in Urls : TaskStep(u)
  \/ Cancel \/ CloseStep \/ Drop

Spec == Init /\ [][Next]_vars

\* The thread runs, downloads end (Cache.tla: everybody is answered), and tokio's
\* channel serves those who wait for room in turn. No browser need ask or stay.
FairSpec ==
  /\ Spec
  /\ WF_vars(ThreadStep) /\ WF_vars(CacheClosed \/ Done) /\ SF_vars(SendStop)
  /\ \A u \in Urls : SF_vars(TaskStep(u))

-----------------------------------------------------------------------------
(* Properties.                                                             *)

Downloads(events) == {i \in DOMAIN events : events[i].kind = "download"}

\* The count the slots are given by is the downloads that exist: running, waiting
\* to report, or reported and not yet handled. None is forgotten or freed twice. (With the types.)
ActiveCounts ==
  /\ TypeOK
  /\ ~cancelled =>
       active = Cardinality({u \in Urls : task[u] # "none"}) + Cardinality(Downloads(channel))

\* A preload starts only when the thread knows of no other download of the
\* resource: by a browser, by a preload that runs, or by one whose result is
\* still in the channel.
StartsOnce ==
  [][\A u \in Urls :
       task'[u] = "fetching" /\ task[u] # "fetching" =>
         /\ task[u] = "none" /\ u \notin running \cup jobs
         /\ \A i \in Downloads(channel) : channel[i].url # u]_vars

\* Whatever is discovered is taken from the queue in the end, though downloads
\* fail, events are dropped and browsers hang up.
Served == \A u \in Urls : u \in queue ~> u \notin queue \/ cancelled

\* close() returns, and an engine that was dropped ends its thread, even with the
\* channel full and downloads waiting to report.
Ends == cancelled ~> loop = "ended" /\ phase \in {"closed", "dropped"}

=============================================================================
