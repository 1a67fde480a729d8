------------------------------- MODULE Forward -------------------------------
(***************************************************************************)
(* One HTTP exchange through the gateway: Gateway::forward with its        *)
(* ObservedBody (core/src/gateway.rs), Cache::forward with the API permits *)
(* (core/src/cache.rs), and Network::forward with UploadBody and IdleBody, *)
(* Network::download with OverflowBody (core/src/network.rs).              *)
(*                                                                         *)
(* Three parties move an exchange: the browser uploads, reads and may hang *)
(* up; upstream answers, sends frames, fails or falls silent; and the task *)
(* of the gateway is polled at some later time.  A tick is some seconds: a *)
(* timer is the number of ticks since it was set, and time may pass        *)
(* between any two steps, so a task may be woken late.                     *)
(***************************************************************************)
EXTENDS Naturals, FiniteSets

CONSTANTS Exchanges, \* requests in flight
          Api,       \* API permits of the cache (32)
          Idle,      \* FORWARD_IDLE, and the idle time of an overflow body
          Total,     \* total deadline of a download
          Limit,     \* frames that fit in BODY_LIMIT
          MaxFrames  \* bound: frames of one body

ASSUME ForwardAssumption ==
    /\ IsFiniteSet(Exchanges)
    /\ Api \in Nat \ {0} /\ Idle \in Nat \ {0} /\ Total \in Nat \ {0}
    /\ Limit \in Nat /\ MaxFrames \in Nat

VARIABLES ex,   \* [Exchanges -> Exchange]
          free  \* permits the API semaphore has left

forwardVars == <<ex, free>>

Off == Idle + 1   \* a timer that is not armed

Stages == {"none", "permit", "sending", "body", "fetch", "overflow", "over"}
Ends == {"open", "whole", "failed", "504", "idle", "cut", "dropped"}

Exchange ==
    [stage: Stages,
     end: Ends,             \* how it ended
     upload: BOOLEAN,       \* the request body is still being sent
     age: 0..Idle,          \* since the upload last moved
     wait: 0..Idle,         \* since the instant the header deadline counts from
     answer: {"none", "ok", "empty", "failed"},  \* of upstream, not yet seen
     arrived: {"nothing", "frame", "last", "end", "error"}, \* not yet read
     sent: 0..MaxFrames,    \* frames upstream has sent
     read: 0..MaxFrames,    \* frames the browser was given
     kept: BOOLEAN,         \* ObservedBody still collects the bytes
     idle: 0..Off,          \* the pending-read timer, or the overflow timer
     total: 0..Total,       \* of a body that overflowed, since its download began
     silent: 0..Idle,       \* since upstream last sent anything of the body
     observed: 0..2,        \* responses reported to the engine
     learned: BOOLEAN]      \* a body went to the engine with one of them

New == [stage |-> "none", end |-> "open", upload |-> FALSE, age |-> 0,
        wait |-> 0, answer |-> "none", arrived |-> "nothing", sent |-> 0,
        read |-> 0, kept |-> FALSE, idle |-> Off, total |-> 0, silent |-> 0,
        observed |-> 0, learned |-> FALSE]

\* An exchange that ended keeps what the engine and the browser got of it.
Over(x, end, reports, learns) ==
    [New EXCEPT !.stage = "over", !.end = end, !.sent = x.sent,
                !.read = x.read, !.observed = x.observed + reports,
                !.learned = learns]

Holds(x) == x.stage \in {"sending", "body"}

Init == /\ ex = [e \in Exchanges |-> New]
        /\ free = Api

In(e, stage) == ex[e].stage = stage
Becomes(e, x) == ex' = [ex EXCEPT ![e] = x]

\* Mutant: only a response body carries the permit on.
GiveBackWithBody(e) == free' = IF In(e, "body") THEN free + 1 ELSE free

\* permit.take() and the drop of the OwnedSemaphorePermit.
GiveBack(e) == free' = IF Holds(ex[e]) THEN free + 1 ELSE free

\* The exchange ends; the engine hears of it `reports' times.
End(e, end, reports, learns) ==
    /\ Becomes(e, Over(ex[e], end, reports, learns))
    /\ GiveBack(e)

-----------------------------------------------------------------------------
(* The request. *)

\* handle: the engine observes the request; an asset is fetched by the cache,
\* anything else waits for an API permit.
Ask(e) ==
    /\ In(e, "none")
    /\ \/ \E body \in BOOLEAN :
            Becomes(e, [New EXCEPT !.stage = "permit", !.upload = body])
       \/ Becomes(e, [New EXCEPT !.stage = "fetch"])
    /\ UNCHANGED free

TakePermit(e) ==
    /\ In(e, "permit") /\ free > 0
    /\ Becomes(e, [ex[e] EXCEPT !.stage = "sending"])
    /\ free' = free - 1

\* UploadBody: a frame, the trailers or the end of the body are progress; the
\* sender goes with the end.
Upload(e) ==
    /\ ex[e].stage \in {"sending", "body"} /\ ex[e].upload
    /\ \E more \in BOOLEAN :
         Becomes(e, [ex[e] EXCEPT !.upload = more,
                                  !.age = IF In(e, "sending") THEN 0 ELSE @])
    /\ UNCHANGED free

\* Upstream: the response headers, or the connection fails.
Answer(e) ==
    /\ In(e, "sending") /\ ex[e].answer = "none"
    /\ \E a \in {"ok", "empty", "failed"} :
         Becomes(e, [ex[e] EXCEPT !.answer = a])
    /\ UNCHANGED free

Answered(e) ==
    \/ /\ ex[e].answer = "ok"
       /\ Becomes(e, [New EXCEPT !.stage = "body", !.kept = TRUE,
                                 !.upload = ex[e].upload])
       /\ UNCHANGED free
    \/ /\ ex[e].answer = "empty"
       /\ End(e, "whole", 1, TRUE)
    \/ /\ ex[e].answer = "failed"
       /\ End(e, "failed", 1, FALSE)

\* Mutant: the timer is looked at before the progress of the upload.
AwaitHeadersTimerFirst(e) ==
    /\ In(e, "sending")
    /\ IF ex[e].answer # "none" THEN Answered(e)
       ELSE IF ex[e].wait >= Idle THEN End(e, "504", 1, FALSE)
       ELSE /\ ex[e].age < ex[e].wait
            /\ Becomes(e, [ex[e] EXCEPT !.wait = ex[e].age])
            /\ UNCHANGED free

\* Network::forward is polled: the response first, then progress that moves the
\* deadline, and the deadline last.
AwaitHeaders(e) ==
    /\ In(e, "sending")
    /\ IF ex[e].answer # "none" THEN Answered(e)
       ELSE IF ex[e].age < ex[e].wait
       THEN /\ Becomes(e, [ex[e] EXCEPT !.wait = ex[e].age])
            /\ UNCHANGED free
       ELSE /\ ex[e].wait >= Idle
            /\ End(e, "504", 1, FALSE)

-----------------------------------------------------------------------------
(* The response body. *)

\* Upstream sends a frame, the last frame, the end, or breaks off.
Send(e) ==
    /\ ex[e].stage \in {"body", "overflow"} /\ ex[e].arrived = "nothing"
    /\ \E what \in {"frame", "last", "end", "error"} :
         LET n == IF what \in {"frame", "last"} THEN 1 ELSE 0 IN
         /\ ex[e].sent + n <= MaxFrames
         /\ Becomes(e, [ex[e] EXCEPT !.arrived = what, !.silent = 0,
                                     !.sent = @ + n])
    /\ UNCHANGED free

Disarmed(x) == Off

\* The frame that arrived reaches the browser, and ObservedBody keeps it while
\* the body is within the limit.
Deliver(x) ==
    [x EXCEPT !.arrived = "nothing", !.read = @ + 1, !.idle = Disarmed(x),
              !.kept = @ /\ x.read + 1 <= Limit]

\* Mutant: what fits in the limit is learned of a longer body.
CompletePrefix(e, x) ==
    /\ Becomes(e, Over(x, "whole", 1, TRUE))
    /\ GiveBack(e)

\* ObservedBody::complete: the permit goes back and the engine gets the body,
\* empty when it was over the limit.
Complete(e, x) ==
    /\ Becomes(e, Over(x, "whole", 1, x.kept))
    /\ GiveBack(e)

\* Mutant: every poll makes the timer anew.
PollPendingAfresh(e, x) ==
    IF x.idle < Idle \/ x.idle = Off
    THEN x.idle # 0 /\ Becomes(e, [x EXCEPT !.idle = 0]) /\ UNCHANGED free
    ELSE End(e, "idle", 1, FALSE)

\* A read that finds nothing arms the timer, or finds it expired.
PollPending(e, x) ==
    IF x.idle = Off
    THEN Becomes(e, [x EXCEPT !.idle = 0]) /\ UNCHANGED free
    ELSE x.idle >= Idle /\ End(e, "idle", 1, FALSE)

\* IdleBody inside ObservedBody: what has arrived goes first, the
\* timer of a pending read last.
ReadBody(e) ==
    LET x == ex[e] IN
    /\ In(e, "body")
    /\ CASE x.arrived = "frame" -> Becomes(e, Deliver(x)) /\ UNCHANGED free
         [] x.arrived = "last"  -> Complete(e, Deliver(x))
         [] x.arrived = "end"   -> Complete(e, x)
         [] x.arrived = "error" -> End(e, "failed", 1, FALSE)
         [] x.arrived = "nothing" -> PollPending(e, x)

\* The browser hangs up, or the task is cancelled: everything is dropped, the
\* permit with it, and nothing is reported any more.
HangUp(e) ==
    /\ ex[e].stage \notin {"none", "over"}
    /\ End(e, "dropped", 0, FALSE)

-----------------------------------------------------------------------------
(* An asset: Engine::request reports the result, then the body is sent.      *)

\* The download ends within its limits, or it fails, or an asset that is longer
\* than BODY_LIMIT goes on as a stream that begins with what was read so far;
\* its deadline is that of the download, which is some ticks old by then.
Fetched(e) ==
    /\ In(e, "fetch")
    /\ \/ End(e, "whole", 1, TRUE)
       \/ End(e, "failed", 1, FALSE)
       \/ /\ MaxFrames >= 2
          /\ \E spent \in 0..Total :
               Becomes(e, [New EXCEPT !.stage = "overflow", !.sent = 2, !.idle = 0,
                                      !.total = spent, !.observed = 1])
          /\ UNCHANGED free

\* Mutant: a body that ran out of time just ends.
CutEnd == "whole"
Cut == "cut"

\* OverflowBody: the timer is looked at first, then the two chunks read before,
\* and a frame from upstream sets the timer again within the total deadline.
ReadOverflow(e) ==
    LET x == ex[e]
        more == [x EXCEPT !.read = @ + 1] IN
    /\ In(e, "overflow")
    /\ IF x.idle >= Idle \/ x.total >= Total THEN End(e, Cut, 0, FALSE)
       ELSE IF x.read < 2 THEN Becomes(e, more) /\ UNCHANGED free
       ELSE CASE x.arrived = "frame" ->
                   /\ Becomes(e, [more EXCEPT !.arrived = "nothing", !.idle = 0])
                   /\ UNCHANGED free
              [] x.arrived = "last" ->
                   Becomes(e, Over(more, "whole", 0, FALSE)) /\ GiveBack(e)
              [] x.arrived = "end" -> End(e, "whole", 0, FALSE)
              [] x.arrived = "error" -> End(e, "failed", 0, FALSE)
              [] x.arrived = "nothing" -> FALSE

-----------------------------------------------------------------------------
Later(n, top) == IF n < top THEN n + 1 ELSE n

\* What a tick does to an exchange.
Aged(x) ==
    CASE x.stage = "sending" ->
           [x EXCEPT !.age = Later(@, Idle), !.wait = Later(@, Idle)]
      [] x.stage = "body" ->
           [x EXCEPT !.idle = IF @ = Off THEN Off ELSE Later(@, Idle),
                     !.silent = Later(@, Idle)]
      [] x.stage = "overflow" ->
           [x EXCEPT !.idle = Later(@, Idle), !.total = Later(@, Total)]
      [] OTHER -> x

Tick ==
    /\ ex' = [e \in Exchanges |-> Aged(ex[e])]
    /\ UNCHANGED free

\* The connection serves another request.
Again(e) ==
    /\ In(e, "over")
    /\ Becomes(e, New)
    /\ UNCHANGED free

Task(e) == TakePermit(e) \/ AwaitHeaders(e) \/ ReadBody(e) \/ ReadOverflow(e)
Peers(e) == Ask(e) \/ Upload(e) \/ Answer(e) \/ Send(e) \/ Fetched(e)
            \/ HangUp(e) \/ Again(e)

Next == Tick \/ \E e \in Exchanges : Task(e) \/ Peers(e)

Spec == Init /\ [][Next]_forwardVars

\* Time passes, and a timer that expired or a result that is there wakes its
\* task.  Nothing obliges the browser or upstream to do anything.
Fairness == /\ WF_forwardVars(Tick)
            /\ \A e \in Exchanges : WF_forwardVars(AwaitHeaders(e) \/ ReadBody(e))
FairSpec == Spec /\ Fairness

-----------------------------------------------------------------------------
TypeOK == ex \in [Exchanges -> Exchange] /\ free \in 0..Api

\* Safety: every way an exchange can end gives its API permit back once:
\* headers too late, a failure, the last frame, the end, an error in the body,
\* an idle upstream, a browser that hangs up (tests/network.rs:1385, 1491,
\* "release_all_slots").  (With the types.)
PermitsReturned ==
    /\ TypeOK
    /\ free + Cardinality({e \in Exchanges : Holds(ex[e])}) = Api

\* Safety: the engine hears of an exchange at most once, and exactly once unless
\* it was dropped; and it is given a body only when that is the whole of it and
\* within the limit (gateway.rs:525 complete, and the Err branch).
ObservedOnce ==
    \A e \in Exchanges : In(e, "over") =>
        LET x == ex[e] IN
        /\ x.observed <= 1
        /\ x.end # "dropped" => x.observed = 1
        /\ x.learned => x.end = "whole" /\ x.read = x.sent /\ x.read <= Limit

\* Action property: 504 is answered only when the upload has not moved for the
\* whole of FORWARD_IDLE and no response is there, however late the task that
\* waits is woken (network.rs:14, "a long, active upload has no total deadline").
UploadNotCut ==
    [][\A e \in Exchanges : ex'[e].end = "504" /\ ex[e].end # "504" =>
         ex[e].age >= Idle /\ ex[e].answer = "none"]_forwardVars

\* Action property: a response body is given up as idle only when upstream sent
\* nothing for the whole of FORWARD_IDLE; a slow browser is never the reason
\* (network.rs:53, "downstream backpressure is not upstream idleness").
SilenceIsUpstreams ==
    [][\A e \in Exchanges : ex'[e].end = "idle" /\ ex[e].end # "idle" =>
         ex[e].silent >= Idle /\ ex[e].arrived = "nothing"]_forwardVars

\* Action property: no timeout accuses a peer that was active.
NoFalseTimeout == UploadNotCut /\ SilenceIsUpstreams

\* Safety: a body that ends cleanly was delivered completely: no timer or limit
\* makes a truncated body look whole (network.rs:100, 64).
NoSilentTruncation ==
    \A e \in Exchanges : ex[e].end = "whole" => ex[e].read = ex[e].sent

\* Liveness: when the upload is done, the wait for the headers ends, with an
\* upstream that never answers too.
HeadersOrTimeout ==
    \A e \in Exchanges : In(e, "sending") /\ ~ex[e].upload ~> ~In(e, "sending")

\* Liveness: a read that waits for upstream does not wait for ever.
PendingReadEnds ==
    \A e \in Exchanges : In(e, "body") /\ ex[e].idle # Off
                            ~> ~In(e, "body") \/ ex[e].idle = Off

\* Liveness: every wait for upstream ends, one way or the other.
WaitsEnd == HeadersOrTimeout /\ PendingReadEnds
=============================================================================
