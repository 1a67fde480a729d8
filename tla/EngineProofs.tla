----------------------------- MODULE EngineProofs -----------------------------
(***************************************************************************)
(* Proofs about Engine, for any urls, targets, browsers, slots and sizes   *)
(* of the channel and the table of requests.                               *)
(*                                                                         *)
(* A url has at most one background download, which is in its task, in the *)
(* channel or just handled; the thread's count and the scheduler's jobs    *)
(* both follow it.                                                         *)
(***************************************************************************)
EXTENDS Engine, TLAPS, FiniteSetTheorems, FunctionTheorems

Busy == {u \in Urls : task[u] # "none"}
Reported == Downloads(channel)

\* The channel is only closed, and Stop only sent, by an engine that was cancelled.
Stopping ==
  /\ phase = "open" <=> ~cancelled
  /\ loop = "ended" => cancelled
  /\ \A i \in DOMAIN channel : channel[i].kind = "stop" => cancelled

\* What was taken is a job until its report was handled.
JobsFollow ==
  /\ jobs \cap queue = {}
  /\ jobs \subseteq known
  /\ \A u \in Busy : u \in jobs
  /\ \A i \in Reported :
       /\ channel[i].url \in jobs \ Busy
       /\ \A j \in Reported : channel[i].url = channel[j].url => i = j

Counted ==
  /\ IsFiniteSet(Busy)
  /\ ~cancelled => active = Cardinality(Busy) + Cardinality(Reported)

EInv == TypeOK /\ Stopping /\ JobsFollow /\ Counted

-----------------------------------------------------------------------------
(* The channel.                                                            *)

LEMMA ReportedFinite ==
  ASSUME NEW s \in Seq(Events)
  PROVE  /\ Downloads(s) \subseteq 1..Len(s)
         /\ IsFiniteSet(Downloads(s)) /\ Cardinality(Downloads(s)) \in Nat
<1>1. Downloads(s) \subseteq 1..Len(s) /\ Len(s) \in Nat
  BY DEF Downloads
<1>2. IsFiniteSet(1..Len(s))
  BY <1>1, FS_Interval
<1>3. QED
  BY <1>1, <1>2, FS_Subset, FS_CardinalityType

\* What is appended comes last, and counts when it is a download.
LEMMA Appended ==
  ASSUME NEW s \in Seq(Events), NEW event \in Events
  PROVE  /\ Append(s, event) \in Seq(Events) /\ Len(Append(s, event)) = Len(s) + 1
         /\ \A i \in DOMAIN s : Append(s, event)[i] = s[i]
         /\ Append(s, event)[Len(s) + 1] = event
         /\ DOMAIN Append(s, event) = DOMAIN s \cup {Len(s) + 1}
         /\ Len(s) + 1 \notin DOMAIN s
         /\ event.kind # "download" => Downloads(Append(s, event)) = Downloads(s)
         /\ event.kind = "download" =>
              /\ Downloads(Append(s, event)) = Downloads(s) \cup {Len(s) + 1}
              /\ Cardinality(Downloads(Append(s, event))) = Cardinality(Downloads(s)) + 1
<1>1. /\ Append(s, event) \in Seq(Events) /\ Len(Append(s, event)) = Len(s) + 1
      /\ \A i \in DOMAIN s : Append(s, event)[i] = s[i]
      /\ Append(s, event)[Len(s) + 1] = event
      /\ DOMAIN Append(s, event) = DOMAIN s \cup {Len(s) + 1}
      /\ Len(s) + 1 \notin DOMAIN s
  OBVIOUS
<1>2. event.kind # "download" => Downloads(Append(s, event)) = Downloads(s)
  BY <1>1 DEF Downloads
<1>3. event.kind = "download" => Downloads(Append(s, event)) = Downloads(s) \cup {Len(s) + 1}
  BY <1>1 DEF Downloads
<1>4. event.kind = "download" =>
        Cardinality(Downloads(Append(s, event))) = Cardinality(Downloads(s)) + 1
  <2>1. Len(s) + 1 \notin Downloads(s)
    BY <1>1 DEF Downloads
  <2>2. QED
    BY <1>3, <2>1, ReportedFinite, FS_AddElement
<1>5. QED
  BY <1>1, <1>2, <1>3, <1>4

\* What is taken comes first; the others move up.
LEMMA Taken ==
  ASSUME NEW s \in Seq(Events), s # <<>>
  PROVE  /\ Tail(s) \in Seq(Events) /\ Len(Tail(s)) = Len(s) - 1
         /\ Head(s) = s[1] /\ Head(s) \in Events /\ 1 \in DOMAIN s
         /\ \A i \in DOMAIN Tail(s) : i + 1 \in DOMAIN s /\ Tail(s)[i] = s[i + 1]
         /\ \A i \in Downloads(Tail(s)) : i + 1 \in Downloads(s) /\ i + 1 # 1
         /\ Cardinality(Downloads(Tail(s))) =
              IF Head(s).kind = "download" THEN Cardinality(Downloads(s)) - 1
                                           ELSE Cardinality(Downloads(s))
<1>1. /\ Tail(s) \in Seq(Events) /\ Len(Tail(s)) = Len(s) - 1
      /\ Head(s) = s[1] /\ Head(s) \in Events /\ 1 \in DOMAIN s
      /\ \A i \in DOMAIN Tail(s) : i + 1 \in DOMAIN s /\ Tail(s)[i] = s[i + 1]
      /\ DOMAIN s = 1..Len(s) /\ DOMAIN Tail(s) = 1..(Len(s) - 1) /\ Len(s) \in Nat
  OBVIOUS
<1>2. \A i \in Downloads(Tail(s)) : i + 1 \in Downloads(s) /\ i + 1 # 1 /\ i \in Nat
  BY <1>1 DEF Downloads
<1> DEFINE S == Downloads(Tail(s))
           T == Downloads(s) \ {1}
           f == [i \in S |-> i + 1]
<1>3. f \in Bijection(S, T)
  <2>1. f \in [S -> T] /\ \A a, b \in S : f[a] = f[b] => a = b
    BY <1>2
  <2>2. ASSUME NEW t \in T PROVE \E i \in S : f[i] = t
    <3>1. t \in 2..Len(s) /\ s[t].kind = "download"
      BY <1>1 DEF Downloads
    <3>2. t - 1 \in DOMAIN Tail(s) /\ (t - 1) + 1 = t
      BY <1>1, <3>1
    <3>3. Tail(s)[t - 1] = s[t]
      BY <1>1, <3>2
    <3>4. t - 1 \in S
      BY <3>1, <3>2, <3>3 DEF Downloads
    <3>5. QED
      BY <3>2, <3>4
  <2>3. QED
    BY <2>1, <2>2, Fun_IsBij
<1>4. Cardinality(T) = Cardinality(S)
  BY <1>1, <1>3, ReportedFinite, FS_Bijection DEF ExistsBijection
<1>5. 1 \in Downloads(s) <=> Head(s).kind = "download"
  BY <1>1 DEF Downloads
<1>6. Cardinality(T) = IF 1 \in Downloads(s) THEN Cardinality(Downloads(s)) - 1
                                             ELSE Cardinality(Downloads(s))
  BY ReportedFinite, FS_RemoveElement
<1>7. QED
  BY <1>1, <1>2, <1>4, <1>5, <1>6

\* An event that is no download changes nothing of what is reported.
LEMMA Emitted ==
  ASSUME TypeOK, NEW event \in Events, event.kind # "download", Emit(event)
  PROVE  /\ channel' \in Seq(Events) /\ Len(channel') <= ChannelRoom
         /\ Reported' = Reported
         /\ \A i \in Reported : channel'[i] = channel[i]
         /\ \A i \in DOMAIN channel' : channel'[i].kind = "stop" =>
              event.kind = "stop" \/ \E j \in DOMAIN channel : channel[j].kind = "stop"
<1>1. channel \in Seq(Events) /\ Len(channel) <= ChannelRoom /\ ChannelRoom \in Nat
  BY EngineAssumption DEF TypeOK
<1>2. CASE channel' = channel
  BY <1>1, <1>2 DEF Reported
<1>3. CASE channel' = Append(channel, event) /\ Len(channel) < ChannelRoom
  <2>1. /\ Len(channel') <= ChannelRoom /\ channel' \in Seq(Events)
        /\ Reported' = Reported
    BY <1>1, <1>3, Appended DEF Reported
  <2>2. \A i \in Reported : i \in DOMAIN channel
    BY DEF Reported, Downloads
  <2>3. \A i \in Reported : channel'[i] = channel[i]
    BY <1>1, <1>3, <2>2, Appended
  <2>4. ASSUME NEW i \in DOMAIN channel', channel'[i].kind = "stop"
        PROVE  event.kind = "stop" \/ \E j \in DOMAIN channel : channel[j].kind = "stop"
    BY <1>1, <1>3, <2>4, Appended
  <2>5. QED
    BY <2>1, <2>3, <2>4
<1>4. QED
  BY <1>2, <1>3 DEF Emit

\* Whoever leaves the thread, the tasks and the reports alone keeps the books.
LEMMA Aside ==
  ASSUME EInv, UNCHANGED <<jobs, queue, known, active, task>>,
         Reported' = Reported, \A i \in Reported : channel'[i] = channel[i],
         cancelled => cancelled'
  PROVE  JobsFollow' /\ Counted'
<1>1. Busy' = Busy
  BY DEF Busy
<1>2. QED
  BY <1>1 DEF EInv, JobsFollow, Counted

LEMMA EInit == Init => EInv
<1> SUFFICES ASSUME Init PROVE EInv
  OBVIOUS
<1>1. Busy = {} /\ Reported = {}
  BY DEF Init, Busy, Reported, Downloads
<1>2. TypeOK
  <2>1. Scheduler!TypeOK
    BY DEF Init, Scheduler!Init, Scheduler!TypeOK
  <2>2. channel \in Seq(Events) /\ Len(channel) <= ChannelRoom
    BY EngineAssumption DEF Init
  <2>3. active \in 0..Slots /\ asks \in 0..MaxAsks
    BY EngineAssumption DEF Init
  <2>4. QED
    BY <2>1, <2>2, <2>3 DEF Init, TypeOK
<1>3. Stopping /\ JobsFollow
  BY <1>1 DEF Init, Stopping, JobsFollow, Scheduler!Init
<1>4. Counted
  BY <1>1, FS_EmptySet DEF Init, Counted
<1>5. QED
  BY <1>2, <1>3, <1>4 DEF EInv

-----------------------------------------------------------------------------
(* Browsers and close().                                                   *)

LEMMA AskKeeps ==
  ASSUME EInv, NEW b \in Browsers, NEW u \in Urls, Ask(b, u)
  PROVE  EInv'
<1> DEFINE event == [kind |-> "demand", url |-> u]
<1>1. event \in Events /\ event.kind = "demand" /\ Emit(event)
  BY DEF Ask, Events
<1>2. UNCHANGED <<threadVars, task, cancelled, phase>>
  BY DEF Ask
<1>3. TypeOK'
  BY <1>1, <1>2, Emitted, EngineAssumption
     DEF EInv, TypeOK, Ask, threadVars, schedulerVars, Scheduler!TypeOK
<1>4. Stopping'
  BY <1>1, <1>2, Emitted DEF EInv, Stopping, threadVars
<1>5. JobsFollow' /\ Counted'
  BY <1>1, <1>2, Emitted, Aside DEF EInv, threadVars, schedulerVars
<1>6. QED
  BY <1>3, <1>4, <1>5 DEF EInv

LEMMA AnswerKeeps ==
  ASSUME EInv, NEW b \in Browsers, NEW code \in Codes, Answer(b, code)
  PROVE  EInv'
<1> DEFINE event == [kind |-> "answer", url |-> browser[b], code |-> code]
<1>1. browser[b] \in Urls
  BY DEF EInv, TypeOK, Answer
<1>2. event \in Events /\ event.kind = "answer" /\ Emit(event)
  BY <1>1 DEF Answer, Events
<1>3. UNCHANGED <<threadVars, task, asks, cancelled, phase>>
  BY DEF Answer
<1>4. TypeOK'
  BY <1>2, <1>3, Emitted
     DEF EInv, TypeOK, Answer, threadVars, schedulerVars, Scheduler!TypeOK
<1>5. Stopping'
  BY <1>2, <1>3, Emitted DEF EInv, Stopping, threadVars
<1>6. JobsFollow' /\ Counted'
  BY <1>2, <1>3, Emitted, Aside DEF EInv, threadVars, schedulerVars
<1>7. QED
  BY <1>4, <1>5, <1>6 DEF EInv

LEMMA SendStopKeeps ==
  ASSUME EInv, SendStop
  PROVE  EInv'
<1> DEFINE event == [kind |-> "stop"]
<1>1. event \in Events /\ event.kind = "stop" /\ Emit(event)
  BY DEF SendStop, Events
<1>2. UNCHANGED <<threadVars, task, browser, asks, cancelled>> /\ cancelled
  BY DEF SendStop, EInv, Stopping
<1>3. TypeOK'
  BY <1>1, <1>2, Emitted
     DEF EInv, TypeOK, SendStop, threadVars, schedulerVars, Scheduler!TypeOK
<1>4. Stopping'
  BY <1>2 DEF Stopping, SendStop
<1>5. JobsFollow' /\ Counted'
  BY <1>1, <1>2, Emitted, Aside DEF EInv, threadVars, schedulerVars
<1>6. QED
  BY <1>3, <1>4, <1>5 DEF EInv

LEMMA OtherKeeps ==
  ASSUME EInv,
         (\E b \in Browsers : HangUp(b)) \/ Cancel \/ CacheClosed \/ Done \/ Drop
           \/ UNCHANGED vars
  PROVE  EInv'
<1>1. UNCHANGED <<threadVars, channel, task, asks>> /\ (cancelled => cancelled')
  BY DEF HangUp, Cancel, CacheClosed, Done, Drop, vars
<1>2. Reported' = Reported
  BY <1>1 DEF Reported
<1>3. JobsFollow' /\ Counted'
  BY <1>1, <1>2, Aside DEF threadVars, schedulerVars
<1>4. TypeOK'
  BY <1>1 DEF EInv, TypeOK, HangUp, Cancel, CacheClosed, Done, Drop, vars, threadVars,
              schedulerVars, Scheduler!TypeOK
<1>5. Stopping'
  BY <1>1 DEF EInv, Stopping, HangUp, Cancel, CacheClosed, Done, Drop, vars, threadVars
<1>6. QED
  BY <1>3, <1>4, <1>5 DEF EInv

-----------------------------------------------------------------------------
(* Downloads.                                                              *)

LEMMA FetchedKeeps ==
  ASSUME EInv, NEW u \in Urls, NEW code \in Codes, Fetched(u, code)
  PROVE  EInv'
<1>1. /\ task[u] = "fetching" /\ task' = [task EXCEPT ![u] = code]
      /\ UNCHANGED <<threadVars, channel, browser, asks, cancelled, phase>>
  BY DEF Fetched
<1>2. task \in [Urls -> {"none", "fetching"} \cup Codes] /\ code # "none"
  BY DEF EInv, TypeOK, Codes
<1>3. Busy' = Busy /\ Reported' = Reported
  BY <1>1, <1>2 DEF Busy, Reported
<1>4. TypeOK'
  BY <1>1, <1>2 DEF EInv, TypeOK, threadVars, schedulerVars, Scheduler!TypeOK
<1>5. QED
  BY <1>1, <1>3, <1>4
     DEF EInv, Stopping, JobsFollow, Counted, threadVars, schedulerVars

\* A task that ends is counted in the channel instead, or not at all any more.
LEMMA TaskEnds ==
  ASSUME EInv, NEW u \in Busy, task' = [task EXCEPT ![u] = "none"]
  PROVE  /\ Busy' = Busy \ {u} /\ u \in jobs
         /\ IsFiniteSet(Busy') /\ Cardinality(Busy') = Cardinality(Busy) - 1
         /\ task' \in [Urls -> {"none", "fetching"} \cup Codes]
<1>1. /\ task \in [Urls -> {"none", "fetching"} \cup Codes]
      /\ IsFiniteSet(Busy) /\ u \in Urls /\ u \in jobs
  BY DEF EInv, TypeOK, Counted, JobsFollow, Busy
<1>2. Busy' = Busy \ {u}
  BY <1>1 DEF Busy
<1>3. QED
  BY <1>1, <1>2, FS_RemoveElement

LEMMA GiveUpKeeps ==
  ASSUME EInv, NEW u \in Urls, GiveUp(u)
  PROVE  EInv'
<1>1. /\ cancelled /\ task' = [task EXCEPT ![u] = "none"]
      /\ UNCHANGED <<threadVars, channel, browser, asks, cancelled, phase>>
      /\ u \in Busy
  BY DEF GiveUp, Busy, Codes
<1>2. /\ Busy' = Busy \ {u} /\ IsFiniteSet(Busy') /\ Reported' = Reported
      /\ task' \in [Urls -> {"none", "fetching"} \cup Codes]
  BY <1>1, TaskEnds DEF Reported
<1>3. TypeOK'
  BY <1>1, <1>2 DEF EInv, TypeOK, threadVars, schedulerVars, Scheduler!TypeOK
<1>4. QED
  BY <1>1, <1>2, <1>3
     DEF EInv, Stopping, JobsFollow, Counted, threadVars, schedulerVars

LEMMA SendKeeps ==
  ASSUME EInv, NEW u \in Urls, Send(u)
  PROVE  EInv'
<1> DEFINE event == [kind |-> "download", url |-> u, code |-> task[u]]
<1>1. /\ task[u] \in Codes /\ u \in Busy /\ task' = [task EXCEPT ![u] = "none"]
      /\ Len(channel) < ChannelRoom \/ loop = "ended"
      /\ Emit(event) /\ UNCHANGED <<threadVars, browser, asks, cancelled, phase>>
  BY DEF Send, Busy, Codes
<1>2. /\ Busy' = Busy \ {u} /\ u \in jobs
      /\ IsFiniteSet(Busy') /\ Cardinality(Busy') = Cardinality(Busy) - 1
      /\ task' \in [Urls -> {"none", "fetching"} \cup Codes]
  BY <1>1, TaskEnds
<1>3. event \in Events /\ event.kind = "download" /\ event.url = u
  BY <1>1 DEF Events
<1>4. /\ channel \in Seq(Events) /\ Len(channel) \in Nat /\ Len(channel) <= ChannelRoom
      /\ ChannelRoom \in Nat
  BY EngineAssumption DEF EInv, TypeOK
<1>5. CASE loop = "ended"
  <2>1. channel' = channel /\ cancelled /\ Reported' = Reported
    BY <1>1, <1>5 DEF Emit, EInv, Stopping, Reported
  <2>2. TypeOK'
    BY <1>1, <1>2, <2>1 DEF EInv, TypeOK, threadVars, schedulerVars, Scheduler!TypeOK
  <2>3. QED
    BY <1>1, <1>2, <2>1, <2>2
       DEF EInv, Stopping, JobsFollow, Counted, threadVars, schedulerVars
<1>6. CASE loop # "ended"
  <2> DEFINE n == Len(channel) + 1
  <2>1. channel' = Append(channel, event) /\ Len(channel) < ChannelRoom
    BY <1>1, <1>6 DEF Emit
  <2>2. /\ channel' \in Seq(Events) /\ Len(channel') = n /\ n <= ChannelRoom
        /\ Reported' = Reported \cup {n} /\ n \notin DOMAIN channel
        /\ Cardinality(Reported') = Cardinality(Reported) + 1
        /\ channel'[n] = event
        /\ DOMAIN channel' = DOMAIN channel \cup {n}
        /\ \A i \in DOMAIN channel : channel'[i] = channel[i]
    BY <1>3, <1>4, <2>1, Appended DEF Reported
  <2>3. Reported \subseteq DOMAIN channel /\ Cardinality(Reported) \in Nat
    BY <1>4, ReportedFinite DEF Reported, Downloads
  <2>4. TypeOK'
    BY <1>1, <1>2, <2>2 DEF EInv, TypeOK, threadVars, schedulerVars, Scheduler!TypeOK
  <2>5. Stopping'
    BY <1>1, <1>3, <2>2 DEF EInv, Stopping, threadVars
  <2>6. JobsFollow'
    <3>1. \A v \in Busy' : v \in jobs'
      BY <1>1, <1>2 DEF EInv, JobsFollow, threadVars, schedulerVars
    <3>2. \A i \in Reported : channel'[i].url \in jobs \ Busy
      BY <2>2, <2>3 DEF EInv, JobsFollow
    <3>3. \A i \in Reported' : channel'[i].url \in jobs' \ Busy'
      BY <1>1, <1>2, <1>3, <2>2, <3>2 DEF threadVars, schedulerVars
    <3>4. \A i, j \in Reported' : channel'[i].url = channel'[j].url => i = j
      BY <1>1, <1>3, <2>2, <2>3, <3>2 DEF EInv, JobsFollow
    <3>5. QED
      BY <1>1, <3>1, <3>3, <3>4 DEF EInv, JobsFollow, threadVars, schedulerVars
  <2>7. Counted'
    <3>1. Cardinality(Busy) \in Nat
      BY FS_CardinalityType DEF EInv, Counted
    <3>2. QED
      BY <1>1, <1>2, <2>2, <2>3, <3>1 DEF EInv, Counted, threadVars
  <2>8. QED
    BY <2>4, <2>5, <2>6, <2>7 DEF EInv
<1>7. QED
  BY <1>5, <1>6

-----------------------------------------------------------------------------
(* The thread.                                                             *)

\* What is learned is queued and known, and never something that was known.
LEMMA Learned ==
  ASSUME EInv, NEW targets \in SUBSET Urls, Scheduler!Learn(targets)
  PROVE  /\ jobs \cap queue' = {} /\ jobs \subseteq known'
         /\ known' \subseteq Urls /\ queue' \subseteq known'
BY DEF EInv, TypeOK, JobsFollow, Scheduler!TypeOK, Scheduler!Learn

LEMMA NamedAreUrls ==
  ASSUME NEW event \in Events, event.kind \in {"answer", "download"}
  PROVE  Named(event) \in SUBSET Urls /\ event.url \in Urls /\ event.code \in Codes
<1>1. event.url \in Urls /\ event.code \in Codes
  BY DEF Events
<1>2. QED
  BY <1>1, EngineAssumption DEF Named

LEMMA Kept ==
  ASSUME requests \subseteq Urls, NEW targets \in SUBSET Urls, Keep(targets)
  PROVE  requests' \subseteq Urls
BY DEF Keep

\* An event that is no download is handled: the jobs stay, and the queue holds none.
LEMMA HandledAside ==
  ASSUME EInv, NEW event \in Events, event.kind # "download", event.kind # "stop",
         Handle(event)
  PROVE  /\ UNCHANGED <<jobs, active>> /\ requests' \subseteq Urls
         /\ Scheduler!TypeOK'
         /\ jobs \cap queue' = {} /\ jobs \subseteq known'
<1>1. CASE event.kind = "demand"
  <2>1. event.url \in Urls
    BY <1>1 DEF Events
  <2>2. QED
    BY <1>1, <2>1
       DEF Handle, Scheduler!Demand, EInv, TypeOK, JobsFollow, Scheduler!TypeOK
<1>2. CASE event.kind = "answer"
  <2>1. /\ Scheduler!Response(event.url,
             event.code \in {"ok", "stream"} /\ event.url \in Assets, Named(event))
        /\ Keep(Named(event)) /\ UNCHANGED active
    BY <1>2 DEF Handle
  <2>2. Scheduler!Learn(Named(event)) /\ UNCHANGED jobs /\ running' \subseteq running
        /\ ready' \subseteq ready \cup {event.url}
    BY <2>1 DEF Scheduler!Response
  <2>3. requests' \subseteq Urls
    BY <1>2, <2>1, Kept, NamedAreUrls DEF EInv, TypeOK
  <2>4. Scheduler!TypeOK'
    BY <1>2, <2>2, Learned, NamedAreUrls DEF EInv, TypeOK, Scheduler!TypeOK
  <2>5. QED
    BY <1>2, <2>1, <2>2, <2>3, <2>4, Learned, NamedAreUrls
<1>3. QED
  BY <1>1, <1>2 DEF Handle

\* A download's report is handled: its job and its slot are free again.
LEMMA HandledDownload ==
  ASSUME EInv, NEW event \in Events, event.kind = "download", Handle(event)
  PROVE  /\ active' = active - 1 /\ requests' \subseteq Urls
         /\ Scheduler!TypeOK' /\ jobs' = jobs \ {event.url}
         /\ jobs' \cap queue' = {} /\ jobs' \subseteq known'
<1>1. /\ active' = active - 1 /\ Keep(Named(event))
      /\ Scheduler!Complete(event.url, Verdict(event.code), Named(event))
  BY DEF Handle, Freed
<1>2. /\ jobs' = jobs \ {event.url} /\ running' = running
      /\ ready' \subseteq ready \cup {event.url}
      /\ (queue' \in SUBSET queue /\ known' = known) \/ Scheduler!Learn(Named(event))
  BY <1>1 DEF Scheduler!Complete
<1>3. requests' \subseteq Urls
  BY <1>1, Kept, NamedAreUrls DEF EInv, TypeOK
<1>4. /\ known' \subseteq Urls /\ queue' \subseteq known'
      /\ jobs \cap queue' = {} /\ jobs \subseteq known'
  <2>1. CASE queue' \in SUBSET queue /\ known' = known
    BY <2>1 DEF EInv, TypeOK, JobsFollow, Scheduler!TypeOK
  <2>2. CASE Scheduler!Learn(Named(event))
    BY <2>2, Learned, NamedAreUrls
  <2>3. QED
    BY <1>2, <2>1, <2>2
<1>5. QED
  BY <1>1, <1>2, <1>3, <1>4, NamedAreUrls DEF EInv, TypeOK, Scheduler!TypeOK

LEMMA ReceiveKeeps ==
  ASSUME EInv, Receive
  PROVE  EInv'
<1> DEFINE event == Head(channel)
<1>1. /\ channel # <<>> /\ channel' = Tail(channel)
      /\ ~cancelled /\ event.kind # "stop" /\ Handle(event)
      /\ loop' \in {"waiting", "assigning"}
      /\ UNCHANGED <<task, browser, asks, cancelled, phase>>
  BY DEF Receive, AfterLast
<1>2. channel \in Seq(Events) /\ Len(channel) <= ChannelRoom /\ ChannelRoom \in Nat
  BY EngineAssumption DEF EInv, TypeOK
<1>3. /\ channel' \in Seq(Events) /\ Len(channel') <= ChannelRoom
      /\ event \in Events /\ event = channel[1] /\ 1 \in DOMAIN channel
      /\ \A i \in DOMAIN channel' : i + 1 \in DOMAIN channel /\ channel'[i] = channel[i + 1]
      /\ \A i \in Reported' : i \in Nat /\ i + 1 \in Reported /\ i + 1 # 1
      /\ Cardinality(Reported') = IF event.kind = "download" THEN Cardinality(Reported) - 1
                                                            ELSE Cardinality(Reported)
      /\ Cardinality(Reported) \in Nat
  <2>1. \A i \in Reported' : i \in Nat
    <3>1. channel' \in Seq(Events)
      BY <1>1, <1>2, Taken
    <3>2. Reported' \subseteq 1..Len(channel') /\ Len(channel') \in Nat
      BY <3>1, ReportedFinite DEF Reported
    <3>3. QED
      BY <3>2
  <2>2. QED
    BY <1>1, <1>2, <2>1, Taken, ReportedFinite DEF Reported
<1>4. \A i \in Reported' : channel'[i] = channel[i + 1] /\ i \in DOMAIN channel'
  BY <1>3 DEF Reported, Downloads
<1>5. Stopping'
  BY <1>1, <1>3 DEF EInv, Stopping
<1>6. \A u \in Busy : \A i \in Reported : channel[i].url # u
  BY DEF EInv, JobsFollow
<1>7. Busy' = Busy /\ Cardinality(Busy) \in Nat /\ IsFiniteSet(Busy)
  BY <1>1, FS_CardinalityType DEF Busy, EInv, Counted
<1>8. active = Cardinality(Busy) + Cardinality(Reported)
  BY <1>1 DEF EInv, Counted
<1>9. /\ \A i \in Reported' : channel'[i].url \in jobs \ Busy
      /\ \A i, j \in Reported' : channel'[i].url = channel'[j].url => i = j
  BY <1>3, <1>4 DEF EInv, JobsFollow
<1>10. CASE event.kind # "download"
  <2>1. /\ UNCHANGED <<jobs, active>> /\ requests' \subseteq Urls
        /\ Scheduler!TypeOK'
        /\ jobs \cap queue' = {} /\ jobs \subseteq known'
    BY <1>1, <1>3, <1>10, HandledAside
  <2>2. TypeOK'
    BY <1>1, <1>3, <2>1 DEF EInv, TypeOK
  <2>3. JobsFollow'
    BY <1>7, <1>9, <2>1 DEF EInv, JobsFollow
  <2>4. Counted'
    BY <1>3, <1>7, <1>8, <1>10, <2>1 DEF Counted
  <2>5. QED
    BY <1>5, <2>2, <2>3, <2>4 DEF EInv
<1>11. CASE event.kind = "download"
  <2>1. /\ active' = active - 1 /\ requests' \subseteq Urls
        /\ Scheduler!TypeOK' /\ jobs' = jobs \ {event.url}
        /\ jobs' \cap queue' = {} /\ jobs' \subseteq known'
    BY <1>1, <1>3, <1>11, HandledDownload
  <2>2. 1 \in Reported
    BY <1>3, <1>11 DEF Reported, Downloads
  <2>3. Cardinality(Reported) > 0
    <3>1. IsFiniteSet(Reported)
      BY <1>2, ReportedFinite DEF Reported
    <3>2. QED
      BY <1>3, <2>2, <3>1, FS_EmptySet
  <2>4. active' \in 0..Slots
    BY <1>3, <1>7, <1>8, <2>1, <2>3, EngineAssumption DEF EInv, TypeOK
  <2>5. TypeOK'
    BY <1>1, <1>3, <2>1, <2>4 DEF EInv, TypeOK
  <2>6. event.url \notin Busy /\ \A i \in Reported' : channel'[i].url # event.url
    BY <1>3, <1>4, <1>6, <2>2 DEF EInv, JobsFollow
  <2>7. JobsFollow'
    BY <1>7, <1>9, <2>1, <2>6 DEF EInv, JobsFollow
  <2>8. Counted'
    BY <1>3, <1>7, <1>8, <1>11, <2>1 DEF Counted
  <2>9. QED
    BY <1>5, <2>5, <2>7, <2>8 DEF EInv
<1>12. QED
  BY <1>10, <1>11

LEMMA EndKeeps ==
  ASSUME EInv, End
  PROVE  EInv'
<1>1. cancelled
  <2>1. CASE channel # <<>> /\ Head(channel).kind = "stop"
    <3>1. 1 \in DOMAIN channel /\ Head(channel) = channel[1]
      BY <2>1, Taken DEF EInv, TypeOK
    <3>2. QED
      BY <2>1, <3>1 DEF EInv, Stopping
  <2>2. QED
    BY <2>1 DEF End, EInv, Stopping
<1>2. /\ channel' = <<>> /\ loop' = "ended"
      /\ UNCHANGED <<schedulerVars, active, requests, task, browser, asks, cancelled, phase>>
  BY DEF End
<1>3. Busy' = Busy /\ Reported' = {}
  BY <1>2 DEF Busy, Reported, Downloads
<1>4. channel' \in Seq(Events) /\ Len(channel') <= ChannelRoom
  BY <1>2, EngineAssumption
<1>5. TypeOK'
  BY <1>2, <1>4 DEF EInv, TypeOK, schedulerVars, Scheduler!TypeOK
<1>6. QED
  BY <1>1, <1>2, <1>3, <1>5 DEF EInv, Stopping, JobsFollow, Counted, schedulerVars

\* What take() hands out is known, waited, and has no download of any kind.
LEMMA TakenIsNew ==
  ASSUME EInv, NEW u \in Urls \cup {NoJob}, Scheduler!Take(u)
  PROVE  /\ Scheduler!TypeOK'
         /\ jobs' = jobs \cup ({u} \ {NoJob}) /\ jobs' \cap queue' = {} /\ jobs' \subseteq known'
         /\ u # NoJob => /\ u \in queue /\ u \notin jobs /\ u \notin running /\ u \notin Busy
                         /\ \A i \in Reported : channel[i].url # u
<1>1. /\ u \in IF Scheduler!Eligible = {} THEN {NoJob} ELSE Scheduler!Eligible
      /\ queue' = Scheduler!Eligible \ {u} /\ jobs' = jobs \cup ({u} \ {NoJob})
      /\ UNCHANGED <<known, ready, running>>
  BY DEF Scheduler!Take
<1>2. Scheduler!Eligible = queue \ (ready \cup running)
  BY DEF Scheduler!Eligible
<1>3. queue \subseteq known /\ known \subseteq Urls /\ NoJob \notin Urls
  BY EngineAssumption DEF EInv, TypeOK, Scheduler!TypeOK
<1>4. u # NoJob => /\ u \in queue /\ u \notin jobs /\ u \notin running
  BY <1>1, <1>2 DEF EInv, JobsFollow
<1>5. u # NoJob => u \notin Busy /\ \A i \in Reported : channel[i].url # u
  BY <1>4 DEF EInv, JobsFollow
<1>6. QED
  BY <1>1, <1>2, <1>3, <1>4, <1>5 DEF EInv, TypeOK, JobsFollow, Scheduler!TypeOK

LEMMA AssignKeeps ==
  ASSUME EInv, Assign
  PROVE  EInv'
<1>1. PICK u \in Urls :
        /\ Scheduler!Take(u) /\ UNCHANGED loop
        /\ IF u \in requests
             THEN active' = active + 1 /\ task' = [task EXCEPT ![u] = "fetching"]
             ELSE UNCHANGED <<active, task>>
  BY DEF Assign
<1>2. /\ active < Slots /\ ~cancelled
      /\ UNCHANGED <<requests, channel, browser, asks, cancelled, phase>>
  BY DEF Assign
<1>3. u # NoJob
  BY EngineAssumption
<1>4. /\ Scheduler!TypeOK'
      /\ jobs' = jobs \cup {u} /\ jobs' \cap queue' = {} /\ jobs' \subseteq known'
      /\ u \notin Busy /\ \A i \in Reported : channel[i].url # u
  BY <1>1, <1>3, TakenIsNew
<1>5. Reported' = Reported /\ Cardinality(Reported) \in Nat
  BY <1>2, ReportedFinite DEF Reported, EInv, TypeOK
<1>6. /\ task \in [Urls -> {"none", "fetching"} \cup Codes] /\ active \in 0..Slots
      /\ IsFiniteSet(Busy) /\ Cardinality(Busy) \in Nat /\ Slots \in Nat
  BY FS_CardinalityType, EngineAssumption DEF EInv, TypeOK, Counted
<1>7. Stopping'
  BY <1>1, <1>2 DEF EInv, Stopping
<1>8. CASE u \in requests
  <2>1. active' = active + 1 /\ task' = [task EXCEPT ![u] = "fetching"]
    BY <1>1, <1>8
  <2>2. Busy' = Busy \cup {u}
    BY <1>6, <2>1 DEF Busy
  <2>3. IsFiniteSet(Busy') /\ Cardinality(Busy') = Cardinality(Busy) + 1
    BY <1>4, <1>6, <2>2, FS_AddElement
  <2>4. TypeOK'
    BY <1>1, <1>2, <1>4, <1>6, <2>1 DEF EInv, TypeOK
  <2>5. JobsFollow'
    BY <1>2, <1>4, <1>5, <2>2 DEF EInv, JobsFollow
  <2>6. Counted'
    BY <1>2, <1>5, <1>6, <2>1, <2>3 DEF EInv, Counted
  <2>7. QED
    BY <1>7, <2>4, <2>5, <2>6 DEF EInv
<1>9. CASE u \notin requests
  <2>1. UNCHANGED <<active, task>> /\ Busy' = Busy
    BY <1>1, <1>9 DEF Busy
  <2>2. TypeOK'
    BY <1>1, <1>2, <1>4, <1>6, <2>1 DEF EInv, TypeOK
  <2>3. JobsFollow' /\ Counted'
    BY <1>2, <1>4, <1>5, <2>1 DEF EInv, JobsFollow, Counted
  <2>4. QED
    BY <1>7, <2>2, <2>3 DEF EInv
<1>10. QED
  BY <1>8, <1>9

LEMMA AssignedKeeps ==
  ASSUME EInv, Assigned
  PROVE  EInv'
<1>1. /\ UNCHANGED schedulerVars \/ Scheduler!Take(NoJob)
      /\ loop' = "waiting"
      /\ UNCHANGED <<active, requests, channel, task, browser, asks, cancelled, phase>>
  BY DEF Assigned
<1>2. Scheduler!TypeOK' /\ jobs' = jobs /\ jobs' \cap queue' = {} /\ jobs' \subseteq known'
  <2>1. CASE UNCHANGED schedulerVars
    BY <2>1 DEF EInv, TypeOK, JobsFollow, schedulerVars, Scheduler!TypeOK
  <2>2. CASE Scheduler!Take(NoJob)
    BY <2>2, TakenIsNew
  <2>3. QED
    BY <1>1, <2>1, <2>2
<1>3. Busy' = Busy /\ Reported' = Reported
  BY <1>1 DEF Busy, Reported
<1>4. TypeOK'
  BY <1>1, <1>2 DEF EInv, TypeOK
<1>5. QED
  BY <1>1, <1>2, <1>3, <1>4 DEF EInv, Stopping, JobsFollow, Counted

LEMMA ENext == EInv /\ [Next]_vars => EInv'
<1> SUFFICES ASSUME EInv, [Next]_vars PROVE EInv'
  OBVIOUS
<1>1. ASSUME NEW b \in Browsers,
             \/ \E u \in Urls : Ask(b, u)
             \/ \E code \in Codes : Answer(b, code)
             \/ HangUp(b)
      PROVE  EInv'
  BY <1>1, AskKeeps, AnswerKeeps, OtherKeeps
<1>2. CASE ThreadStep
  BY <1>2, ReceiveKeeps, EndKeeps, AssignKeeps, AssignedKeeps DEF ThreadStep
<1>3. ASSUME NEW u \in Urls, TaskStep(u) PROVE EInv'
  BY <1>3, FetchedKeeps, SendKeeps, GiveUpKeeps DEF TaskStep
<1>4. CASE Cancel \/ CloseStep \/ Drop \/ UNCHANGED vars
  BY <1>4, OtherKeeps, SendStopKeeps DEF CloseStep
<1>5. QED
  BY <1>1, <1>2, <1>3, <1>4 DEF Next

LEMMA Inductive == Spec => []EInv
BY EInit, ENext, PTL DEF Spec

-----------------------------------------------------------------------------
(* The theorems.                                                           *)

\* The slots are counted right (engine.rs:64), for any number of urls, slots and
\* browsers: no report that is dropped, delayed or late leaks or doubles a slot.
THEOREM SlotsAreCounted == Spec => []ActiveCounts
<1>1. EInv => ActiveCounts
  BY DEF EInv, Counted, ActiveCounts, Busy, Reported
<1>2. QED
  BY <1>1, Inductive, PTL

\* No preload starts beside another download of the resource that the thread knows
\* of (engine.rs:142).
THEOREM PreloadsStartOnce == Spec => StartsOnce
<1> DEFINE Start == \A u \in Urls :
                      task'[u] = "fetching" /\ task[u] # "fetching" =>
                        /\ task[u] = "none" /\ u \notin running \cup jobs
                        /\ \A i \in Downloads(channel) : channel[i].url # u
<1>1. EInv /\ [Next]_vars => [Start]_vars
  <2> SUFFICES ASSUME EInv, Next, NEW u \in Urls,
                      task'[u] = "fetching", task[u] # "fetching"
               PROVE  /\ task[u] = "none" /\ u \notin running \cup jobs
                      /\ \A i \in Downloads(channel) : channel[i].url # u
    OBVIOUS
  <2>1. task \in [Urls -> {"none", "fetching"} \cup Codes]
    BY DEF EInv, TypeOK
  <2>2. Assign
    BY <2>1 DEF Next, Ask, Answer, HangUp, ThreadStep, Receive, End, Assigned, TaskStep,
                Fetched, Send, GiveUp, Cancel, CloseStep, CacheClosed, SendStop, Done, Drop, Codes
  <2>3. Scheduler!Take(u)
    BY <2>1, <2>2 DEF Assign
  <2>4. u # NoJob
    BY EngineAssumption
  <2>5. /\ u \notin jobs /\ u \notin running /\ u \notin Busy
        /\ \A i \in Reported : channel[i].url # u
    BY <2>3, <2>4, TakenIsNew
  <2>6. QED
    BY <2>5 DEF Busy, Reported
<1>2. QED
  BY <1>1, Inductive, PTL DEF Spec, StartsOnce
=============================================================================
