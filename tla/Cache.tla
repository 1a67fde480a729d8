-------------------------------- MODULE Cache --------------------------------
(***************************************************************************)
(* core/src/cache.rs: how get() answers requests from the store, and how   *)
(* concurrent misses share one download.                                   *)
(*                                                                         *)
(*   - A client is a caller of get(): the browser (through the gateway) or *)
(*     a background job of the preload engine. Its future may be dropped   *)
(*     at any await.                                                       *)
(*   - A flight is a tracked download task with its Pending record, shared *)
(*     by everybody who asks for the same URL with the same headers.       *)
(*   - The store is the component Storage; a flight writes through it, and *)
(*     its blocking closures outlive it.                                   *)
(*                                                                         *)
(* Time is abstracted: whether an entry is older than the check interval   *)
(* is a choice made where the code compares the clock.                     *)
(***************************************************************************)
EXTENDS FiniteSets, Naturals

CONSTANTS
  Keys, Versions, Variants, DiskPermits, NoEntry, NoWriter, NoJob, \* see Storage
  Requests,           \* request identities: URL and headers, conditions removed
  KeyOf,              \* request -> key of its URL
  VariantOf,          \* request -> variant its headers select
  Clients,            \* concurrent callers of get()
  Flights,            \* slots for download tasks
  DemandPermits,      \* permits of the demand semaphore (16 in the code)
  BackgroundPermits,  \* permits of the background semaphore (2 in the code)
  Answers,            \* kinds of answer the origin may give
  MaxPreloaded,       \* where the model stops counting preloads
  NoFlight, NoPool, NoReply

ASSUME RequestsAssumption ==
  /\ KeyOf \in [Requests -> Keys]
  /\ VariantOf \in [Requests -> Variants]
  /\ Requests # {}
  /\ NoFlight \notin Flights

\* The bodies of a resource are numbered in the order in which it had them.
ASSUME VersionsAssumption == Versions \subseteq Nat

ASSUME PermitsAssumption ==
  /\ DiskPermits \in Nat \ {0}
  /\ DemandPermits \in Nat \ {0}
  /\ BackgroundPermits \in Nat \ {0}
  /\ MaxPreloaded \in Nat

VARIABLES
  disk, memory, residents, lock, job, stage, restorer, \* see Storage
  \* a download task:
  fstep,     \* where it is
  wants,     \* the request it downloads
  demand,    \* Pending.demand: a browser waits on it
  notified,  \* Pending.promoted holds a wake-up
  permit,    \* the pool whose permit it, or its unread stream, holds
  old,       \* the stored entry it validates
  reply,     \* the reply, public once fstep is "published"
  pending,   \* request -> its flight in the pending map
  \* a caller of get():
  cstep,     \* where it is
  ask,       \* its request, and whether it is background
  on,        \* the flight whose result it awaits
  held,      \* the pool whose permit it, or the stream it reads, holds
  served,    \* the body it was given
  \* the world and the counters:
  origin,    \* key -> the body the origin serves now
  preloaded  \* Counters.preloaded

Store == INSTANCE Storage WITH Writers <- Flights

storeVars == <<disk, memory, residents, lock, job, stage, restorer>>
flightVars == <<fstep, wants, demand, notified, permit, old, reply, pending>>
clientVars == <<cstep, ask, on, held, served>>
worldVars == <<origin, preloaded>>
aroundFlights == <<storeVars, clientVars, worldVars>>
vars == <<storeVars, flightVars, clientVars, worldVars>>

Entries == Store!Entries
Pools == {"demand", "background"}

\* 200 with a body to keep, a body the rules forbid to keep, a body whose
\* headers are not text, or a body too large to hold; 404 or 410; another
\* status; no reply.
Whole == {"ok", "unstorable", "untextual"}
AnswerKinds == Whole \cup {"stream", "missing", "notmodified", "refused", "failed"}

ASSUME AnswersAssumption == Answers \subseteq AnswerKinds

Replies == [kind : Whole \cup {"stream", "missing", "refused", "failed", "stopped"},
            entry : Entries \cup {NoEntry}]

\* The markers are none of the values they stand beside.
ASSUME MarkersAssumption ==
  /\ NoEntry \notin Entries
  /\ NoWriter \notin Flights
  /\ NoJob \notin Store!Jobs
  /\ NoReply \notin Replies

\* Saving the reply for a browser that waits, or for nobody in particular.
Saving == {"savingDemand", "saving"}
Downloading == {"queued", "parked", "urgent", "reading", "stamping", "fetching",
                "answered", "dropping"} \cup Saving
Running == Downloading \cup {"published"}
FlightSteps == Running \cup {"blank", "gone"}
ClientSteps == {"idle", "lookup", "missed", "stale", "waiting", "direct", "fetching",
                "served"}

TypeOK ==
  /\ Store!TypeOK
  /\ fstep \in [Flights -> FlightSteps]
  /\ wants \in [Flights -> Requests]
  /\ demand \in [Flights -> BOOLEAN]
  /\ notified \in [Flights -> BOOLEAN]
  /\ permit \in [Flights -> Pools \cup {NoPool}]
  /\ old \in [Flights -> Entries \cup {NoEntry}]
  /\ reply \in [Flights -> Replies \cup {NoReply}]
  /\ pending \in [Requests -> Flights \cup {NoFlight}]
  /\ cstep \in [Clients -> ClientSteps]
  /\ ask \in [Clients -> [request : Requests, background : BOOLEAN]]
  /\ on \in [Clients -> Flights \cup {NoFlight}]
  /\ held \in [Clients -> Pools \cup {NoPool}]
  /\ served \in [Clients -> Entries \cup {NoEntry}]
  /\ origin \in [Keys -> Versions]
  /\ preloaded \in 0..MaxPreloaded

\* Values a blank flight and an idle client keep in the fields that mean
\* nothing for them.
AnyRequest == CHOOSE r \in Requests : TRUE

Init ==
  /\ Store!Init
  /\ fstep = [f \in Flights |-> "blank"]
  /\ wants = [f \in Flights |-> AnyRequest]
  /\ demand = [f \in Flights |-> FALSE]
  /\ notified = [f \in Flights |-> FALSE]
  /\ permit = [f \in Flights |-> NoPool]
  /\ old = [f \in Flights |-> NoEntry]
  /\ reply = [f \in Flights |-> NoReply]
  /\ pending = [r \in Requests |-> NoFlight]
  /\ cstep = [c \in Clients |-> "idle"]
  /\ ask = [c \in Clients |-> [request |-> AnyRequest, background |-> FALSE]]
  /\ on = [c \in Clients |-> NoFlight]
  /\ held = [c \in Clients |-> NoPool]
  /\ served = [c \in Clients |-> NoEntry]
  /\ preloaded = 0
  /\ \E v \in Versions : origin = [k \in Keys |-> v]

-----------------------------------------------------------------------------
(* Permits.                                                                *)

InUse(pool) ==
  Cardinality({f \in Flights : permit[f] = pool})
    + Cardinality({c \in Clients : held[c] = pool})

Available(pool) ==
  InUse(pool) < IF pool = "demand" THEN DemandPermits ELSE BackgroundPermits

-----------------------------------------------------------------------------
(* Clients: get().                                                         *)

Request(c) == ask[c].request
Background(c) == ask[c].background

\* get() is called: requests with cookies, ranges, authorisation or cache
\* directives of their own bypass the cache.
Begin(c, r, background, bypass) ==
  /\ cstep[c] = "idle" /\ stage = "open"
  /\ ask' = [ask EXCEPT ![c] = [request |-> r, background |-> background]]
  /\ cstep' = [cstep EXCEPT ![c] = IF bypass THEN "direct" ELSE "lookup"]
  /\ UNCHANGED <<storeVars, flightVars, on, held, served, worldVars>>

\* stored(): a hit is served as it is; if it is due for a check, a refresh
\* is started first.
Lookup(c) ==
  /\ cstep[c] = "lookup"
  /\ \E e \in Entries \cup {NoEntry} :
       /\ Store!Stored(KeyOf[Request(c)], VariantOf[Request(c)], ~Background(c), e)
       /\ served' = [served EXCEPT ![c] = e]
       /\ \E s \in IF e = NoEntry THEN {"missed"} ELSE {"served", "stale"} :
            cstep' = [cstep EXCEPT ![c] = s]
  /\ UNCHANGED <<flightVars, ask, on, held, worldVars>>

\* Mutant: the demand flag is set without waking the task.
NoWake(f, urgent) == UNCHANGED notified

Wake(f, urgent) == notified' = [notified EXCEPT ![f] = @ \/ urgent]

\* refresh() finds a flight for the request in the pending map.
Join(r, urgent, f) ==
  /\ pending[r] = f /\ f # NoFlight
  /\ demand' = [demand EXCEPT ![f] = @ \/ urgent]
  /\ Wake(f, urgent)
  /\ UNCHANGED <<fstep, wants, permit, old, reply, pending>>

\* Mutant: the map is inspected under one lock and filled under another.
SeenAbsent(r) == TRUE

Absent(r) == pending[r] = NoFlight

\* refresh() finds none and spawns one.
Launch(r, urgent, f) ==
  /\ Absent(r)
  /\ fstep[f] = "blank" /\ job[f] = NoJob
  /\ fstep' = [fstep EXCEPT ![f] = "queued"]
  /\ wants' = [wants EXCEPT ![f] = r]
  /\ demand' = [demand EXCEPT ![f] = urgent]
  /\ pending' = [pending EXCEPT ![r] = f]
  /\ UNCHANGED <<notified, permit, old, reply>>

\* A miss waits for the flight; a stale hit does not, and never promotes it.
Refresh(c) ==
  /\ cstep[c] \in {"missed", "stale"}
  /\ \E f \in Flights :
       LET urgent == cstep[c] = "missed" /\ ~Background(c) IN
         /\ Join(Request(c), urgent, f) \/ Launch(Request(c), urgent, f)
         /\ on' = IF cstep[c] = "missed" THEN [on EXCEPT ![c] = f] ELSE on
  /\ cstep' = [cstep EXCEPT ![c] = IF @ = "missed" THEN "waiting" ELSE "served"]
  /\ UNCHANGED <<storeVars, ask, held, served, worldVars>>

\* Mutant: a call that ends early keeps its permit.
KeepPermit(c) == UNCHANGED held

ReturnPermit(c) == held' = [held EXCEPT ![c] = NoPool]

Leave(c) ==
  /\ cstep' = [cstep EXCEPT ![c] = "idle"]
  /\ on' = [on EXCEPT ![c] = NoFlight]
  /\ ReturnPermit(c)
  /\ served' = [served EXCEPT ![c] = NoEntry]
  /\ ask' = [ask EXCEPT ![c] = [request |-> AnyRequest, background |-> FALSE]]

\* The awaited result is there. An error ends the call; a stream goes to the
\* first browser that asks, permit included, and sends the others to the
\* origin with a permit of their own. A background job leaves the stream where
\* it is, and so does a conditional request that a bare 304 answers.
Deliver(c) ==
  /\ cstep[c] = "waiting" /\ fstep[on[c]] \in {"published", "gone"}
  /\ LET f == on[c]
         r == reply[f]
     IN \/ /\ r.kind \in {"failed", "stopped"}
           /\ Leave(c)
           /\ UNCHANGED permit
        \/ /\ r.kind = "stream" /\ ~Background(c) /\ permit[f] = NoPool
           /\ cstep' = [cstep EXCEPT ![c] = "direct"]
           /\ on' = [on EXCEPT ![c] = NoFlight]
           /\ UNCHANGED <<ask, held, served, permit>>
        \/ /\ r.kind \notin {"failed", "stopped"}
           /\ cstep' = [cstep EXCEPT ![c] = "served"]
           /\ on' = [on EXCEPT ![c] = NoFlight]
           /\ served' = [served EXCEPT ![c] = r.entry]
           /\ \/ /\ r.kind = "stream" /\ ~Background(c) /\ permit[f] # NoPool
                 /\ held' = [held EXCEPT ![c] = permit[f]]
                 /\ permit' = [permit EXCEPT ![f] = NoPool]
              \/ UNCHANGED <<held, permit>>
           /\ UNCHANGED ask
  /\ UNCHANGED <<storeVars, fstep, wants, demand, notified, old, reply, pending, worldVars>>

\* A download of the client's own: the bypass, or a stream already taken.
TakePermit(c) ==
  LET pool == IF Background(c) THEN "background" ELSE "demand" IN
    /\ cstep[c] = "direct" /\ Available(pool)
    /\ cstep' = [cstep EXCEPT ![c] = "fetching"]
    /\ held' = [held EXCEPT ![c] = pool]
    /\ UNCHANGED <<storeVars, flightVars, ask, on, served, worldVars>>

\* Its reply: only the stream a browser reads goes on holding the permit.
DirectReply(c) ==
  /\ cstep[c] = "fetching"
  /\ \/ "failed" \in Answers /\ Leave(c)
     \/ \E a \in Answers \ {"failed", "notmodified"} :
          /\ cstep' = [cstep EXCEPT ![c] = "served"]
          /\ served' = [served EXCEPT ![c] =
               IF a \in Whole \cup {"stream"}
                 THEN [version |-> origin[KeyOf[Request(c)]],
                       variant |-> VariantOf[Request(c)]]
                 ELSE NoEntry]
          /\ held' = IF a = "stream" /\ ~Background(c)
                       THEN held ELSE [held EXCEPT ![c] = NoPool]
          /\ UNCHANGED <<ask, on>>
  /\ UNCHANGED <<storeVars, flightVars, worldVars>>

\* The reply has been written out, or the stream read to its end.
Finish(c) ==
  /\ cstep[c] = "served"
  /\ Leave(c)
  /\ UNCHANGED <<storeVars, flightVars, worldVars>>

\* Waits end with an error once the cache is cancelled.
Stop(c) ==
  /\ Store!Cancelled /\ cstep[c] \in {"waiting", "direct", "fetching"}
  /\ Leave(c)
  /\ UNCHANGED <<storeVars, flightVars, worldVars>>

\* The connection breaks and the gateway drops the future.
Disconnect(c) ==
  /\ cstep[c] \notin {"idle", "served"}
  /\ Leave(c)
  /\ UNCHANGED <<storeVars, flightVars, worldVars>>

ClientStep(c) ==
  \/ Lookup(c) \/ Refresh(c) \/ Deliver(c) \/ TakePermit(c) \/ DirectReply(c)
  \/ Finish(c) \/ Stop(c)

-----------------------------------------------------------------------------
(* Flights: the task spawned by refresh(), and download().                 *)

Key(f) == KeyOf[wants[f]]

Goto(f, s) == fstep' = [fstep EXCEPT ![f] = s]

Release(f) == permit' = [permit EXCEPT ![f] = NoPool]

\* send_replace(): everybody subscribed, now or later, sees the result.
Publish(f, kind, e) ==
  /\ Goto(f, "published")
  /\ reply' = [reply EXCEPT ![f] = [kind |-> kind, entry |-> e]]

\* The head of the permit loop reads the demand flag.
Choose(f) ==
  /\ fstep[f] = "queued"
  /\ Goto(f, IF demand[f] THEN "urgent" ELSE "parked")
  /\ UNCHANGED <<wants, demand, notified, permit, old, reply, pending, aroundFlights>>

\* The biased select looks at the wake-up before the background permit.
Promoted(f) ==
  /\ fstep[f] = "parked" /\ notified[f]
  /\ notified' = [notified EXCEPT ![f] = FALSE]
  /\ Goto(f, "queued")
  /\ UNCHANGED <<wants, demand, permit, old, reply, pending, aroundFlights>>

Acquire(f, s, pool) ==
  /\ fstep[f] = s /\ Available(pool)
  /\ permit' = [permit EXCEPT ![f] = pool]
  /\ Goto(f, "reading")
  /\ UNCHANGED <<wants, demand, notified, old, reply, pending, aroundFlights>>

TakeDemand(f) == Acquire(f, "urgent", "demand")

TakeBackground(f) == ~notified[f] /\ Acquire(f, "parked", "background")

\* Another flight may have stored the resource meanwhile: a fresh entry ends
\* the download, a stale one is validated.
ReadOld(f) ==
  /\ fstep[f] = "reading"
  /\ \E e \in Entries \cup {NoEntry} :
       /\ Store!Stored(Key(f), VariantOf[wants[f]], FALSE, e)
       /\ \/ e # NoEntry /\ Publish(f, "ok", e) /\ Release(f) /\ UNCHANGED old
          \/ /\ Goto(f, IF e = NoEntry THEN "fetching" ELSE "stamping")
             /\ old' = [old EXCEPT ![f] = e]
             /\ UNCHANGED <<permit, reply>>
  /\ UNCHANGED <<wants, demand, notified, pending, clientVars, worldVars>>

\* persist(): stamping the old entry as checked, dropping it, or saving the
\* reply, as soon as a disk permit is free.
Value(f) ==
  CASE fstep[f] = "stamping" -> old[f]
    [] fstep[f] = "dropping" -> NoEntry
    [] fstep[f] \in Saving -> IF reply[f].kind = "ok" THEN reply[f].entry ELSE NoEntry

AdmissionOf(f) ==
  CASE fstep[f] = "savingDemand" -> "Demand"
    [] fstep[f] = "saving" /\ old[f] = NoEntry -> "Preload"
    [] OTHER -> "Refresh"

AtStore == {"stamping", "dropping"} \cup Saving

Submit(f) ==
  /\ fstep[f] \in AtStore
  /\ Store!Spawn(f, Key(f), Value(f), AdmissionOf(f))
  /\ UNCHANGED <<flightVars, clientVars, worldVars>>

\* Validation goes on whether or not the stamp could be written.
Stamped(f) ==
  /\ fstep[f] = "stamping"
  /\ Store!Collect(f)
  /\ Goto(f, "fetching")
  /\ UNCHANGED <<wants, demand, notified, permit, old, reply, pending,
                 clientVars, worldVars>>

\* The answer of the origin, at the moment the origin gives it. The headers of
\* a 304 replace those of the old entry, and may forbid keeping it. Whatever its
\* status, a body too large to hold becomes a stream and keeps the permit; if it
\* is the body of a 404 or 410, the old entry is dropped all the same.
Fetch(f) ==
  LET current == [version |-> origin[Key(f)], variant |-> VariantOf[wants[f]]] IN
    /\ fstep[f] = "fetching"
    /\ \/ \E kind \in Answers \cap (Whole \cup {"stream"}) :
            /\ Goto(f, "answered")
            /\ reply' = [reply EXCEPT ![f] = [kind |-> kind, entry |-> current]]
            /\ UNCHANGED permit
       \/ /\ "notmodified" \in Answers /\ old[f] = current
          /\ Goto(f, "answered")
          /\ \E kind \in Answers \cap Whole :
               reply' = [reply EXCEPT ![f] = [kind |-> kind, entry |-> old[f]]]
          /\ UNCHANGED permit
       \/ /\ "missing" \in Answers /\ old[f] # NoEntry
          /\ Goto(f, "dropping")
          /\ \E kind \in Answers \cap {"missing", "stream"} :
               reply' = [reply EXCEPT ![f] = [kind |-> kind, entry |-> NoEntry]]
          /\ UNCHANGED permit
       \/ /\ "missing" \in Answers /\ old[f] = NoEntry
          /\ Publish(f, "missing", NoEntry) /\ Release(f)
       \/ \E kind \in Answers \cap {"refused", "failed"} :
            Publish(f, kind, NoEntry) /\ Release(f)
       \/ /\ "stream" \in Answers /\ Answers \cap {"missing", "refused"} # {}
          /\ Publish(f, "stream", NoEntry) /\ UNCHANGED permit
    /\ UNCHANGED <<wants, demand, notified, old, pending, aroundFlights>>

\* The 200 is there whole, or to be streamed. Who waits for it is asked before
\* the wait for a disk permit: a browser that joins later does not change how
\* the copy is admitted to memory.
Decide(f) ==
  /\ fstep[f] = "answered"
  /\ Goto(f, IF demand[f] THEN "savingDemand" ELSE "saving")
  /\ UNCHANGED <<wants, demand, notified, permit, old, reply, pending, aroundFlights>>

\* The last write of the flight has returned, well or badly: the reply goes
\* out either way, and a stream takes the permit with it.
CountsAsPreload(f) ==
  /\ fstep[f] \in Saving /\ job[f].ok
  /\ reply[f].kind \in {"ok", "untextual"}
  /\ old[f] = NoEntry
  /\ ~demand[f]

\* Mutant: the permit ends with the download even when the body does not.
NothingToRead(f) == FALSE

StreamLeft(f) == reply[f].kind = "stream"

Written(f) ==
  /\ fstep[f] \in {"dropping"} \cup Saving
  /\ Store!Collect(f)
  /\ Goto(f, "published")
  /\ IF StreamLeft(f) THEN UNCHANGED permit ELSE Release(f)
  /\ preloaded' = IF CountsAsPreload(f) /\ preloaded < MaxPreloaded
                    THEN preloaded + 1 ELSE preloaded
  /\ UNCHANGED <<wants, demand, notified, old, reply, pending, clientVars, origin>>

\* The select around download() sees the cancellation: the task gives up its
\* permit at once, and the closure it may have running goes on without it.
Abort(f) ==
  /\ Store!Cancelled /\ fstep[f] \in Downloading
  /\ Publish(f, "stopped", NoEntry) /\ Release(f)
  /\ UNCHANGED <<wants, demand, notified, old, pending, aroundFlights>>

\* Mutant: the task stays until somebody asks for its result.
PublishedAndAwaited(f) == fstep[f] = "published" /\ \E c \in Clients : on[c] = f

Published(f) == fstep[f] = "published"

\* The task leaves the pending map and ends.
Remove(f) ==
  /\ Published(f)
  /\ pending' = [pending EXCEPT ![wants[f]] = NoFlight]
  /\ Goto(f, "gone")
  /\ UNCHANGED <<wants, demand, notified, permit, old, reply, aroundFlights>>

Unreferenced(f) == \A c \in Clients : on[c] # f

\* The last reference to the result is dropped, and with it a stream nobody
\* took and its permit.
Drop(f) ==
  /\ fstep[f] = "gone" /\ Unreferenced(f)
  /\ Goto(f, "blank") /\ Release(f)
  /\ wants' = [wants EXCEPT ![f] = AnyRequest]
  /\ demand' = [demand EXCEPT ![f] = FALSE]
  /\ notified' = [notified EXCEPT ![f] = FALSE]
  /\ old' = [old EXCEPT ![f] = NoEntry]
  /\ reply' = [reply EXCEPT ![f] = NoReply]
  /\ UNCHANGED <<pending, aroundFlights>>

\* Mutant: dropping the future is taken to stop the closure.
DiscardRunning(f) ==
  /\ fstep[f] \notin AtStore /\ job[f] # NoJob
  /\ job' = [job EXCEPT ![f] = NoJob]
  /\ UNCHANGED <<disk, memory, residents, lock, stage, restorer>>
  /\ UNCHANGED <<flightVars, clientVars, worldVars>>

\* The runtime discards the result of a closure whose flight was aborted.
Discard(f) ==
  /\ fstep[f] \notin AtStore
  /\ Store!Collect(f)
  /\ UNCHANGED <<flightVars, clientVars, worldVars>>

FlightStep(f) ==
  \/ Choose(f) \/ Promoted(f) \/ TakeDemand(f) \/ TakeBackground(f) \/ ReadOld(f)
  \/ Submit(f) \/ Stamped(f) \/ Fetch(f) \/ Decide(f) \/ Written(f) \/ Abort(f) \/ Remove(f)
  \/ Drop(f)

-----------------------------------------------------------------------------
(* The blocking closures, the restore task, close() and restarts.          *)

JobStep(f) == (Store!JobStep(f) /\ UNCHANGED <<flightVars, clientVars, worldVars>>) \/ Discard(f)

RestorerStep ==
  /\ Store!RestorerStep
  /\ UNCHANGED <<flightVars, clientVars, worldVars>>

StartRestore ==
  /\ Store!StartRestore
  /\ UNCHANGED <<flightVars, clientVars, worldVars>>

Cancel ==
  /\ Store!Cancel
  /\ UNCHANGED <<flightVars, clientVars, worldVars>>

\* tasks.wait() also waits for every flight.
CloseStep ==
  /\ Store!CloseStep
  /\ stage = "stopping" => \A f \in Flights : fstep[f] \notin Running
  /\ UNCHANGED <<flightVars, clientVars, worldVars>>

\* The process dies, or the next Cache is opened after close().
Restart ==
  /\ Store!Restart
  /\ fstep' = [f \in Flights |-> "blank"]
  /\ wants' = [f \in Flights |-> AnyRequest]
  /\ demand' = [f \in Flights |-> FALSE]
  /\ notified' = [f \in Flights |-> FALSE]
  /\ permit' = [f \in Flights |-> NoPool]
  /\ old' = [f \in Flights |-> NoEntry]
  /\ reply' = [f \in Flights |-> NoReply]
  /\ pending' = [r \in Requests |-> NoFlight]
  /\ cstep' = [c \in Clients |-> "idle"]
  /\ ask' = [c \in Clients |-> [request |-> AnyRequest, background |-> FALSE]]
  /\ on' = [c \in Clients |-> NoFlight]
  /\ held' = [c \in Clients |-> NoPool]
  /\ served' = [c \in Clients |-> NoEntry]
  /\ preloaded' = 0
  /\ UNCHANGED origin

\* The origin replaces a resource.
Update(k) ==
  /\ \E v \in Versions : v > origin[k] /\ origin' = [origin EXCEPT ![k] = v]
  /\ UNCHANGED <<storeVars, flightVars, clientVars, preloaded>>

Next ==
  \/ \E c \in Clients :
       \/ \E r \in Requests, background, bypass \in BOOLEAN :
            Begin(c, r, background, bypass)
       \/ ClientStep(c)
       \/ Disconnect(c)
  \/ \E f \in Flights : FlightStep(f) \/ JobStep(f)
  \/ StartRestore \/ RestorerStep
  \/ Cancel \/ CloseStep
  \/ Restart
  \/ \E k \in Keys : Update(k)

Spec == Init /\ [][Next]_vars

\* tokio's semaphores queue their waiters and the mutex is assumed not to
\* starve anybody, so a task that is again and again able to move does move.
\* The origin answers within the 40 s that fetch() allows it, and a browser
\* reads the stream it was given to its end or hangs up. Nothing obliges a
\* client to ask, a connection to break, the origin to change, or anybody to
\* close or kill the program.
FairSpec ==
  /\ Spec
  /\ \A c \in Clients : SF_vars(ClientStep(c))
  /\ \A f \in Flights : SF_vars(FlightStep(f)) /\ SF_vars(JobStep(f))
  /\ SF_vars(RestorerStep) /\ SF_vars(CloseStep)

-----------------------------------------------------------------------------
(* Properties.                                                             *)

\* Everything the store promises, it promises here: whatever clients, flights
\* and cancellations do, the store only takes steps of Storage.
StoreKept == Store!Spec

\* One download per request identity, and it is the one the map knows: neither
\* a miss that raced another nor a flight about to be removed starts a second.
SingleFlight ==
  \A f \in Flights :
    fstep[f] \in Running => pending[wants[f]] = f

\* No lost promotion: a download that a browser waits on is never left in the
\* background queue without a wake-up on its way.
PromotionNotLost ==
  \A f \in Flights :
    fstep[f] = "parked" /\ demand[f] => notified[f]

\* Whoever waits has something to wait for: a flight of its own request,
\* promoted if the waiter is a browser, that the task has not abandoned.
WaiterHasFlight ==
  \A c \in Clients :
    cstep[c] = "waiting" =>
      LET f == on[c] IN
        /\ f # NoFlight /\ fstep[f] # "blank"
        /\ wants[f] = Request(c)
        /\ ~Background(c) => demand[f]

\* Nobody is given a body selected for other request headers, whether it came
\* from memory, from disk, from a shared download or from a stream of its own.
VariantServed ==
  \A c \in Clients :
    served[c] # NoEntry => served[c].variant = VariantOf[Request(c)]

\* A stream stays paid for: the permit it was downloaded under leaves its
\* flight only into the hands of the browser that reads it, or with the stream.
StreamKeepsPermit ==
  [][\A f \in Flights :
       /\ permit[f] # NoPool /\ permit'[f] = NoPool
       /\ reply[f] # NoReply /\ reply[f].kind = "stream"
       => \/ reply'[f] # reply[f]
          \/ \E c \in Clients : held[c] = NoPool /\ held'[c] = permit[f]]_vars

\* The bodies a flight, or the closure it left behind, may still write, and
\* the file they would go to.
InHand(f) ==
  (   (IF fstep[f] = "stamping" THEN {old[f]} ELSE {})
   \cup (IF fstep[f] \in {"answered"} \cup Saving THEN {reply[f].entry} ELSE {})
   \cup (IF job[f] # NoJob THEN {job[f].value} ELSE {})) \ {NoEntry}

HandKey(f) == IF job[f] # NoJob THEN job[f].key ELSE Key(f)

\* Its file got ahead of a body it has in hand.
Behind(f) ==
  /\ disk[HandKey(f)] # NoEntry
  /\ \E e \in InHand(f) : e.version < disk[HandKey(f)].version

\* While it had the body in hand, another running flight of the same URL, but of
\* other headers, wrote a newer one.
Overtaken(f) ==
  \E g \in Flights \ {f} :
    /\ lock = g /\ job[g].key = HandKey(f)
    /\ {fstep[f], fstep[g]} \subseteq Running /\ wants[g] # wants[f]

\* An older body never replaces a newer one on disk, however slow its download,
\* its validation or its closure, except where two header sets of one URL raced:
\* the writer was overtaken by a flight of other headers, and in no other way
\* does a flight get behind its file while the cache is open.
OlderOnlyIfOvertaken ==
  [][/\ \A k \in Keys :
          disk[k] # NoEntry /\ disk'[k] # NoEntry /\ disk'[k].version < disk[k].version
            => \E f \in Flights : lock = f /\ HandKey(f) = k /\ Behind(f)
     /\ \A f \in Flights : stage = "open" /\ ~Behind(f) /\ Behind(f)' => Overtaken(f)]_vars

\* A preload is counted only when it left a resource in the store.
PreloadsAreSaved ==
  [][preloaded' > preloaded =>
       \E f \in Flights : fstep[f] \in Saving /\ job[f].ok /\ job[f].value # NoEntry]_vars

\* Everybody who asks is answered, with a body or an error, though downloads
\* fail, permits run out, streams are shared and the cache is closed.
Answered ==
  \A c \in Clients : cstep[c] \notin {"idle", "served"} ~> cstep[c] \in {"idle", "served"}

\* close() returns.
CloseTerminates == stage = "stopping" ~> stage \in {"closed", "open"}

=============================================================================
