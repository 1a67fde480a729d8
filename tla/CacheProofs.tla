----------------------------- MODULE CacheProofs -----------------------------
(***************************************************************************)
(* Proofs about Cache for every number of clients, download slots, keys,   *)
(* requests and permits and every kind of answer.                          *)
(*                                                                         *)
(* First the store: every step of Cache is a step of Storage or none of    *)
(* its business, so what StorageProofs proves holds of Cache. Then the     *)
(* coalescing of downloads, by an inductive invariant over flights and     *)
(* their waiters. Last two action properties, each with a further          *)
(* invariant: the permits of streams, and the age of the bodies written.   *)
(***************************************************************************)
EXTENDS Cache, TLAPS

Proved == INSTANCE StorageProofs WITH Writers <- Flights

\* A set of two names, expanded wherever it occurs.
USE DEF Saving

-----------------------------------------------------------------------------
(* The inductive invariant.                                                *)

FlightsTyped ==
  /\ fstep \in [Flights -> FlightSteps]
  /\ wants \in [Flights -> Requests]
  /\ demand \in [Flights -> BOOLEAN]
  /\ notified \in [Flights -> BOOLEAN]
  /\ permit \in [Flights -> Pools \cup {NoPool}]
  /\ old \in [Flights -> Entries \cup {NoEntry}]
  /\ reply \in [Flights -> Replies \cup {NoReply}]
  /\ pending \in [Requests -> Flights \cup {NoFlight}]

ClientsTyped ==
  /\ cstep \in [Clients -> ClientSteps]
  /\ ask \in [Clients -> [request : Requests, background : BOOLEAN]]
  /\ on \in [Clients -> Flights \cup {NoFlight}]
  /\ held \in [Clients -> Pools \cup {NoPool}]
  /\ served \in [Clients -> Entries \cup {NoEntry}]

WorldTyped ==
  /\ origin \in [Keys -> Versions]
  /\ preloaded \in 0..MaxPreloaded

\* A blank slot holds nothing; from the last write on there is a reply.
ReplyThere ==
  \A f \in Flights :
    /\ fstep[f] = "blank" => old[f] = NoEntry /\ reply[f] = NoReply
    /\ fstep[f] \in {"answered", "dropping", "published", "gone"} \cup Saving
         => reply[f] \in Replies

\* What the pending map knows is running, for the request it is filed under.
PendingRuns ==
  \A r \in Requests :
    pending[r] # NoFlight => fstep[pending[r]] \in Running /\ wants[pending[r]] = r

\* A flight only handles bodies selected for its own request.
FlightVariant ==
  \A f \in Flights :
    /\ old[f] # NoEntry => old[f].variant = VariantOf[wants[f]]
    /\ reply[f] # NoReply /\ reply[f].entry # NoEntry
         => reply[f].entry.variant = VariantOf[wants[f]]

FlightInv ==
  /\ FlightsTyped /\ ReplyThere /\ PendingRuns
  /\ SingleFlight /\ PromotionNotLost /\ FlightVariant

\* A client has a body only once it was given one.
NothingServedYet ==
  \A c \in Clients : cstep[c] \notin {"stale", "served"} => served[c] = NoEntry

ClientInv == ClientsTyped /\ WaiterHasFlight /\ NothingServedYet /\ VariantServed

CInv == FlightInv /\ ClientInv /\ WorldTyped

-----------------------------------------------------------------------------
(* The store.                                                              *)

\* A look-up only returns an entry that matches the request's headers.
LEMMA StoredResult ==
  ASSUME NEW k, NEW v, NEW d, NEW e \in Entries, Store!Stored(k, v, d, e)
  PROVE  e.variant = v
<1>1. e # NoEntry
  BY MarkersAssumption
<1>2. CASE Store!FromMemory(k, v, e)
  BY <1>1, <1>2 DEF Store!FromMemory, Store!Matches
<1>3. CASE Store!FromDisk(k, v, d, e)
  BY <1>1, <1>3 DEF Store!FromDisk, Store!Matches
<1>4. QED
  BY <1>2, <1>3 DEF Store!Stored

LEMMA InitTyped == Init => CInv
<1>1. AnyRequest \in Requests
  BY RequestsAssumption DEF AnyRequest
<1>2. ASSUME Init PROVE FlightInv
  BY <1>1, <1>2, RequestsAssumption
     DEF Init, FlightInv, FlightsTyped, ReplyThere, PendingRuns, SingleFlight,
         PromotionNotLost, FlightVariant, FlightSteps, Running, Downloading
<1>3. ASSUME Init PROVE ClientInv
  BY <1>1, <1>3 
     DEF Init, ClientInv, ClientsTyped, WaiterHasFlight, NothingServedYet, VariantServed,
         ClientSteps
<1>4. ASSUME Init PROVE WorldTyped
  BY <1>4, PermitsAssumption DEF Init, WorldTyped
<1>5. QED
  BY <1>2, <1>3, <1>4 DEF CInv

-----------------------------------------------------------------------------
(* Clients.                                                                *)

\* A client that moves and does not wait afterwards disturbs no other.
LEMMA ClientMoves ==
  ASSUME ClientInv, ClientsTyped', NEW c \in Clients,
         UNCHANGED <<fstep, wants, demand>>,
         \A d \in Clients \ {c} :
           /\ cstep'[d] = cstep[d] /\ ask'[d] = ask[d]
           /\ on'[d] = on[d] /\ served'[d] = served[d],
         cstep'[c] # "waiting",
         cstep'[c] \notin {"stale", "served"} => served'[c] = NoEntry,
         served'[c] # NoEntry => served'[c].variant = VariantOf[ask'[c].request]
  PROVE  ClientInv'
<1>1. WaiterHasFlight'
  BY DEF ClientInv, WaiterHasFlight, Request, Background
<1>2. VariantServed'
  BY DEF ClientInv, VariantServed, Request
<1>3. NothingServedYet'
  BY DEF ClientInv, NothingServedYet
<1>4. QED
  BY <1>1, <1>2, <1>3 DEF ClientInv

LEMMA FlightsUntouched ==
  ASSUME FlightInv, UNCHANGED flightVars
  PROVE  FlightInv'
BY DEF FlightInv, flightVars, FlightsTyped, ReplyThere, PendingRuns, SingleFlight,
       PromotionNotLost, FlightVariant

LEMMA ClientsUntouched ==
  ASSUME ClientInv, UNCHANGED <<flightVars, clientVars>>
  PROVE  ClientInv'
BY DEF ClientInv, flightVars, clientVars, ClientsTyped, WaiterHasFlight, NothingServedYet,
       VariantServed, Request, Background

LEMMA WorldUntouched ==
  ASSUME WorldTyped, UNCHANGED worldVars
  PROVE  WorldTyped'
BY DEF WorldTyped, worldVars

LEMMA BeginInv ==
  ASSUME CInv, NEW c \in Clients, NEW r \in Requests, NEW b \in BOOLEAN,
         NEW bypass \in BOOLEAN, Begin(c, r, b, bypass)
  PROVE  CInv'
<1>1. ClientsTyped'
  BY DEF CInv, Begin, ClientInv, ClientsTyped, ClientSteps
<1>2. served'[c] = NoEntry
  BY DEF CInv, Begin, ClientInv, ClientsTyped, NothingServedYet
<1>3. ClientInv'
  <2>1. \A d \in Clients \ {c} :
          /\ cstep'[d] = cstep[d] /\ ask'[d] = ask[d]
          /\ on'[d] = on[d] /\ served'[d] = served[d]
    BY DEF CInv, Begin, ClientInv, ClientsTyped
  <2>2. cstep'[c] # "waiting"
    BY DEF CInv, Begin, ClientInv, ClientsTyped
  <2>3. UNCHANGED <<fstep, wants, demand>>
    BY DEF Begin, flightVars
  <2>4. QED
    BY <1>1, <1>2, <2>1, <2>2, <2>3, ClientMoves DEF CInv
<1>4. QED
  BY <1>3, FlightsUntouched, WorldUntouched DEF CInv, Begin

LEMMA LookupInv ==
  ASSUME CInv, NEW c \in Clients, Lookup(c)
  PROVE  CInv'
<1>1. PICK e \in Entries \cup {NoEntry} :
        /\ Store!Stored(KeyOf[Request(c)], VariantOf[Request(c)], ~Background(c), e)
        /\ served' = [served EXCEPT ![c] = e]
        /\ \E s \in IF e = NoEntry THEN {"missed"} ELSE {"served", "stale"} :
             cstep' = [cstep EXCEPT ![c] = s]
  BY DEF Lookup
<1>2. ClientsTyped'
  BY <1>1 DEF CInv, Lookup, ClientInv, ClientsTyped, ClientSteps
<1>3. e # NoEntry => e.variant = VariantOf[Request(c)]
  BY <1>1, StoredResult
<1>4. ClientInv'
  <2>1. \A d \in Clients \ {c} :
          /\ cstep'[d] = cstep[d] /\ ask'[d] = ask[d]
          /\ on'[d] = on[d] /\ served'[d] = served[d]
    BY <1>1 DEF CInv, Lookup, ClientInv, ClientsTyped
  <2>2. /\ cstep'[c] # "waiting" /\ served'[c] = e
        /\ cstep'[c] \notin {"stale", "served"} => served'[c] = NoEntry
    BY <1>1 DEF CInv, ClientInv, ClientsTyped
  <2>3. UNCHANGED <<fstep, wants, demand, ask>>
    BY DEF Lookup, flightVars
  <2>4. QED
    BY <1>2, <1>3, <2>1, <2>2, <2>3, ClientMoves DEF CInv, Request
<1>5. QED
  BY <1>4, FlightsUntouched, WorldUntouched DEF CInv, Lookup

\* A call that ends leaves nothing behind.
LEMMA LeaveInv ==
  ASSUME CInv, NEW c \in Clients, Leave(c), UNCHANGED <<fstep, wants, demand>>
  PROVE  ClientInv'
<1>1. ClientsTyped'
  BY RequestsAssumption
     DEF CInv, Leave, ReturnPermit, ClientInv, ClientsTyped, ClientSteps, AnyRequest
<1>2. \A d \in Clients \ {c} :
        /\ cstep'[d] = cstep[d] /\ ask'[d] = ask[d]
        /\ on'[d] = on[d] /\ served'[d] = served[d]
  BY DEF CInv, Leave, ClientInv, ClientsTyped
<1>3. cstep'[c] = "idle" /\ served'[c] = NoEntry
  BY DEF CInv, Leave, ClientInv, ClientsTyped
<1>4. QED
  BY <1>1, <1>2, <1>3, ClientMoves DEF CInv

LEMMA EndInv ==
  ASSUME CInv, NEW c \in Clients, Finish(c) \/ Stop(c) \/ Disconnect(c)
  PROVE  CInv'
<1>1. Leave(c) /\ UNCHANGED <<flightVars, worldVars>>
  BY DEF Finish, Stop, Disconnect
<1>2. ClientInv'
  BY <1>1, LeaveInv DEF flightVars
<1>3. QED
  BY <1>1, <1>2, FlightsUntouched, WorldUntouched DEF CInv

LEMMA TakePermitInv ==
  ASSUME CInv, NEW c \in Clients, TakePermit(c)
  PROVE  CInv'
<1>1. ClientsTyped'
  BY DEF CInv, TakePermit, ClientInv, ClientsTyped, ClientSteps, Pools
<1>2. /\ \A d \in Clients \ {c} : cstep'[d] = cstep[d]
      /\ cstep'[c] = "fetching" /\ cstep[c] = "direct"
      /\ UNCHANGED <<ask, on, served, fstep, wants, demand>>
  BY DEF CInv, TakePermit, ClientInv, ClientsTyped, flightVars
<1>3. served'[c] = NoEntry
  BY <1>2 DEF CInv, ClientInv, NothingServedYet
<1>4. ClientInv'
  BY <1>1, <1>2, <1>3, ClientMoves DEF CInv
<1>5. QED
  BY <1>4, FlightsUntouched, WorldUntouched DEF CInv, TakePermit

LEMMA DirectReplyInv ==
  ASSUME CInv, NEW c \in Clients, DirectReply(c)
  PROVE  CInv'
<1>1. UNCHANGED <<flightVars, worldVars, fstep, wants, demand>>
  BY DEF DirectReply, flightVars
<1>2. CASE Leave(c)
  BY <1>1, <1>2, LeaveInv, FlightsUntouched, WorldUntouched DEF CInv
<1>3. CASE ~Leave(c)
  <2> DEFINE body == [version |-> origin[KeyOf[Request(c)]],
                      variant |-> VariantOf[Request(c)]]
  <2>1. PICK a \in Answers :
          /\ cstep' = [cstep EXCEPT ![c] = "served"]
          /\ served' = [served EXCEPT ![c] =
               IF a \in Whole \cup {"stream"} THEN body ELSE NoEntry]
          /\ held' = IF a = "stream" /\ ~Background(c)
                       THEN held ELSE [held EXCEPT ![c] = NoPool]
          /\ UNCHANGED <<ask, on>>
    BY <1>3 DEF DirectReply
  <2>2. body \in Entries /\ body.variant = VariantOf[Request(c)]
    BY RequestsAssumption
       DEF CInv, ClientInv, ClientsTyped, WorldTyped, Entries, Store!Entries, Request
  <2>3. ClientsTyped'
    BY <2>1, <2>2 DEF CInv, ClientInv, ClientsTyped, ClientSteps
  <2>4. /\ \A d \in Clients \ {c} : cstep'[d] = cstep[d] /\ served'[d] = served[d]
        /\ cstep'[c] = "served"
        /\ served'[c] \in {body, NoEntry}
    BY <2>1 DEF CInv, ClientInv, ClientsTyped
  <2>5. served'[c] # NoEntry => served'[c].variant = VariantOf[ask'[c].request]
    BY <2>1, <2>2, <2>4 DEF Request
  <2>6. ClientInv'
    BY <1>1, <2>1, <2>3, <2>4, <2>5, ClientMoves DEF CInv
  <2>7. QED
    BY <1>1, <2>6, FlightsUntouched, WorldUntouched DEF CInv
<1>4. QED
  BY <1>2, <1>3

-----------------------------------------------------------------------------
(* Joining and starting flights, and taking their results.                 *)

\* Joining keeps every flight as it is, except that it may be promoted; the
\* promotion leaves a wake-up with it.
LEMMA JoinInv ==
  ASSUME FlightInv, NEW r \in Requests, NEW urgent \in BOOLEAN, NEW f \in Flights,
         Join(r, urgent, f)
  PROVE  /\ FlightInv'
         /\ fstep[f] \in Running /\ wants[f] = r
         /\ urgent => demand'[f]
         /\ UNCHANGED <<fstep, wants>>
         /\ \A g \in Flights : demand[g] => demand'[g]
<1> USE DEF FlightInv, Join, Wake
<1>1. FlightsTyped'
  BY DEF FlightsTyped
<1>2. PromotionNotLost'
  BY DEF PromotionNotLost, FlightsTyped
<1>3. ReplyThere' /\ PendingRuns' /\ SingleFlight' /\ FlightVariant'
  BY DEF ReplyThere, PendingRuns, SingleFlight, FlightVariant
<1>4. fstep[f] \in Running /\ wants[f] = r
  BY DEF PendingRuns
<1>5. QED
  BY <1>1, <1>2, <1>3, <1>4 DEF FlightsTyped

\* Starting needs a blank slot and a request the map does not know.
LEMMA LaunchInv ==
  ASSUME FlightInv, NEW r \in Requests, NEW urgent \in BOOLEAN, NEW f \in Flights,
         Launch(r, urgent, f)
  PROVE  /\ FlightInv'
         /\ fstep[f] = "blank" /\ fstep'[f] = "queued"
         /\ wants'[f] = r /\ demand'[f] = urgent
         /\ \A g \in Flights \ {f} :
              fstep'[g] = fstep[g] /\ wants'[g] = wants[g] /\ demand'[g] = demand[g]
<1> USE DEF FlightInv, Launch
<1>1. FlightsTyped'
  BY DEF FlightsTyped, FlightSteps, Running, Downloading
<1>2. ReplyThere' /\ PromotionNotLost'
  BY DEF FlightsTyped, ReplyThere, PromotionNotLost
<1>3. PendingRuns'
  BY RequestsAssumption DEF FlightsTyped, PendingRuns, Running, Downloading
<1>4. SingleFlight'
  BY RequestsAssumption DEF FlightsTyped, SingleFlight, Absent
<1>5. FlightVariant'
  BY DEF FlightsTyped, FlightVariant, ReplyThere
<1>6. QED
  BY <1>1, <1>2, <1>3, <1>4, <1>5 DEF FlightsTyped

LEMMA RefreshInv ==
  ASSUME CInv, NEW c \in Clients, Refresh(c)
  PROVE  CInv'
<1> DEFINE urgent == cstep[c] = "missed" /\ ~Background(c)
<1>1. PICK f \in Flights :
        /\ Join(Request(c), urgent, f) \/ Launch(Request(c), urgent, f)
        /\ on' = IF cstep[c] = "missed" THEN [on EXCEPT ![c] = f] ELSE on
  BY DEF Refresh
<1>2. Request(c) \in Requests /\ urgent \in BOOLEAN
  BY DEF CInv, ClientInv, ClientsTyped, Request
<1>3. FlightInv' /\ fstep'[f] # "blank" /\ wants'[f] = Request(c) /\ (urgent => demand'[f])
  BY <1>1, <1>2, JoinInv, LaunchInv DEF CInv, Running, Downloading
<1>3a. \A g \in Flights :
         \/ fstep[g] = "blank"
         \/ /\ fstep'[g] = fstep[g] /\ wants'[g] = wants[g]
            /\ demand[g] => demand'[g]
  BY <1>1, <1>2, JoinInv, LaunchInv DEF CInv
<1>4. ClientsTyped'
  BY <1>1 DEF CInv, Refresh, ClientInv, ClientsTyped, ClientSteps
<1>5. /\ \A d \in Clients \ {c} : cstep'[d] = cstep[d] /\ on'[d] = on[d]
      /\ cstep'[c] = IF cstep[c] = "missed" THEN "waiting" ELSE "served"
      /\ UNCHANGED <<ask, served>>
  BY <1>1 DEF CInv, Refresh, ClientInv, ClientsTyped
<1>6. WaiterHasFlight'
  <2> SUFFICES ASSUME NEW d \in Clients, cstep'[d] = "waiting"
               PROVE  /\ on'[d] # NoFlight /\ fstep'[on'[d]] # "blank"
                      /\ wants'[on'[d]] = ask'[d].request
                      /\ ~ask'[d].background => demand'[on'[d]]
    BY DEF WaiterHasFlight, Request, Background
  <2>1. CASE d = c
    <3>1. cstep[c] = "missed" /\ on'[c] = f
      BY <1>1, <1>5, <2>1 DEF CInv, ClientInv, ClientsTyped
    <3>2. ~ask'[c].background => demand'[f]
      BY <1>3, <1>5, <3>1 DEF Background
    <3>3. on'[c] # NoFlight /\ fstep'[on'[c]] # "blank" /\ wants'[on'[c]] = ask'[c].request
      BY <1>3, <1>5, <3>1, RequestsAssumption DEF Request
    <3>4. QED
      BY <2>1, <3>1, <3>2, <3>3
  <2>2. CASE d # c
    <3>1. /\ on[d] \in Flights /\ fstep[on[d]] # "blank" /\ on[d] # NoFlight
          /\ wants[on[d]] = ask[d].request
          /\ ~ask[d].background => demand[on[d]]
      BY <1>5, <2>2
         DEF CInv, ClientInv, ClientsTyped, WaiterHasFlight, Request, Background
    <3>2. QED
      BY <1>3a, <1>5, <2>2, <3>1
  <2>3. QED
    BY <2>1, <2>2
<1>7. NothingServedYet' /\ VariantServed'
  BY <1>5 DEF CInv, Refresh, ClientInv, NothingServedYet, VariantServed, Request
<1>8. QED
  BY <1>3, <1>4, <1>6, <1>7, WorldUntouched DEF CInv, ClientInv, Refresh

LEMMA DeliverInv ==
  ASSUME CInv, NEW c \in Clients, Deliver(c)
  PROVE  CInv'
<1> DEFINE f == on[c]
           r == reply[f]
<1>1. /\ cstep[c] = "waiting" /\ fstep[f] \in {"published", "gone"}
      /\ UNCHANGED <<fstep, wants, demand, notified, old, reply, pending, worldVars>>
  BY DEF Deliver
<1>2. f \in Flights /\ wants[f] = Request(c)
  BY <1>1 DEF CInv, ClientInv, ClientsTyped, WaiterHasFlight
<1>3. r \in Replies /\ (r.entry # NoEntry => r.entry.variant = VariantOf[Request(c)])
  BY <1>1, <1>2, MarkersAssumption DEF CInv, FlightInv, ReplyThere, FlightVariant
<1>4. permit' \in [Flights -> Pools \cup {NoPool}]
  BY DEF Deliver, CInv, FlightInv, FlightsTyped
<1>5. FlightInv'
  BY <1>1, <1>4
     DEF CInv, FlightInv, FlightsTyped, ReplyThere, PendingRuns, SingleFlight,
         PromotionNotLost, FlightVariant
<1>6. CASE Leave(c)
  BY <1>1, <1>5, <1>6, LeaveInv, WorldUntouched DEF CInv
<1>7. CASE ~Leave(c)
  <2>1. \/ /\ cstep' = [cstep EXCEPT ![c] = "direct"]
           /\ UNCHANGED <<ask, held, served>>
        \/ /\ cstep' = [cstep EXCEPT ![c] = "served"]
           /\ served' = [served EXCEPT ![c] = r.entry]
           /\ held' = held \/ held' = [held EXCEPT ![c] = permit[f]]
           /\ UNCHANGED ask
    BY <1>7 DEF Deliver
  <2>2. on' = [on EXCEPT ![c] = NoFlight] /\ UNCHANGED ask
    BY <1>7 DEF Deliver
  <2>3. r.entry \in Entries \cup {NoEntry}
    BY <1>3 DEF Replies
  <2>4. permit[f] \in Pools \cup {NoPool}
    BY <1>2 DEF CInv, FlightInv, FlightsTyped
  <2>5. ClientsTyped'
    BY <2>1, <2>2, <2>3, <2>4 DEF CInv, ClientInv, ClientsTyped, ClientSteps
  <2>6. \A d \in Clients \ {c} :
          cstep'[d] = cstep[d] /\ on'[d] = on[d] /\ served'[d] = served[d]
    BY <2>1, <2>2 DEF CInv, ClientInv, ClientsTyped
  <2>7. \/ cstep'[c] = "direct" /\ served'[c] = served[c]
        \/ cstep'[c] = "served" /\ served'[c] = r.entry
    BY <2>1 DEF CInv, ClientInv, ClientsTyped
  <2>8. cstep'[c] = "direct" => served'[c] = NoEntry
    BY <1>1, <2>7 DEF CInv, ClientInv, NothingServedYet
  <2>9. served'[c] # NoEntry => served'[c].variant = VariantOf[ask'[c].request]
    BY <1>3, <2>2, <2>7, <2>8 DEF Request
  <2>10. ClientInv'
    BY <1>1, <2>2, <2>5, <2>6, <2>7, <2>8, <2>9, ClientMoves DEF CInv
  <2>11. QED
    BY <1>1, <1>5, <2>10, WorldUntouched DEF CInv
<1>8. QED
  BY <1>6, <1>7

-----------------------------------------------------------------------------
(* Flights.                                                                *)

\* A running flight moves to a running step: what it must keep, and what it
\* must have, for the invariant to survive.
LEMMA FlightProgress ==
  ASSUME FlightInv, ClientInv, NEW f \in Flights, NEW s \in Running,
         fstep[f] \in Running, fstep' = [fstep EXCEPT ![f] = s],
         FlightsTyped', UNCHANGED <<wants, demand, pending, clientVars>>,
         \A g \in Flights \ {f} :
           old'[g] = old[g] /\ reply'[g] = reply[g] /\ notified'[g] = notified[g],
         s = "parked" /\ demand[f] => notified'[f],
         s \in {"answered", "dropping", "published"} \cup Saving => reply'[f] \in Replies,
         old'[f] # NoEntry => old'[f].variant = VariantOf[wants[f]],
         reply'[f] # NoReply /\ reply'[f].entry # NoEntry
           => reply'[f].entry.variant = VariantOf[wants[f]]
  PROVE  FlightInv' /\ ClientInv'
<1>1. s # "blank" /\ s # "gone" /\ fstep'[f] = s
  BY DEF FlightInv, FlightsTyped, Running, Downloading
<1>2. \A g \in Flights \ {f} : fstep'[g] = fstep[g]
  BY DEF FlightInv, FlightsTyped
<1>3. ReplyThere'
  BY <1>1, <1>2 DEF FlightInv, ReplyThere
<1>4. PendingRuns'
  BY <1>1, <1>2 DEF FlightInv, FlightsTyped, PendingRuns
<1>5. SingleFlight'
  BY <1>1, <1>2 DEF FlightInv, SingleFlight
<1>6. PromotionNotLost'
  BY <1>1, <1>2 DEF FlightInv, PromotionNotLost
<1>7. FlightVariant'
  BY DEF FlightInv, FlightVariant
<1>8. ClientInv'
  <2>1. WaiterHasFlight'
    BY <1>1, <1>2
       DEF ClientInv, WaiterHasFlight, ClientsTyped, clientVars, Request, Background
  <2>2. QED
    BY <2>1 DEF ClientInv, ClientsTyped, NothingServedYet, VariantServed, clientVars, Request
<1>9. QED
  BY <1>3, <1>4, <1>5, <1>6, <1>7, <1>8 DEF FlightInv

LEMMA QueueInv ==
  ASSUME CInv, NEW f \in Flights,
         Choose(f) \/ Promoted(f) \/ TakeDemand(f) \/ TakeBackground(f)
  PROVE  CInv'
<1>1. PICK s \in {"urgent", "parked", "queued", "reading"} :
        /\ fstep[f] \in {"queued", "parked", "urgent"}
        /\ fstep' = [fstep EXCEPT ![f] = s]
        /\ s = "parked" => ~demand[f]
  BY DEF Choose, Promoted, TakeDemand, TakeBackground, Acquire, Goto
<1>2. /\ UNCHANGED <<wants, demand, old, reply, pending, clientVars, worldVars>>
      /\ notified' = notified \/ notified' = [notified EXCEPT ![f] = FALSE]
      /\ \/ permit' = permit
         \/ \E p \in Pools : permit' = [permit EXCEPT ![f] = p]
  BY DEF Choose, Promoted, TakeDemand, TakeBackground, Acquire, aroundFlights, Pools
<1>3. FlightsTyped'
  BY <1>1, <1>2 DEF CInv, FlightInv, FlightsTyped, FlightSteps, Running, Downloading
<1>4. \A g \in Flights \ {f} : notified'[g] = notified[g]
  BY <1>2 DEF CInv, FlightInv, FlightsTyped
<1>5. FlightInv' /\ ClientInv'
  BY <1>1, <1>2, <1>3, <1>4, FlightProgress
     DEF CInv, FlightInv, FlightVariant, Running, Downloading
<1>6. QED
  BY <1>2, <1>5, WorldUntouched DEF CInv

LEMMA ReadOldInv ==
  ASSUME CInv, NEW f \in Flights, ReadOld(f)
  PROVE  CInv'
<1>1. PICK e \in Entries \cup {NoEntry} :
        /\ Store!Stored(Key(f), VariantOf[wants[f]], FALSE, e)
        /\ \/ e # NoEntry /\ Publish(f, "ok", e) /\ Release(f) /\ UNCHANGED old
           \/ /\ Goto(f, IF e = NoEntry THEN "fetching" ELSE "stamping")
              /\ old' = [old EXCEPT ![f] = e]
              /\ UNCHANGED <<permit, reply>>
  BY DEF ReadOld
<1>2. e # NoEntry => e.variant = VariantOf[wants[f]]
  BY <1>1, StoredResult
<1>3. /\ fstep[f] = "reading"
      /\ UNCHANGED <<wants, demand, notified, pending, clientVars, worldVars>>
  BY DEF ReadOld
<1>4. CASE e # NoEntry /\ Publish(f, "ok", e) /\ Release(f) /\ UNCHANGED old
  <2>1. [kind |-> "ok", entry |-> e] \in Replies
    BY DEF Replies, Whole
  <2>2. FlightsTyped'
    BY <1>3, <1>4, <2>1
       DEF CInv, FlightInv, FlightsTyped, FlightSteps, Running, Publish, Release, Goto
  <2>3. /\ fstep' = [fstep EXCEPT ![f] = "published"]
        /\ reply'[f] = [kind |-> "ok", entry |-> e]
        /\ \A g \in Flights \ {f} : reply'[g] = reply[g]
    BY <1>4 DEF CInv, FlightInv, FlightsTyped, Publish, Goto
  <2>4. /\ reply'[f] \in Replies /\ reply'[f].entry.variant = VariantOf[wants[f]]
        /\ old'[f] # NoEntry => old'[f].variant = VariantOf[wants[f]]
    BY <1>2, <1>4, <2>1, <2>3 DEF CInv, FlightInv, FlightVariant
  <2>5. fstep[f] \in Running /\ "published" \in Running
    BY <1>3 DEF Running, Downloading
  <2>6. FlightInv' /\ ClientInv'
    BY <1>3, <1>4, <2>2, <2>3, <2>4, <2>5, FlightProgress DEF CInv
  <2>7. QED
    BY <1>3, <2>6, WorldUntouched DEF CInv
<1>5. CASE /\ Goto(f, IF e = NoEntry THEN "fetching" ELSE "stamping")
           /\ old' = [old EXCEPT ![f] = e]
           /\ UNCHANGED <<permit, reply>>
  <2>1. PICK s \in {"fetching", "stamping"} : fstep' = [fstep EXCEPT ![f] = s]
    BY <1>5 DEF Goto
  <2>2. FlightsTyped'
    BY <1>3, <1>5, <2>1
       DEF CInv, FlightInv, FlightsTyped, FlightSteps, Running, Downloading
  <2>3. old'[f] = e /\ \A g \in Flights \ {f} : old'[g] = old[g]
    BY <1>5 DEF CInv, FlightInv, FlightsTyped
  <2>4. FlightInv' /\ ClientInv'
    BY <1>2, <1>3, <1>5, <2>1, <2>2, <2>3, FlightProgress
       DEF CInv, FlightInv, FlightVariant, Running, Downloading
  <2>5. QED
    BY <1>3, <2>4, WorldUntouched DEF CInv
<1>6. QED
  BY <1>1, <1>4, <1>5

\* The answer, its last write, the cancellation: the flight goes on with a
\* reply in hand, or comes from stamping.
LEMMA SubmitInv ==
  ASSUME CInv, NEW f \in Flights, Submit(f)
  PROVE  CInv'
BY FlightsUntouched, ClientsUntouched, WorldUntouched DEF CInv, Submit

LEMMA FetchInv ==
  ASSUME CInv, NEW f \in Flights, Fetch(f)
  PROVE  CInv'
<1> DEFINE current == [version |-> origin[Key(f)], variant |-> VariantOf[wants[f]]]
<1>1. /\ fstep[f] = "fetching" /\ fstep[f] \in Running
      /\ UNCHANGED <<wants, demand, notified, old, pending, clientVars, worldVars>>
  BY DEF Fetch, aroundFlights, Running, Downloading
<1>2. current \in Entries /\ current.variant = VariantOf[wants[f]]
  BY RequestsAssumption
     DEF CInv, FlightInv, FlightsTyped, WorldTyped, Entries, Store!Entries, Key
<1>3. old[f] # NoEntry => old[f].variant = VariantOf[wants[f]]
  BY DEF CInv, FlightInv, FlightVariant
<1>4. PICK kind \in Whole \cup {"stream", "missing", "refused", "failed"},
           e \in {current, NoEntry}, s \in {"answered", "dropping", "published"} :
        /\ fstep' = [fstep EXCEPT ![f] = s]
        /\ reply' = [reply EXCEPT ![f] = [kind |-> kind, entry |-> e]]
        /\ permit' = permit \/ permit' = [permit EXCEPT ![f] = NoPool]
  BY DEF Fetch, Goto, Publish, Release, Whole
<1> DEFINE r == [kind |-> kind, entry |-> e]
<1>5. r \in Replies /\ (r.entry # NoEntry => r.entry.variant = VariantOf[wants[f]])
  BY <1>2 DEF Replies, Whole
<1> HIDE DEF r
<1>6. reply' = [reply EXCEPT ![f] = r]
  BY <1>4 DEF r
<1>7. FlightsTyped'
  BY <1>1, <1>4, <1>5, <1>6
     DEF CInv, FlightInv, FlightsTyped, FlightSteps, Running, Downloading
<1>8. /\ s \in Running /\ s # "parked" /\ reply'[f] = r
      /\ \A g \in Flights \ {f} : reply'[g] = reply[g]
  BY <1>6 DEF CInv, FlightInv, FlightsTyped, Running, Downloading
<1>9. FlightInv' /\ ClientInv'
  BY <1>1, <1>3, <1>4, <1>5, <1>7, <1>8, FlightProgress DEF CInv
<1>10. QED
  BY <1>1, <1>9, WorldUntouched DEF CInv

LEMMA DecideInv ==
  ASSUME CInv, NEW f \in Flights, Decide(f)
  PROVE  CInv'
<1>1. PICK s \in Saving :
        /\ fstep[f] = "answered" /\ fstep' = [fstep EXCEPT ![f] = s]
        /\ UNCHANGED <<wants, demand, notified, permit, old, reply, pending, clientVars,
                       worldVars>>
  BY DEF Decide, Goto, aroundFlights
<1>2. fstep[f] \in Running /\ s \in Running
  BY <1>1 DEF Running, Downloading
<1>3. FlightsTyped'
  BY <1>1, <1>2 DEF CInv, FlightInv, FlightsTyped, FlightSteps
<1>4. reply'[f] \in Replies
  BY <1>1 DEF CInv, FlightInv, ReplyThere
<1>5. FlightInv' /\ ClientInv'
  BY <1>1, <1>2, <1>3, <1>4, FlightProgress DEF CInv, FlightInv, FlightVariant
<1>6. QED
  BY <1>1, <1>5, WorldUntouched DEF CInv

LEMMA StampedInv ==
  ASSUME CInv, NEW f \in Flights, Stamped(f)
  PROVE  CInv'
<1>1. /\ fstep[f] \in Running /\ "fetching" \in Running
      /\ fstep' = [fstep EXCEPT ![f] = "fetching"]
      /\ UNCHANGED <<wants, demand, notified, permit, old, reply, pending, clientVars,
                     worldVars>>
  BY DEF Stamped, Goto, Running, Downloading
<1>2. FlightsTyped'
  BY <1>1 DEF CInv, FlightInv, FlightsTyped, FlightSteps
<1>3. FlightInv' /\ ClientInv'
  BY <1>1, <1>2, FlightProgress DEF CInv, FlightInv, FlightVariant
<1>4. QED
  BY <1>1, <1>3, WorldUntouched DEF CInv

LEMMA WrittenInv ==
  ASSUME CInv, NEW f \in Flights, Written(f)
  PROVE  CInv'
<1>1. /\ fstep[f] \in {"dropping"} \cup Saving /\ fstep[f] \in Running
      /\ "published" \in Running
      /\ fstep' = [fstep EXCEPT ![f] = "published"]
      /\ permit' = permit \/ permit' = [permit EXCEPT ![f] = NoPool]
      /\ UNCHANGED <<wants, demand, notified, old, reply, pending, clientVars, origin>>
  BY DEF Written, Goto, Release, Running, Downloading
<1>2. FlightsTyped'
  BY <1>1 DEF CInv, FlightInv, FlightsTyped, FlightSteps
<1>3. reply'[f] \in Replies
  BY <1>1 DEF CInv, FlightInv, ReplyThere
<1>4. FlightInv' /\ ClientInv'
  BY <1>1, <1>2, <1>3, FlightProgress DEF CInv, FlightInv, FlightVariant
<1>5. WorldTyped'
  BY <1>1, PermitsAssumption DEF CInv, WorldTyped, Written
<1>6. QED
  BY <1>4, <1>5 DEF CInv

LEMMA AbortInv ==
  ASSUME CInv, NEW f \in Flights, Abort(f)
  PROVE  CInv'
<1> DEFINE stopped == [kind |-> "stopped", entry |-> NoEntry]
<1>1. /\ fstep[f] \in Running /\ "published" \in Running
      /\ fstep' = [fstep EXCEPT ![f] = "published"]
      /\ reply' = [reply EXCEPT ![f] = stopped]
      /\ permit' = [permit EXCEPT ![f] = NoPool]
      /\ UNCHANGED <<wants, demand, notified, old, pending, clientVars, worldVars>>
  BY DEF Abort, Publish, Release, Goto, Running, aroundFlights
<1>2. stopped \in Replies /\ stopped.entry = NoEntry
  BY DEF Replies
<1>3. FlightsTyped'
  BY <1>1, <1>2 DEF CInv, FlightInv, FlightsTyped, FlightSteps
<1>4. reply'[f] = stopped /\ \A g \in Flights \ {f} : reply'[g] = reply[g]
  BY <1>1 DEF CInv, FlightInv, FlightsTyped
<1>5. FlightInv' /\ ClientInv'
  BY <1>1, <1>2, <1>3, <1>4, FlightProgress DEF CInv, FlightInv, FlightVariant
<1>6. QED
  BY <1>1, <1>5, WorldUntouched DEF CInv

\* A flight leaves the map only when it has published, and its slot is reused
\* only when nobody awaits it.
LEMMA RemoveInv ==
  ASSUME CInv, NEW f \in Flights, Remove(f)
  PROVE  CInv'
<1>1. /\ fstep[f] = "published"
      /\ fstep' = [fstep EXCEPT ![f] = "gone"]
      /\ pending' = [pending EXCEPT ![wants[f]] = NoFlight]
      /\ UNCHANGED <<wants, demand, notified, permit, old, reply, clientVars, worldVars>>
  BY DEF Remove, Published, Goto, aroundFlights
<1>2. FlightsTyped'
  BY <1>1 DEF CInv, FlightInv, FlightsTyped, FlightSteps
<1>3. /\ \A g \in Flights \ {f} : fstep'[g] = fstep[g]
      /\ fstep'[f] = "gone" /\ "gone" \notin Running
      /\ pending[wants[f]] = f
  BY <1>1 DEF CInv, FlightInv, FlightsTyped, SingleFlight, Running, Downloading
<1>4. ReplyThere' /\ PromotionNotLost' /\ FlightVariant'
  BY <1>1, <1>3
     DEF CInv, FlightInv, FlightsTyped, ReplyThere, PromotionNotLost, FlightVariant
<1>5. PendingRuns' /\ SingleFlight'
  <2>1. /\ \A r \in Requests \ {wants[f]} : pending'[r] = pending[r]
        /\ pending'[wants[f]] = NoFlight
    BY <1>1 DEF CInv, FlightInv, FlightsTyped
  <2>2. \A g \in Flights \ {f} : fstep[g] \in Running => wants[g] # wants[f]
    BY <1>3 DEF CInv, FlightInv, SingleFlight
  <2>3. PendingRuns'
    BY <1>1, <1>3, <2>1 DEF CInv, FlightInv, FlightsTyped, PendingRuns
  <2>4. SingleFlight'
    BY <1>1, <1>3, <2>1, <2>2 DEF CInv, FlightInv, FlightsTyped, SingleFlight
  <2>5. QED
    BY <2>3, <2>4
<1>6. ClientInv'
  <2>1. WaiterHasFlight'
    BY <1>1, <1>3
       DEF CInv, ClientInv, ClientsTyped, WaiterHasFlight, clientVars, Request, Background
  <2>2. QED
    BY <1>1, <2>1
       DEF CInv, ClientInv, ClientsTyped, NothingServedYet, VariantServed, clientVars, Request
<1>7. QED
  BY <1>1, <1>2, <1>4, <1>5, <1>6, WorldUntouched DEF CInv, FlightInv

LEMMA DropInv ==
  ASSUME CInv, NEW f \in Flights, Drop(f)
  PROVE  CInv'
<1>1. /\ fstep[f] = "gone" /\ \A c \in Clients : on[c] # f
      /\ fstep' = [fstep EXCEPT ![f] = "blank"]
      /\ UNCHANGED <<pending, clientVars, worldVars>>
  BY DEF Drop, Goto, Unreferenced, aroundFlights
<1>2. AnyRequest \in Requests
  BY RequestsAssumption DEF AnyRequest
<1>3. FlightsTyped'
  BY <1>2 DEF CInv, FlightInv, FlightsTyped, FlightSteps, Drop, Release, Goto
<1>4. /\ \A g \in Flights \ {f} :
           /\ fstep'[g] = fstep[g] /\ wants'[g] = wants[g] /\ demand'[g] = demand[g]
           /\ notified'[g] = notified[g] /\ old'[g] = old[g] /\ reply'[g] = reply[g]
      /\ fstep'[f] = "blank" /\ old'[f] = NoEntry /\ reply'[f] = NoReply
  BY DEF CInv, FlightInv, FlightsTyped, Drop, Goto
<1>5. "blank" \notin Running /\ "gone" \notin Running
  BY DEF Running, Downloading
<1>6. ReplyThere' /\ PromotionNotLost' /\ FlightVariant'
  BY <1>4 DEF CInv, FlightInv, ReplyThere, PromotionNotLost, FlightVariant
<1>7. PendingRuns' /\ SingleFlight'
  BY <1>1, <1>4, <1>5 DEF CInv, FlightInv, FlightsTyped, PendingRuns, SingleFlight
<1>8. ClientInv'
  <2>1. WaiterHasFlight'
    BY <1>1, <1>4
       DEF CInv, ClientInv, ClientsTyped, WaiterHasFlight, clientVars, Request, Background
  <2>2. QED
    BY <1>1, <2>1
       DEF CInv, ClientInv, ClientsTyped, NothingServedYet, VariantServed, clientVars, Request
<1>9. QED
  BY <1>1, <1>3, <1>6, <1>7, <1>8, WorldUntouched DEF CInv, FlightInv

-----------------------------------------------------------------------------
(* The whole next-state relation.                                          *)

LEMMA RestartInv ==
  ASSUME CInv, Restart
  PROVE  CInv'
<1>1. AnyRequest \in Requests
  BY RequestsAssumption DEF AnyRequest
<1>2. FlightInv'
  BY <1>1, RequestsAssumption
     DEF Restart, FlightInv, FlightsTyped, ReplyThere, PendingRuns, SingleFlight,
         PromotionNotLost, FlightVariant, FlightSteps, Running, Downloading
<1>3. ClientInv'
  BY <1>1 DEF Restart, ClientInv, ClientsTyped, WaiterHasFlight, NothingServedYet,
              VariantServed, ClientSteps
<1>4. WorldTyped'
  BY PermitsAssumption DEF CInv, Restart, WorldTyped
<1>5. QED
  BY <1>2, <1>3, <1>4 DEF CInv

LEMMA StepInv == CInv /\ [Next]_vars => CInv'
<1> SUFFICES ASSUME CInv, [Next]_vars PROVE CInv'
  OBVIOUS
<1>1. CASE UNCHANGED <<flightVars, clientVars, worldVars>>
  BY <1>1, FlightsUntouched, ClientsUntouched, WorldUntouched DEF CInv
<1>2. ASSUME NEW c \in Clients, NEW r \in Requests, NEW b \in BOOLEAN,
             NEW bypass \in BOOLEAN, Begin(c, r, b, bypass)
      PROVE  CInv'
  BY <1>2, BeginInv
<1>3. ASSUME NEW c \in Clients, ClientStep(c) \/ Disconnect(c)
      PROVE  CInv'
  BY <1>3, LookupInv, RefreshInv, DeliverInv, TakePermitInv, DirectReplyInv, EndInv
     DEF ClientStep
<1>4. ASSUME NEW f \in Flights, FlightStep(f)
      PROVE  CInv'
  BY <1>4, QueueInv, ReadOldInv, SubmitInv, StampedInv, FetchInv, DecideInv, WrittenInv, AbortInv,
     RemoveInv, DropInv DEF FlightStep
<1>5. ASSUME NEW f \in Flights, JobStep(f)
      PROVE  CInv'
  BY <1>1, <1>5 DEF JobStep, Discard
<1>6. CASE StartRestore \/ RestorerStep \/ Cancel \/ CloseStep
  BY <1>1, <1>6 DEF StartRestore, RestorerStep, Cancel, CloseStep
<1>7. ASSUME NEW k \in Keys, Update(k)
      PROVE  CInv'
  <2>1. WorldTyped'
    BY <1>7 DEF Update, CInv, WorldTyped
  <2>2. QED
    BY <1>7, <2>1, FlightsUntouched, ClientsUntouched DEF CInv, Update
<1>8. CASE UNCHANGED vars
  BY <1>1, <1>8 DEF vars
<1>9. QED
  BY <1>2, <1>3, <1>4, <1>5, <1>6, <1>7, <1>8, RestartInv DEF Next

THEOREM Invariance == Spec => []CInv
BY InitTyped, StepInv, PTL DEF Spec

\* One download per request identity.
THEOREM OneDownload == Spec => []SingleFlight
<1>1. CInv => SingleFlight
  BY DEF CInv, FlightInv
<1>2. QED
  BY <1>1, Invariance, PTL

\* No promotion is lost.
THEOREM PromotionsArrive == Spec => []PromotionNotLost
<1>1. CInv => PromotionNotLost
  BY DEF CInv, FlightInv
<1>2. QED
  BY <1>1, Invariance, PTL

\* Whoever waits has a flight of its own request to wait for.
THEOREM WaitersHaveFlights == Spec => []WaiterHasFlight
<1>1. CInv => WaiterHasFlight
  BY DEF CInv, ClientInv
<1>2. QED
  BY <1>1, Invariance, PTL

\* Nobody is given a body selected for other request headers.
THEOREM VariantsServed == Spec => []VariantServed
<1>1. CInv => VariantServed
  BY DEF CInv, ClientInv
<1>2. QED
  BY <1>1, Invariance, PTL

-----------------------------------------------------------------------------
(* Every step is a step of the store, or leaves the store alone.           *)

LEMMA ReadsStore ==
  ASSUME NEW k \in Keys, NEW v \in Variants, NEW d \in BOOLEAN,
         NEW e \in Entries \cup {NoEntry}, Store!Stored(k, v, d, e)
  PROVE  Store!Next
BY DEF Store!Next, Entries

LEMMA ClientKeepsStore ==
  ASSUME CInv, NEW c \in Clients,
         \/ \E r \in Requests, b, bypass \in BOOLEAN : Begin(c, r, b, bypass)
         \/ ClientStep(c) \/ Disconnect(c)
  PROVE  Store!Next \/ UNCHANGED storeVars
<1>1. CASE Lookup(c)
  <2>1. Request(c) \in Requests /\ (~Background(c)) \in BOOLEAN
    BY DEF CInv, ClientInv, ClientsTyped, Request
  <2>2. KeyOf[Request(c)] \in Keys /\ VariantOf[Request(c)] \in Variants
    BY <2>1, RequestsAssumption
  <2>3. PICK e \in Entries \cup {NoEntry} :
          Store!Stored(KeyOf[Request(c)], VariantOf[Request(c)], ~Background(c), e)
    BY <1>1 DEF Lookup
  <2>4. QED
    BY <2>1, <2>2, <2>3, ReadsStore
<1>2. CASE ~Lookup(c)
  BY <1>2 DEF ClientStep, Begin, Refresh, Deliver, TakePermit, DirectReply, Finish, Stop,
              Disconnect
<1>3. QED
  BY <1>1, <1>2

LEMMA FlightKeepsStore ==
  ASSUME CInv, NEW f \in Flights, FlightStep(f) \/ JobStep(f)
  PROVE  Store!Next \/ UNCHANGED storeVars
<1>1. Key(f) \in Keys /\ VariantOf[wants[f]] \in Variants
  BY RequestsAssumption DEF CInv, FlightInv, FlightsTyped, Key
<1>2. CASE ReadOld(f)
  <2>1. PICK e \in Entries \cup {NoEntry} :
          Store!Stored(Key(f), VariantOf[wants[f]], FALSE, e)
    BY <1>2 DEF ReadOld
  <2>2. QED
    BY <1>1, <2>1, ReadsStore
<1>3. CASE Submit(f)
  <2>1. AdmissionOf(f) \in Store!Admission
    BY DEF AdmissionOf, Store!Admission
  <2>2. Value(f) \in Entries \cup {NoEntry}
    <3>1. old[f] \in Entries \cup {NoEntry}
      BY DEF CInv, FlightInv, FlightsTyped
    <3>2. fstep[f] \in Saving => reply[f].entry \in Entries \cup {NoEntry}
      BY DEF CInv, FlightInv, ReplyThere, Replies
    <3>3. QED
      BY <1>3, <3>1, <3>2 DEF Submit, Value, AtStore
  <2>3. Store!Spawn(f, Key(f), Value(f), AdmissionOf(f))
    BY <1>3 DEF Submit
  <2>4. QED
    BY <1>1, <2>1, <2>2, <2>3 DEF Store!Next, Entries
<1>4. CASE Stamped(f) \/ Written(f) \/ JobStep(f)
  BY <1>4 DEF Stamped, Written, JobStep, Discard, Store!Next
<1>5. CASE \/ Choose(f) \/ Promoted(f) \/ TakeDemand(f) \/ TakeBackground(f)
           \/ Fetch(f) \/ Decide(f) \/ Abort(f) \/ Remove(f) \/ Drop(f)
  BY <1>5 DEF Choose, Promoted, TakeDemand, TakeBackground, Acquire, Fetch, Decide, Abort, Remove,
              Drop, aroundFlights
<1>6. QED
  BY <1>2, <1>3, <1>4, <1>5 DEF FlightStep

LEMMA StepKeepsStore == CInv /\ [Next]_vars => [Store!Next]_storeVars
<1> SUFFICES ASSUME CInv, Next PROVE Store!Next \/ UNCHANGED storeVars
  BY DEF vars
<1>1. CASE StartRestore \/ RestorerStep \/ Cancel \/ CloseStep \/ Restart
  BY <1>1 DEF StartRestore, RestorerStep, Cancel, CloseStep, Restart, Store!Next
<1>2. ASSUME NEW k \in Keys, Update(k) PROVE UNCHANGED storeVars
  BY <1>2 DEF Update
<1>3. QED
  BY <1>1, <1>2, ClientKeepsStore, FlightKeepsStore DEF Next

\* Cache implements Storage: whatever clients, flights, cancellations and
\* crashes do, the store sees an ordinary history of the store.
THEOREM StoreIsKept == Spec => StoreKept
<1>1. Init => Store!Init
  BY DEF Init
<1>2. CInv /\ [Next]_vars => [Store!Next]_Store!storageVars
  BY StepKeepsStore DEF Store!storageVars, storeVars
<1>3. QED
  BY <1>1, <1>2, Invariance, PTL DEF Spec, StoreKept, Store!Spec

-----------------------------------------------------------------------------
(* What StorageProofs proves holds of Cache's store. Store and Proved are  *)
(* two instances of the same definitions; the lemmas say so, action by     *)
(* action.                                                                 *)

LEMMA StoreAssumptions ==
  /\ Proved!DiskPermitsAssumption /\ Proved!NoWriterAssumption
  /\ Proved!NoEntryIsNoEntry /\ Proved!NoJobAssumption
BY MarkersAssumption, PermitsAssumption
   DEF Proved!DiskPermitsAssumption, Proved!NoWriterAssumption, Proved!NoEntryIsNoEntry,
       Proved!NoJobAssumption, Entries, Store!Entries, Proved!Entries, Store!Jobs,
       Proved!Jobs, Store!JobSteps, Proved!JobSteps, Store!Admission, Proved!Admission

LEMMA SameActive == Store!Cardinality(Store!Active) = Proved!Cardinality(Proved!Active)
<1>1. Store!Active = Proved!Active
  BY DEF Store!Active, Proved!Active
<1>2. QED
  BY <1>1 DEF Store!Cardinality, Proved!Cardinality

LEMMA SameStored ==
  ASSUME NEW k, NEW v, NEW d, NEW e
  PROVE  Store!Stored(k, v, d, e) <=> Proved!Stored(k, v, d, e)
BY SameActive
   DEF Store!Stored, Proved!Stored, Store!FromMemory, Proved!FromMemory, Store!FromDisk,
       Proved!FromDisk, Store!Matches, Proved!Matches, Store!Admit, Proved!Admit,
       Store!AfterPut, Proved!AfterPut, Store!Without, Proved!Without, Store!Memories,
       Proved!Memories, Store!Entries, Proved!Entries

LEMMA SameSpawn ==
  ASSUME NEW w, NEW k, NEW e, NEW a
  PROVE  Store!Spawn(w, k, e, a) <=> Proved!Spawn(w, k, e, a)
BY SameActive DEF Store!Spawn, Proved!Spawn

LEMMA SameJobStep ==
  ASSUME NEW w
  PROVE  (Store!JobStep(w) <=> Proved!JobStep(w)) /\ (Store!Collect(w) <=> Proved!Collect(w))
<1>1. (Store!Enter(w) <=> Proved!Enter(w)) /\ (Store!Refuse(w) <=> Proved!Refuse(w))
  BY DEF Store!Enter, Proved!Enter, Store!Refuse, Proved!Refuse, Store!Admitted,
         Proved!Admitted, Store!Cancelled, Proved!Cancelled, Store!At, Proved!At, Store!Finish,
         Proved!Finish
<1>2. (Store!WriteFails(w) <=> Proved!WriteFails(w)) /\ (Store!Persist(w) <=> Proved!Persist(w))
  BY DEF Store!WriteFails, Proved!WriteFails, Store!Persist, Proved!Persist, Store!Renamed,
         Proved!Renamed, Store!At, Proved!At, Store!Finish, Proved!Finish
<1>3. Store!PutMemory(w) <=> Proved!PutMemory(w)
  BY DEF Store!PutMemory, Proved!PutMemory, Store!At, Proved!At, Store!Finish, Proved!Finish,
         Store!Admit, Proved!Admit, Store!AfterPut, Proved!AfterPut, Store!Without,
         Proved!Without, Store!Memories, Proved!Memories, Store!Entries, Proved!Entries
<1>4. Store!ForgetMemory(w) <=> Proved!ForgetMemory(w)
  BY DEF Store!ForgetMemory, Proved!ForgetMemory, Store!At, Proved!At, Store!Without, Proved!Without
<1>5. Store!RemoveFile(w) <=> Proved!RemoveFile(w)
  BY DEF Store!RemoveFile, Proved!RemoveFile, Store!At, Proved!At, Store!Finish, Proved!Finish,
         Store!Without, Proved!Without
<1>6. Store!Collect(w) <=> Proved!Collect(w)
  BY DEF Store!Collect, Proved!Collect
<1>7. QED
  BY <1>1, <1>2, <1>3, <1>4, <1>5, <1>6 DEF Store!JobStep, Proved!JobStep

LEMMA SameRestorer ==
  /\ Store!StartRestore <=> Proved!StartRestore
  /\ Store!RestorerStep <=> Proved!RestorerStep
<1>1. ASSUME NEW k PROVE Store!Restore(k) <=> Proved!Restore(k)
  BY DEF Store!Restore, Proved!Restore, Store!Without, Proved!Without, Store!AfterRestore, Proved!AfterRestore, Store!AfterPut,
         Proved!AfterPut, Store!Memories, Proved!Memories, Store!Entries, Proved!Entries
<1>2. Store!SavePeriodically <=> Proved!SavePeriodically
  BY DEF Store!SavePeriodically, Proved!SavePeriodically, Store!SaveResidents,
         Proved!SaveResidents, Store!Shrunk, Proved!Shrunk, Store!Resident, Proved!Resident,
         Store!Memories, Proved!Memories, Store!Entries, Proved!Entries
<1>3. (Store!EndRestore <=> Proved!EndRestore) /\ (Store!StopRestorer <=> Proved!StopRestorer)
  BY DEF Store!EndRestore, Proved!EndRestore, Store!StopRestorer, Proved!StopRestorer,
         Store!Cancelled, Proved!Cancelled
<1>4. Store!StartRestore <=> Proved!StartRestore
  BY DEF Store!StartRestore, Proved!StartRestore
<1>5. QED
  BY <1>1, <1>2, <1>3, <1>4 DEF Store!RestorerStep, Proved!RestorerStep

LEMMA SameClose ==
  /\ Store!Cancel <=> Proved!Cancel
  /\ Store!CloseStep <=> Proved!CloseStep
  /\ Store!Restart <=> Proved!Restart
BY DEF Store!Cancel, Proved!Cancel, Store!CloseStep, Proved!CloseStep, Store!TasksEnded,
       Proved!TasksEnded, Store!SaveFinally, Proved!SaveFinally, Store!CloseMemory,
       Proved!CloseMemory, Store!SaveResidents, Proved!SaveResidents, Store!Shrunk,
       Proved!Shrunk, Store!Resident, Proved!Resident, Store!Memories, Proved!Memories,
       Store!Entries, Proved!Entries, Store!EmptyMemory, Proved!EmptyMemory, Store!Restart,
       Proved!Restart

LEMMA SameNext == Store!Next <=> Proved!Next
BY SameStored, SameSpawn, SameJobStep, SameRestorer, SameClose
   DEF Store!Next, Proved!Next, Store!Entries, Proved!Entries, Store!Admission, Proved!Admission

LEMMA SameSpec == Store!Spec <=> Proved!Spec
<1>1. Store!Init <=> Proved!Init
  BY DEF Store!Init, Proved!Init, Store!EmptyMemory, Proved!EmptyMemory
<1>2. QED
  BY <1>1, SameNext, PTL DEF Store!Spec, Proved!Spec, Store!storageVars, Proved!storageVars

\* The variables of Cache keep their types, those of its store included.
THEOREM TypeCorrect == Spec => []TypeOK
<1>1. Proved!TypeOK <=> Store!TypeOK
  BY DEF Store!TypeOK, Proved!TypeOK, Store!Memories, Proved!Memories, Store!Entries,
         Proved!Entries, Store!Jobs, Proved!Jobs, Store!JobSteps, Proved!JobSteps,
         Store!Admission, Proved!Admission, Store!Stages, Proved!Stages
<1>2. CInv /\ Store!TypeOK => TypeOK
  BY DEF CInv, FlightInv, FlightsTyped, ClientInv, ClientsTyped, WorldTyped, TypeOK
<1>3. Proved!Spec => []Proved!TypeOK
  BY StoreAssumptions, Proved!TypeCorrect
<1>4. QED
  BY <1>1, <1>2, <1>3, SameSpec, StoreIsKept, Invariance, PTL DEF StoreKept

\* In Cache too memory and disk agree whenever the mutex is free.
THEOREM Coherence == Spec => []Store!Coherent
<1>1. Proved!Coherent <=> Store!Coherent
  BY DEF Store!Coherent, Proved!Coherent, Store!Resident, Proved!Resident
<1>2. Proved!Spec => []Proved!Coherent
  BY StoreAssumptions, Proved!Coherence
<1>3. QED
  BY <1>1, <1>2, SameSpec, StoreIsKept, PTL DEF StoreKept

\* And once close() has returned, nothing of this cache touches the directory.
THEOREM CloseIsAFence == Spec => Store!CloseFence
<1>1. Proved!Spec => Proved!CloseFence
  BY StoreAssumptions, Proved!CloseIsAFence
<1>2. QED
  BY <1>1, SameSpec, StoreIsKept, PTL
     DEF StoreKept, Store!CloseFence, Proved!CloseFence, Store!storageVars, Proved!storageVars

-----------------------------------------------------------------------------
(* Permits.                                                                *)

BeforeReply == {"blank", "queued", "parked", "urgent", "reading", "stamping", "fetching"}

\* A flight has no reply before it has fetched one, and a client no permit before
\* it fetches, or is given a stream.
PermitInv ==
  /\ \A f \in Flights : fstep[f] \in BeforeReply => reply[f] = NoReply
  /\ \A c \in Clients : cstep[c] \notin {"fetching", "served"} => held[c] = NoPool

LEMMA ClientKeepsPermits ==
  ASSUME CInv, PermitInv, NEW c \in Clients,
         \/ \E r \in Requests, b, bypass \in BOOLEAN : Begin(c, r, b, bypass)
         \/ ClientStep(c) \/ Disconnect(c)
  PROVE  PermitInv'
<1>1. /\ cstep \in [Clients -> ClientSteps] /\ held \in [Clients -> Pools \cup {NoPool}]
      /\ fstep \in [Flights -> FlightSteps]
  BY DEF CInv, FlightInv, FlightsTyped, ClientInv, ClientsTyped
<1>2. UNCHANGED reply
  BY DEF Begin, ClientStep, Lookup, Refresh, Join, Launch, Deliver, TakePermit, DirectReply,
         Finish, Stop, Disconnect, flightVars
<1>3. \A f \in Flights : fstep'[f] = fstep[f] \/ fstep[f] = "blank"
  BY <1>1 DEF Begin, ClientStep, Lookup, Refresh, Join, Launch, Deliver, TakePermit,
         DirectReply, Finish, Stop, Disconnect, flightVars
<1>4. /\ \A d \in Clients \ {c} : cstep'[d] = cstep[d] /\ held'[d] = held[d]
      /\ cstep'[c] \notin {"fetching", "served"} => held'[c] = NoPool
  <2>1. CASE Leave(c)
    BY <1>1, <2>1 DEF Leave, ReturnPermit
  <2>2. CASE ~Leave(c)
    BY <1>1, <2>2
       DEF PermitInv, Begin, ClientStep, Lookup, Refresh, Deliver, TakePermit, DirectReply,
           Finish, Stop, Disconnect
  <2>3. QED
    BY <2>1, <2>2
<1>5. QED
  BY <1>2, <1>3, <1>4 DEF PermitInv, BeforeReply

LEMMA FlightKeepsPermits ==
  ASSUME CInv, PermitInv, NEW f \in Flights, FlightStep(f)
  PROVE  PermitInv'
<1>1. fstep \in [Flights -> FlightSteps] /\ reply \in [Flights -> Replies \cup {NoReply}]
  BY DEF CInv, FlightInv, FlightsTyped
<1>2. UNCHANGED <<cstep, held>>
  BY DEF FlightStep, Choose, Promoted, TakeDemand, TakeBackground, Acquire, ReadOld, Submit,
         Stamped, Fetch, Decide, Written, Abort, Remove, Drop, aroundFlights, clientVars
<1>3. \A g \in Flights \ {f} : fstep'[g] = fstep[g] /\ reply'[g] = reply[g]
  BY <1>1 DEF FlightStep, Choose, Promoted, TakeDemand, TakeBackground, Acquire, ReadOld,
         Submit, Stamped, Fetch, Decide, Written, Abort, Remove, Drop, Goto, Publish, flightVars
<1>4. fstep'[f] \in BeforeReply => reply'[f] = NoReply
  <2>1. CASE Choose(f) \/ Promoted(f) \/ TakeDemand(f) \/ TakeBackground(f) \/ Stamped(f)
             \/ Submit(f)
    BY <1>1, <2>1 DEF Choose, Promoted, TakeDemand, TakeBackground, Acquire, Stamped, Submit,
         flightVars, Goto, PermitInv, BeforeReply
  <2>2. CASE ReadOld(f)
    BY <1>1, <2>2 DEF ReadOld, Goto, Publish, PermitInv, BeforeReply
  <2>3. CASE Fetch(f)
    BY <1>1, <2>3 DEF Fetch, Goto, Publish, PermitInv, BeforeReply
  <2>4. CASE Decide(f) \/ Written(f) \/ Abort(f) \/ Remove(f)
    BY <1>1, <2>4 DEF Decide, Written, Abort, Remove, Goto, Publish, PermitInv, BeforeReply
  <2>5. CASE Drop(f)
    BY <1>1, <2>5 DEF Drop
  <2>6. QED
    BY <2>1, <2>2, <2>3, <2>4, <2>5 DEF FlightStep
<1>5. QED
  BY <1>2, <1>3, <1>4 DEF PermitInv

LEMMA StepKeepsPermits == CInv /\ PermitInv /\ [Next]_vars => PermitInv'
<1> SUFFICES ASSUME CInv, PermitInv, [Next]_vars PROVE PermitInv'
  OBVIOUS
<1>1. ASSUME UNCHANGED <<flightVars, clientVars>> PROVE PermitInv'
  BY <1>1 DEF flightVars, clientVars, PermitInv
<1>2. ASSUME NEW f \in Flights, JobStep(f) PROVE PermitInv'
  BY <1>1, <1>2 DEF JobStep, Discard
<1>3. CASE StartRestore \/ RestorerStep \/ Cancel \/ CloseStep \/ UNCHANGED vars
           \/ \E k \in Keys : Update(k)
  BY <1>1, <1>3 DEF StartRestore, RestorerStep, Cancel, CloseStep, vars, Update
<1>4. CASE Restart
  BY <1>4 DEF Restart, PermitInv
<1>5. QED
  BY <1>2, <1>3, <1>4, ClientKeepsPermits, FlightKeepsPermits DEF Next

LEMMA PermitLeaves ==
  ASSUME CInv, PermitInv, [Next]_vars, NEW f \in Flights,
         permit[f] # NoPool, permit'[f] = NoPool, reply[f] # NoReply, reply[f].kind = "stream"
  PROVE  \/ reply'[f] # reply[f]
         \/ \E c \in Clients : held[c] = NoPool /\ held'[c] = permit[f]
<1> USE DEF PermitInv
<1>1. /\ held \in [Clients -> Pools \cup {NoPool}] /\ permit \in [Flights -> Pools \cup {NoPool}]
      /\ reply \in [Flights -> Replies \cup {NoReply}]
  BY DEF CInv, FlightInv, FlightsTyped, ClientInv, ClientsTyped
<1>2. fstep[f] \notin BeforeReply
  OBVIOUS
<1>3. ASSUME NEW c \in Clients, Deliver(c)
      PROVE  held[c] = NoPool /\ held'[c] = permit[f]
  <2>1. permit' = [permit EXCEPT ![on[c]] = NoPool] /\ held' = [held EXCEPT ![c] = permit[on[c]]]
    BY <1>1, <1>3 DEF Deliver
  <2>2. f = on[c] /\ held'[c] = permit[on[c]]
    BY <1>1, <2>1
  <2>3. cstep[c] = "waiting"
    BY <1>3 DEF Deliver
  <2>4. QED
    BY <2>2, <2>3
<1>4. ASSUME NEW c \in Clients, ClientStep(c) \/ Disconnect(c), ~Deliver(c)
      PROVE  permit' = permit
  BY <1>4 DEF ClientStep, Lookup, Refresh, Join, Launch, TakePermit, DirectReply, Finish, Stop,
         Disconnect, flightVars
<1>5. ASSUME NEW g \in Flights, FlightStep(g)
      PROVE  reply'[f] # reply[f]
  <2>1. CASE Choose(g) \/ Promoted(g) \/ Stamped(g) \/ Submit(g) \/ Decide(g) \/ Remove(g)
    BY <2>1 DEF Choose, Promoted, Stamped, Submit, Decide, Remove, flightVars
  <2>2. CASE TakeDemand(g) \/ TakeBackground(g) \/ ReadOld(g) \/ Fetch(g)
    <3>1. fstep[g] \in BeforeReply
      BY <2>2 DEF TakeDemand, TakeBackground, Acquire, ReadOld, Fetch, BeforeReply
    <3>2. f # g
      BY <1>2, <3>1
    <3>3. \/ permit' = permit
          \/ \E p : permit' = [permit EXCEPT ![g] = p]
      BY <2>2 DEF TakeDemand, TakeBackground, Acquire, ReadOld, Fetch, Release
    <3>4. QED
      BY <1>1, <3>2, <3>3
  <2>3. CASE Written(g)
    BY <1>1, <2>3 DEF Written, StreamLeft, Release
  <2>4. CASE Abort(g) \/ Drop(g)
    <3>1. f = g
      BY <1>1, <2>4 DEF Abort, Drop, Release
    <3>2. reply'[f] = [kind |-> "stopped", entry |-> NoEntry] \/ reply'[f] = NoReply
      BY <1>1, <2>4, <3>1 DEF Abort, Drop, Publish
    <3>3. QED
      BY <3>2
  <2>5. QED
    BY <1>5, <2>1, <2>2, <2>3, <2>4 DEF FlightStep
<1>6. ASSUME NEW g \in Flights, JobStep(g)
      PROVE  permit' = permit
  BY <1>6 DEF JobStep, Discard, flightVars
<1>7. ASSUME StartRestore \/ RestorerStep \/ Cancel \/ CloseStep \/ UNCHANGED vars
             \/ (\E k \in Keys : Update(k))
             \/ (\E c \in Clients, r \in Requests, b, bypass \in BOOLEAN : Begin(c, r, b, bypass))
      PROVE  permit' = permit
  BY <1>7 DEF StartRestore, RestorerStep, Cancel, CloseStep, vars, Update, Begin, flightVars
<1>8. CASE Restart
  BY <1>8 DEF Restart
<1>9. QED
  BY <1>3, <1>4, <1>5, <1>6, <1>7, <1>8 DEF Next

\* A permit under which a stream was downloaded is never lost: it leaves the
\* flight of refresh() for the hands of the browser that reads the stream, or
\* goes with the stream itself.
THEOREM StreamsKeepPermits == Spec => StreamKeepsPermit
<1>1. Init => PermitInv
  BY DEF Init, PermitInv
<1>2. Spec => []PermitInv
  BY <1>1, StepKeepsPermits, Invariance, PTL DEF Spec
<1>3. CInv /\ PermitInv /\ [Next]_vars =>
        (\A f \in Flights :
           /\ permit[f] # NoPool /\ permit'[f] = NoPool
           /\ reply[f] # NoReply /\ reply[f].kind = "stream"
           => \/ reply'[f] # reply[f]
              \/ \E c \in Clients : held[c] = NoPool /\ held'[c] = permit[f])
  BY PermitLeaves
<1>4. QED
  BY <1>2, <1>3, Invariance, PTL DEF Spec, StreamKeepsPermit

-----------------------------------------------------------------------------
(* Bodies and files: where the bodies come from that flights and closures  *)
(* have in hand, and whose closures there are.                             *)

\* A body that the origin serves now or served before.
FromPast(e, k) == e # NoEntry => e.version <= origin[k]

BodiesArePast ==
  /\ \A k \in Keys : FromPast(disk[k], k)
  /\ \A f \in Flights :
       /\ FromPast(old[f], Key(f))
       /\ reply[f] # NoReply => FromPast(reply[f].entry, Key(f))
       /\ job[f] # NoJob => FromPast(job[f].value, job[f].key)

\* Until the cache is cancelled a closure belongs to the flight that waits for it.
ClosuresOwned ==
  stage = "open" =>
    \A f \in Flights :
      job[f] # NoJob =>
        /\ fstep[f] \in AtStore
        /\ job[f].key = Key(f)
        /\ job[f].value # NoEntry =>
             \/ fstep[f] = "stamping" /\ job[f].value = old[f]
             \/ fstep[f] \in Saving /\ job[f].value = reply[f].entry

VInv == BodiesArePast /\ ClosuresOwned

LEMMA BodiesTyped ==
  ASSUME CInv, Proved!IInv
  PROVE  /\ disk \in [Keys -> Entries \cup {NoEntry}]
         /\ job \in [Flights -> Proved!Jobs \cup {NoJob}]
         /\ fstep \in [Flights -> FlightSteps] /\ wants \in [Flights -> Requests]
         /\ old \in [Flights -> Entries \cup {NoEntry}]
         /\ reply \in [Flights -> Replies \cup {NoReply}]
         /\ \A e \in Entries : e.version \in Nat
         /\ \A k \in Keys : origin[k] \in Nat
         /\ \A k \in Keys : disk[k] # NoEntry => disk[k] \in Entries
         /\ \A f \in Flights :
              /\ Key(f) \in Keys
              /\ old[f] # NoEntry => old[f] \in Entries
              /\ reply[f] # NoReply /\ reply[f].entry # NoEntry => reply[f].entry \in Entries
              /\ job[f] # NoJob =>
                   /\ job[f].key \in Keys
                   /\ job[f].value # NoEntry => job[f].value \in Entries
<1>1. /\ disk \in [Keys -> Entries \cup {NoEntry}]
      /\ job \in [Flights -> Proved!Jobs \cup {NoJob}]
  BY DEF Proved!IInv, Proved!TypeOK, Proved!Memories, Proved!Entries, Entries, Store!Entries
<1>2. /\ fstep \in [Flights -> FlightSteps] /\ wants \in [Flights -> Requests]
      /\ old \in [Flights -> Entries \cup {NoEntry}]
      /\ reply \in [Flights -> Replies \cup {NoReply}]
      /\ origin \in [Keys -> Versions]
  BY DEF CInv, FlightInv, FlightsTyped, WorldTyped
<1>3. \A e \in Entries : e.version \in Nat
  BY VersionsAssumption DEF Entries, Store!Entries
<1>4. \A k \in Keys : origin[k] \in Nat /\ (disk[k] # NoEntry => disk[k] \in Entries)
  BY <1>1, <1>2, VersionsAssumption
<1>5. ASSUME NEW f \in Flights
      PROVE  /\ Key(f) \in Keys
             /\ old[f] # NoEntry => old[f] \in Entries
             /\ reply[f] # NoReply /\ reply[f].entry # NoEntry => reply[f].entry \in Entries
  BY <1>2, RequestsAssumption DEF Key, Replies
<1>6. ASSUME NEW f \in Flights, job[f] # NoJob
      PROVE  /\ job[f].key \in Keys
             /\ job[f].value # NoEntry => job[f].value \in Entries
  BY <1>1, <1>6 DEF Proved!Jobs, Proved!Entries, Entries, Store!Entries
<1>7. QED
  BY <1>1, <1>2, <1>3, <1>4, <1>5, <1>6

\* Steps that leave the files, the closures and the bodies in hand alone.
LEMMA BodiesUntouched ==
  ASSUME VInv, UNCHANGED <<disk, job, origin, wants, old, reply>>,
         stage' = "open" => stage = "open",
         \A f \in Flights :
           fstep'[f] = fstep[f] \/ (fstep'[f] \notin AtStore /\ fstep[f] \notin AtStore)
  PROVE  VInv'
<1>1. BodiesArePast'
  BY DEF VInv, BodiesArePast, FromPast, Key
<1>2. ClosuresOwned'
  BY DEF VInv, ClosuresOwned, Key, AtStore
<1>3. QED
  BY <1>1, <1>2 DEF VInv

\* A slot that is taken for a flight, or given up, has no body in hand.
LEMMA SlotChanges ==
  ASSUME VInv, NEW f \in Flights, UNCHANGED <<disk, job, origin, stage>>,
         fstep[f] \notin AtStore, fstep'[f] \notin AtStore,
         old'[f] = NoEntry, reply'[f] = NoReply,
         \A g \in Flights \ {f} :
           /\ fstep'[g] = fstep[g] /\ wants'[g] = wants[g]
           /\ old'[g] = old[g] /\ reply'[g] = reply[g]
  PROVE  VInv'
<1>1. BodiesArePast'
  BY DEF VInv, BodiesArePast, FromPast, Key
<1>2. ClosuresOwned'
  BY DEF VInv, ClosuresOwned, Key, AtStore
<1>3. QED
  BY <1>1, <1>2 DEF VInv

LEMMA ClientKeepsBodies ==
  ASSUME CInv, Proved!IInv, VInv, NEW c \in Clients,
         \/ \E r \in Requests, b, bypass \in BOOLEAN : Begin(c, r, b, bypass)
         \/ ClientStep(c) \/ Disconnect(c)
  PROVE  VInv'
<1>1. UNCHANGED <<disk, job, stage, origin>>
  BY DEF Begin, ClientStep, Lookup, Refresh, Deliver, TakePermit, DirectReply, Finish, Stop,
         Disconnect, storeVars, worldVars, Store!Stored
<1>2. CASE ~Refresh(c)
  <2>1. UNCHANGED <<fstep, wants, old, reply>>
    BY <1>2 DEF Begin, ClientStep, Lookup, Deliver, TakePermit, DirectReply, Finish, Stop,
           Disconnect, flightVars
  <2>2. QED
    BY <1>1, <2>1, BodiesUntouched
<1>3. ASSUME NEW f \in Flights, Launch(Request(c), cstep[c] = "missed" /\ ~Background(c), f)
      PROVE  VInv'
  <2>1. /\ fstep[f] = "blank" /\ fstep'[f] = "queued" /\ UNCHANGED <<old, reply>>
        /\ \A g \in Flights \ {f} : fstep'[g] = fstep[g] /\ wants'[g] = wants[g]
    BY <1>3 DEF Launch, CInv, FlightInv, FlightsTyped
  <2>2. old'[f] = NoEntry /\ reply'[f] = NoReply
    BY <2>1 DEF CInv, FlightInv, ReplyThere
  <2>3. QED
    BY <1>1, <2>1, <2>2, SlotChanges DEF AtStore
<1>4. ASSUME NEW f \in Flights, Join(Request(c), cstep[c] = "missed" /\ ~Background(c), f)
      PROVE  VInv'
  <2>1. UNCHANGED <<fstep, wants, old, reply>>
    BY <1>4 DEF Join
  <2>2. QED
    BY <1>1, <2>1, BodiesUntouched
<1>5. CASE Refresh(c)
  BY <1>3, <1>4, <1>5 DEF Refresh
<1>6. QED
  BY <1>2, <1>5

-----------------------------------------------------------------------------
(* Flights.                                                                *)

\* Only the disk can answer a look-up, directly or through a copy of it.
LEMMA StoredFromDisk ==
  ASSUME Proved!IInv, NEW k \in Keys, NEW v, NEW e, Store!Stored(k, v, FALSE, e), e # NoEntry
  PROVE  disk[k] = e
<1>1. lock = NoWriter
  BY DEF Store!Stored
<1>2. memory[k] = NoEntry \/ memory[k] = disk[k]
  BY <1>1 DEF Proved!IInv, Proved!CopiesAgree, Proved!InFlux
<1>3. CASE Store!FromMemory(k, v, e)
  BY <1>2, <1>3 DEF Store!FromMemory
<1>4. CASE Store!FromDisk(k, v, FALSE, e)
  BY <1>4 DEF Store!FromDisk
<1>5. QED
  BY <1>3, <1>4 DEF Store!Stored

\* A flight outside of the store has no closure until the cache is cancelled.
LEMMA NoClosure ==
  ASSUME VInv, NEW f \in Flights, fstep[f] \notin AtStore, stage = "open"
  PROVE  job[f] = NoJob
BY DEF VInv, ClosuresOwned, AtStore

\* A flight comes by a body: what must hold of it.
LEMMA BodyInHand ==
  ASSUME VInv, NEW f \in Flights,
         UNCHANGED <<disk, job, origin, stage, wants>>,
         fstep[f] \notin AtStore,
         \A g \in Flights \ {f} :
           fstep'[g] = fstep[g] /\ old'[g] = old[g] /\ reply'[g] = reply[g],
         FromPast(old'[f], Key(f)),
         reply'[f] # NoReply => FromPast(reply'[f].entry, Key(f))
  PROVE  VInv'
<1>1. BodiesArePast'
  BY DEF VInv, BodiesArePast, FromPast, Key
<1>2. ClosuresOwned'
  BY NoClosure DEF VInv, ClosuresOwned, Key, AtStore
<1>3. QED
  BY <1>1, <1>2 DEF VInv

LEMMA ReadOldKeepsBodies ==
  ASSUME CInv, Proved!IInv, VInv, NEW f \in Flights, ReadOld(f)
  PROVE  VInv'
<1>1. PICK e \in Entries \cup {NoEntry} :
        /\ Store!Stored(Key(f), VariantOf[wants[f]], FALSE, e)
        /\ \/ e # NoEntry /\ Publish(f, "ok", e) /\ Release(f) /\ UNCHANGED old
           \/ /\ Goto(f, IF e = NoEntry THEN "fetching" ELSE "stamping")
              /\ old' = [old EXCEPT ![f] = e]
              /\ UNCHANGED <<permit, reply>>
  BY DEF ReadOld
<1>2. fstep[f] = "reading" /\ UNCHANGED <<wants, origin, disk, job, stage>>
  BY <1>1 DEF ReadOld, worldVars, Store!Stored
<1>3. Key(f) \in Keys /\ (e # NoEntry => disk[Key(f)] = e)
  BY <1>1, BodiesTyped, StoredFromDisk
<1>4. /\ fstep \in [Flights -> FlightSteps] /\ old \in [Flights -> Entries \cup {NoEntry}]
      /\ reply \in [Flights -> Replies \cup {NoReply}]
      /\ \A x \in Entries : x.version \in Nat
  BY BodiesTyped
<1>5. FromPast(e, Key(f))
  BY <1>1, <1>3, <1>4 DEF VInv, BodiesArePast, FromPast
<1>6. CASE e # NoEntry /\ Publish(f, "ok", e) /\ UNCHANGED old
  <2>1. /\ fstep'[f] = "published" /\ reply'[f] = [kind |-> "ok", entry |-> e]
        /\ \A g \in Flights \ {f} : fstep'[g] = fstep[g] /\ reply'[g] = reply[g]
    BY <1>4, <1>6 DEF Publish, Goto
  <2>2. FromPast(old[f], Key(f))
    BY DEF VInv, BodiesArePast
  <2>3. QED
    BY <1>2, <1>5, <1>6, <2>1, <2>2, BodyInHand DEF AtStore
<1>7. CASE /\ Goto(f, IF e = NoEntry THEN "fetching" ELSE "stamping")
           /\ old' = [old EXCEPT ![f] = e] /\ UNCHANGED reply
  <2>1. /\ fstep'[f] = (IF e = NoEntry THEN "fetching" ELSE "stamping") /\ old'[f] = e
        /\ \A g \in Flights \ {f} : fstep'[g] = fstep[g] /\ old'[g] = old[g]
    BY <1>4, <1>7 DEF Goto
  <2>2. reply[f] # NoReply => FromPast(reply[f].entry, Key(f))
    BY DEF VInv, BodiesArePast
  <2>3. QED
    BY <1>2, <1>5, <1>7, <2>1, <2>2, BodyInHand DEF AtStore
<1>8. QED
  BY <1>1, <1>6, <1>7

LEMMA FetchKeepsBodies ==
  ASSUME CInv, Proved!IInv, VInv, NEW f \in Flights, Fetch(f)
  PROVE  VInv'
<1> DEFINE current == [version |-> origin[Key(f)], variant |-> VariantOf[wants[f]]]
<1>1. fstep[f] = "fetching" /\ UNCHANGED <<wants, old, origin, disk, job, stage>>
  BY DEF Fetch, aroundFlights, worldVars, storeVars
<1>2. /\ fstep \in [Flights -> FlightSteps] /\ reply \in [Flights -> Replies \cup {NoReply}]
      /\ Key(f) \in Keys /\ origin[Key(f)] \in Nat
  BY BodiesTyped
<1>3. PICK kind \in Whole \cup {"stream", "missing", "refused", "failed"},
           e \in {current, NoEntry}, s \in {"answered", "dropping", "published"} :
        /\ fstep' = [fstep EXCEPT ![f] = s]
        /\ reply' = [reply EXCEPT ![f] = [kind |-> kind, entry |-> e]]
  BY DEF Fetch, Goto, Publish, Release, Whole
<1>4. FromPast(e, Key(f))
  BY <1>2 DEF FromPast
<1> HIDE DEF current
<1>5. /\ reply'[f].entry = e
      /\ \A g \in Flights \ {f} : fstep'[g] = fstep[g] /\ reply'[g] = reply[g]
  BY <1>2, <1>3
<1>6. FromPast(old[f], Key(f))
  BY DEF VInv, BodiesArePast
<1>7. QED
  BY <1>1, <1>4, <1>5, <1>6, BodyInHand DEF AtStore

\* A closure is spawned with what the flight has in hand.
LEMMA SubmitKeepsBodies ==
  ASSUME CInv, Proved!IInv, VInv, NEW f \in Flights, Submit(f)
  PROVE  VInv'
<1>1. /\ fstep[f] \in AtStore /\ job[f] = NoJob
      /\ job' = [job EXCEPT ![f] = [step |-> "spawned", key |-> Key(f), value |-> Value(f),
                                    admission |-> AdmissionOf(f), ok |-> FALSE]]
      /\ UNCHANGED <<fstep, wants, old, reply, origin, disk, stage>>
  BY DEF Submit, Store!Spawn, flightVars, worldVars, AtStore
<1>2. job \in [Flights -> Proved!Jobs \cup {NoJob}]
  BY BodiesTyped
<1>3. /\ job'[f].step = "spawned" /\ job'[f].key = Key(f) /\ job'[f].value = Value(f)
      /\ \A g \in Flights \ {f} : job'[g] = job[g]
  BY <1>1, <1>2
<1>4. /\ fstep[f] = "stamping" => Value(f) = old[f]
      /\ fstep[f] = "dropping" => Value(f) = NoEntry
      /\ fstep[f] \in Saving => Value(f) \in {reply[f].entry, NoEntry} /\ reply[f] # NoReply
  BY <1>1, MarkersAssumption DEF Value, AtStore, CInv, FlightInv, ReplyThere
<1>5. FromPast(Value(f), Key(f))
  BY <1>1, <1>4 DEF VInv, BodiesArePast, FromPast, AtStore
<1>6. BodiesArePast'
  <2>1. ASSUME NEW g \in Flights, job'[g] # NoJob
        PROVE  FromPast(job'[g].value, job'[g].key)
    BY <1>3, <1>5, <2>1 DEF VInv, BodiesArePast
  <2>2. QED
    BY <1>1, <2>1 DEF VInv, BodiesArePast, FromPast, Key
<1>7. ClosuresOwned'
  BY <1>1, <1>3, <1>4 DEF VInv, ClosuresOwned, Key, AtStore
<1>8. QED
  BY <1>6, <1>7 DEF VInv

\* A closure that is collected leaves the flight with what it has in hand.
LEMMA CollectKeepsBodies ==
  ASSUME CInv, Proved!IInv, VInv, NEW f \in Flights,
         Stamped(f) \/ Written(f) \/ Discard(f)
  PROVE  VInv'
<1>1. /\ job' = [job EXCEPT ![f] = NoJob]
      /\ fstep' = fstep \/ \E s \in {"fetching", "published"} : fstep' = [fstep EXCEPT ![f] = s]
      /\ UNCHANGED <<wants, old, reply, origin, disk, stage>>
  BY DEF Stamped, Written, Discard, Store!Collect, Goto, worldVars, flightVars
<1>2. job \in [Flights -> Proved!Jobs \cup {NoJob}] /\ fstep \in [Flights -> FlightSteps]
  BY BodiesTyped
<1>3. /\ job'[f] = NoJob /\ \A g \in Flights \ {f} : job'[g] = job[g] /\ fstep'[g] = fstep[g]
      /\ fstep'[f] = fstep[f] \/ fstep'[f] \notin AtStore
  BY <1>1, <1>2 DEF AtStore
<1>4. BodiesArePast'
  BY <1>1, <1>3 DEF VInv, BodiesArePast, FromPast, Key
<1>5. ClosuresOwned'
  BY <1>1, <1>3 DEF VInv, ClosuresOwned, Key, AtStore
<1>6. QED
  BY <1>4, <1>5 DEF VInv

\* Once cancelled, a flight may leave its closure behind.
LEMMA AbortKeepsBodies ==
  ASSUME CInv, Proved!IInv, VInv, NEW f \in Flights, Abort(f)
  PROVE  VInv'
<1>1. /\ stage # "open"
      /\ reply' = [reply EXCEPT ![f] = [kind |-> "stopped", entry |-> NoEntry]]
      /\ UNCHANGED <<wants, old, origin, disk, job, stage>>
  BY DEF Abort, Publish, Store!Cancelled, aroundFlights, storeVars, worldVars
<1>2. reply \in [Flights -> Replies \cup {NoReply}]
  BY BodiesTyped
<1>3. BodiesArePast'
  BY <1>1, <1>2 DEF VInv, BodiesArePast, FromPast, Key
<1>4. ClosuresOwned'
  BY <1>1 DEF VInv, ClosuresOwned
<1>5. QED
  BY <1>3, <1>4 DEF VInv

LEMMA FlightKeepsBodies ==
  ASSUME CInv, Proved!IInv, VInv, NEW f \in Flights, FlightStep(f)
  PROVE  VInv'
<1>1. CASE Choose(f) \/ Promoted(f) \/ TakeDemand(f) \/ TakeBackground(f) \/ Remove(f)
  <2>1. UNCHANGED <<disk, job, stage, origin, wants, old, reply>>
    BY <1>1 DEF Choose, Promoted, TakeDemand, TakeBackground, Acquire, Remove, aroundFlights,
           storeVars, worldVars
  <2>2. PICK s \in {"urgent", "parked", "queued", "reading", "gone"} :
          /\ fstep[f] \in {"queued", "parked", "urgent", "published"}
          /\ fstep' = [fstep EXCEPT ![f] = s]
    BY <1>1 DEF Choose, Promoted, TakeDemand, TakeBackground, Acquire, Remove, Published, Goto
  <2>3. fstep \in [Flights -> FlightSteps]
    BY BodiesTyped
  <2>4. QED
    BY <2>1, <2>2, <2>3, BodiesUntouched DEF AtStore
<1>2. CASE Drop(f)
  <2>1. fstep[f] = "gone" /\ UNCHANGED <<disk, job, stage, origin>>
    BY <1>2 DEF Drop, aroundFlights, storeVars, worldVars
  <2>2. /\ fstep'[f] = "blank" /\ old'[f] = NoEntry /\ reply'[f] = NoReply
        /\ \A g \in Flights \ {f} :
             /\ fstep'[g] = fstep[g] /\ wants'[g] = wants[g]
             /\ old'[g] = old[g] /\ reply'[g] = reply[g]
    BY <1>2 DEF Drop, Goto, CInv, FlightInv, FlightsTyped
  <2>3. QED
    BY <2>1, <2>2, SlotChanges DEF AtStore
<1>3. CASE Decide(f)
  <2>1. /\ fstep[f] = "answered" /\ UNCHANGED <<disk, job, stage, origin, wants, old, reply>>
        /\ \A g \in Flights \ {f} : fstep'[g] = fstep[g]
    BY <1>3, BodiesTyped DEF Decide, Goto, aroundFlights, storeVars, worldVars
  <2>2. FromPast(old[f], Key(f)) /\ (reply[f] # NoReply => FromPast(reply[f].entry, Key(f)))
    BY DEF VInv, BodiesArePast
  <2>3. QED
    BY <2>1, <2>2, BodyInHand DEF AtStore
<1>4. QED
  BY <1>1, <1>2, <1>3, ReadOldKeepsBodies, FetchKeepsBodies, SubmitKeepsBodies, CollectKeepsBodies,
     AbortKeepsBodies DEF FlightStep

-----------------------------------------------------------------------------
(* Closures.                                                               *)

\* A closure moves on; if it writes, what it was spawned with.
LEMMA ClosureMoves ==
  ASSUME CInv, Proved!IInv, VInv, NEW f \in Flights, job[f] # NoJob, NEW s, NEW ok,
         job' = [job EXCEPT ![f] = Store!At(f, s, ok)],
         \A k \in Keys :
           \/ disk'[k] \in {disk[k], NoEntry}
           \/ k = job[f].key /\ disk'[k] = job[f].value,
         UNCHANGED <<stage, origin, fstep, wants, old, reply>>
  PROVE  VInv'
<1>1. job \in [Flights -> Proved!Jobs \cup {NoJob}]
  BY BodiesTyped
<1>2. /\ job'[f].key = job[f].key /\ job'[f].value = job[f].value
      /\ \A g \in Flights \ {f} : job'[g] = job[g]
  BY <1>1 DEF Store!At
<1>3. BodiesArePast'
  <2>1. \A k \in Keys : FromPast(disk'[k], k)
    BY DEF VInv, BodiesArePast, FromPast
  <2>2. ASSUME NEW g \in Flights, job'[g] # NoJob
        PROVE  FromPast(job'[g].value, job'[g].key)
    BY <1>2, <2>2 DEF VInv, BodiesArePast
  <2>3. QED
    BY <2>1, <2>2 DEF VInv, BodiesArePast, FromPast, Key
<1>4. ClosuresOwned'
  BY <1>2 DEF VInv, ClosuresOwned, Key
<1>5. QED
  BY <1>3, <1>4 DEF VInv

\* What every step of a closure has in common.
ClosureStep(f) ==
  /\ job[f] # NoJob /\ UNCHANGED stage
  /\ \E s \in {"entered", "persisted", "forgotten", "done"}, ok \in BOOLEAN :
       job' = [job EXCEPT ![f] = Store!At(f, s, ok)]
  /\ \A k \in Keys :
       \/ disk'[k] \in {disk[k], NoEntry}
       \/ Store!Persist(f) /\ k = job[f].key /\ disk'[k] = job[f].value

LEMMA JobStepIsClosureStep ==
  ASSUME Proved!IInv, NEW f \in Flights, Store!JobStep(f)
  PROVE  ClosureStep(f)
<1>1. disk \in [Keys -> Entries \cup {NoEntry}]
  BY DEF Proved!IInv, Proved!TypeOK, Proved!Memories, Proved!Entries, Entries, Store!Entries
<1>2. job[f] # NoJob /\ UNCHANGED stage
  BY DEF Store!JobStep, Store!Enter, Store!Refuse, Store!WriteFails, Store!Persist,
         Store!PutMemory, Store!ForgetMemory, Store!RemoveFile
<1>3. \E s \in {"entered", "persisted", "forgotten", "done"}, ok \in BOOLEAN :
        job' = [job EXCEPT ![f] = Store!At(f, s, ok)]
  <2>1. \/ job' = [job EXCEPT ![f] = Store!At(f, "entered", FALSE)]
        \/ job' = [job EXCEPT ![f] = Store!At(f, "persisted", FALSE)]
        \/ job' = [job EXCEPT ![f] = Store!At(f, "forgotten", FALSE)]
        \/ job' = [job EXCEPT ![f] = Store!At(f, "done", FALSE)]
        \/ job' = [job EXCEPT ![f] = Store!At(f, "done", TRUE)]
    <3>1. CASE Store!Enter(f) \/ Store!Persist(f) \/ Store!ForgetMemory(f)
      BY <3>1 DEF Store!Enter, Store!Persist, Store!ForgetMemory
    <3>2. CASE Store!Refuse(f) \/ Store!WriteFails(f) \/ Store!PutMemory(f) \/ Store!RemoveFile(f)
      BY <3>2 DEF Store!Refuse, Store!WriteFails, Store!PutMemory, Store!RemoveFile,
                  Store!Finish
    <3>3. QED
      BY <3>1, <3>2 DEF Store!JobStep
  <2>2. QED
    BY <2>1
<1>4. CASE Store!Persist(f)
  <2>1. disk' = [disk EXCEPT ![job[f].key] = job[f].value]
    BY <1>4 DEF Store!Persist, Store!Renamed
  <2>2. QED
    BY <1>1, <1>2, <1>3, <1>4, <2>1 DEF ClosureStep
<1>5. CASE ~Store!Persist(f)
  <2>1. disk' = disk \/ disk' = Store!Without(disk, job[f].key)
    BY <1>5 DEF Store!JobStep, Store!Enter, Store!Refuse, Store!WriteFails, Store!PutMemory,
         Store!ForgetMemory, Store!RemoveFile
  <2>2. \A k \in Keys : disk'[k] \in {disk[k], NoEntry}
    BY <1>1, <2>1 DEF Store!Without
  <2>3. QED
    BY <1>2, <1>3, <2>2 DEF ClosureStep
<1>6. QED
  BY <1>4, <1>5

LEMMA JobKeepsBodies ==
  ASSUME CInv, Proved!IInv, VInv,
         NEW f \in Flights, JobStep(f)
  PROVE  VInv'
<1>1. CASE Discard(f)
  BY <1>1, CollectKeepsBodies
<1>2. CASE Store!JobStep(f) /\ UNCHANGED <<flightVars, clientVars, worldVars>>
  <2>1. UNCHANGED <<origin, fstep, wants, old, reply>>
    BY <1>2 DEF flightVars, worldVars
  <2>2. ClosureStep(f)
    BY <1>2, JobStepIsClosureStep
  <2>3. PICK s \in {"entered", "persisted", "forgotten", "done"}, ok \in BOOLEAN :
          job' = [job EXCEPT ![f] = Store!At(f, s, ok)]
    BY <2>2 DEF ClosureStep
  <2>4. /\ job[f] # NoJob /\ UNCHANGED stage
        /\ \A k \in Keys :
             \/ disk'[k] \in {disk[k], NoEntry}
             \/ k = job[f].key /\ disk'[k] = job[f].value
    BY <2>2 DEF ClosureStep
  <2>5. QED
    BY <2>1, <2>3, <2>4, ClosureMoves
<1>3. QED
  BY <1>1, <1>2 DEF JobStep

-----------------------------------------------------------------------------
(* The whole next-state relation.                                          *)

LEMMA RestartKeepsBodies ==
  ASSUME VInv, Restart
  PROVE  VInv'
<1>1. UNCHANGED <<disk, origin>> /\ \A f \in Flights : job'[f] = NoJob
  BY DEF Restart, Store!Restart
<1>2. \A f \in Flights : fstep'[f] = "blank" /\ old'[f] = NoEntry /\ reply'[f] = NoReply
  BY DEF Restart
<1>3. BodiesArePast'
  BY <1>1, <1>2 DEF VInv, BodiesArePast, FromPast, Key
<1>4. ClosuresOwned'
  BY <1>1, <1>2 DEF ClosuresOwned
<1>5. QED
  BY <1>3, <1>4 DEF VInv

\* The origin only moves on.
LEMMA UpdateKeepsBodies ==
  ASSUME CInv, Proved!IInv, VInv, NEW k \in Keys, Update(k)
  PROVE  VInv'
<1>1. UNCHANGED <<disk, job, stage, fstep, wants, old, reply>>
  BY DEF Update, storeVars, flightVars
<1>2. \A j \in Keys : origin[j] \in Nat /\ origin'[j] \in Nat /\ origin[j] <= origin'[j]
  <2>1. PICK v \in Versions : v > origin[k] /\ origin' = [origin EXCEPT ![k] = v]
    BY DEF Update
  <2>2. origin \in [Keys -> Versions]
    BY DEF CInv, WorldTyped
  <2>3. \A n \in Versions : n \in Nat
    BY VersionsAssumption
  <2>4. origin'[k] = v /\ \A j \in Keys \ {k} : origin'[j] = origin[j]
    BY <2>1, <2>2
  <2>5. v \in Nat /\ origin[k] \in Nat /\ origin[k] <= v
    <3>1. v \in Nat /\ origin[k] \in Nat
      BY <2>2, <2>3
    <3>2. v > origin[k]
      BY <2>1
    <3>3. QED
      BY <3>1, <3>2
  <2>6. \A j \in Keys : origin[j] \in Nat
    BY <2>2, <2>3
  <2>7. QED
    BY <2>4, <2>5, <2>6
<1>3. ASSUME NEW j \in Keys, NEW e \in Entries \cup {NoEntry}, FromPast(e, j)
      PROVE  e # NoEntry => e.version <= origin'[j]
  BY <1>2, <1>3, BodiesTyped DEF FromPast
<1>4. BodiesArePast'
  <2>1. \A j \in Keys : disk[j] # NoEntry => disk[j].version <= origin'[j]
    BY <1>3, BodiesTyped DEF VInv, BodiesArePast
  <2>2. ASSUME NEW f \in Flights
        PROVE  /\ old[f] # NoEntry => old[f].version <= origin'[Key(f)]
               /\ reply[f] # NoReply /\ reply[f].entry # NoEntry =>
                    reply[f].entry.version <= origin'[Key(f)]
               /\ job[f] # NoJob /\ job[f].value # NoEntry =>
                    job[f].value.version <= origin'[job[f].key]
    BY <1>3, BodiesTyped DEF VInv, BodiesArePast
  <2>3. QED
    BY <1>1, <2>1, <2>2 DEF BodiesArePast, FromPast, Key
<1>5. ClosuresOwned'
  BY <1>1 DEF VInv, ClosuresOwned, Key
<1>6. QED
  BY <1>4, <1>5 DEF VInv

LEMMA StepKeepsBodies ==
  ASSUME CInv, Proved!IInv, VInv, [Next]_vars
  PROVE  VInv'
<1>1. CASE StartRestore \/ RestorerStep \/ Cancel \/ CloseStep
  <2>1. UNCHANGED <<disk, job, origin, fstep, wants, old, reply>>
    BY <1>1 DEF StartRestore, RestorerStep, Cancel, CloseStep, flightVars, worldVars,
         Store!StartRestore, Store!RestorerStep, Store!Restore, Store!EndRestore,
         Store!SavePeriodically, Store!SaveResidents, Store!StopRestorer, Store!Cancel,
         Store!CloseStep, Store!TasksEnded, Store!SaveFinally, Store!CloseMemory
  <2>2. stage' = "open" => stage = "open"
    BY <1>1 DEF StartRestore, RestorerStep, Cancel, CloseStep,
         Store!StartRestore, Store!RestorerStep, Store!Restore, Store!EndRestore,
         Store!SavePeriodically, Store!SaveResidents, Store!StopRestorer, Store!Cancel,
         Store!CloseStep, Store!TasksEnded, Store!SaveFinally, Store!CloseMemory
  <2>3. QED
    BY <2>1, <2>2, BodiesUntouched
<1>2. CASE UNCHANGED vars
  BY <1>2, BodiesUntouched DEF vars, storeVars, flightVars, worldVars
<1>3. ASSUME NEW c \in Clients,
             \/ \E r \in Requests, b, bypass \in BOOLEAN : Begin(c, r, b, bypass)
             \/ ClientStep(c) \/ Disconnect(c)
      PROVE  VInv'
  BY <1>3, ClientKeepsBodies
<1>4. ASSUME NEW f \in Flights, FlightStep(f) \/ JobStep(f)
      PROVE  VInv'
  BY <1>4, FlightKeepsBodies, JobKeepsBodies
<1>5. QED
  BY <1>1, <1>2, <1>3, <1>4, RestartKeepsBodies, UpdateKeepsBodies DEF Next

-----------------------------------------------------------------------------
(* Who gets behind a file, and who writes an older body.                   *)

\* Only closures touch the files.
LEMMA OnlyClosuresWrite ==
  ASSUME [Next]_vars, \A f \in Flights : ~Store!JobStep(f)
  PROVE  disk' = disk
<1>1. CASE StartRestore \/ RestorerStep \/ Cancel \/ CloseStep \/ Restart \/ UNCHANGED vars
           \/ \E j \in Keys : Update(j)
  BY <1>1 DEF StartRestore, RestorerStep, Cancel, CloseStep, Restart, Update, vars,
     storeVars, Store!StartRestore, Store!RestorerStep, Store!Restore, Store!EndRestore,
     Store!SavePeriodically, Store!SaveResidents, Store!StopRestorer, Store!Cancel,
     Store!CloseStep, Store!TasksEnded, Store!SaveFinally, Store!CloseMemory, Store!Restart
<1>2. ASSUME NEW c \in Clients,
             \/ \E r \in Requests, b, bypass \in BOOLEAN : Begin(c, r, b, bypass)
             \/ ClientStep(c) \/ Disconnect(c)
      PROVE  disk' = disk
  BY <1>2 DEF Begin, ClientStep, Lookup, Refresh, Deliver, TakePermit, DirectReply, Finish,
     Stop, Disconnect, storeVars, Store!Stored
<1>3. ASSUME NEW f \in Flights, FlightStep(f) \/ Discard(f)
      PROVE  disk' = disk
  BY <1>3 DEF FlightStep, Choose, Promoted, TakeDemand, TakeBackground, Acquire, ReadOld,
     Submit, Stamped, Fetch, Decide, Written, Abort, Remove, Drop, Discard, aroundFlights,
     storeVars, Store!Stored, Store!Spawn, Store!Collect
<1>4. QED
  BY <1>1, <1>2, <1>3 DEF Next, JobStep

\* A closure that writes is in the mutex, with the body in hand.
LEMMA WriterHasBody ==
  ASSUME Proved!IInv, NEW f \in Flights, Store!Persist(f)
  PROVE  /\ lock = f /\ HandKey(f) = job[f].key
         /\ job[f].value # NoEntry /\ job[f].value \in InHand(f)
<1>1. job[f] # NoJob /\ job[f].step = "entered" /\ job[f].value # NoEntry
  BY DEF Store!Persist
<1>2. lock = f
  BY <1>1 DEF Proved!IInv, Proved!MutexOwner, Proved!InMutex
<1>3. QED
  BY <1>1, <1>2 DEF HandKey, InHand

\* An older body replaces a newer one only by a closure that is behind its file.
LEMMA OlderComesLate ==
  ASSUME CInv, Proved!IInv, [Next]_vars, NEW k \in Keys,
         disk[k] # NoEntry, disk'[k] # NoEntry, disk'[k].version < disk[k].version
  PROVE  \E f \in Flights : lock = f /\ HandKey(f) = k /\ Behind(f)
<1>1. disk[k].version \in Nat
  BY BodiesTyped
<1>2. disk'[k] # disk[k]
  BY <1>1
<1>3. PICK f \in Flights : Store!JobStep(f)
  BY <1>2, OnlyClosuresWrite
<1>4. Store!Persist(f) /\ k = job[f].key /\ disk'[k] = job[f].value
  BY <1>2, <1>3, JobStepIsClosureStep DEF ClosureStep
<1>5. lock = f /\ HandKey(f) = k /\ job[f].value \in InHand(f)
  BY <1>4, WriterHasBody
<1>6. Behind(f)
  BY <1>4, <1>5 DEF Behind
<1>7. QED
  BY <1>5, <1>6

\* While the cache is open, what a flight has in hand is its old entry or its
\* reply, for its own file; outside of these steps it has nothing.
HandSteps == {"stamping", "answered"} \cup Saving

LEMMA HandWhenOpen ==
  ASSUME VInv, stage = "open", NEW f \in Flights
  PROVE  /\ HandKey(f) = Key(f)
         /\ job[f] # NoJob => fstep[f] \in AtStore
         /\ fstep[f] = "stamping" => InHand(f) = {old[f]} \ {NoEntry}
         /\ fstep[f] \in {"answered"} \cup Saving => InHand(f) = {reply[f].entry} \ {NoEntry}
         /\ fstep[f] \notin HandSteps => InHand(f) = {}
<1>1. job[f] # NoJob =>
        /\ fstep[f] \in AtStore /\ job[f].key = Key(f)
        /\ job[f].value # NoEntry =>
             \/ fstep[f] = "stamping" /\ job[f].value = old[f]
             \/ fstep[f] \in Saving /\ job[f].value = reply[f].entry
  BY DEF VInv, ClosuresOwned
<1>2. HandKey(f) = Key(f)
  BY <1>1 DEF HandKey
<1>3. CASE fstep[f] = "stamping"
  BY <1>1, <1>2, <1>3 DEF InHand, AtStore, HandSteps
<1>4. CASE fstep[f] \in {"answered"} \cup Saving
  BY <1>1, <1>2, <1>4 DEF InHand, AtStore, HandSteps
<1>5. CASE fstep[f] \notin HandSteps
  BY <1>1, <1>2, <1>5 DEF InHand, HandSteps
<1>6. QED
  BY <1>3, <1>4, <1>5 DEF HandSteps

\* A flight that has no new body in hand gets behind only if its file changes.
LEMMA NothingNewInHand ==
  ASSUME NEW f \in Flights, UNCHANGED disk, Behind(f)', InHand(f)' \subseteq InHand(f),
         InHand(f)' # {} => HandKey(f)' = HandKey(f)
  PROVE  Behind(f)
BY DEF Behind

LEMMA SameHand ==
  ASSUME NEW f \in Flights, UNCHANGED disk, Behind(f)',
         fstep'[f] = fstep[f], wants'[f] = wants[f], old'[f] = old[f], reply'[f] = reply[f],
         job'[f] = job[f]
  PROVE  Behind(f)
<1>1. InHand(f)' = InHand(f) /\ HandKey(f)' = HandKey(f)
  BY DEF InHand, HandKey, Key
<1>2. QED
  BY <1>1, NothingNewInHand

LEMMA EmptyHand ==
  ASSUME NEW f \in Flights, job'[f] = NoJob, fstep'[f] \notin HandSteps
  PROVE  ~Behind(f)'
BY DEF Behind, InHand, HandSteps

\* Clients only take slots.
LEMMA ClientOvertakesNobody ==
  ASSUME CInv, Proved!IInv, VInv, stage = "open", NEW f \in Flights, Behind(f)', NEW c \in Clients,
         \/ \E r \in Requests, b, bypass \in BOOLEAN : Begin(c, r, b, bypass)
         \/ ClientStep(c) \/ Disconnect(c)
  PROVE  Behind(f)
<1>1. UNCHANGED <<disk, job, old, reply>>
  BY DEF Begin, ClientStep, Lookup, Refresh, Join, Launch, Deliver, TakePermit, DirectReply,
         Finish, Stop, Disconnect, storeVars, flightVars, Store!Stored
<1>2. \/ fstep'[f] = fstep[f] /\ wants'[f] = wants[f]
      \/ job[f] = NoJob /\ fstep'[f] = "queued"
  BY BodiesTyped DEF Begin, ClientStep, Lookup, Refresh, Join, Launch, Deliver, TakePermit,
     DirectReply, Finish, Stop, Disconnect, flightVars
<1>3. QED
  BY <1>1, <1>2, SameHand, EmptyHand DEF HandSteps

\* A flight that comes by a body is not behind: an old entry is the file's, and
\* the origin is ahead of every file.
LEMMA FlightOvertakesNobody ==
  ASSUME CInv, Proved!IInv, VInv, stage = "open", NEW f \in Flights, Behind(f)',
         NEW g \in Flights, FlightStep(g)
  PROVE  Behind(f)
<1>1. UNCHANGED disk
  BY DEF FlightStep, Choose, Promoted, TakeDemand, TakeBackground, Acquire, ReadOld, Submit,
     Stamped, Fetch, Decide, Written, Abort, Remove, Drop, aroundFlights, storeVars,
     Store!Stored, Store!Spawn, Store!Collect
<1>2. CASE f # g
  <2>1. /\ fstep'[f] = fstep[f] /\ wants'[f] = wants[f]
        /\ old'[f] = old[f] /\ reply'[f] = reply[f]
    BY <1>2, BodiesTyped
       DEF FlightStep, Choose, Promoted, TakeDemand, TakeBackground, Acquire, ReadOld, Submit,
           Stamped, Fetch, Decide, Written, Abort, Remove, Drop, Goto, Publish, flightVars
  <2>2. job'[f] = job[f]
    BY <1>2, BodiesTyped
       DEF FlightStep, Choose, Promoted, TakeDemand, TakeBackground, Acquire, ReadOld, Submit,
           Stamped, Fetch, Decide, Written, Abort, Remove, Drop, aroundFlights, storeVars,
           Store!Stored, Store!Spawn, Store!Collect
  <2>3. QED
    BY <1>1, <2>1, <2>2, SameHand
<1>3. CASE f = g
  <2>1. /\ HandKey(f) = Key(f) /\ Key(f) \in Keys
        /\ fstep[f] \notin AtStore => job[f] = NoJob
    BY HandWhenOpen, BodiesTyped
  <2>2. CASE Choose(f) \/ Promoted(f) \/ TakeDemand(f) \/ TakeBackground(f) \/ Remove(f) \/ Drop(f)
    <3>1. /\ fstep[f] \notin AtStore /\ job' = job /\ fstep'[f] \notin HandSteps
      BY <2>2, BodiesTyped
         DEF Choose, Promoted, TakeDemand, TakeBackground, Acquire, Remove, Published, Drop,
             Goto, AtStore, HandSteps, aroundFlights, storeVars
    <3>2. QED
      BY <2>1, <3>1, EmptyHand
  <2>3. CASE ReadOld(f)
    <3>1. PICK e \in Entries \cup {NoEntry} :
            /\ Store!Stored(Key(f), VariantOf[wants[f]], FALSE, e)
            /\ \/ e # NoEntry /\ Publish(f, "ok", e) /\ Release(f) /\ UNCHANGED old
               \/ /\ Goto(f, IF e = NoEntry THEN "fetching" ELSE "stamping")
                  /\ old' = [old EXCEPT ![f] = e]
                  /\ UNCHANGED <<permit, reply>>
      BY <2>3 DEF ReadOld
    <3>2. fstep[f] = "reading" /\ UNCHANGED <<job, wants>>
      BY <2>3, <3>1 DEF ReadOld, Store!Stored
    <3>3. job'[f] = NoJob /\ Key(f)' = Key(f)
      BY <2>1, <3>2 DEF AtStore, Key
    <3>4. CASE e = NoEntry \/ fstep'[f] = "published"
      <4>1. fstep'[f] \notin HandSteps
        BY <3>1, <3>4, BodiesTyped DEF Publish, Goto, HandSteps
      <4>2. QED
        BY <3>3, <4>1, EmptyHand
    <3>5. CASE e # NoEntry /\ fstep'[f] # "published"
      <4>1. fstep'[f] = "stamping" /\ old'[f] = e
        BY <3>1, <3>5, BodiesTyped DEF Publish, Goto
      <4>2. InHand(f)' \subseteq {e} /\ HandKey(f)' = Key(f)
        BY <3>3, <4>1 DEF InHand, HandKey
      <4>3. disk[Key(f)] = e
        BY <2>1, <3>1, <3>5, StoredFromDisk
      <4>4. e.version \in Nat
        BY <3>1, <3>5, BodiesTyped
      <4>5. QED
        BY <1>1, <4>2, <4>3, <4>4 DEF Behind
    <3>6. QED
      BY <3>4, <3>5
  <2>4. CASE Submit(f)
    <3>1. /\ fstep[f] \in AtStore /\ job[f] = NoJob
          /\ job'[f].key = Key(f) /\ job'[f].value = Value(f)
          /\ UNCHANGED <<fstep, wants, old, reply>>
      <4>1. /\ fstep[f] \in AtStore /\ job[f] = NoJob /\ UNCHANGED <<fstep, wants, old, reply>>
            /\ job'[f] = [step |-> "spawned", key |-> Key(f), value |-> Value(f),
                          admission |-> AdmissionOf(f), ok |-> FALSE]
        BY <2>4, BodiesTyped DEF Submit, Store!Spawn, flightVars
      <4>2. QED
        BY <4>1
    <3>2. /\ fstep[f] = "stamping" => Value(f) = old[f]
          /\ fstep[f] = "dropping" => Value(f) = NoEntry
          /\ fstep[f] \in Saving => Value(f) \in {reply[f].entry, NoEntry}
      BY DEF Value
    <3>3. InHand(f)' \subseteq InHand(f) /\ HandKey(f)' = HandKey(f)
      BY <2>1, <3>1, <3>2 DEF InHand, HandKey, Key, AtStore
    <3>4. QED
      BY <1>1, <3>3, NothingNewInHand
  <2>5. CASE Stamped(f) \/ Written(f)
    <3>1. job'[f] = NoJob /\ fstep'[f] \notin HandSteps
      BY <2>5, BodiesTyped DEF Stamped, Written, Store!Collect, Goto, HandSteps
    <3>2. QED
      BY <3>1, EmptyHand
  <2>6. CASE Fetch(f)
    <3> DEFINE current == [version |-> origin[Key(f)], variant |-> VariantOf[wants[f]]]
    <3>1. PICK kind \in Whole \cup {"stream", "missing", "refused", "failed"},
               e \in {current, NoEntry}, s \in {"answered", "dropping", "published"} :
            /\ fstep' = [fstep EXCEPT ![f] = s]
            /\ reply' = [reply EXCEPT ![f] = [kind |-> kind, entry |-> e]]
      BY <2>6 DEF Fetch, Goto, Publish, Release, Whole
    <3>2. fstep[f] = "fetching" /\ UNCHANGED <<job, wants>>
      BY <2>6 DEF Fetch, aroundFlights, storeVars
    <3>3. fstep'[f] = s /\ reply'[f].entry = e
      BY <3>1, BodiesTyped
    <3>4. job'[f] = NoJob /\ HandKey(f)' = Key(f)
      BY <2>1, <3>2 DEF AtStore, HandKey, Key
    <3>5. InHand(f)' \subseteq {current}
      BY <3>1, <3>3, <3>4 DEF InHand
    <3>6. disk[Key(f)] # NoEntry => disk[Key(f)].version <= current.version
      BY <2>1 DEF VInv, BodiesArePast, FromPast
    <3>7. current.version \in Nat /\ (disk[Key(f)] # NoEntry => disk[Key(f)].version \in Nat)
      BY <2>1, BodiesTyped
    <3> HIDE DEF current
    <3>8. QED
      BY <1>1, <3>4, <3>5, <3>6, <3>7 DEF Behind
  <2>7. CASE Decide(f)
    <3>1. /\ fstep[f] = "answered" /\ fstep'[f] \in Saving
          /\ UNCHANGED <<job, wants, old, reply>>
      BY <2>7, BodiesTyped DEF Decide, Goto, aroundFlights, storeVars
    <3>2. InHand(f)' = InHand(f) /\ HandKey(f)' = HandKey(f)
      BY <3>1 DEF InHand, HandKey, Key
    <3>3. QED
      BY <1>1, <3>2, NothingNewInHand
  <2>8. CASE Abort(f)
    BY <2>8 DEF Abort, Store!Cancelled
  <2>9. QED
    BY <1>3, <2>2, <2>3, <2>4, <2>5, <2>6, <2>7, <2>8 DEF FlightStep
<1>4. QED
  BY <1>2, <1>3

\* A closure overtakes only flights of other headers.
LEMMA ClosureOvertakes ==
  ASSUME CInv, Proved!IInv, VInv, stage = "open", NEW f \in Flights, Behind(f)', ~Behind(f),
         NEW g \in Flights, JobStep(g)
  PROVE  Overtaken(f)
<1>1. ~Discard(g)
  BY HandWhenOpen DEF Discard, Store!Collect
<1>2. ClosureStep(g) /\ UNCHANGED <<fstep, wants, old, reply>>
  BY <1>1, JobStepIsClosureStep DEF JobStep, flightVars
<1>3. /\ job'[g] # NoJob => job'[g].key = job[g].key /\ job'[g].value = job[g].value
      /\ job[g] # NoJob
      /\ \A h \in Flights \ {g} : job'[h] = job[h]
  BY <1>2, BodiesTyped DEF ClosureStep, Store!At
<1>4. /\ HandKey(f) = Key(f) /\ HandKey(f) \in Keys
      /\ job[g].key = Key(g) /\ fstep[g] \in AtStore
  BY <1>3, HandWhenOpen, BodiesTyped DEF VInv, ClosuresOwned
<1>5. InHand(f)' \subseteq InHand(f) /\ HandKey(f)' = HandKey(f)
  BY <1>2, <1>3, <1>4 DEF InHand, HandKey, Key
<1>6. disk'[HandKey(f)] # NoEntry /\ disk'[HandKey(f)] # disk[HandKey(f)]
  BY <1>5 DEF Behind
<1>7. Store!Persist(g) /\ job[g].key = HandKey(f) /\ disk'[HandKey(f)] = job[g].value
  BY <1>2, <1>4, <1>6 DEF ClosureStep
<1>8. lock = g /\ job[g].value \in InHand(g) /\ job[g].value.version \in Nat
  BY <1>3, <1>7, WriterHasBody, BodiesTyped
<1>9. PICK e \in InHand(f) : e.version < job[g].value.version
  BY <1>5, <1>7 DEF Behind
<1>10. g # f
  <2> SUFFICES ASSUME g = f PROVE FALSE
    OBVIOUS
  <2>1. InHand(f) = {job[f].value}
    BY <1>8, HandWhenOpen DEF HandSteps
  <2>2. QED
    BY <1>8, <1>9, <2>1
<1>11. fstep[f] \in HandSteps
  BY <1>9, HandWhenOpen
<1>12. fstep[f] \in Running /\ fstep[g] \in Running
  BY <1>4, <1>11 DEF HandSteps, AtStore, Running, Downloading
<1>13. wants[g] # wants[f]
  BY <1>10, <1>12 DEF CInv, FlightInv, SingleFlight
<1>14. QED
  BY <1>7, <1>8, <1>10, <1>12, <1>13 DEF Overtaken

LEMMA StepOvertakes ==
  ASSUME CInv, Proved!IInv, VInv, [Next]_vars, stage = "open", NEW f \in Flights,
         Behind(f)', ~Behind(f)
  PROVE  Overtaken(f)
<1>1. CASE \/ StartRestore \/ RestorerStep \/ Cancel \/ CloseStep \/ UNCHANGED vars
           \/ \E k \in Keys : Update(k)
  <2>1. UNCHANGED <<disk, job, fstep, wants, old, reply>>
    BY <1>1 DEF StartRestore, RestorerStep, Cancel, CloseStep, Update, vars, storeVars,
       flightVars, Store!StartRestore, Store!RestorerStep, Store!Restore, Store!EndRestore,
       Store!SavePeriodically, Store!SaveResidents, Store!StopRestorer, Store!Cancel,
       Store!CloseStep, Store!TasksEnded, Store!SaveFinally, Store!CloseMemory
  <2>2. QED
    BY <2>1, SameHand
<1>2. CASE Restart
  <2>1. job'[f] = NoJob /\ fstep'[f] \notin HandSteps
    BY <1>2 DEF Restart, Store!Restart, HandSteps
  <2>2. QED
    BY <2>1, EmptyHand
<1>3. QED
  BY <1>1, <1>2, ClientOvertakesNobody, FlightOvertakesNobody, ClosureOvertakes DEF Next

\* On disk an older body never replaces a newer one, however slow the download or
\* the closure that brings it, unless a flight of other headers overtook its
\* flight; and nothing else makes a flight late while the cache is open. Requests
\* and headers are arbitrary: the browser and the preloader may ask for one URL
\* with headers of their own.
THEOREM OnlyOvertakenWriteOlder == Spec => OlderOnlyIfOvertaken
<1>1. Init => VInv
  <2> SUFFICES ASSUME Init PROVE VInv
    OBVIOUS
  <2>1. \A k \in Keys : disk[k] = NoEntry
    BY DEF Init, Store!Init, Store!EmptyMemory
  <2>2. \A f \in Flights :
          job[f] = NoJob /\ fstep[f] = "blank" /\ old[f] = NoEntry /\ reply[f] = NoReply
    BY DEF Init, Store!Init
  <2>3. QED
    BY <2>1, <2>2 DEF VInv, BodiesArePast, ClosuresOwned, FromPast
<1>2. Spec => []Proved!IInv
  <2>1. Proved!Spec => []Proved!IInv
    BY StoreAssumptions, Proved!Invariance
  <2>2. QED
    BY <2>1, SameSpec, StoreIsKept, PTL DEF StoreKept
<1>3. CInv /\ Proved!IInv /\ VInv /\ [Next]_vars => VInv'
  BY StepKeepsBodies
<1>4. Spec => []VInv
  BY <1>1, <1>2, <1>3, Invariance, PTL DEF Spec
<1>5. CInv /\ Proved!IInv /\ VInv /\ [Next]_vars =>
        /\ \A k \in Keys :
             disk[k] # NoEntry /\ disk'[k] # NoEntry /\ disk'[k].version < disk[k].version
               => \E f \in Flights : lock = f /\ HandKey(f) = k /\ Behind(f)
        /\ \A f \in Flights : stage = "open" /\ ~Behind(f) /\ Behind(f)' => Overtaken(f)
  BY OlderComesLate, StepOvertakes
<1>6. QED
  BY <1>2, <1>4, <1>5, Invariance, PTL DEF Spec, OlderOnlyIfOvertaken

=============================================================================
