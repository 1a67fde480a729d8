------------------------------- MODULE Gateway -------------------------------
(***************************************************************************)
(* The gateway's tasks (core/src/gateway.rs): the accept loop, a task per  *)
(* connection, and the tasks that connections spawn: for a CONNECT tunnel, *)
(* for the driver of a relayed request, and for an upgraded connection.    *)
(* All of them are cancelled and awaited by close(); only the first kind   *)
(* holds one of the slots.  SOCKS5 associations are those of Associate.    *)
(*                                                                         *)
(* A task is named by the connection it comes from and its role.  Its      *)
(* stage is what it awaits; it can always end there, because the peer      *)
(* closes, upstream fails, or one of the 5, 10 or 30 second timeouts ends. *)
(***************************************************************************)
EXTENDS Associate

CONSTANT Slots \* connections at a time (256)

ASSUME GatewayAssumption == Slots \in Nat \ {0} /\ IsFiniteSet(Conns)

VARIABLES listening, \* the accept loop runs
          stage,     \* [Tasks -> Stages]
          slots,     \* permits of the semaphore that are free
          phase      \* of close()

gatewayVars == <<listening, stage, slots, phase>>
vars == <<gatewayVars, udpVars>>

Roles == {"conn", "tunnel", "driver", "copy"}
Tasks == Conns \X Roles

Stages == {"none",
           "peek", "socks", "tls",  \* the first byte, SOCKS, TLS to the proxy
           "http", "site", "engine", \* proxy requests, requests of a site
           "hello", "inspect", "dial", "relay", \* tunnel()
           "udp",
           "upgrade",               \* waits for hyper to hand over the stream
           "drive"}

Of(c, role) == stage[<<c, role>>]
Alive == {t \in Tasks : stage[t] # "none"}

TypeOK ==
    /\ listening \in BOOLEAN
    /\ stage \in [Tasks -> Stages]
    /\ slots \in 0..Slots
    /\ phase \in {"open", "cancelled", "waited", "closed"}
    /\ AssociateTypeOK

Init ==
    /\ listening = TRUE
    /\ stage = [t \in Tasks |-> "none"]
    /\ slots = Slots
    /\ phase = "open"
    /\ AssociateInit

-----------------------------------------------------------------------------
(* The accept loop. *)

\* A local peer gets a task and a slot; without a slot it is disconnected.
\* (The name of a connection is used again when all its tasks have ended.)
Accept(c) ==
    /\ listening /\ slots > 0
    /\ \A role \in Roles : Of(c, role) = "none"
    /\ \A t \in Targets : flow[c][t].state = "none"
    /\ stage' = [stage EXCEPT ![<<c, "conn">>] = "peek"]
    /\ slots' = slots - 1
    /\ UNCHANGED <<listening, phase, udpVars>>

\* One accept() that fails ends the loop, as cancellation does.
StopListening ==
    /\ listening /\ listening' = FALSE
    /\ UNCHANGED <<stage, slots, phase, udpVars>>

-----------------------------------------------------------------------------
(* A connection, and the tunnel of a CONNECT request. *)

\* accept() and socks(): an inspected target is answered at once, another only
\* when it could be reached.
Entry == {<<"peek", "socks">>, <<"peek", "tls">>, <<"peek", "http">>,
          <<"tls", "http">>, <<"socks", "dial">>, <<"socks", "hello">>,
          <<"socks", "inspect">>}

\* tunnel(): an address is looked at for the site's name, a site is decrypted,
\* anything else is relayed.
Tunnel == {<<"hello", "inspect">>, <<"hello", "dial">>, <<"dial", "relay">>,
           <<"inspect", "site">>}

\* handle(): the requests that go through the engine are those of a site.
Requests == {<<"site", "engine">>, <<"engine", "site">>}

Move(t) ==
    /\ \E s \in Stages :
         /\ <<stage[t], s>> \in Entry \cup Tunnel \cup Requests
         /\ stage' = [stage EXCEPT ![t] = s]
    /\ UNCHANGED <<listening, slots, phase, udpVars>>

\* SOCKS5 UDP ASSOCIATE.
StartUdp(c) ==
    /\ Of(c, "conn") = "socks"
    /\ stage' = [stage EXCEPT ![<<c, "conn">>] = "udp"]
    /\ Associated(c)
    /\ UNCHANGED <<listening, slots, phase>>

UdpStep(c) ==
    /\ \/ Of(c, "conn") = "udp" /\ Loop(c)
       \/ FlowStep(c)
    /\ UNCHANGED gatewayVars

\* handle(), CONNECT: refused inside a site; the tunnel's task is spawned before
\* the answer is written.
Connect(c) ==
    /\ Of(c, "conn") = "http" /\ Of(c, "tunnel") = "none"
    /\ stage' = [stage EXCEPT ![<<c, "tunnel">>] = "upgrade"]
    /\ UNCHANGED <<listening, slots, phase, udpVars>>

\* relay(): a connection to upstream with a driver of its own, one at a time.
Relay(c) ==
    /\ Of(c, "driver") = "none"
    /\ \E role \in {"conn", "tunnel"} : Of(c, role) \in {"http", "site"}
    /\ stage' = [stage EXCEPT ![<<c, "driver">>] = "drive"]
    /\ UNCHANGED <<listening, slots, phase, udpVars>>

\* The answer is 101: the task that copies is spawned before it is written.
SwitchProtocols(c) ==
    /\ Of(c, "driver") = "drive" /\ Of(c, "copy") = "none"
    /\ \E role \in {"conn", "tunnel"} : Of(c, role) \in {"http", "site"}
    /\ stage' = [stage EXCEPT ![<<c, "copy">>] = "upgrade"]
    /\ UNCHANGED <<listening, slots, phase, udpVars>>

\* Mutant: the tunnel takes the slot of its connection along.
SlotStays(t) == slots

\* The permit is dropped with the task of the connection.
SlotAfter(t) == IF t[2] = "conn" THEN slots + 1 ELSE slots

\* The answer is written and hyper hands over the stream: the connection's task
\* ends, its slot goes back, and the spawned task goes on without one.
Upgraded(from, to) ==
    /\ stage[from] \in {"http", "site"} /\ stage[to] = "upgrade"
    /\ \E s \in IF to[2] = "tunnel" THEN {"inspect", "hello", "relay"} ELSE {"relay"} :
         stage' = [stage EXCEPT ![from] = "none", ![to] = s]
    /\ slots' = SlotAfter(from)
    /\ UNCHANGED <<listening, phase, udpVars>>

Upgrade(c) ==
    \/ Upgraded(<<c, "conn">>, <<c, "tunnel">>)
    \/ \E role \in {"conn", "tunnel"} : Upgraded(<<c, role>>, <<c, "copy">>)

\* A task returns, or is dropped.
End(t) ==
    /\ t \in Alive
    /\ stage' = [stage EXCEPT ![t] = "none"]
    /\ slots' = SlotAfter(t)
    /\ IF stage[t] = "udp" THEN Dissociated(t[1]) ELSE UNCHANGED udpVars
    /\ UNCHANGED <<listening, phase>>

-----------------------------------------------------------------------------
(* close() *)

Close ==
    /\ phase = "open" /\ phase' = "cancelled"
    /\ UNCHANGED <<listening, stage, slots, udpVars>>

\* Mutant: a spawned task does not listen to the cancellation.
OnlyConnections(t) == t[2] # "copy"

\* spawn(): every task is raced with the cancellation.
Cancellable(t) == t \in Tasks

Stop(t) == phase # "open" /\ Cancellable(t) /\ End(t)

\* Mutant: close() waits for connections, not for what they spawned.
Slotted == {t \in Alive : t[2] = "conn"}

Tracked == Alive

\* TaskTracker::wait
Waited ==
    /\ phase = "cancelled" /\ ~listening /\ Tracked = {}
    /\ phase' = "waited"
    /\ UNCHANGED <<listening, stage, slots, udpVars>>

\* Engine::close
EngineClosed ==
    /\ phase = "waited" /\ phase' = "closed"
    /\ UNCHANGED <<listening, stage, slots, udpVars>>

Next ==
    \/ StopListening
    \/ \E c \in Conns : \/ Accept(c) \/ StartUdp(c) \/ UdpStep(c) \/ Connect(c)
                        \/ Relay(c) \/ SwitchProtocols(c) \/ Upgrade(c)
    \/ \E t \in Tasks : Move(t) \/ End(t)
    \/ Close \/ Waited \/ EngineClosed

Spec == Init /\ [][Next]_vars

\* A cancelled task is polled and ends, the loop of an association is polled when
\* something is ready, and close() goes on.  No peer has to do anything.
Fairness ==
    /\ \A t \in Tasks : WF_vars(Stop(t))
    /\ WF_vars(phase # "open" /\ StopListening)
    /\ WF_vars(Waited \/ EngineClosed)
    /\ \A c \in Conns : WF_vars(Of(c, "conn") = "udp" /\ Loop(c) /\ UNCHANGED gatewayVars)

FairSpec == Spec /\ Fairness

-----------------------------------------------------------------------------
\* Safety: a slot is free exactly when no connection's task holds it, however the
\* connection ends or hands its stream on (gateway.rs:120-128).
SlotsBalanced ==
    slots + Cardinality({c \in Conns : Of(c, "conn") # "none"}) = Slots

\* Safety: when the engine is closed, no task that could use it is left, neither
\* one that a connection spawned while close() was already waiting
\* (gateway.rs:510-515).
CloseIsQuiet == phase \in {"waited", "closed"} => Alive = {} /\ ~listening

\* Liveness: close() returns though tunnels, relays and associations are open and
\* nobody on the other side does anything.
CloseTerminates == phase = "cancelled" ~> phase = "closed"
=============================================================================
