------------------------------ MODULE Associate ------------------------------
(***************************************************************************)
(* SOCKS5 UDP associations: associate() of core/src/udp.rs.                *)
(*                                                                         *)
(* One loop per association takes the client's datagrams and hands each to *)
(* the flow of its target, a task of its own that dials, sends, and relays *)
(* the answers.  The loop looks, in this order, at the control connection, *)
(* at flows that ended, and at the next datagram.  A flow ends on its own, *)
(* at any time: also between the loop's look at the ended flows and the    *)
(* hand-over of the datagram the loop has just taken.                      *)
(***************************************************************************)
EXTENDS Naturals, FiniteSets

CONSTANTS Conns,    \* connections of the gateway
          Targets,  \* destinations
          Clients,  \* UDP endpoints on the address of the TCP peer
          MaxFlows, \* entries of the flow table (64)
          Room,     \* datagrams that wait for a flow (16)
          NoClient, NoPacket

ASSUME AssociateAssumption ==
    /\ MaxFlows \in Nat \ {0} /\ Room \in Nat \ {0}
    /\ NoClient \notin Clients /\ NoPacket \notin Clients \X Targets

VARIABLES endpoint, \* the client's UDP endpoint, once it is known
          hand,     \* the datagram the loop has taken
          flow      \* [Conns -> [Targets -> Flow]]

udpVars == <<endpoint, hand, flow>>

Live == {"dialing", "open"}
Flow == [state: Live \cup {"none", "ended", "aborted"},
         backlog: 0..Room,               \* datagrams in its channel
         client: Clients \cup {NoClient}] \* whom it answers

NoFlow == [state |-> "none", backlog |-> 0, client |-> NoClient]
Stopped(f, how) == [state |-> how, backlog |-> 0, client |-> f.client]

\* The flow table; a flow that ended has its entry until it is reaped.
Entries(c) == {t \in Targets : flow[c][t].state \in Live \cup {"ended"}}
Ended(c) == {t \in Targets : flow[c][t].state = "ended"}

AssociateInit ==
    /\ endpoint = [c \in Conns |-> NoClient]
    /\ hand = [c \in Conns |-> NoPacket]
    /\ flow = [c \in Conns |-> [t \in Targets |-> NoFlow]]

SetFlow(c, t, f) == flow' = [flow EXCEPT ![c] = [@ EXCEPT ![t] = f]]

\* The request is accepted, with the port the client announced or without one.
Associated(c) ==
    /\ \E e \in Clients \cup {NoClient} : endpoint' = [endpoint EXCEPT ![c] = e]
    /\ UNCHANGED <<hand, flow>>

\* The association ends: its table goes, and the tasks of the JoinSet are
\* aborted, each at its next poll.
Dissociated(c) ==
    /\ endpoint' = [endpoint EXCEPT ![c] = NoClient]
    /\ hand' = [hand EXCEPT ![c] = NoPacket]
    /\ flow' = [flow EXCEPT ![c] =
         [t \in Targets |-> IF @[t].state \in Live THEN Stopped(@[t], "aborted")
                            ELSE IF @[t].state = "ended" THEN NoFlow ELSE @[t]]]

-----------------------------------------------------------------------------
(* The loop. *)

\* Mutant: datagrams are looked at before the flows that ended.
FirstServed(c) == TRUE

\* biased: nothing is received while an ended flow waits to be reaped.
Biased(c) == Ended(c) = {}

\* A datagram of the peer, from the endpoint that is known, to a valid target;
\* any other is ignored.
Take(c) ==
    /\ hand[c] = NoPacket /\ Biased(c)
    /\ \E client \in Clients, t \in Targets :
         /\ endpoint[c] \in {NoClient, client}
         /\ hand' = [hand EXCEPT ![c] = <<client, t>>]
    /\ UNCHANGED <<endpoint, flow>>

\* Mutant: whoever sends is answered.
Unlatched(c, client) == endpoint

Latched(c, client) == [endpoint EXCEPT ![c] = client]

\* To a flow with an entry the datagram is handed if there is room and the flow
\* still runs; without an entry a flow is started if the table has room.
Dispatch(c) ==
    /\ hand[c] # NoPacket
    /\ LET client == hand[c][1]
           t == hand[c][2]
           f == flow[c][t]
       IN /\ endpoint' = Latched(c, client)
          /\ IF t \in Entries(c)
             THEN IF f.state \in Live /\ f.backlog < Room
                  THEN SetFlow(c, t, [state |-> f.state, backlog |-> f.backlog + 1,
                                      client |-> f.client])
                  ELSE UNCHANGED flow
             ELSE IF f.state = "none" /\ Cardinality(Entries(c)) < MaxFlows
                  THEN SetFlow(c, t, [state |-> "dialing", backlog |-> 1,
                                      client |-> client])
                  ELSE UNCHANGED flow
    /\ hand' = [hand EXCEPT ![c] = NoPacket]

Reap(c) ==
    /\ hand[c] = NoPacket
    /\ \E t \in Ended(c) : SetFlow(c, t, NoFlow)
    /\ UNCHANGED <<endpoint, hand>>

Loop(c) == Take(c) \/ Dispatch(c) \/ Reap(c)

-----------------------------------------------------------------------------
(* A flow. *)

\* check_loop and Route::open, within their timeouts.
Dial(c, t) ==
    /\ flow[c][t].state = "dialing"
    /\ SetFlow(c, t, [state |-> "open", backlog |-> flow[c][t].backlog,
                      client |-> flow[c][t].client])
    /\ UNCHANGED <<endpoint, hand>>

\* A datagram leaves for its target.
SendOn(c, t) ==
    /\ flow[c][t].state = "open" /\ flow[c][t].backlog > 0
    /\ SetFlow(c, t, [state |-> "open", backlog |-> flow[c][t].backlog - 1,
                      client |-> flow[c][t].client])
    /\ UNCHANGED <<endpoint, hand>>

\* Dialling, sending or receiving failed, the upstream's control connection was
\* closed, or nothing moved for 60 seconds; what waits in the channel is lost.
EndFlow(c, t) ==
    /\ flow[c][t].state \in Live
    /\ SetFlow(c, t, Stopped(flow[c][t], "ended"))
    /\ UNCHANGED <<endpoint, hand>>

\* An aborted task is dropped.
DropFlow(c, t) ==
    /\ flow[c][t].state = "aborted"
    /\ SetFlow(c, t, NoFlow)
    /\ UNCHANGED <<endpoint, hand>>

FlowStep(c) ==
    \E t \in Targets : Dial(c, t) \/ SendOn(c, t) \/ EndFlow(c, t) \/ DropFlow(c, t)

-----------------------------------------------------------------------------
AssociateTypeOK ==
    /\ endpoint \in [Conns -> Clients \cup {NoClient}]
    /\ hand \in [Conns -> (Clients \X Targets) \cup {NoPacket}]
    /\ flow \in [Conns -> [Targets -> Flow]]

\* Safety: whatever reaches the relay socket, every flow of an association
\* answers the one client endpoint that the association is latched to, and the
\* table never has more than its 64 flows (udp.rs:432-443).
AnswersOwner ==
    \A c \in Conns :
        /\ Cardinality(Entries(c)) <= MaxFlows
        /\ \A t \in Entries(c) : flow[c][t].client = endpoint[c]

\* Liveness: a flow that ended gives its entry back, also to a client that never
\* stops sending, so that its target can be reached again (udp.rs:428, "biased").
EndedFlowGoes ==
    \A c \in Conns, t \in Targets :
        flow[c][t].state = "ended" ~> flow[c][t].state # "ended"
=============================================================================
