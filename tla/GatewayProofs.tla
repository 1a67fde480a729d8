---------------------------- MODULE GatewayProofs ----------------------------
(***************************************************************************)
(* Proofs about Gateway and its UDP associations, for every finite set of  *)
(* connections, every number of slots and every size of a flow table.      *)
(***************************************************************************)
EXTENDS Gateway, TLAPS, FiniteSetTheorems

\* The connections whose task holds a slot.
Used == {c \in Conns : Of(c, "conn") # "none"}

GatewayTypes ==
  /\ listening \in BOOLEAN
  /\ stage \in [Tasks -> Stages]
  /\ slots \in Nat
  /\ phase \in {"open", "cancelled", "waited", "closed"}

\* An association that is not under way has left nothing behind, and a loop
\* that has taken a datagram has taken it from the client it answers.
LoopInv ==
  \A c \in Conns :
    /\ Of(c, "conn") # "udp" =>
         Entries(c) = {} /\ hand[c] = NoPacket /\ endpoint[c] = NoClient
    /\ endpoint[c] = NoClient => Entries(c) = {}
    /\ hand[c] # NoPacket => endpoint[c] \in {NoClient, hand[c][1]}

FlowInv ==
  \A c \in Conns :
    /\ IsFiniteSet(Entries(c))
    /\ Cardinality(Entries(c)) <= MaxFlows
    /\ \A t \in Entries(c) : flow[c][t].client = endpoint[c]

GInv == GatewayTypes /\ SlotsBalanced /\ CloseIsQuiet
UInv == GatewayTypes /\ AssociateTypeOK /\ LoopInv /\ FlowInv

-----------------------------------------------------------------------------
(* The tasks and their slots.                                              *)

LEMMA UsedIsFinite ==
  /\ IsFiniteSet(Used)
  /\ Cardinality(Used) \in Nat
BY GatewayAssumption, FS_Subset, FS_CardinalityType DEF Used

LEMMA GInit == Init => GInv
<1> SUFFICES ASSUME Init PROVE GInv
  OBVIOUS
<1>1. Used = {}
  BY DEF Init, Used, Of, Tasks, Roles
<1>2. SlotsBalanced
  BY <1>1, FS_EmptySet, GatewayAssumption DEF SlotsBalanced, Used, Init
<1>3. GatewayTypes /\ CloseIsQuiet
  BY GatewayAssumption DEF Init, GatewayTypes, CloseIsQuiet, Stages
<1>4. QED
  BY <1>2, <1>3 DEF GInv

\* What a step does to the slots follows from what it does to the tasks.
LEMMA SlotTaken ==
  ASSUME GInv, NEW c \in Conns, c \notin Used, Used' = Used \cup {c}, slots' = slots - 1
  PROVE  SlotsBalanced'
<1>1. Cardinality(Used') = Cardinality(Used) + 1
  BY UsedIsFinite, FS_AddElement
<1>2. QED
  BY <1>1, UsedIsFinite DEF GInv, SlotsBalanced, Used, GatewayTypes, GatewayAssumption

LEMMA SlotReturned ==
  ASSUME GInv, NEW c \in Conns, c \in Used, Used' = Used \ {c}, slots' = slots + 1
  PROVE  SlotsBalanced'
<1>1. Cardinality(Used') = Cardinality(Used) - 1
  BY UsedIsFinite, FS_RemoveElement
<1>2. QED
  BY <1>1, UsedIsFinite DEF GInv, SlotsBalanced, Used, GatewayTypes

LEMMA SlotKept ==
  ASSUME GInv, Used' = Used, slots' = slots
  PROVE  SlotsBalanced'
BY DEF GInv, SlotsBalanced, Used

\* A task that ends, and perhaps hands its stream to another task.
LEMMA TaskGone ==
  ASSUME GInv, NEW from \in Tasks, stage[from] # "none", Used' = Used \ {from[1]} \/ from[2] # "conn",
         from[2] # "conn" => Used' = Used, slots' = SlotAfter(from)
  PROVE  SlotsBalanced' /\ slots' \in Nat
<1>1. CASE from[2] = "conn"
  <2>1. from[1] \in Used
    BY <1>1 DEF Tasks, Used, Of
  <2>2. QED
    BY <1>1, <2>1, SlotReturned DEF SlotAfter, Used, GInv, GatewayTypes
<1>2. CASE from[2] # "conn"
  BY <1>2, SlotKept DEF SlotAfter, GInv, GatewayTypes
<1>3. QED
  BY <1>1, <1>2

LEMMA GNext == GInv /\ [Next]_vars => GInv'
<1> SUFFICES ASSUME GInv, [Next]_vars PROVE GInv'
  OBVIOUS
<1> USE DEF GInv
<1>1. CASE StopListening
  BY <1>1, SlotKept DEF StopListening, GatewayTypes, CloseIsQuiet, Used, Of, Alive, Tasks
<1>2. ASSUME NEW c \in Conns, Accept(c) PROVE GInv'
  <2>1. c \notin Used /\ Used' = Used \cup {c}
    BY <1>2 DEF Accept, Used, Of, GatewayTypes, Tasks, Roles
  <2>2. GatewayTypes' /\ CloseIsQuiet'
    BY <1>2 DEF Accept, GatewayTypes, CloseIsQuiet, Stages, Tasks, Roles
  <2>3. QED
    BY <1>2, <2>1, <2>2, SlotTaken DEF Accept
<1>3. ASSUME NEW t \in Tasks, Move(t) PROVE GInv'
  <2>1. PICK s \in Stages : /\ <<stage[t], s>> \in Entry \cup Tunnel \cup Requests
                            /\ stage' = [stage EXCEPT ![t] = s]
    BY <1>3 DEF Move
  <2>2. stage[t] # "none" /\ s # "none"
    BY <2>1 DEF Entry, Tunnel, Requests
  <2>3. Used' = Used
    BY <2>1, <2>2 DEF Used, Of, GatewayTypes, Tasks, Roles
  <2>4. GatewayTypes' /\ CloseIsQuiet'
    BY <1>3, <2>1, <2>2 DEF Move, GatewayTypes, CloseIsQuiet, Alive
  <2>5. QED
    BY <1>3, <2>3, <2>4, SlotKept DEF Move
<1>4. ASSUME NEW c \in Conns, StartUdp(c) PROVE GInv'
  <2>1. Used' = Used
    BY <1>4 DEF StartUdp, Used, Of, GatewayTypes, Tasks, Roles
  <2>2. GatewayTypes' /\ CloseIsQuiet'
    BY <1>4 DEF StartUdp, GatewayTypes, CloseIsQuiet, Alive, Stages, Of, Tasks, Roles
  <2>3. QED
    BY <1>4, <2>1, <2>2, SlotKept DEF StartUdp
<1>5. ASSUME NEW c \in Conns, UdpStep(c) PROVE GInv'
  BY <1>5, SlotKept
     DEF UdpStep, gatewayVars, GatewayTypes, CloseIsQuiet, Used, Of, Alive
<1>6. ASSUME NEW c \in Conns, Connect(c) \/ Relay(c) \/ SwitchProtocols(c) PROVE GInv'
  <2>1. PICK task \in Tasks, s \in {"upgrade", "drive"} :
           task[2] # "conn" /\ stage' = [stage EXCEPT ![task] = s]
    BY <1>6 DEF Connect, Relay, SwitchProtocols, Tasks, Roles
  <2>2. Alive # {}
    BY <1>6 DEF Connect, Relay, SwitchProtocols, Alive, Of, Tasks, Roles
  <2>3. UNCHANGED <<listening, slots, phase>>
    BY <1>6 DEF Connect, Relay, SwitchProtocols
  <2>4. Used' = Used
    BY <2>1 DEF Used, Of, GatewayTypes, Tasks, Roles
  <2>5. GatewayTypes' /\ CloseIsQuiet'
    BY <2>1, <2>2, <2>3 DEF GatewayTypes, CloseIsQuiet, Stages
  <2>6. QED
    BY <2>3, <2>4, <2>5, SlotKept
<1>7. ASSUME NEW c \in Conns, Upgrade(c) PROVE GInv'
  <2>1. PICK from \in Tasks, to \in Tasks :
           Upgraded(from, to) /\ to[2] # "conn" /\ from # to
    BY <1>7 DEF Upgrade, Tasks, Roles
  <2>2. PICK s \in {"inspect", "hello", "relay"} :
           stage' = [stage EXCEPT ![from] = "none", ![to] = s]
    BY <2>1 DEF Upgraded
  <2>3. stage[from] # "none"
    BY <2>1 DEF Upgraded
  <2>4. /\ from[2] = "conn" => Used' = Used \ {from[1]}
        /\ from[2] # "conn" => Used' = Used
    BY <2>1, <2>2 DEF Used, Of, GatewayTypes, Tasks, Roles
  <2>5. SlotsBalanced' /\ slots' \in Nat
    BY <2>1, <2>3, <2>4, TaskGone DEF Upgraded
  <2>6. GatewayTypes' /\ CloseIsQuiet'
    BY <2>1, <2>2, <2>3, <2>5 DEF Upgraded, GatewayTypes, CloseIsQuiet, Stages, Alive
  <2>7. QED
    BY <2>5, <2>6
<1>8. ASSUME NEW t \in Tasks, End(t) PROVE GInv'
  <2>1. stage' = [stage EXCEPT ![t] = "none"] /\ stage[t] # "none"
    BY <1>8 DEF End, Alive
  <2>2. /\ t[2] = "conn" => Used' = Used \ {t[1]}
        /\ t[2] # "conn" => Used' = Used
    BY <2>1 DEF Used, Of, GatewayTypes, Tasks, Roles
  <2>3. SlotsBalanced' /\ slots' \in Nat
    BY <1>8, <2>1, <2>2, TaskGone DEF End
  <2>4. GatewayTypes' /\ CloseIsQuiet'
    BY <1>8, <2>1, <2>3 DEF End, GatewayTypes, CloseIsQuiet, Stages, Alive
  <2>5. QED
    BY <2>3, <2>4
<1>9. CASE Close \/ Waited \/ EngineClosed
  BY <1>9, SlotKept
     DEF Close, Waited, EngineClosed, Tracked, GatewayTypes, CloseIsQuiet, Used, Of, Alive
<1>10. CASE UNCHANGED vars
  BY <1>10, SlotKept DEF vars, gatewayVars, GatewayTypes, CloseIsQuiet, Used, Of, Alive
<1>11. QED
  BY <1>1, <1>2, <1>3, <1>4, <1>5, <1>6, <1>7, <1>8, <1>9, <1>10 DEF Next

-----------------------------------------------------------------------------
(* The associations.                                                       *)

LEMMA ConstantsApart ==
  /\ NoClient \notin Clients
  /\ NoPacket \notin Clients \X Targets
  /\ MaxFlows \in Nat /\ MaxFlows > 0 /\ Room \in Nat /\ Room > 0
BY AssociateAssumption

LEMMA NoFlowIsFlow == NoFlow \in Flow /\ NoFlow.state = "none"
BY ConstantsApart DEF NoFlow, Flow

LEMMA UInit == Init => UInv
<1> SUFFICES ASSUME Init PROVE UInv
  OBVIOUS
<1>1. \A c \in Conns : Entries(c) = {}
  BY DEF Init, AssociateInit, Entries, Live, NoFlow
<1>2. LoopInv /\ FlowInv
  BY <1>1, FS_EmptySet, ConstantsApart DEF Init, AssociateInit, LoopInv, FlowInv
<1>3. AssociateTypeOK
  BY NoFlowIsFlow DEF Init, AssociateInit, AssociateTypeOK
<1>4. QED
  BY <1>2, <1>3, GInit DEF UInv, GInv

\* One flow changes: the others, and the other associations, stay as they are.
LEMMA FlowSet ==
  ASSUME AssociateTypeOK, NEW c \in Conns, NEW t \in Targets, NEW f \in Flow,
         SetFlow(c, t, f)
  PROVE  /\ flow' \in [Conns -> [Targets -> Flow]]
         /\ \A d \in Conns, u \in Targets :
              flow'[d][u] = IF d = c /\ u = t THEN f ELSE flow[d][u]
BY DEF AssociateTypeOK, SetFlow

LEMMA EntriesSet ==
  ASSUME AssociateTypeOK, NEW c \in Conns, NEW t \in Targets, NEW f \in Flow,
         SetFlow(c, t, f)
  PROVE  /\ \A d \in Conns : d # c => Entries(d)' = Entries(d)
         /\ f.state \in Live \cup {"ended"} => Entries(c)' = Entries(c) \cup {t}
         /\ f.state \notin Live \cup {"ended"} => Entries(c)' = Entries(c) \ {t}
BY FlowSet DEF Entries

\* A flow that keeps its client, or that goes, keeps the invariant.
LEMMA FlowKept ==
  ASSUME UInv, NEW c \in Conns, NEW t \in Targets, NEW f \in Flow, SetFlow(c, t, f),
         \/ f.state \notin Live \cup {"ended"}
         \/ t \in Entries(c) /\ f.client = flow[c][t].client,
         UNCHANGED <<endpoint, hand>>, UNCHANGED stage
  PROVE  AssociateTypeOK' /\ LoopInv' /\ FlowInv'
<1> USE DEF UInv
<1>1. AssociateTypeOK'
  BY FlowSet DEF AssociateTypeOK
<1>2. \A d \in Conns : Entries(d)' \in SUBSET Entries(d)
  BY EntriesSet
<1>3. LoopInv'
  BY <1>2 DEF LoopInv, Of
<1>4. FlowInv'
  <2> SUFFICES ASSUME NEW d \in Conns
               PROVE  /\ IsFiniteSet(Entries(d)')
                      /\ Cardinality(Entries(d)') <= MaxFlows
                      /\ \A u \in Entries(d)' : flow'[d][u].client = endpoint'[d]
    BY DEF FlowInv
  <2>1. IsFiniteSet(Entries(d)') /\ Cardinality(Entries(d)') <= MaxFlows
    BY <1>2, FS_Subset, FS_CardinalityType, ConstantsApart DEF FlowInv
  <2>2. ASSUME NEW u \in Entries(d)' PROVE flow'[d][u].client = endpoint'[d]
    <3>1. u \in Targets /\ u \in Entries(d)
      BY <1>2, <2>2 DEF Entries
    <3>2. flow[d][u].client = endpoint[d]
      BY <3>1 DEF FlowInv
    <3>3. CASE d = c /\ u = t
      <4>1. f.client = flow[c][t].client
        BY <2>2, <3>3, EntriesSet
      <4>2. QED
        BY <3>2, <3>3, <4>1, FlowSet
    <3>4. CASE ~(d = c /\ u = t)
      BY <3>1, <3>2, <3>4, FlowSet
    <3>5. QED
      BY <3>3, <3>4
  <2>3. QED
    BY <2>1, <2>2
<1>5. QED
  BY <1>1, <1>3, <1>4

LEMMA ULoop ==
  ASSUME UInv, NEW c \in Conns, Of(c, "conn") = "udp", Loop(c), UNCHANGED gatewayVars
  PROVE  AssociateTypeOK' /\ LoopInv' /\ FlowInv'
<1> USE DEF UInv
<1> stage' = stage
  BY DEF gatewayVars
<1>1. CASE Take(c)
  <2>1. \A d \in Conns : Entries(d)' = Entries(d)
    BY <1>1 DEF Take, Entries
  <2>2. PICK client \in Clients, t \in Targets :
           /\ endpoint[c] \in {NoClient, client}
           /\ hand' = [hand EXCEPT ![c] = <<client, t>>]
    BY <1>1 DEF Take
  <2>3. <<client, t>> \in Clients \X Targets /\ <<client, t>>[1] = client
    OBVIOUS
  <2>4. AssociateTypeOK'
    BY <1>1, <2>2, <2>3 DEF Take, AssociateTypeOK
  <2>5. LoopInv'
    BY <1>1, <2>1, <2>2, <2>3 DEF Take, LoopInv, Of, AssociateTypeOK
  <2>6. FlowInv'
    BY <1>1, <2>1 DEF Take, FlowInv
  <2>7. QED
    BY <2>4, <2>5, <2>6
<1>2. CASE Dispatch(c)
  <2> DEFINE client == hand[c][1]
             t == hand[c][2]
             f == flow[c][t]
  <2>1. client \in Clients /\ t \in Targets /\ f \in Flow
    BY <1>2, ConstantsApart DEF Dispatch, AssociateTypeOK
  <2>2. /\ endpoint' = [endpoint EXCEPT ![c] = client]
        /\ hand' = [hand EXCEPT ![c] = NoPacket]
    BY <1>2 DEF Dispatch, Latched
  <2>3. endpoint[c] \in {NoClient, client}
    BY <1>2 DEF Dispatch, LoopInv
  <2>4. \A u \in Entries(c) : flow[c][u].client = client
    BY <2>3 DEF LoopInv, FlowInv
  <2>5. \/ UNCHANGED flow
        \/ \E g \in Flow :
             /\ SetFlow(c, t, g) /\ g.client = client /\ g.state \in Live
             /\ t \in Entries(c) \/ Cardinality(Entries(c)) < MaxFlows
    <3>1. CASE t \in Entries(c) /\ f.state \in Live /\ f.backlog < Room
      <4>1. [state |-> f.state, backlog |-> f.backlog + 1, client |-> f.client] \in Flow
        BY <2>1, <3>1, ConstantsApart DEF Flow
      <4>2. f.client = client
        BY <2>4, <3>1
      <4>3. QED
        BY <1>2, <3>1, <4>1, <4>2 DEF Dispatch
    <3>2. CASE t \notin Entries(c) /\ f.state = "none" /\ Cardinality(Entries(c)) < MaxFlows
      <4>1. [state |-> "dialing", backlog |-> 1, client |-> client] \in Flow
        BY <2>1, ConstantsApart DEF Flow, Live
      <4>2. QED
        BY <1>2, <3>2, <4>1 DEF Dispatch, Live
    <3>3. QED
      BY <1>2, <3>1, <3>2 DEF Dispatch
  <2>6. CASE UNCHANGED flow
    <3>1. \A d \in Conns : Entries(d)' = Entries(d)
      BY <2>6 DEF Entries
    <3>2. AssociateTypeOK'
      BY <2>1, <2>2, <2>6 DEF AssociateTypeOK
    <3>3. LoopInv'
      BY <2>1, <2>2, <3>1, ConstantsApart DEF LoopInv, Of, AssociateTypeOK
    <3>4. FlowInv'
      BY <2>2, <2>4, <2>6, <3>1 DEF FlowInv, AssociateTypeOK
    <3>5. QED
      BY <3>2, <3>3, <3>4
  <2>7. ASSUME NEW g \in Flow, SetFlow(c, t, g), g.client = client, g.state \in Live,
               t \in Entries(c) \/ Cardinality(Entries(c)) < MaxFlows
        PROVE  AssociateTypeOK' /\ LoopInv' /\ FlowInv'
    <3>1. /\ \A d \in Conns : d # c => Entries(d)' = Entries(d)
          /\ Entries(c)' = Entries(c) \cup {t}
      BY <2>1, <2>7, EntriesSet
    <3>2. AssociateTypeOK'
      BY <2>1, <2>2, <2>7, FlowSet DEF AssociateTypeOK
    <3>3. LoopInv'
      BY <2>1, <2>2, <3>1, ConstantsApart DEF LoopInv, Of, AssociateTypeOK
    <3>4. IsFiniteSet(Entries(c)') /\ Cardinality(Entries(c)') <= MaxFlows
      <4>1. IsFiniteSet(Entries(c)) /\ Cardinality(Entries(c)) <= MaxFlows
        BY DEF FlowInv
      <4>2. Cardinality(Entries(c)) \in Nat
        BY <4>1, FS_CardinalityType
      <4>3. /\ IsFiniteSet(Entries(c) \cup {t})
            /\ Cardinality(Entries(c) \cup {t}) =
                 IF t \in Entries(c) THEN Cardinality(Entries(c))
                 ELSE Cardinality(Entries(c)) + 1
        BY <4>1, FS_AddElement
      <4>4. Cardinality(Entries(c) \cup {t}) <= MaxFlows
        BY <2>7, <4>1, <4>2, <4>3, ConstantsApart
      <4>5. QED
        BY <3>1, <4>3, <4>4
    <3>5. ASSUME NEW d \in Conns, NEW u \in Entries(d)'
          PROVE  flow'[d][u].client = endpoint'[d]
      <4>1. u \in Targets
        BY <3>5 DEF Entries
      <4>2. CASE d # c
        <5>1. u \in Entries(d) /\ flow'[d][u] = flow[d][u] /\ endpoint'[d] = endpoint[d]
          BY <2>1, <2>2, <2>7, <3>1, <3>5, <4>1, <4>2, FlowSet DEF AssociateTypeOK
        <5>2. QED
          BY <5>1 DEF FlowInv
      <4>3. CASE d = c /\ u = t
        BY <2>1, <2>2, <2>7, <4>3, FlowSet DEF AssociateTypeOK
      <4>4. CASE d = c /\ u # t
        <5>1. u \in Entries(c) /\ flow'[c][u] = flow[c][u] /\ endpoint'[c] = client
          BY <2>1, <2>2, <2>7, <3>1, <3>5, <4>1, <4>4, FlowSet DEF AssociateTypeOK
        <5>2. QED
          BY <2>4, <4>4, <5>1
      <4>5. QED
        BY <4>2, <4>3, <4>4
    <3>6. FlowInv'
      BY <3>1, <3>4, <3>5 DEF FlowInv
    <3>7. QED
      BY <3>2, <3>3, <3>6
  <2>8. QED
    BY <2>5, <2>6, <2>7
<1>3. CASE Reap(c)
  <2>1. PICK t \in Ended(c) : SetFlow(c, t, NoFlow)
    BY <1>3 DEF Reap
  <2>2. t \in Targets /\ UNCHANGED <<endpoint, hand>>
    BY <1>3 DEF Reap, Ended
  <2>3. QED
    BY <2>1, <2>2, FlowKept, NoFlowIsFlow DEF Live
<1>4. QED
  BY <1>1, <1>2, <1>3 DEF Loop

LEMMA UFlow ==
  ASSUME UInv, NEW c \in Conns, FlowStep(c), UNCHANGED gatewayVars
  PROVE  AssociateTypeOK' /\ LoopInv' /\ FlowInv'
<1> USE DEF UInv
<1> stage' = stage
  BY DEF gatewayVars
<1> PICK t \in Targets : Dial(c, t) \/ SendOn(c, t) \/ EndFlow(c, t) \/ DropFlow(c, t)
  BY DEF FlowStep
<1> DEFINE f == flow[c][t]
<1>1. f \in Flow
  BY DEF AssociateTypeOK
<1>2. CASE DropFlow(c, t)
  BY <1>2, FlowKept, NoFlowIsFlow DEF DropFlow, Live
<1>3. CASE Dial(c, t) \/ SendOn(c, t) \/ EndFlow(c, t)
  <2>1. PICK g : /\ SetFlow(c, t, g) /\ g \in Flow /\ g.client = f.client
                 /\ f.state \in Live
    <3>1. CASE Dial(c, t)
      BY <1>1, <3>1 DEF Dial, Flow, Live
    <3>2. CASE SendOn(c, t)
      BY <1>1, <3>2, ConstantsApart DEF SendOn, Flow, Live
    <3>3. CASE EndFlow(c, t)
      BY <1>1, <3>3, ConstantsApart DEF EndFlow, Stopped, Flow, Live
    <3>4. QED
      BY <1>3, <3>1, <3>2, <3>3
  <2>2. t \in Entries(c) /\ UNCHANGED <<endpoint, hand>>
    BY <1>3, <2>1 DEF Entries, Dial, SendOn, EndFlow
  <2>3. QED
    BY <2>1, <2>2, FlowKept
<1>4. QED
  BY <1>2, <1>3

LEMMA UGone ==
  ASSUME UInv, NEW c \in Conns, Dissociated(c),
         \A d \in Conns : d # c => Of(d, "conn")' = Of(d, "conn")
  PROVE  AssociateTypeOK' /\ LoopInv' /\ FlowInv'
<1> USE DEF UInv
<1>1. AssociateTypeOK'
  BY NoFlowIsFlow, ConstantsApart DEF AssociateTypeOK, Dissociated, Stopped, Flow
<1>2. Entries(c)' = {} /\ endpoint'[c] = NoClient /\ hand'[c] = NoPacket
  BY NoFlowIsFlow DEF AssociateTypeOK, Dissociated, Stopped, Entries, Live
<1>3. \A d \in Conns : d # c => /\ Entries(d)' = Entries(d) /\ flow'[d] = flow[d]
                               /\ endpoint'[d] = endpoint[d] /\ hand'[d] = hand[d]
  BY DEF AssociateTypeOK, Dissociated, Entries
<1>4. LoopInv'
  BY <1>2, <1>3, ConstantsApart DEF LoopInv
<1>5. FlowInv'
  <2> SUFFICES ASSUME NEW d \in Conns
               PROVE  /\ IsFiniteSet(Entries(d)')
                      /\ Cardinality(Entries(d)') <= MaxFlows
                      /\ \A u \in Entries(d)' : flow'[d][u].client = endpoint'[d]
    BY DEF FlowInv
  <2>1. CASE d = c
    BY <1>2, <2>1, FS_EmptySet, ConstantsApart
  <2>2. CASE d # c
    BY <1>3, <2>2 DEF FlowInv
  <2>3. QED
    BY <2>1, <2>2
<1>6. QED
  BY <1>1, <1>4, <1>5

\* A step of the gateway that leaves the associations alone.
LEMMA UAside ==
  ASSUME UInv, UNCHANGED udpVars,
         \A c \in Conns : Of(c, "conn") = "udp" => Of(c, "conn")' = "udp"
  PROVE  AssociateTypeOK' /\ LoopInv' /\ FlowInv'
<1> USE DEF UInv
<1>1. \A c \in Conns : Entries(c)' = Entries(c)
  BY DEF udpVars, Entries
<1>2. QED
  BY <1>1 DEF udpVars, AssociateTypeOK, LoopInv, FlowInv

LEMMA UNext == GInv /\ UInv /\ [Next]_vars => UInv'
<1> SUFFICES ASSUME GInv, UInv, [Next]_vars PROVE AssociateTypeOK' /\ LoopInv' /\ FlowInv'
  BY GNext DEF UInv, GInv
<1>1. CASE StopListening \/ Close \/ Waited \/ EngineClosed \/ UNCHANGED vars
  BY <1>1, UAside DEF StopListening, Close, Waited, EngineClosed, vars, gatewayVars, Of
<1>2. ASSUME NEW c \in Conns,
             Accept(c) \/ Connect(c) \/ Relay(c) \/ SwitchProtocols(c) \/ Upgrade(c)
      PROVE  AssociateTypeOK' /\ LoopInv' /\ FlowInv'
  <2>1. UNCHANGED udpVars
    BY <1>2 DEF Accept, Connect, Relay, SwitchProtocols, Upgrade, Upgraded
  <2>2. \A d \in Conns : Of(d, "conn") = "udp" => Of(d, "conn")' = "udp"
    <3>1. CASE Accept(c)
      BY <3>1 DEF Accept, Of, UInv, GatewayTypes, Tasks, Roles
    <3>2. CASE Connect(c) \/ Relay(c) \/ SwitchProtocols(c)
      BY <3>2 DEF Connect, Relay, SwitchProtocols, Of, UInv, GatewayTypes, Tasks, Roles
    <3>3. CASE Upgrade(c)
      BY <3>3 DEF Upgrade, Upgraded, Of, UInv, GatewayTypes, Tasks, Roles
    <3>4. QED
      BY <1>2, <3>1, <3>2, <3>3
  <2>3. QED
    BY <2>1, <2>2, UAside
<1>3. ASSUME NEW t \in Tasks, Move(t) PROVE AssociateTypeOK' /\ LoopInv' /\ FlowInv'
  <2>1. stage[t] # "udp" /\ UNCHANGED udpVars
    BY <1>3 DEF Move, Entry, Tunnel, Requests
  <2>2. \A d \in Conns : Of(d, "conn") = "udp" => Of(d, "conn")' = "udp"
    BY <1>3, <2>1 DEF Move, Of, UInv, GatewayTypes
  <2>3. QED
    BY <2>1, <2>2, UAside
<1>4. ASSUME NEW c \in Conns, StartUdp(c) PROVE AssociateTypeOK' /\ LoopInv' /\ FlowInv'
  <2>1. PICK e \in Clients \cup {NoClient} : endpoint' = [endpoint EXCEPT ![c] = e]
    BY <1>4 DEF StartUdp, Associated
  <2>2. UNCHANGED <<hand, flow>>
    BY <1>4 DEF StartUdp, Associated
  <2>3. \A d \in Conns : Entries(d)' = Entries(d)
    BY <2>2 DEF Entries
  <2>4. Entries(c) = {} /\ hand[c] = NoPacket
    BY <1>4 DEF StartUdp, UInv, LoopInv
  <2>5. \A d \in Conns : d # c => Of(d, "conn")' = Of(d, "conn")
    BY <1>4 DEF StartUdp, Of, UInv, GatewayTypes, Tasks, Roles
  <2>6. Of(c, "conn")' = "udp"
    BY <1>4 DEF StartUdp, Of, UInv, GatewayTypes, Tasks, Roles
  <2>7. AssociateTypeOK'
    BY <2>1, <2>2 DEF UInv, AssociateTypeOK
  <2>8. LoopInv'
    BY <2>1, <2>2, <2>3, <2>4, <2>5, <2>6 DEF UInv, LoopInv, AssociateTypeOK
  <2>9. FlowInv'
    BY <2>1, <2>2, <2>3, <2>4 DEF UInv, FlowInv, AssociateTypeOK
  <2>10. QED
    BY <2>7, <2>8, <2>9
<1>5. ASSUME NEW c \in Conns, UdpStep(c) PROVE AssociateTypeOK' /\ LoopInv' /\ FlowInv'
  BY <1>5, ULoop, UFlow DEF UdpStep
<1>6. ASSUME NEW t \in Tasks, End(t) PROVE AssociateTypeOK' /\ LoopInv' /\ FlowInv'
  <2>1. stage' = [stage EXCEPT ![t] = "none"] /\ t[1] \in Conns
    BY <1>6 DEF End, Tasks
  <2>2. CASE stage[t] = "udp"
    <3>1. Dissociated(t[1])
      BY <1>6, <2>2 DEF End
    <3>2. \A d \in Conns : d # t[1] => Of(d, "conn")' = Of(d, "conn")
      BY <2>1 DEF Of, UInv, GatewayTypes, Tasks, Roles
    <3>3. QED
      BY <2>1, <3>1, <3>2, UGone
  <2>3. CASE stage[t] # "udp"
    <3>1. UNCHANGED udpVars
      BY <1>6, <2>3 DEF End
    <3>2. \A d \in Conns : Of(d, "conn") = "udp" => Of(d, "conn")' = "udp"
      BY <2>1, <2>3 DEF Of, UInv, GatewayTypes, Tasks, Roles
    <3>3. QED
      BY <3>1, <3>2, UAside
  <2>4. QED
    BY <2>2, <2>3
<1>7. QED
  BY <1>1, <1>2, <1>3, <1>4, <1>5, <1>6 DEF Next

-----------------------------------------------------------------------------
(* The theorems.                                                           *)

LEMMA Inductive == Spec => [](GInv /\ UInv)
<1>1. Init => GInv /\ UInv
  BY GInit, UInit
<1>2. (GInv /\ UInv) /\ [Next]_vars => (GInv /\ UInv)'
  BY GNext, UNext
<1>3. QED
  BY <1>1, <1>2, PTL DEF Spec

\* Every variable of the gateway and of its associations keeps its type; that
\* there are never more free slots than slots follows from their balance.
THEOREM TypeCorrect == Spec => []TypeOK
<1>1. GInv /\ UInv => TypeOK
  <2> SUFFICES ASSUME GInv, UInv PROVE TypeOK
    OBVIOUS
  <2>1. slots \in 0..Slots
    BY UsedIsFinite, GatewayAssumption DEF GInv, GatewayTypes, SlotsBalanced, Used
  <2>2. QED
    BY <2>1 DEF GInv, UInv, GatewayTypes, TypeOK
<1>2. QED
  BY <1>1, Inductive, PTL

\* However connections end or hand their streams on, a slot is free exactly when
\* no connection's task holds it (gateway.rs:120), for any number of them.
THEOREM SlotsAreBalanced == Spec => []SlotsBalanced
<1>1. GInv /\ UInv => SlotsBalanced
  BY DEF GInv
<1>2. QED
  BY <1>1, Inductive, PTL

\* close() leaves nobody behind who could use the engine (gateway.rs:510), also
\* when connections spawn tasks while it waits.
THEOREM ClosingIsQuiet == Spec => []CloseIsQuiet
<1>1. GInv /\ UInv => CloseIsQuiet
  BY DEF GInv
<1>2. QED
  BY <1>1, Inductive, PTL

\* Every flow of an association answers the one client it is latched to, and
\* the flow table keeps its size (udp.rs:432-443).
THEOREM AnswersOnlyOwner == Spec => []AnswersOwner
<1>1. GInv /\ UInv => AnswersOwner
  BY DEF UInv, FlowInv, AnswersOwner
<1>2. QED
  BY <1>1, Inductive, PTL
=============================================================================
