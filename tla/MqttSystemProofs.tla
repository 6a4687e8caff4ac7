--------------------------- MODULE MqttSystemProofs ---------------------------
(***************************************************************************)
(* Proofs about MqttSystem, for every set of messages, ring capacity and   *)
(* bound: the gateway and the node in it are devices, so that what is      *)
(* proved of a device holds of both, and the node obeys a restart command  *)
(* at most once for each time the broker sends it.                         *)
(***************************************************************************)
EXTENDS MqttSystem, MqttDeviceProofs

NodeProofs == INSTANCE MqttDeviceProofs WITH
    phase <- nodePhase, ringState <- nodeRingState, ring <- nodeRing,
    handler <- nodeHandler, item <- nodeItem, pc <- nodePc, obj <- nodeObj,
    status <- nodeStatus, link <- nodeLink, net <- nodeNet, outbox <- nodeOutbox,
    HasConsumer <- NodeHasConsumer, ParsesAction <- TRUE, Executes <- TRUE,
    Reports <- NodeReports, OutBound <- NodeOutBound

-----------------------------------------------------------------------------
(* The node's definitions, as MqttSystem and as NodeProofs name them       *)

LEMMA NodeAssumption == NodeProofs!DeviceAssumption
  BY DeviceAssumption, SystemAssumption
     DEF NodeProofs!DeviceAssumption, NodeProofs!Kinds, Kinds, NodeProofs!Status, Status

LEMMA NodeInit == Node!Init <=> NodeProofs!Init
  BY DEF Node!Init, NodeProofs!Init

LEMMA NodeActions ==
    /\ Node!ClientStart <=> NodeProofs!ClientStart
    /\ Node!CreateTask <=> NodeProofs!CreateTask
    /\ Node!MqttTask <=> NodeProofs!MqttTask
    /\ Node!ClientTask <=> NodeProofs!ClientTask
    /\ Node!Execute <=> NodeProofs!Execute
    /\ Node!MemoryFails <=> NodeProofs!MemoryFails
    /\ Node!LinkLost <=> NodeProofs!LinkLost
    /\ \A m : Node!Deliver(m) <=> NodeProofs!Deliver(m)
<1>1. Node!ClientStart <=> NodeProofs!ClientStart
  BY DEF Node!ClientStart, NodeProofs!ClientStart, Node!linkVars,
         NodeProofs!linkVars, Node!taskVars, NodeProofs!taskVars
<1>2. Node!CreateTask <=> NodeProofs!CreateTask
  BY DEF Node!CreateTask, NodeProofs!CreateTask, Node!linkVars,
         NodeProofs!linkVars, Node!taskVars, NodeProofs!taskVars
<1>3. Node!LinkLost <=> NodeProofs!LinkLost
  BY DEF Node!LinkLost, NodeProofs!LinkLost, Node!taskVars,
         NodeProofs!taskVars
<1>4. Node!Connected <=> NodeProofs!Connected
  BY DEF Node!Connected, NodeProofs!Connected, Node!MqttTaskFree,
         NodeProofs!MqttTaskFree, Node!taskVars, NodeProofs!taskVars
<1>5. Node!Disconnected <=> NodeProofs!Disconnected
  BY DEF Node!Disconnected, NodeProofs!Disconnected, Node!MqttTaskFree,
         NodeProofs!MqttTaskFree, Node!taskVars, NodeProofs!taskVars
<1>6. Node!OutboxDone <=> NodeProofs!OutboxDone
  BY DEF Node!OutboxDone, NodeProofs!OutboxDone, Node!MqttTaskFree,
         NodeProofs!MqttTaskFree, Node!taskVars, NodeProofs!taskVars
<1>7. Node!DataEvent <=> NodeProofs!DataEvent
  BY DEF Node!DataEvent, NodeProofs!DataEvent, Node!MqttTaskFree,
         NodeProofs!MqttTaskFree, Node!taskVars, NodeProofs!taskVars,
         Node!Reset, NodeProofs!Reset
<1>8. Node!Enqueue <=> NodeProofs!Enqueue
  BY DEF Node!Enqueue, NodeProofs!Enqueue, Node!Occupied, NodeProofs!Occupied,
         Node!linkVars, NodeProofs!linkVars, Node!taskVars,
         NodeProofs!taskVars
<1>9. Node!Receive <=> NodeProofs!Receive
  BY DEF Node!Receive, NodeProofs!Receive, Node!Reset, NodeProofs!Reset,
         Node!Garbage, NodeProofs!Garbage, Node!linkVars, NodeProofs!linkVars
<1>10. Node!Parse <=> NodeProofs!Parse
  BY DEF Node!Parse, NodeProofs!Parse, Node!Reset, NodeProofs!Reset,
         Node!TerminatorDamages, NodeProofs!TerminatorDamages,
         Node!RingAfter, NodeProofs!RingAfter, Node!Content,
         NodeProofs!Content, Node!Commands, NodeProofs!Commands,
         Node!linkVars, NodeProofs!linkVars
<1>11. Node!Execute <=> NodeProofs!Execute
  BY DEF Node!Execute, NodeProofs!Execute, Node!Reset, NodeProofs!Reset,
         Node!linkVars, NodeProofs!linkVars
<1>12. \A m : Node!Deliver(m) <=> NodeProofs!Deliver(m)
  BY DEF Node!Deliver, NodeProofs!Deliver, Node!taskVars, NodeProofs!taskVars
<1>13. Node!MemoryFails <=> NodeProofs!MemoryFails
  BY DEF Node!MemoryFails, NodeProofs!MemoryFails, Node!Reset, NodeProofs!Reset,
         Node!linkVars, NodeProofs!linkVars, Node!taskVars, NodeProofs!taskVars
<1> QED
  BY <1>1, <1>2, <1>3, <1>4, <1>5, <1>6, <1>7, <1>8, <1>9, <1>10, <1>11, <1>12, <1>13
     DEF Node!MqttTask, NodeProofs!MqttTask, Node!ClientTask, NodeProofs!ClientTask

LEMMA NodeSteps ==
    [Node!Next]_(Node!vars) <=> [NodeProofs!Next]_(NodeProofs!vars)
<1>1. Node!Next <=> NodeProofs!Next
  BY NodeActions DEF Node!Next, NodeProofs!Next, Node!Broker, NodeProofs!Broker
<1>2. UNCHANGED Node!vars <=> UNCHANGED NodeProofs!vars
  BY DEF Node!vars, NodeProofs!vars, Node!taskVars, NodeProofs!taskVars,
         Node!linkVars, NodeProofs!linkVars
<1> QED
  BY <1>1, <1>2

LEMMA NodeUnchanged == UNCHANGED nodeVars => UNCHANGED Node!vars
  BY DEF nodeVars, Node!vars, Node!taskVars, Node!linkVars

-----------------------------------------------------------------------------
(* The broker                                                              *)

Kept == {<<>>} \cup {<<m>> : m \in Messages}

BrokerOK ==
    /\ gatewayQueue \in Seq(Messages)
    /\ nodeQueue \in Seq(Messages)
    /\ retained \in [Topics -> Kept]
    /\ nodeOutbox \in Seq(Messages)
    /\ received \in 0..Len(nodeOutbox)

LEMMA KeptIsSeq == \A k \in Kept : k \in Seq(Messages)
<1>1. \A m \in Messages : <<m>> \in Seq(Messages)
  OBVIOUS
<1> QED
  BY <1>1, Empty DEF Kept

LEMMA NodeTopicType == NodeTopic \in Topics
  BY DEF NodeTopic, Topics

LEMMA QueuedType ==
    ASSUME NEW queue \in Seq(Messages), NEW m \in Messages
    PROVE  Queued(queue, m) \in Seq(Messages)
  BY AppendProperties DEF Queued

(* What a message that arrives at the broker leaves behind.                *)
LEMMA PublishType ==
    ASSUME BrokerOK, NEW topic \in Topics, NEW m \in Messages, NEW retain,
           Publish(topic, m, retain)
    PROVE  /\ gatewayQueue' \in Seq(Messages)
           /\ nodeQueue' \in Seq(Messages)
           /\ retained' \in [Topics -> Kept]
<1>1. <<m>> \in Kept
  BY DEF Kept
<1>2. retained' \in [Topics -> Kept]
  BY <1>1 DEF Publish, BrokerOK
<1> QED
  BY <1>2, QueuedType DEF Publish, BrokerOK

(* A new connection is sent what the broker keeps.                         *)
LEMMA SessionsType ==
    ASSUME NEW queue \in Seq(Messages), NEW kept \in Seq(Messages), NEW b, NEW a
    PROVE  Sessions(queue, b, a, kept) \in Seq(Messages)
  BY DEF Sessions

(* What the node's steps do to its outbox and its connection.              *)
LEMMA NodeOutbox ==
    ASSUME \/ Node!ClientStart \/ Node!CreateTask \/ Node!ClientTask \/ Node!DataEvent
           \/ Node!Connected \/ Node!Disconnected \/ Node!Enqueue
           \/ Node!MemoryFails \/ Node!LinkLost
    PROVE  \/ nodeOutbox' = nodeOutbox
           \/ nodeOutbox' = nodeOutbox \o NodeReports
           \/ nodeOutbox' = <<>> /\ nodeLink' = "down"
  BY DEF Node!ClientStart, Node!CreateTask, Node!ClientTask, Node!DataEvent,
         Node!Connected, Node!Disconnected, Node!Enqueue, Node!LinkLost,
         Node!Receive, Node!Parse, Node!Execute, Node!MemoryFails, Node!Reset,
         Node!linkVars

LEMMA InitBroker == SystemInit => BrokerOK
<1> SUFFICES ASSUME SystemInit PROVE BrokerOK
  OBVIOUS
<1>1. <<>> \in Seq(Messages) /\ Len(<<>>) = 0
  BY Empty
<1>2. <<>> \in Kept
  BY DEF Kept
<1> QED
  BY <1>1, <1>2 DEF SystemInit, BrokerOK, Node!Init

LEMMA NodeMovesBroker == BrokerOK /\ NodeMoves => BrokerOK'
<1> SUFFICES ASSUME BrokerOK, NodeMoves PROVE BrokerOK'
  OBVIOUS
<1>1. nodeQueue' \in Seq(Messages)
  <2>1. retained[NodeTopic] \in Seq(Messages) /\ retained["receive"] \in Seq(Messages)
    BY KeptIsSeq, NodeTopicType DEF BrokerOK, Topics
  <2>2. retained[NodeTopic] \o retained["receive"] \in Seq(Messages)
    BY <2>1
  <2> QED
    BY <2>2, SessionsType DEF NodeMoves, BrokerOK
<1>2. nodeOutbox' \in Seq(Messages) /\ received' \in 0..Len(nodeOutbox')
  <2>1. NodeReports \in Seq(Messages) /\ Len(nodeOutbox) \in Nat
    BY SystemAssumption, LenProperties DEF BrokerOK
  <2>2. CASE Node!OutboxDone /\ received' = IF received > 0 THEN received - 1 ELSE 0
    <3>1. nodeOutbox # <<>> /\ nodeOutbox' = Tail(nodeOutbox)
      BY <2>2 DEF Node!OutboxDone
    <3>2. nodeOutbox' \in Seq(Messages) /\ Len(nodeOutbox') = Len(nodeOutbox) - 1
      BY <3>1, HeadTailProperties DEF BrokerOK
    <3>3. Len(nodeOutbox) >= 1
      BY <2>1, <3>1, EmptySeq DEF BrokerOK
    <3> QED
      BY <2>1, <2>2, <3>2, <3>3 DEF BrokerOK
  <2>3. ASSUME \/ Node!ClientStart \/ Node!CreateTask \/ Node!ClientTask
               \/ Node!DataEvent \/ Node!Connected \/ Node!Disconnected
               \/ Node!Enqueue \/ Node!MemoryFails \/ Node!LinkLost,
               received' = IF nodeLink' = "up" THEN received ELSE 0
        PROVE  nodeOutbox' \in Seq(Messages) /\ received' \in 0..Len(nodeOutbox')
    <3>1. CASE nodeOutbox' = nodeOutbox
      BY <2>1, <2>3, <3>1 DEF BrokerOK
    <3>2. CASE nodeOutbox' = nodeOutbox \o NodeReports
      <4>1. /\ nodeOutbox' \in Seq(Messages)
            /\ Len(nodeOutbox') = Len(nodeOutbox) + Len(NodeReports)
            /\ Len(NodeReports) \in Nat
        BY <2>1, <3>2, ConcatProperties, LenProperties DEF BrokerOK
      <4> QED
        BY <2>1, <2>3, <4>1 DEF BrokerOK
    <3>3. CASE nodeOutbox' = <<>> /\ nodeLink' = "down"
      BY <2>3, <3>3
    <3> QED
      BY <2>3, <3>1, <3>2, <3>3, NodeOutbox
  <2> QED
    BY <2>2, <2>3 DEF NodeMoves
<1> QED
  BY <1>1, <1>2 DEF NodeMoves, BrokerOK

LEMMA StepBroker == BrokerOK /\ [SystemNext]_systemVars => BrokerOK'
<1> SUFFICES ASSUME BrokerOK, [SystemNext]_systemVars PROVE BrokerOK'
  OBVIOUS
<1>1. CASE GatewayMoves
  <2>1. retained["response"] \in Seq(Messages)
    BY KeptIsSeq DEF BrokerOK, Topics
  <2> QED
    BY <1>1, <2>1, SessionsType DEF GatewayMoves, BrokerOK, nodeVars
<1>2. CASE NodeMoves
  BY <1>2, NodeMovesBroker
<1>3. CASE ReportArrives
  <2>1. /\ Len(nodeOutbox) \in Nat /\ received + 1 \in 1..Len(nodeOutbox)
    BY <1>3, LenProperties DEF ReportArrives, BrokerOK
  <2>2. nodeOutbox[received + 1] \in Messages
    BY <2>1, ElementOfSeq DEF BrokerOK
  <2>3. /\ gatewayQueue' \in Seq(Messages) /\ nodeQueue' \in Seq(Messages)
        /\ retained' \in [Topics -> Kept]
    BY <1>3, <2>2, NodeTopicType, PublishType DEF ReportArrives
  <2> QED
    BY <1>3, <2>1, <2>3 DEF ReportArrives, BrokerOK, nodeVars
<1>4. CASE SendToGateway
  BY <1>4, HeadTailProperties DEF SendToGateway, BrokerOK, nodeVars
<1>5. CASE SendToNode
  <2>1. nodeOutbox' = nodeOutbox
    BY <1>5 DEF SendToNode, Node!Deliver
  <2> QED
    BY <1>5, <2>1, HeadTailProperties DEF SendToNode, BrokerOK
<1>6. ASSUME NEW m \in UserCommands, NEW retain \in BOOLEAN, UserPublishes(m, retain)
      PROVE  BrokerOK'
  <2>1. m \in Messages /\ "receive" \in Topics
    BY <1>6, SystemAssumption DEF Topics
  <2>2. /\ gatewayQueue' \in Seq(Messages) /\ nodeQueue' \in Seq(Messages)
        /\ retained' \in [Topics -> Kept]
    BY <1>6, <2>1, PublishType DEF UserPublishes
  <2> QED
    BY <1>6, <2>2 DEF UserPublishes, BrokerOK, nodeVars
<1>7. CASE UNCHANGED systemVars
  BY <1>7 DEF systemVars, BrokerOK, brokerVars, nodeVars
<1> QED
  BY <1>1, <1>2, <1>3, <1>4, <1>5, <1>6, <1>7 DEF SystemNext

-----------------------------------------------------------------------------
(* The composition implements its parts                                    *)

LEMMA GatewayStep == BrokerOK /\ [SystemNext]_systemVars => [Next]_vars
<1> SUFFICES ASSUME BrokerOK, [SystemNext]_systemVars PROVE [Next]_vars
  OBVIOUS
<1>1. CASE GatewayMoves
  BY <1>1 DEF GatewayMoves, Next, Broker
<1>2. CASE SendToGateway
  <2>1. Head(gatewayQueue) \in Messages
    BY <1>2, HeadTailProperties DEF SendToGateway, BrokerOK
  <2> QED
    BY <1>2, <2>1 DEF SendToGateway, Next, Broker
<1>3. CASE NodeMoves \/ ReportArrives \/ SendToNode
           \/ \E m \in UserCommands, retain \in BOOLEAN : UserPublishes(m, retain)
  BY <1>3 DEF NodeMoves, ReportArrives, SendToNode, UserPublishes
<1>4. CASE UNCHANGED systemVars
  BY <1>4 DEF systemVars
<1> QED
  BY <1>1, <1>2, <1>3, <1>4 DEF SystemNext

LEMMA NodeStep == BrokerOK /\ [SystemNext]_systemVars => [Node!Next]_(Node!vars)
<1> SUFFICES ASSUME BrokerOK, [SystemNext]_systemVars PROVE [Node!Next]_(Node!vars)
  OBVIOUS
<1>1. CASE NodeMoves
  BY <1>1 DEF NodeMoves, Node!Next, Node!MqttTask, Node!Broker
<1>2. CASE SendToNode
  <2>1. Head(nodeQueue) \in Messages
    BY <1>2, HeadTailProperties DEF SendToNode, BrokerOK
  <2> QED
    BY <1>2, <2>1 DEF SendToNode, Node!Next, Node!Broker
<1>3. CASE GatewayMoves \/ ReportArrives \/ SendToGateway
           \/ \E m \in UserCommands, retain \in BOOLEAN : UserPublishes(m, retain)
  BY <1>3, NodeUnchanged DEF GatewayMoves, ReportArrives, SendToGateway, UserPublishes
<1>4. CASE UNCHANGED systemVars
  BY <1>4, NodeUnchanged DEF systemVars
<1> QED
  BY <1>1, <1>2, <1>3, <1>4 DEF SystemNext

LEMMA BrokerInvariance == SystemSpec => []BrokerOK
  BY InitBroker, StepBroker, PTL DEF SystemSpec

(* The gateway in the system, with its broker and its node, behaves as
   MqttDevice says: what is proved of a device holds of it.                *)
THEOREM GatewayIsDevice == SystemSpec => Spec
<1>1. SystemInit => Init
  BY DEF SystemInit
<1> QED
  BY <1>1, GatewayStep, BrokerInvariance, PTL DEF SystemSpec, Spec

(* So does the node, with the constants of its firmware.                   *)
THEOREM NodeIsDevice == SystemSpec => Node!Spec
<1>1. SystemInit => Node!Init
  BY DEF SystemInit
<1> QED
  BY <1>1, NodeStep, BrokerInvariance, PTL DEF SystemSpec, Node!Spec

-----------------------------------------------------------------------------
(* Types                                                                   *)

LEMMA NodeSpecs == Node!Spec <=> NodeProofs!Spec
  BY NodeInit, NodeSteps, PTL DEF Node!Spec, NodeProofs!Spec

LEMMA NodeInvariance == Node!Spec => []NodeProofs!IInv
  BY NodeSpecs, NodeAssumption, NodeProofs!Invariance, PTL

LEMMA NodeType == NodeProofs!IInv => Node!TypeOK
  BY DEF NodeProofs!IInv, NodeProofs!TypeOK, Node!TypeOK,
         NodeProofs!Occupied, Node!Occupied, NodeProofs!Garbage, Node!Garbage,
         NodeProofs!Kinds, Node!Kinds, NodeProofs!Status, Node!Status

(* The types of both devices and of the broker, for every bound; the broker
   has acknowledged no more of the node's outbox than there is in it.      *)
THEOREM SystemTypeCorrect == SystemSpec => []SystemTypeOK
<1>1. BrokerOK /\ TypeOK /\ NodeProofs!IInv => SystemTypeOK
  BY NodeType DEF BrokerOK, Kept, SystemTypeOK
<1> QED
  BY <1>1, BrokerInvariance, GatewayIsDevice, NodeIsDevice, TypeCorrect,
     NodeInvariance, PTL

-----------------------------------------------------------------------------
(* A restart command is obeyed once                                        *)

(* Nothing the node publishes, and so nothing the broker keeps of it, is a
   restart command.                                                        *)
NoCommandKept ==
    /\ \A i \in 1..Len(nodeOutbox) : nodeOutbox[i].kind # "restart"
    /\ Count(retained[NodeTopic]) = 0

(* The commands the node holds, from the network to mqtt_client_task.       *)
NodeHeld == NodeProofs!Held

(* The restart commands sent to the node.                                  *)
Sent == orders + again

(* Each restart had a command of its own, and those still on their way to
   the node have one each, too.                                            *)
OncePerOrder ==
    restarts + Count(nodeQueue) + NodeHeld <= Sent

OnceInv ==
    /\ BrokerOK
    /\ NodeProofs!IInv
    /\ restarts \in Nat /\ orders \in Nat /\ again \in Nat
    /\ NoCommandKept
    /\ OncePerOrder

LEMMA SameOne == \A b \in BOOLEAN : NodeProofs!One(b) = One(b)
  BY DEF NodeProofs!One, One

LEMMA OneType == \A b : One(b) \in 0..1
  BY DEF One

LEMMA TopicsDiffer == NodeTopic \in Topics /\ NodeTopic # "receive" /\ "receive" \in Topics
  BY DEF NodeTopic, Topics

LEMMA QueuedCount ==
    ASSUME NEW queue \in Seq(Messages), NEW m \in Messages
    PROVE  Count(Queued(queue, m)) <= Count(queue) + One(m.kind = "restart")
<1>1. Count(queue) \in Nat
  BY PlacesFinite
<1>2. Count(Append(queue, m)) = Count(queue) + One(m.kind = "restart")
  BY CountAppend
<1> QED
  BY <1>1, <1>2, OneType DEF Queued

(* A message that arrives at the broker adds at most itself.               *)
LEMMA PublishCount ==
    ASSUME BrokerOK, NEW topic \in Topics, NEW m \in Messages, NEW retain,
           Publish(topic, m, retain)
    PROVE  /\ Count(nodeQueue') \in Nat
           /\ Count(nodeQueue') <= Count(nodeQueue) + One(m.kind = "restart")
<1>1. Count(nodeQueue) \in Nat /\ nodeQueue \in Seq(Messages)
  BY PlacesFinite DEF BrokerOK
<1>2. nodeQueue' \in Seq(Messages)
  BY PublishType
<1>3. Count(nodeQueue') \in Nat
  BY <1>2, PlacesFinite
<1> QED
  BY <1>1, <1>3, QueuedCount, OneType DEF Publish

LEMMA HeldNat == NodeProofs!IInv => NodeHeld \in Nat
  BY NodeAssumption, NodeProofs!HeldType DEF NodeHeld

LEMMA HeldNatNext == NodeProofs!IInv' => NodeHeld' \in Nat
  BY NodeAssumption, NodeProofs!HeldTypeNext DEF NodeHeld

LEMMA InitOnce == SystemInit => OnceInv
<1> SUFFICES ASSUME SystemInit PROVE OnceInv
  OBVIOUS
<1>1. BrokerOK
  BY InitBroker
<1>2. NodeProofs!IInv /\ NodeHeld = 0
  BY NodeInit, NodeAssumption, NodeProofs!InitInv, NodeProofs!InitHolds
     DEF SystemInit, NodeHeld
<1>3. Len(<<>>) = 0 /\ Count(<<>>) = 0
  BY CountEmpty, Empty
<1>4. NoCommandKept
  BY <1>3, TopicsDiffer DEF SystemInit, Node!Init, NoCommandKept
<1>5. restarts = 0 /\ orders = 0 /\ again = 0 /\ Count(nodeQueue) = 0
  BY <1>3 DEF SystemInit
<1> QED
  BY <1>1, <1>2, <1>4, <1>5 DEF OnceInv, OncePerOrder, Sent

LEMMA StepNode == OnceInv /\ [SystemNext]_systemVars => NodeProofs!IInv'
  BY NodeStep, NodeSteps, NodeAssumption, NodeProofs!StepInv DEF OnceInv

(* One command less, and one restart more, if any.                         *)
LEMMA Exchange ==
    ASSUME NEW r \in Nat, NEW s \in Nat, NEW h \in Nat, NEW g \in Nat,
           \/ s = r + 1 /\ g + 1 <= h
           \/ s = r /\ g <= h
    PROVE  s + g <= r + h
  OBVIOUS

(* A step of the node leaves it no more commands than it had, and one less
   if it restarts because of one.                                          *)
LEMMA NodeMovesHeld ==
    ASSUME OnceInv, NodeMoves
    PROVE  restarts' + NodeHeld' <= restarts + NodeHeld
<1>i. NodeProofs!IInv
  BY DEF OnceInv
<1>1. NodeHeld \in Nat /\ restarts \in Nat
  BY <1>i, HeldNat DEF OnceInv
<1>2. CASE Node!Execute /\ nodePhase' = "boot"
  <2>1. NodeHeld' + 1 <= NodeHeld
    BY <1>i, <1>2, NodeActions, NodeAssumption, NodeProofs!RestartHolds DEF NodeHeld
  <2>2. restarts' = restarts + 1 /\ restarts' \in Nat
    BY <1>1, <1>2 DEF NodeMoves
  <2>3. NodeHeld' \in Nat
    BY HeldNatNext, StepNode DEF SystemNext
  <2> QED
    BY <1>1, <2>1, <2>2, <2>3, Exchange
<1>3. CASE ~(Node!Execute /\ nodePhase' = "boot")
  <2>1. restarts' = restarts
    BY <1>3 DEF NodeMoves
  <2>2. NodeHeld' <= NodeHeld
    BY <1>i, NodeActions, NodeAssumption, NodeProofs!StepHolds
       DEF NodeMoves, Node!MqttTask, NodeHeld
  <2>3. NodeHeld' \in Nat
    BY HeldNatNext, StepNode DEF SystemNext
  <2> QED
    BY <1>1, <2>1, <2>2, <2>3, Exchange
<1> QED
  BY <1>2, <1>3

(* A message that is no restart command adds nothing to those behind it.   *)
LEMMA CountBehind ==
    ASSUME NEW S, NEW s \in Seq(S), NEW e \in S, e.kind # "restart"
    PROVE  Count(<<e>> \o s) = Count(s)
<1> DEFINE both == <<e>> \o s
<1>1. both \in Seq(S) /\ both # <<>> /\ Head(both) = e /\ Tail(both) = s
  BY HeadTailOfConcat
<1>2. Count(s) \in Nat
  BY PlacesFinite
<1> HIDE DEF both
<1>3. Count(both) = Count(Tail(both)) + One(Head(both).kind = "restart")
  BY <1>1, CountTail
<1>4. Count(both) = Count(s) + 0
  BY <1>1, <1>3 DEF One
<1> QED
  BY <1>2, <1>4 DEF both

(* What the broker sends on a new connection counts as the retained command
   does: the retained report is none.                                      *)
LEMMA KeptCount ==
    ASSUME OnceInv
    PROVE  /\ Count(retained["receive"]) =
                  One(\E m \in Messages : m.kind = "restart" /\ retained["receive"] = <<m>>)
           /\ Count(retained[NodeTopic] \o retained["receive"]) = Count(retained["receive"])
<1> DEFINE report == retained[NodeTopic]
           command == retained["receive"]
<1>1. report \in Kept /\ command \in Kept /\ Count(report) = 0
  BY TopicsDiffer DEF OnceInv, BrokerOK, NoCommandKept
<1>2. Count(command) = One(\E m \in Messages : m.kind = "restart" /\ command = <<m>>)
  <2>1. CASE command = <<>>
    <3>1. ~ \E m \in Messages : m.kind = "restart" /\ command = <<m>>
      BY <2>1
    <3> QED
      BY <2>1, <3>1, CountEmpty DEF One
  <2>2. ASSUME NEW e \in Messages, command = <<e>>
        PROVE  Count(command) =
                   One(\E m \in Messages : m.kind = "restart" /\ command = <<m>>)
    <3>1. Count(command) = One(e.kind = "restart")
      BY <2>2, CountOne
    <3>2. (\E m \in Messages : m.kind = "restart" /\ command = <<m>>)
              <=> e.kind = "restart"
      BY <2>2
    <3> QED
      BY <3>1, <3>2 DEF One
  <2> QED
    BY <1>1, <2>1, <2>2 DEF Kept
<1>3. Count(report \o command) = Count(command)
  <2>1. CASE report = <<>>
    BY <1>1, <2>1, KeptIsSeq, ConcatEmptySeq
  <2>2. ASSUME NEW e \in Messages, report = <<e>>
        PROVE  Count(report \o command) = Count(command)
    <3>1. command \in Seq(Messages)
      BY <1>1, KeptIsSeq
    <3>2. e.kind # "restart"
      BY <1>1, <2>2, CountOne DEF One
    <3>3. Count(<<e>> \o command) = Count(command)
      BY <3>1, <3>2, CountBehind
    <3> QED
      BY <2>2, <3>3
  <2> QED
    BY <1>1, <2>1, <2>2 DEF Kept
<1> QED
  BY <1>2, <1>3

(* What the node's step does to what it is sent: nothing, or it loses it,
   or it is sent what the broker keeps.                                    *)
LEMMA NodeMovesQueue ==
    ASSUME OnceInv, NodeMoves
    PROVE  /\ Count(nodeQueue') \in Nat
           /\ \/ Count(nodeQueue') <= Count(nodeQueue) /\ again' = again
              \/ Count(nodeQueue') <= 1 /\ again' = again + 1
<1>1. nodeQueue \in Seq(Messages) /\ Count(nodeQueue) \in Nat
  BY PlacesFinite DEF OnceInv, BrokerOK
<1> DEFINE kept == retained[NodeTopic] \o retained["receive"]
           command == \E m \in Messages : m.kind = "restart" /\ retained["receive"] = <<m>>
<1>2. Count(kept) = One(command)
  BY KeptCount
<1>3. nodeQueue' = Sessions(nodeQueue, nodeLink, nodeLink', kept)
  BY DEF NodeMoves
<1>4. again' = IF SentAgain THEN again + 1 ELSE again
  BY DEF NodeMoves
<1> HIDE DEF kept, command
<1>5. CASE nodeLink # "up" /\ nodeLink' = "up"
  <2>1. nodeQueue' = kept
    BY <1>3, <1>5 DEF Sessions
  <2>2. SentAgain <=> command
    BY <1>5 DEF SentAgain, command
  <2> QED
    BY <1>1, <1>2, <1>4, <2>1, <2>2 DEF One
<1>6. CASE ~(nodeLink # "up" /\ nodeLink' = "up")
  <2>1. nodeQueue' \in {nodeQueue, <<>>}
    BY <1>3, <1>6 DEF Sessions
  <2>2. again' = again
    BY <1>4, <1>6 DEF SentAgain
  <2> QED
    BY <1>1, <2>1, <2>2, CountEmpty
<1> QED
  BY <1>5, <1>6

LEMMA NodeMovesKept == OnceInv /\ NodeMoves => NoCommandKept'
<1> SUFFICES ASSUME OnceInv, NodeMoves PROVE NoCommandKept'
  OBVIOUS
<1>1. nodeOutbox \in Seq(Messages) /\ NodeReports \in Seq(Messages)
  BY SystemAssumption DEF OnceInv, BrokerOK
<1>2. /\ \A i \in 1..Len(nodeOutbox) : nodeOutbox[i].kind # "restart"
      /\ \A i \in 1..Len(NodeReports) : NodeReports[i].kind # "restart"
  BY SystemAssumption DEF OnceInv, NoCommandKept
<1>3. \A i \in 1..Len(nodeOutbox') : nodeOutbox'[i].kind # "restart"
  <2>1. CASE nodeOutbox' = nodeOutbox
    BY <1>2, <2>1
  <2>2. CASE nodeOutbox' = nodeOutbox \o NodeReports
    <3>1. /\ Len(nodeOutbox) \in Nat /\ Len(NodeReports) \in Nat
          /\ Len(nodeOutbox \o NodeReports) = Len(nodeOutbox) + Len(NodeReports)
          /\ \A i \in 1..Len(nodeOutbox) + Len(NodeReports) :
                (nodeOutbox \o NodeReports)[i] =
                    IF i <= Len(nodeOutbox) THEN nodeOutbox[i]
                    ELSE NodeReports[i - Len(nodeOutbox)]
      BY <1>1, ConcatProperties, LenProperties
    <3>2. \A i \in 1..Len(nodeOutbox \o NodeReports) :
              (nodeOutbox \o NodeReports)[i].kind # "restart"
      BY <1>2, <3>1
    <3> QED
      BY <2>2, <3>2
  <2>3. CASE nodeOutbox' = <<>>
    BY <2>3
  <2>4. CASE Node!OutboxDone
    <3>1. nodeOutbox # <<>> /\ nodeOutbox' = Tail(nodeOutbox)
      BY <2>4 DEF Node!OutboxDone
    <3>2. /\ Len(nodeOutbox) \in Nat /\ Len(Tail(nodeOutbox)) = Len(nodeOutbox) - 1
          /\ \A i \in 1..Len(Tail(nodeOutbox)) :
                Tail(nodeOutbox)[i] = nodeOutbox[i + 1]
      BY <1>1, <3>1, HeadTailProperties, LenProperties
    <3>3. \A i \in 1..Len(Tail(nodeOutbox)) : Tail(nodeOutbox)[i].kind # "restart"
      BY <1>2, <3>2
    <3> QED
      BY <3>1, <3>3
  <2> QED
    BY <2>1, <2>2, <2>3, <2>4, NodeOutbox DEF NodeMoves
<1>4. retained' = retained /\ NodeTopic' = NodeTopic
  BY DEF NodeMoves, NodeTopic
<1> QED
  BY <1>3, <1>4 DEF OnceInv, NoCommandKept

LEMMA HeldUnchanged == UNCHANGED nodeVars => NodeHeld' = NodeHeld
  BY DEF nodeVars, NodeHeld, NodeProofs!Held, NodeProofs!InHand

LEMMA StepOnce ==
    ASSUME OnceInv, [SystemNext]_systemVars
    PROVE  OnceInv'
<1>1. BrokerOK' /\ NodeProofs!IInv'
  BY StepBroker, StepNode DEF OnceInv
<1>2. /\ nodeQueue \in Seq(Messages) /\ Count(nodeQueue) \in Nat /\ NodeHeld \in Nat
      /\ restarts \in Nat /\ orders \in Nat /\ again \in Nat /\ Sent \in Nat
      /\ restarts + Count(nodeQueue) + NodeHeld <= Sent
  BY HeldNat, PlacesFinite DEF OnceInv, OncePerOrder, BrokerOK, Sent
<1>3. NodeHeld' \in Nat /\ Count(nodeQueue') \in Nat
  BY <1>1, HeldNatNext, PlacesFinite DEF BrokerOK
<1> PICK r \in Nat, q \in Nat, h \in Nat, s \in Nat :
         r = restarts /\ q = Count(nodeQueue) /\ h = NodeHeld /\ s = Sent
  BY <1>2
<1>0. r + q + h <= s
  BY <1>2
<1>4. CASE NodeMoves
  <2>1. restarts' \in Nat /\ orders' = orders
    BY <1>2, <1>4 DEF NodeMoves
  <2>2. restarts' + NodeHeld' <= restarts + NodeHeld
    BY <1>4, NodeMovesHeld
  <2>3. \/ Count(nodeQueue') <= Count(nodeQueue) /\ again' = again
        \/ Count(nodeQueue') <= 1 /\ again' = again + 1
    BY <1>4, NodeMovesQueue
  <2>4. again' \in Nat /\ Sent' \in Nat
    <3>1. \A x, y \in Nat : x + y \in Nat /\ x + 1 \in Nat
      OBVIOUS
    <3>2. again' = again \/ again' = again + 1
      BY <2>3
    <3>3. again' \in Nat
      BY <1>2, <3>1, <3>2, Zenon
    <3>4. orders' \in Nat
      BY <1>2, <2>1
    <3> QED
      BY <3>1, <3>3, <3>4, Zenon DEF Sent
  <2>5. \/ Count(nodeQueue') <= Count(nodeQueue) /\ Sent' = Sent
        \/ Count(nodeQueue') <= 1 /\ Sent' = Sent + 1
    <3>1. again' = again => Sent' = Sent
      BY <2>1 DEF Sent
    <3>2. again' = again + 1 => Sent' = Sent + 1
      BY <1>2, <2>1 DEF Sent
    <3> QED
      BY <2>3, <3>1, <3>2
  <2>6. OncePerOrder'
    <3>1. PICK rr \in Nat, qq \in Nat, hh \in Nat, ss \in Nat :
             /\ rr = restarts' /\ qq = Count(nodeQueue')
             /\ hh = NodeHeld' /\ ss = Sent'
      BY <1>2, <1>3, <2>1, <2>4
    <3>2. rr + hh <= r + h
      BY <2>2, <3>1
    <3>3. (qq <= q /\ ss = s) \/ (qq <= 1 /\ ss = s + 1)
      BY <2>5, <3>1
    <3>4. rr + qq + hh <= ss
      BY <1>0, <3>2, <3>3
    <3> QED
      BY <3>1, <3>4 DEF OncePerOrder
  <2> QED
    BY <1>1, <1>2, <1>4, <2>1, <2>4, <2>6, NodeMovesKept DEF OnceInv
<1>5. CASE ReportArrives
  <2> DEFINE m == nodeOutbox[received + 1]
  <2>1. received + 1 \in 1..Len(nodeOutbox)
    BY <1>5, LenProperties DEF ReportArrives, OnceInv, BrokerOK
  <2>2. m \in Messages /\ m.kind # "restart"
    BY <2>1, ElementOfSeq DEF OnceInv, BrokerOK, NoCommandKept
  <2>3. One(m.kind = "restart") = 0
    BY <2>2 DEF One
  <2>4. Count(nodeQueue') <= Count(nodeQueue)
    <3>1. BrokerOK /\ Publish(NodeTopic, m, NodeRetains)
      BY <1>5 DEF OnceInv, ReportArrives
    <3>2. Count(nodeQueue') <= Count(nodeQueue) + One(m.kind = "restart")
      BY <2>2, <3>1, PublishCount, TopicsDiffer
    <3> QED
      BY <1>2, <1>3, <2>3, <3>2
  <2>5. NoCommandKept'
    <3>1. Count(<<m>>) = 0
      BY <2>2, <2>3, CountOne
    <3>2. /\ retained'[NodeTopic] \in {<<m>>, retained[NodeTopic]}
          /\ nodeOutbox' = nodeOutbox /\ NodeTopic' = NodeTopic
      BY <1>5, TopicsDiffer
         DEF ReportArrives, Publish, OnceInv, BrokerOK, nodeVars, NodeTopic
    <3> QED
      BY <3>1, <3>2 DEF OnceInv, NoCommandKept
  <2>6. /\ restarts' = restarts /\ orders' = orders /\ again' = again
        /\ Sent' = Sent /\ NodeHeld' = NodeHeld
    BY <1>5, HeldUnchanged DEF ReportArrives, userVars, Sent
  <2>7. OncePerOrder'
    <3>1. PICK rr \in Nat, qq \in Nat, hh \in Nat, ss \in Nat :
             /\ rr = restarts' /\ qq = Count(nodeQueue')
             /\ hh = NodeHeld' /\ ss = Sent'
      BY <1>2, <1>3, <2>6
    <3>2. rr = r /\ hh = h /\ qq <= q /\ ss = s
      BY <2>4, <2>6, <3>1
    <3>3. rr + qq + hh <= ss
      BY <1>0, <3>2
    <3> QED
      BY <3>1, <3>3 DEF OncePerOrder
  <2> QED
    BY <1>1, <1>2, <2>5, <2>6, <2>7 DEF OnceInv
<1>6. CASE SendToNode
  <2> DEFINE m == Head(nodeQueue)
             d == One(m.kind = "restart")
  <2>1. /\ nodeQueue # <<>> /\ nodeQueue' = Tail(nodeQueue) /\ Node!Deliver(m)
        /\ restarts' = restarts /\ orders' = orders /\ again' = again
        /\ retained' = retained /\ Sent' = Sent /\ NodeTopic' = NodeTopic
    BY <1>6 DEF SendToNode, userVars, Sent, NodeTopic
  <2>2. m \in Messages /\ d \in Nat
    <3>1. nodeQueue # <<>> /\ nodeQueue \in Seq(Messages)
      BY <1>2, <2>1
    <3>2. Head(nodeQueue) \in Messages
      BY <3>1, HeadTailProperties
    <3> QED
      BY <3>2, OneType
  <2>3. Count(nodeQueue) = Count(nodeQueue') + d
    BY <1>2, <2>1, CountTail
  <2>4. NodeHeld' = NodeHeld + d
    <3>1. NodeProofs!Deliver(m) /\ NodeProofs!IInv
      BY <2>1, NodeActions DEF OnceInv
    <3>2. NodeHeld' = NodeHeld + NodeProofs!One(m.kind = "restart")
      BY <2>2, <3>1, NodeAssumption, NodeProofs!DeliverHolds DEF NodeHeld
    <3> QED
      BY <3>2, SameOne
  <2>5. OncePerOrder'
    <3>1. PICK rr \in Nat, qq \in Nat, hh \in Nat, ss \in Nat :
             /\ rr = restarts' /\ qq = Count(nodeQueue')
             /\ hh = NodeHeld' /\ ss = Sent'
      BY <1>2, <1>3, <2>1
    <3>2. PICK e \in Nat : e = d
      BY <2>2
    <3>3. rr = r /\ hh = h + e /\ q = qq + e /\ ss = s
      BY <2>1, <2>3, <2>4, <3>1, <3>2
    <3>4. rr + qq + hh <= ss
      BY <1>0, <3>3
    <3> QED
      BY <3>1, <3>4 DEF OncePerOrder
  <2>6. nodeOutbox' = nodeOutbox
    BY <2>1 DEF Node!Deliver
  <2>7. NoCommandKept'
    BY <2>1, <2>6 DEF OnceInv, NoCommandKept
  <2> QED
    BY <1>1, <1>2, <2>1, <2>5, <2>7 DEF OnceInv
<1>7. ASSUME NEW m \in UserCommands, NEW retain \in BOOLEAN, UserPublishes(m, retain)
      PROVE  OnceInv'
  <2> DEFINE d == One(m.kind = "restart")
  <2>1. m \in Messages /\ d \in Nat /\ d <= 1
    BY <1>7, SystemAssumption, OneType
  <2>2. Count(nodeQueue') <= Count(nodeQueue) + d
    BY <1>7, <2>1, PublishCount, TopicsDiffer DEF OnceInv, UserPublishes
  <2>3. /\ restarts' = restarts /\ orders' = orders + 1 /\ orders' \in Nat
        /\ again' = again /\ Sent' = Sent + 1 /\ Sent' \in Nat
    BY <1>2, <1>7 DEF UserPublishes, Sent
  <2>4. NodeHeld' = NodeHeld /\ nodeOutbox' = nodeOutbox /\ NodeTopic' = NodeTopic
    BY <1>7, HeldUnchanged DEF UserPublishes, nodeVars, NodeTopic
  <2>5. retained'[NodeTopic] = retained[NodeTopic]
    BY <1>7, TopicsDiffer DEF UserPublishes, Publish, OnceInv, BrokerOK
  <2>6. OncePerOrder'
    <3>1. PICK rr \in Nat, qq \in Nat, hh \in Nat, ss \in Nat :
             /\ rr = restarts' /\ qq = Count(nodeQueue')
             /\ hh = NodeHeld' /\ ss = Sent'
      BY <1>2, <1>3, <2>3
    <3>2. PICK e \in Nat : e = d /\ e <= 1
      BY <2>1
    <3>3. rr = r /\ hh = h /\ qq <= q + e /\ ss = s + 1
      BY <2>2, <2>3, <2>4, <3>1, <3>2
    <3>4. rr + qq + hh <= ss
      BY <1>0, <3>2, <3>3
    <3> QED
      BY <3>1, <3>4 DEF OncePerOrder
  <2>7. NoCommandKept'
    BY <2>4, <2>5 DEF OnceInv, NoCommandKept
  <2> QED
    BY <1>1, <1>2, <2>3, <2>6, <2>7 DEF OnceInv
<1>8. CASE GatewayMoves \/ SendToGateway \/ UNCHANGED systemVars
  <2>1. /\ UNCHANGED nodeVars /\ nodeQueue' = nodeQueue /\ retained' = retained
        /\ restarts' = restarts /\ orders' = orders /\ again' = again
        /\ NodeTopic' = NodeTopic
    BY <1>8 DEF GatewayMoves, SendToGateway, systemVars, brokerVars, userVars, NodeTopic
  <2>2. NodeHeld' = NodeHeld /\ nodeOutbox' = nodeOutbox
    BY <2>1, HeldUnchanged DEF nodeVars
  <2>3. OncePerOrder' /\ NoCommandKept'
    BY <2>1, <2>2 DEF OnceInv, OncePerOrder, NoCommandKept, Sent
  <2> QED
    BY <1>1, <1>2, <2>1, <2>3 DEF OnceInv
<1> QED
  BY <1>4, <1>5, <1>6, <1>7, <1>8 DEF SystemNext

(* However often connections are lost, and wherever a restart command is
   when the node restarts: it is obeyed at most once for each time the
   broker sends it.                                                        *)
THEOREM RestartsOnceCorrect == SystemSpec => []RestartsOnce
<1>1. SystemInit => OnceInv
  BY InitOnce
<1>2. OnceInv /\ [SystemNext]_systemVars => OnceInv'
  BY StepOnce
<1>3. OnceInv => RestartsOnce
  <2> SUFFICES ASSUME OnceInv PROVE RestartsOnce
    OBVIOUS
  <2>1. /\ Count(nodeQueue) \in Nat /\ NodeHeld \in Nat
        /\ restarts \in Nat /\ orders \in Nat /\ again \in Nat
    BY HeldNat, PlacesFinite DEF OnceInv, BrokerOK
  <2> QED
    BY <2>1 DEF OnceInv, OncePerOrder, RestartsOnce, Sent
<1> QED
  BY <1>1, <1>2, <1>3, PTL DEF SystemSpec

=============================================================================
