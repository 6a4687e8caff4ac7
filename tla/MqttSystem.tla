------------------------------ MODULE MqttSystem ------------------------------
(***************************************************************************)
(* A gateway, a node and the broker between them.  The node publishes a    *)
(* report on every connection, with the retain flag and at QoS 1, on the   *)
(* topic both subscribe to; a user publishes commands to the node.         *)
(*                                                                         *)
(* The gateway is the MqttDevice this module EXTENDS, the node an INSTANCE *)
(* of it.  The broker is external.                                         *)
(***************************************************************************)
EXTENDS MqttDevice

CONSTANTS
    NodeHasConsumer,  \* the node's mqtt_client_start creates its task
    NodeReports,      \* what the node publishes on every connection
    NodeOutBound,     \* bound: its published messages not yet acknowledged
    UserCommands,     \* what the user may publish on the node's topic
    MaxOrders,        \* bound: commands the user publishes
    MaxAgain          \* bound: retained restart commands sent again

ASSUME SystemAssumption ==
    /\ NodeHasConsumer \in BOOLEAN
    /\ NodeReports \in Seq(Messages) /\ UserCommands \subseteq Messages
    /\ \A i \in 1..Len(NodeReports) : NodeReports[i].kind # "restart"
    /\ NodeOutBound \in Nat /\ MaxOrders \in Nat /\ MaxAgain \in Nat

VARIABLES
    nodePhase, nodeRingState, nodeRing, nodeHandler, nodeItem, nodePc, nodeObj,
    nodeStatus, nodeLink, nodeNet, nodeOutbox,
    received,     \* messages of the node's outbox the broker has received
                  \* on this connection and not yet acknowledged
    retained,     \* the broker's retained message of each topic, if any
    gatewayQueue, \* what the broker has still to send to the gateway,
    nodeQueue,    \* and to the node
    topicEnds,    \* in this build a zero follows topic_commands_data[20]
    published,    \* history: a report has reached the broker
    orders,       \* commands the user has published
    again,        \* history: restart commands sent to the node once more,
                  \* because the broker had retained them
    restarts      \* history: restarts of the node that a command caused

Node == INSTANCE MqttDevice WITH
    phase <- nodePhase, ringState <- nodeRingState, ring <- nodeRing,
    handler <- nodeHandler, item <- nodeItem, pc <- nodePc, obj <- nodeObj,
    status <- nodeStatus, link <- nodeLink, net <- nodeNet, outbox <- nodeOutbox,
    HasConsumer <- NodeHasConsumer, ParsesAction <- TRUE, Executes <- TRUE,
    Reports <- NodeReports, OutBound <- NodeOutBound

nodeVars == <<nodePhase, nodeRingState, nodeRing, nodeHandler, nodeItem, nodePc,
              nodeObj, nodeStatus, nodeLink, nodeNet, nodeOutbox>>
brokerVars == <<received, retained, gatewayQueue, nodeQueue, published>>
userVars == <<orders, again, restarts>>
systemVars == <<vars, nodeVars, brokerVars, userVars, topicEnds>>

(* topic_commands_data and topic_commands_upgrade, and what the node's first
   topic is if it runs on into the memory behind it: its 20 characters leave
   no room for a terminating zero, so that what follows it in memory decides.
   The gateway's is 25 bytes long.                                         *)
Topics == {"response", "receive", "response..."}

NodeTopic == IF topicEnds THEN "response" ELSE "response..."

-----------------------------------------------------------------------------
(* The broker                                                              *)

(* It queues a message for a subscriber, unless the queue is full: the
   subscriptions are at QoS 0.                                             *)
Queued(queue, m) == IF Len(queue) < NetBound THEN Append(queue, m) ELSE queue

(* MUTANT: esp_mqtt_client_publish is called with retain = 0.              *)
NodeRetains_Not == FALSE

(* cJSON_update_stt publishes with retain = 1.                             *)
NodeRetains == TRUE

(* A message arrives at the broker: it is kept, if it says so, and goes to
   whoever is connected and subscribed to the topic.                       *)
Publish(topic, m, retain) ==
    /\ retained' = IF retain THEN [retained EXCEPT ![topic] = <<m>>] ELSE retained
    /\ gatewayQueue' = IF topic = "response" /\ link = "up"
                       THEN Queued(gatewayQueue, m) ELSE gatewayQueue
    /\ nodeQueue' = IF topic \in {NodeTopic, "receive"} /\ nodeLink = "up"
                    THEN Queued(nodeQueue, m) ELSE nodeQueue

(* The oldest message of the outbox that has not been sent on this
   connection arrives.                                                     *)
ReportArrives ==
    /\ nodeLink = "up"
    /\ received < Len(nodeOutbox)
    /\ received' = received + 1
    /\ published' = TRUE
    /\ Publish(NodeTopic, nodeOutbox[received + 1], NodeRetains)
    /\ UNCHANGED <<vars, nodeVars, userVars, topicEnds>>

(* With the retain flag or without: the node's handler does not look at the
   flag of what it receives.                                               *)
UserPublishes(m, retain) ==
    /\ orders < MaxOrders
    /\ orders' = orders + 1
    /\ Publish("receive", m, retain)
    /\ UNCHANGED <<vars, nodeVars, received, published, again, restarts, topicEnds>>

SendToGateway ==
    /\ gatewayQueue # <<>>
    /\ Deliver(Head(gatewayQueue))
    /\ gatewayQueue' = Tail(gatewayQueue)
    /\ UNCHANGED <<nodeVars, received, retained, nodeQueue, published, userVars, topicEnds>>

SendToNode ==
    /\ nodeQueue # <<>>
    /\ Node!Deliver(Head(nodeQueue))
    /\ nodeQueue' = Tail(nodeQueue)
    /\ UNCHANGED <<vars, received, retained, gatewayQueue, published, userVars, topicEnds>>

-----------------------------------------------------------------------------
(* The devices.  A new connection subscribes, and is sent what is          *)
(* retained; what was queued for an old one is gone.                       *)

Sessions(queue, before, after, kept) ==
    CASE before # "up" /\ after = "up" -> kept
      [] after # "up" -> <<>>
      [] OTHER -> queue

GatewayMoves ==
    /\ ClientStart \/ CreateTask \/ MqttTask \/ ClientTask \/ MemoryFails \/ LinkLost
    /\ gatewayQueue' = Sessions(gatewayQueue, link, link', retained["response"])
    /\ UNCHANGED <<nodeVars, received, retained, nodeQueue, published, userVars, topicEnds>>

(* The node is sent a retained restart command when it connects.           *)
SentAgain ==
    /\ nodeLink # "up" /\ nodeLink' = "up"
    /\ \E m \in Messages : m.kind = "restart" /\ retained["receive"] = <<m>>

(* A report that the broker has received is acknowledged; one that it has
   not is given up only while there is no connection.                      *)
NodeMoves ==
    /\ \/ /\ Node!ClientStart \/ Node!CreateTask \/ Node!ClientTask \/ Node!DataEvent
             \/ Node!Connected \/ Node!Disconnected \/ Node!Enqueue
             \/ Node!MemoryFails \/ Node!LinkLost
          /\ received' = IF nodeLink' = "up" THEN received ELSE 0
       \/ /\ nodeLink # "up" \/ received > 0
          /\ Node!OutboxDone
          /\ received' = IF received > 0 THEN received - 1 ELSE 0
    /\ nodeQueue' = Sessions(nodeQueue, nodeLink, nodeLink',
                             retained[NodeTopic] \o retained["receive"])
    /\ again' = IF SentAgain THEN again + 1 ELSE again
    /\ again' <= MaxAgain
    /\ restarts' = IF Node!Execute /\ nodePhase' = "boot" THEN restarts + 1 ELSE restarts
    /\ UNCHANGED <<vars, retained, gatewayQueue, published, orders, topicEnds>>

-----------------------------------------------------------------------------

SystemInit ==
    /\ Init /\ Node!Init
    /\ received = 0
    /\ retained = [t \in Topics |-> <<>>]
    /\ gatewayQueue = <<>> /\ nodeQueue = <<>>
    /\ topicEnds \in BOOLEAN
    /\ published = FALSE
    /\ orders = 0 /\ again = 0 /\ restarts = 0

SystemNext ==
    \/ GatewayMoves \/ NodeMoves
    \/ ReportArrives \/ SendToGateway \/ SendToNode
    \/ \E m \in UserCommands, retain \in BOOLEAN : UserPublishes(m, retain)

(* Both devices' schedulers are fair (see MqttDevice), and the broker sends
   what it has queued.  Nothing is assumed of connections.                 *)
SystemSpec ==
    /\ SystemInit /\ [][SystemNext]_systemVars
    /\ WF_systemVars(SendToGateway)
    /\ WF_systemVars(GatewayMoves /\ DataEvent)
    /\ WF_systemVars(GatewayMoves /\ Enqueue)
    /\ WF_systemVars(GatewayMoves /\ ClientTask)
    /\ WF_systemVars(GatewayMoves /\ CreateTask)

-----------------------------------------------------------------------------
(* Properties                                                              *)

(* The devices' types, and the broker's.                                   *)
SystemTypeOK ==
    /\ TypeOK /\ Node!TypeOK
    /\ received \in 0..Len(nodeOutbox)
    /\ retained \in [Topics -> {<<>>} \cup {<<m>> : m \in Messages}]

(* The node obeys a restart command once each time the broker sends it,
   whatever connections are lost in between: nothing of a command survives
   the restart it causes.  The broker sends a command once more when the
   user had it retained and the node connects anew.                        *)
RestartsOnce == restarts <= orders + again

(* A gateway that stays connected gets to know a report that has once reached
   the broker, even if it connects long after the node has published it and
   has gone: in a build in which a zero happens to follow the node's topic. *)
GatewayLearns ==
    published /\ topicEnds /\ link = "up" ~> obj = "report" \/ link # "up"

(* README.md, "Response data from Node": what the node publishes is the
   response topic's, which the gateway reads, in every build.              *)
NodeReportsArrive ==
    published /\ link = "up" ~> obj = "report" \/ link # "up"

=============================================================================
