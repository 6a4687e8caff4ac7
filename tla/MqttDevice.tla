------------------------------ MODULE MqttDevice ------------------------------
(***************************************************************************)
(* mqtt_hadilao.c: one ESP32 that receives MQTT messages.                  *)
(*                                                                         *)
(* Two tasks share a FreeRTOS ring buffer.  The esp-mqtt task runs         *)
(* mqtt_event_handler and, for every MQTT_EVENT_DATA, sends the payload to *)
(* the ring, waiting without limit when it is full.  mqtt_client_task      *)
(* receives a payload, writes a terminating zero behind it, parses it,     *)
(* acts on it and returns the item, which only then frees its space.       *)
(*                                                                         *)
(* The three firmwares differ in the constants below: see MCDevice.        *)
(***************************************************************************)
EXTENDS Naturals, Sequences

CONSTANTS
    Messages,       \* MQTT messages: records with a "kind" and "aligned"
    RingCapacity,   \* items the ring holds (4096 bytes in the code)
    HasConsumer,    \* mqtt_client_start creates mqtt_client_task
    ParsesAction,   \* mqtt_parse_data reads the key "action"
    Executes,       \* mqtt_client_task acts on the parsed "action"
    Reports,        \* what is published on every connection, in order
    InitialStatus,  \* status_blue after app_main has initialised it
    NetBound,       \* bound: messages on their way from the broker
    OutBound        \* bound: published messages not yet acknowledged

(* What a payload says, and what mqtt_client_task does on it:
     report     no "action", or one that is only logged
     close      action "close": status_blue = NOT_STATE
     restart    actions "cfg" and "AP": esp_restart()
     malformed  not JSON: mqtt_parse_data returns ESP_FAIL
     nonstring  a key that must hold a string holds something else: its
                valuestring is NULL and strlen(NULL) aborts
     overlong   a string that is longer than its field of mqtt_obj, which
                is copied all the same                                      *)
Kinds == {"report", "close", "restart", "malformed", "nonstring", "overlong"}

Commands == {"close", "restart"}

Status == {"NOT_STATE", "NORMAL_MODE"}

ASSUME DeviceAssumption ==
    /\ \A m \in Messages : m.kind \in Kinds /\ m.aligned \in BOOLEAN
    /\ RingCapacity \in Nat \ {0}
    /\ NetBound \in Nat \ {0}
    /\ OutBound \in Nat
    /\ Reports \in Seq(Messages)
    /\ HasConsumer \in BOOLEAN
    /\ ParsesAction \in BOOLEAN
    /\ Executes \in BOOLEAN
    /\ InitialStatus \in Status

VARIABLES
    phase,    \* how far mqtt_client_start has got since the last boot
    ringState,\* mqtt_ring_buf: "null", "sound", "corrupt" (the length of an
              \* item is overwritten) or "overrun" (some other memory is)
    ring,     \* items sent and not yet received, oldest first
    handler,  \* the message mqtt_event_handler is sending, as a sequence
    item,     \* the item mqtt_client_task holds, as a sequence
    pc,       \* where mqtt_client_task is
    obj,      \* mqtt_obj: what the last payload was parsed into
    status,   \* status_blue
    link,     \* "down", "up", or "dead": up for esp-mqtt only
    net,      \* messages on their way from the broker, oldest first
    outbox    \* esp-mqtt's outbox: published at QoS 1, not acknowledged

taskVars == <<item, pc, obj>>
linkVars == <<link, net, outbox>>
vars == <<phase, ringState, ring, handler, taskVars, status, linkVars>>

-----------------------------------------------------------------------------

(* An item received from a corrupt ring: its length was overwritten, so the
   task sees an empty payload, which is not JSON.                          *)
Garbage == [kind |-> "garbage", aligned |-> FALSE]

(* memset, then mqtt_parse_data: what is not JSON leaves mqtt_obj empty, and
   a parser that skips the key "action" makes a command look like a report;
   an over-long string is no command.                                      *)
Content(m) ==
    CASE m.kind \in {"malformed", "garbage"} -> "empty"
      [] m.kind \in Commands /\ ~ParsesAction -> "report"
      [] m.kind = "overlong" -> "report"
      [] OTHER -> m.kind

(* A received item keeps its space in the ring until it is returned.       *)
Occupied == Len(ring) + Len(item)

(* The state in which app_main calls mqtt_client_start.                    *)
Init ==
    /\ phase = "boot"
    /\ ringState = "null"
    /\ ring = <<>>
    /\ handler = <<>>
    /\ item = <<>>
    /\ pc = "receive"
    /\ obj = "empty"
    /\ status = InitialStatus
    /\ link = "down"
    /\ net = <<>>
    /\ outbox = <<>>

(* MUTANT: a restart that finds the ring as it was, the item the task held
   not being returned yet.                                                 *)
Reset_KeepsRing ==
    /\ phase' = "boot"
    /\ ring' = item \o ring
    /\ handler' = <<>>
    /\ item' = <<>>
    /\ pc' = "receive"
    /\ obj' = "empty"
    /\ status' = InitialStatus
    /\ link' = "down"
    /\ net' = <<>>
    /\ outbox' = <<>>
    /\ UNCHANGED ringState

(* esp_restart(), or the reset that follows an abort.                      *)
Reset ==
    /\ phase' = "boot"
    /\ ringState' = "null"
    /\ ring' = <<>>
    /\ handler' = <<>>
    /\ item' = <<>>
    /\ pc' = "receive"
    /\ obj' = "empty"
    /\ status' = InitialStatus
    /\ link' = "down"
    /\ net' = <<>>
    /\ outbox' = <<>>

-----------------------------------------------------------------------------
(* app_main: mqtt_client_start                                             *)

(* Create the ring, start the esp-mqtt task.  A ring that could not be
   created is only logged.                                                 *)
ClientStart ==
    /\ phase = "boot"
    /\ phase' = "started"
    /\ \E created \in BOOLEAN :
           ringState' = IF created THEN "sound" ELSE "null"
    /\ UNCHANGED <<ring, handler, taskVars, status, linkVars>>

(* MUTANT: the call of xTaskCreate is commented out.                       *)
CreateTask_CommentedOut == FALSE

(* xTaskCreate runs last: events may be dispatched before it.              *)
CreateTask ==
    /\ HasConsumer
    /\ phase = "started"
    /\ phase' = "running"
    /\ UNCHANGED <<ringState, ring, handler, taskVars, status, linkVars>>

-----------------------------------------------------------------------------
(* The broker and the network                                              *)

Deliver(m) ==
    /\ link = "up"
    /\ Len(net) < NetBound
    /\ net' = Append(net, m)
    /\ UNCHANGED <<phase, ringState, ring, handler, taskVars, status, link, outbox>>

(* The network fails, or the broker gives up on a silent client.           *)
LinkLost ==
    /\ link = "up"
    /\ link' = "dead"
    /\ UNCHANGED <<phase, ringState, ring, handler, taskVars, status, net, outbox>>

-----------------------------------------------------------------------------
(* The esp-mqtt task: mqtt_event_handler.  It dispatches no event while a  *)
(* previous one is blocked in xRingbufferSend.                             *)

MqttTaskFree == phase # "boot" /\ handler = <<>>

(* MQTT_EVENT_CONNECTED: subscribe, after which the broker delivers, and
   publish the reports: cJSON_mqtt_handler, cJSON_update_stt.              *)
Connected ==
    /\ MqttTaskFree
    /\ link = "down"
    /\ Len(outbox) + Len(Reports) <= OutBound
    /\ link' = "up"
    /\ outbox' = outbox \o Reports
    /\ UNCHANGED <<phase, ringState, ring, handler, taskVars, status, net>>

(* MQTT_EVENT_DISCONNECTED is only logged; the unread messages of the
   connection are gone, since the subscriptions are at QoS 0.              *)
Disconnected ==
    /\ MqttTaskFree
    /\ link = "dead"
    /\ link' = "down"
    /\ net' = <<>>
    /\ UNCHANGED <<phase, ringState, ring, handler, taskVars, status, outbox>>

(* The oldest publication is acknowledged (MQTT_EVENT_PUBLISHED is only
   logged), or has waited too long and esp-mqtt forgets it.                *)
OutboxDone ==
    /\ MqttTaskFree
    /\ outbox # <<>>
    /\ outbox' = Tail(outbox)
    /\ UNCHANGED <<phase, ringState, ring, handler, taskVars, status, link, net>>

(* MQTT_EVENT_DATA: enter xRingbufferSend, which asserts a ring.           *)
DataEvent ==
    /\ MqttTaskFree
    /\ net # <<>>
    /\ \/ /\ ringState # "null"
          /\ handler' = <<Head(net)>>
          /\ net' = Tail(net)
          /\ UNCHANGED <<phase, ringState, ring, taskVars, status, link, outbox>>
       \/ /\ ringState = "null"
          /\ Reset

(* MUTANT: only the unread items are counted, not the one being handled.   *)
Enqueue_ForgetsHeldItem ==
    /\ handler # <<>>
    /\ Len(ring) < RingCapacity
    /\ ring' = ring \o handler
    /\ handler' = <<>>
    /\ UNCHANGED <<phase, ringState, taskVars, status, linkVars>>

(* MUTANT: the send does not wait for room.                                *)
Enqueue_NoWait ==
    /\ handler # <<>>
    /\ ring' = IF Occupied < RingCapacity THEN ring \o handler ELSE ring
    /\ handler' = <<>>
    /\ UNCHANGED <<phase, ringState, taskVars, status, linkVars>>

(* xRingbufferSend(..., portMAX_DELAY) finds room and returns.             *)
Enqueue ==
    /\ handler # <<>>
    /\ Occupied < RingCapacity
    /\ ring' = ring \o handler
    /\ handler' = <<>>
    /\ UNCHANGED <<phase, ringState, taskVars, status, linkVars>>

-----------------------------------------------------------------------------
(* mqtt_client_task                                                        *)

(* xRingbufferReceive; with nothing to receive it times out and is called
   again.  The damaged length of an item of a corrupt ring either trips an
   assertion of the ring or makes the payload look empty.                  *)
Receive ==
    /\ phase = "running"
    /\ pc = "receive"
    /\ \/ /\ ringState \in {"sound", "overrun"} /\ ring # <<>>
          /\ item' = <<Head(ring)>>
          /\ ring' = Tail(ring)
          /\ pc' = "terminate"
          /\ UNCHANGED <<phase, ringState, handler, obj, status, linkVars>>
       \/ /\ ringState = "corrupt" /\ ring # <<>>
          /\ item' = <<Garbage>>
          /\ ring' = Tail(ring)
          /\ pc' = "terminate"
          /\ UNCHANGED <<phase, ringState, handler, obj, status, linkVars>>
       \/ /\ ringState = "null" \/ (ringState = "corrupt" /\ ring # <<>>)
          /\ Reset

(* mess_recv[mess_size] = '\0' lies in the padding of the item, unless its
   length is a multiple of the word size: then it is the first byte of the
   length of the next item, if there is one.                               *)
TerminatorDamages == Head(item).aligned /\ ring # <<>>

(* What is left of the ring when the item is parsed.  A terminator or a
   string that is written past its place may hit memory of other use: the
   former at the end of the ring's memory, the latter behind mqtt_obj on the
   task's stack.  Or it hits nothing that is read again.                   *)
RingAfter ==
    {ringState}
    \cup (IF TerminatorDamages THEN {"corrupt"} ELSE {})
    \cup (IF /\ ringState = "sound"
             /\ Head(item).aligned \/ Head(item).kind = "overlong"
          THEN {"overrun"} ELSE {})

(* MUTANT: mqtt_obj is not cleared before it is parsed into.               *)
Parse_NotCleared ==
    /\ pc = "terminate"
    /\ Head(item).kind # "nonstring"
    /\ ringState' \in RingAfter
    /\ obj' = IF Content(Head(item)) = "empty" THEN obj ELSE Content(Head(item))
    /\ pc' = "execute"
    /\ UNCHANGED <<phase, ring, handler, item, status, linkVars>>

(* Terminate the payload, clear mqtt_obj and parse into it.  An over-long
   string may also overwrite what the task needs to go on: it aborts.      *)
Parse ==
    /\ pc = "terminate"
    /\ \/ /\ Head(item).kind # "nonstring"
          /\ ringState' \in RingAfter
          /\ obj' = Content(Head(item))
          /\ pc' = "execute"
          /\ UNCHANGED <<phase, ring, handler, item, status, linkVars>>
       \/ /\ Head(item).kind \in {"nonstring", "overlong"}
          /\ Reset

(* MUTANT: the task gives up at a payload it could not parse.              *)
Execute_GivesUp ==
    /\ pc = "execute"
    /\ obj # "empty"
    /\ item' = <<>>
    /\ pc' = "receive"
    /\ UNCHANGED <<phase, ringState, ring, handler, obj, status, linkVars>>

(* Act on the parsed message, then return the item to the ring.            *)
Execute ==
    /\ pc = "execute"
    /\ \/ /\ ~(Executes /\ obj = "restart")
          /\ status' = IF Executes /\ obj = "close" THEN "NOT_STATE" ELSE status
          /\ item' = <<>>
          /\ pc' = "receive"
          /\ UNCHANGED <<phase, ringState, ring, handler, obj, linkVars>>
       \/ /\ Executes /\ obj = "restart"
          /\ Reset

(* Whoever uses the overwritten memory aborts, or damages the ring.        *)
MemoryFails ==
    /\ ringState = "overrun"
    /\ \/ /\ ringState' = "corrupt"
          /\ UNCHANGED <<phase, ring, handler, taskVars, status, linkVars>>
       \/ Reset

-----------------------------------------------------------------------------

MqttTask == Connected \/ Disconnected \/ OutboxDone \/ DataEvent \/ Enqueue
ClientTask == Receive \/ Parse \/ Execute
Broker == LinkLost \/ \E m \in Messages : Deliver(m)

Next == ClientStart \/ CreateTask \/ MqttTask \/ ClientTask \/ MemoryFails \/ Broker

Spec == Init /\ [][Next]_vars

(* The scheduler runs every task that is ready: app_main and the consumer
   always get to run, and a blocked send returns once there is room, as
   long as the ring is not damaged.  esp-mqtt notices a dead connection by
   its keep-alive.  Nothing is assumed of the broker or of the network.    *)
Fairness == /\ WF_vars(ClientStart)
            /\ WF_vars(CreateTask)
            /\ WF_vars(Disconnected)
            /\ WF_vars(DataEvent)
            /\ WF_vars(ringState = "sound" /\ Enqueue)
            /\ WF_vars(ClientTask)

FairSpec == Spec /\ Fairness

-----------------------------------------------------------------------------
(* Properties                                                              *)

(* The state stays in its types; in particular the event handler never has
   more than one message in hand, and the items in the ring together with
   the one still held by the consumer never exceed its capacity.           *)
TypeOK ==
    /\ phase \in {"boot", "started", "running"}
    /\ ringState \in {"null", "sound", "corrupt", "overrun"}
    /\ ring \in Seq(Messages)
    /\ handler \in Seq(Messages) /\ Len(handler) <= 1
    /\ item \in Seq(Messages \cup {Garbage}) /\ Len(item) <= 1
    /\ Occupied <= RingCapacity
    /\ pc \in {"receive", "terminate", "execute"}
    /\ obj \in {"report", "close", "restart", "empty"}
    /\ status \in Status
    /\ link \in {"down", "up", "dead"}
    /\ net \in Seq(Messages) /\ Len(net) <= NetBound
    /\ outbox \in Seq(Messages) /\ Len(outbox) <= OutBound

(* Messages accepted but not yet handled, oldest first: the one received
   and not yet parsed, those in the ring, the one waiting to enter it.     *)
Pending == (IF pc = "terminate" THEN item ELSE <<>>) \o ring \o handler

(* No write of the task has hit what is not its own.                       *)
Undamaged == ringState \in {"null", "sound"}

Inbox == INSTANCE OrderedInbox
             WITH pending <- Pending, sound <- Undamaged, Bound <- RingCapacity + 1

(* The device handles what it accepts in order, each message once, and only
   a restart that a message asks for or forces throws accepted messages
   away: until it handles a payload of aligned length or with an over-long
   string, each of which may damage its memory.                            *)
ImplementsInbox == Inbox!Spec

(* Everything accepted is handled, unless the device restarts first or its
   memory is damaged.                                                      *)
InboxDrains == Inbox!Fairness

(* mqtt_event_handler, and with it the whole esp-mqtt task, is never stuck
   for good in the send that waits without limit, unless memory is damaged. *)
HandlerReturns == []<>(handler = <<>> \/ ~Undamaged)

(* A connection the broker has given up is noticed, whatever the event
   handler is waiting for, unless memory is damaged.                       *)
DeadLinkNoticed == link = "dead" ~> link = "down" \/ ~Undamaged

(* README.md, "Receive .conf data from user": a message the event handler
   is given reaches mqtt_client_task, or the device restarts.              *)
ReceivedIsHandled ==
    \A m \in Messages : handler = <<m>> ~> item = <<m>> \/ phase = "boot"

(* README.md, the same line: what the task handles is what was sent.       *)
HandledAsSent == \A i \in 1..Len(item) : item[i] \in Messages

=============================================================================
