--------------------------- MODULE MqttDeviceProofs ---------------------------
(***************************************************************************)
(* Proofs about MqttDevice, for every set of messages, ring capacity,      *)
(* bound and firmware: type correctness, that a device implements          *)
(* OrderedInbox, and how many restart commands a device holds, from the    *)
(* network to mqtt_client_task: no step but a delivery adds one, and a     *)
(* restart that a command causes leaves one less.                          *)
(***************************************************************************)
EXTENDS MqttDevice, SequenceTheorems, FiniteSetTheorems, TLAPS

-----------------------------------------------------------------------------
(* The inductive invariant                                                 *)

(* The task holds an item exactly while it works on one, and only when it
   exists.                                                                 *)
Holding == /\ pc = "receive" <=> item = <<>>
           /\ item # <<>> => phase = "running"

(* Without a ring nothing was ever accepted.                               *)
NothingWithoutRing ==
    ringState = "null" => /\ ring = <<>>
                          /\ handler = <<>>
                          /\ item = <<>>
                          /\ obj = "empty"

(* Before mqtt_client_start there is neither a ring nor a connection.      *)
NothingAtBoot ==
    phase = "boot" => ringState = "null" /\ link = "down" /\ outbox = <<>>

(* Without a connection nothing is on its way.                             *)
NothingOffline == link = "down" => net = <<>>

(* What the task acts on is what it has parsed from the item it holds.     *)
ActsOnItem == pc = "execute" => obj = Content(Head(item))

(* A parsed command to restart is the one in hand.                         *)
RestartAtOnce == Executes /\ obj = "restart" => pc = "execute"

(* Without damage only messages come out of the ring.                      *)
ItemSound == Undamaged => item \in Seq(Messages)

IInv == /\ TypeOK
        /\ Holding
        /\ NothingWithoutRing
        /\ NothingAtBoot
        /\ NothingOffline
        /\ ActsOnItem
        /\ RestartAtOnce
        /\ ItemSound

-----------------------------------------------------------------------------
(* Sequences                                                               *)

(* A sequence of at most one element is empty or a singleton.              *)
LEMMA AtMostOne ==
    ASSUME NEW S, NEW s \in Seq(S), Len(s) <= 1, s # <<>>
    PROVE  s = <<Head(s)>> /\ Head(s) \in S
<1>1. Len(s) = 1 /\ Head(s) \in S
  <2>1. Head(s) \in S
    BY HeadTailProperties
  <2>2. Len(s) \in Nat /\ Len(s) # 0
    BY LenProperties, EmptySeq
  <2>3. Len(s) = 1
    BY <2>2, SMTT(30)
  <2> QED
    BY <2>1, <2>3
<1>2. <<Head(s)>> \in Seq(S) /\ Len(<<Head(s)>>) = 1
  BY <1>1
<1>3. s[1] = <<Head(s)>>[1]
  OBVIOUS
<1> QED
  BY <1>1, <1>2, <1>3, SeqEqual

(* What the constants are, for the steps that do not look into messages.   *)
LEMMA Constants ==
    /\ RingCapacity \in Nat /\ RingCapacity >= 1
    /\ NetBound \in Nat /\ NetBound >= 1
    /\ OutBound \in Nat
    /\ Reports \in Seq(Messages)
    /\ InitialStatus \in Status
  BY DeviceAssumption

LEMMA Empty ==
    /\ <<>> \in Seq(Messages)
    /\ <<>> \in Seq(Messages \cup {Garbage})
    /\ Len(<<>>) = 0
  OBVIOUS

(* A non-empty sequence is its head followed by its tail.                  *)
LEMMA HeadTail ==
    ASSUME NEW S, NEW s \in Seq(S), s # <<>>
    PROVE  /\ Head(s) \in S
           /\ Tail(s) \in Seq(S)
           /\ s = <<Head(s)>> \o Tail(s)
  BY HeadTailProperties

(* The head and the tail of a message followed by other messages.          *)
LEMMA HeadTailOfConcat ==
    ASSUME NEW S, NEW e \in S, NEW s \in Seq(S)
    PROVE  /\ <<e>> \o s # <<>>
           /\ Head(<<e>> \o s) = e
           /\ Tail(<<e>> \o s) = s
  OBVIOUS

(* A message that is parsed leaves behind a value of mqtt_obj's type.      *)
LEMMA ContentType ==
    ASSUME NEW m \in Messages \cup {Garbage}, m.kind # "nonstring"
    PROVE  Content(m) \in {"report", "close", "restart", "empty"}
  BY DeviceAssumption DEF Content, Garbage, Kinds, Commands

-----------------------------------------------------------------------------
(* Every step preserves the invariant                                      *)

LEMMA InitInv == Init => IInv
<1> SUFFICES ASSUME Init PROVE IInv
  OBVIOUS
<1> QED
  BY Constants, Empty
     DEF Init, IInv, TypeOK, Occupied, Holding, NothingWithoutRing, NothingAtBoot,
         NothingOffline, ActsOnItem, RestartAtOnce,
           ItemSound, Undamaged, Kinds, Status

(* A restart leads to a state like the first one.                          *)
LEMMA ResetInv == Reset => IInv'
<1> SUFFICES ASSUME Reset PROVE IInv'
  OBVIOUS
<1> QED
  BY Constants, Empty
     DEF Reset, IInv, TypeOK, Occupied, Holding, NothingWithoutRing, NothingAtBoot,
         NothingOffline, ActsOnItem, RestartAtOnce,
           ItemSound, Undamaged, Kinds, Status

LEMMA StepInv == IInv /\ [Next]_vars => IInv'
<1> SUFFICES ASSUME IInv, [Next]_vars PROVE IInv'
  OBVIOUS
<1> USE DEF IInv
<1>1. CASE ClientStart
  BY <1>1 DEF ClientStart, taskVars, linkVars, TypeOK, Occupied, Holding,
      NothingWithoutRing, NothingAtBoot, NothingOffline, ActsOnItem, RestartAtOnce,
           ItemSound, Undamaged
<1>2. CASE CreateTask
  BY <1>2 DEF CreateTask, taskVars, linkVars, TypeOK, Occupied, Holding,
      NothingWithoutRing, NothingAtBoot, NothingOffline, ActsOnItem, RestartAtOnce,
           ItemSound, Undamaged
<1>3. ASSUME NEW m \in Messages, Deliver(m) PROVE IInv'
  <2>1. TypeOK'
    BY <1>3, AppendProperties, Constants
       DEF Deliver, taskVars, linkVars, TypeOK, Occupied, Holding
  <2>2. Holding' /\ NothingWithoutRing' /\ NothingAtBoot' /\ NothingOffline'
    BY <1>3, AppendProperties, Constants
       DEF Deliver, taskVars, linkVars, TypeOK, Holding, NothingWithoutRing,
           NothingAtBoot, NothingOffline
  <2>3. ActsOnItem' /\ RestartAtOnce' /\ ItemSound'
    BY <1>3, AppendProperties, Constants
       DEF Deliver, taskVars, linkVars, TypeOK, Holding, NothingWithoutRing, ActsOnItem, RestartAtOnce,
           ItemSound, Undamaged
  <2> QED
    BY <2>1, <2>2, <2>3
<1>4. CASE LinkLost
  BY <1>4 DEF LinkLost, taskVars, linkVars, TypeOK, Occupied, Holding,
      NothingWithoutRing, NothingAtBoot, NothingOffline, ActsOnItem, RestartAtOnce,
           ItemSound, Undamaged
<1>5. CASE Connected
  BY <1>5, Constants, ConcatProperties
     DEF Connected, MqttTaskFree, taskVars, linkVars, TypeOK, Occupied, Holding,
      NothingWithoutRing, NothingAtBoot, NothingOffline, ActsOnItem, RestartAtOnce,
           ItemSound, Undamaged
<1>6. CASE Disconnected
  <2>1. TypeOK'
    BY <1>6, Empty, Constants
       DEF Disconnected, taskVars, linkVars, TypeOK, Occupied, Holding
  <2>2. Holding' /\ NothingWithoutRing' /\ NothingAtBoot' /\ NothingOffline'
    BY <1>6, Empty, Constants
       DEF Disconnected, taskVars, linkVars, TypeOK, Holding, NothingWithoutRing,
           NothingAtBoot, NothingOffline
  <2>3. ActsOnItem' /\ RestartAtOnce' /\ ItemSound'
    BY <1>6, Empty, Constants
       DEF Disconnected, taskVars, linkVars, TypeOK, Holding, NothingWithoutRing, ActsOnItem, RestartAtOnce,
           ItemSound, Undamaged
  <2> QED
    BY <2>1, <2>2, <2>3
<1>7. CASE OutboxDone
  <2>1. TypeOK'
    BY <1>7, HeadTailProperties, Constants
       DEF OutboxDone, MqttTaskFree, taskVars, linkVars, TypeOK, Occupied, Holding
  <2>2. Holding' /\ NothingWithoutRing' /\ NothingAtBoot' /\ NothingOffline'
    BY <1>7, HeadTailProperties, Constants
       DEF OutboxDone, MqttTaskFree, taskVars, linkVars, TypeOK, Holding, NothingWithoutRing,
           NothingAtBoot, NothingOffline
  <2>3. ActsOnItem' /\ RestartAtOnce' /\ ItemSound'
    BY <1>7, HeadTailProperties, Constants
       DEF OutboxDone, MqttTaskFree, taskVars, linkVars, TypeOK, Holding, NothingWithoutRing, ActsOnItem, RestartAtOnce,
           ItemSound, Undamaged
  <2> QED
    BY <2>1, <2>2, <2>3
<1>8. CASE DataEvent
  <2>1. CASE Reset
    BY <2>1, ResetInv
  <2>2. CASE ~Reset
    <3>1. Head(net) \in Messages /\ Tail(net) \in Seq(Messages) /\ Len(Tail(net)) <= NetBound
      BY <1>8, HeadTailProperties, LenProperties, Constants DEF DataEvent, TypeOK
    <3>2. <<Head(net)>> \in Seq(Messages) /\ Len(<<Head(net)>>) = 1
      BY <3>1
    <3>3. /\ handler' = <<Head(net)>> /\ net' = Tail(net)
          /\ UNCHANGED <<phase, ringState, ring, taskVars, status, link, outbox>>
      BY <1>8, <2>2 DEF DataEvent
    <3>4. TypeOK'
      BY <3>1, <3>2, <3>3 DEF taskVars, TypeOK, Occupied
    <3>5. Holding' /\ NothingWithoutRing' /\ NothingAtBoot' /\ NothingOffline'
      BY <1>8, <2>2, HeadTailProperties, Constants
         DEF DataEvent, MqttTaskFree, taskVars, linkVars, TypeOK, Holding, NothingWithoutRing,
             NothingAtBoot, NothingOffline
    <3>6. ActsOnItem' /\ RestartAtOnce' /\ ItemSound'
      BY <1>8, <2>2, HeadTailProperties, Constants
         DEF DataEvent, MqttTaskFree, taskVars, linkVars, TypeOK, Holding, NothingWithoutRing, ActsOnItem, RestartAtOnce,
           ItemSound, Undamaged
    <3> QED
      BY <3>4, <3>5, <3>6
  <2> QED
    BY <2>1, <2>2
<1>9. CASE Enqueue
  BY <1>9, ConcatProperties, Empty, Constants
     DEF Enqueue, taskVars, linkVars, TypeOK, Occupied, Holding,
      NothingWithoutRing, NothingAtBoot, NothingOffline, ActsOnItem, RestartAtOnce,
           ItemSound, Undamaged
<1>10. CASE Receive
  <2>1. CASE Reset
    BY <2>1, ResetInv
  <2>2. CASE ~Reset
    <3>1. PICK m \in Messages \cup {Garbage} :
              item' = <<m>> /\ pc' = "terminate" /\ ring' = Tail(ring) /\ ring # <<>>
      BY <1>10, <2>2, HeadTailProperties DEF Receive, TypeOK
    <3>2. /\ phase = "running" /\ ringState # "null" /\ pc = "receive"
          /\ UNCHANGED <<phase, ringState, handler, obj, status, linkVars>>
      BY <1>10, <2>2 DEF Receive, TypeOK
    <3>3. item' \in Seq(Messages \cup {Garbage}) /\ Len(item') = 1 /\ item' # <<>>
      BY <3>1
    <3>4. ring' \in Seq(Messages) /\ Len(ring') = Len(ring) - 1 /\ Len(ring) \in Nat
      BY <3>1, HeadTailProperties, LenProperties DEF TypeOK
    <3>5. Len(item) \in Nat
      BY LenProperties DEF TypeOK
    <3>6. TypeOK'
      BY <3>1, <3>2, <3>3, <3>4, <3>5, Constants DEF TypeOK, Occupied, linkVars
    <3>7. Holding' /\ NothingWithoutRing' /\ NothingAtBoot' /\ NothingOffline'
      BY <3>1, <3>2, <3>3
         DEF linkVars, Holding, NothingWithoutRing, NothingAtBoot, NothingOffline
    <3>8. ActsOnItem' /\ RestartAtOnce'
      BY <3>1, <3>2 DEF ActsOnItem, RestartAtOnce
    <3>9. ItemSound'
      <4>1. CASE ringState = "corrupt"
        BY <3>2, <4>1 DEF ItemSound, Undamaged
      <4>2. CASE ringState # "corrupt"
        <5>1. Head(ring) \in Messages /\ item' = <<Head(ring)>>
          BY <1>10, <2>2, <3>2, <4>2, HeadTailProperties DEF Receive, TypeOK
        <5> QED
          BY <5>1 DEF ItemSound
      <4> QED
        BY <4>1, <4>2
    <3> QED
      BY <3>6, <3>7, <3>8, <3>9
  <2> QED
    BY <2>1, <2>2
<1>11. CASE Parse
  <2>1. CASE Reset
    BY <2>1, ResetInv
  <2>2. CASE ~Reset
    <3>1. /\ Head(item).kind # "nonstring" /\ ringState' \in RingAfter
          /\ obj' = Content(Head(item)) /\ pc = "terminate" /\ pc' = "execute"
          /\ UNCHANGED <<phase, ring, handler, item, status, linkVars>>
      BY <1>11, <2>2 DEF Parse
    <3>2. Head(item) \in Messages \cup {Garbage} /\ item # <<>>
      BY <3>1, HeadTailProperties DEF TypeOK, Holding
    <3>3. obj' \in {"report", "close", "restart", "empty"}
      BY <3>1, <3>2, ContentType
    <3>4. ringState # "null" /\ phase = "running"
      BY <3>2 DEF NothingWithoutRing, Holding
    <3>5. /\ ringState' \in {"sound", "corrupt", "overrun"}
          /\ Undamaged' => Undamaged
      BY <3>1, <3>4 DEF RingAfter, TypeOK, Undamaged
    <3>6. TypeOK' /\ Holding'
      BY <3>1, <3>3, <3>5 DEF TypeOK, Holding, Occupied, linkVars
    <3>7. NothingWithoutRing' /\ NothingAtBoot' /\ NothingOffline'
      BY <3>1, <3>4, <3>5 DEF NothingWithoutRing, NothingAtBoot, NothingOffline, linkVars
    <3>8. ActsOnItem' /\ RestartAtOnce' /\ ItemSound'
      BY <3>1, <3>5 DEF ActsOnItem, RestartAtOnce, ItemSound, Content
    <3> QED
      BY <3>6, <3>7, <3>8
  <2> QED
    BY <2>1, <2>2
<1>12. CASE Execute
  <2>1. CASE Reset
    BY <2>1, ResetInv
  <2>2. CASE ~Reset
    <3>1. Len(ring) \in Nat /\ Len(item) \in Nat
      BY LenProperties DEF TypeOK
    <3>2. /\ item' = <<>> /\ pc' = "receive" /\ status' \in Status
          /\ UNCHANGED <<phase, ringState, ring, handler, obj, linkVars>>
      BY <1>12, <2>2 DEF Execute, TypeOK, Status
    <3>3. TypeOK'
      BY <3>1, <3>2, Empty, Constants DEF linkVars, TypeOK, Occupied
    <3>4. Holding' /\ NothingWithoutRing' /\ NothingAtBoot' /\ NothingOffline'
      BY <1>12, <2>2, Empty, Constants
         DEF Execute, Status, taskVars, linkVars, TypeOK, Holding, NothingWithoutRing,
             NothingAtBoot, NothingOffline
    <3>5. ActsOnItem' /\ RestartAtOnce' /\ ItemSound'
      BY <1>12, <2>2, Empty, Constants
         DEF Execute, Status, taskVars, linkVars, TypeOK, Holding, NothingWithoutRing, ActsOnItem, RestartAtOnce,
           ItemSound, Undamaged
    <3> QED
      BY <3>3, <3>4, <3>5
  <2> QED
    BY <2>1, <2>2
<1>14. CASE MemoryFails
  <2>1. CASE Reset
    BY <2>1, ResetInv
  <2>2. CASE ~Reset
    BY <1>14, <2>2
       DEF MemoryFails, taskVars, linkVars, TypeOK, Occupied, Holding, NothingWithoutRing,
           NothingAtBoot, NothingOffline, ActsOnItem, RestartAtOnce, ItemSound, Undamaged
  <2> QED
    BY <2>1, <2>2
<1>13. CASE UNCHANGED vars
  BY <1>13 DEF vars, taskVars, linkVars, TypeOK, Occupied, Holding,
      NothingWithoutRing, NothingAtBoot, NothingOffline, ActsOnItem, RestartAtOnce,
           ItemSound, Undamaged
<1> QED
  BY <1>1, <1>2, <1>3, <1>4, <1>5, <1>6, <1>7, <1>8, <1>9, <1>10, <1>11, <1>12, <1>13, <1>14
     DEF Next, MqttTask, ClientTask, Broker

THEOREM Invariance == Spec => []IInv
  BY InitInv, StepInv, PTL DEF Spec

-----------------------------------------------------------------------------
(* Implementing OrderedInbox                                               *)

LEMMA PendingType ==
    IInv /\ Undamaged => /\ Pending \in Seq(Messages)
                     /\ Len(Pending) <= Occupied + Len(handler)
<1> SUFFICES ASSUME IInv, Undamaged
             PROVE  Pending \in Seq(Messages) /\ Len(Pending) <= Occupied + Len(handler)
  OBVIOUS
<1> DEFINE held == IF pc = "terminate" THEN item ELSE <<>>
<1>1. held \in Seq(Messages) /\ Len(held) \in Nat /\ Len(held) <= Len(item)
  BY Empty, LenProperties DEF IInv, ItemSound
<1>2. ring \in Seq(Messages) /\ handler \in Seq(Messages)
  BY DEF IInv, TypeOK
<1>3. Len(ring) \in Nat /\ Len(handler) \in Nat /\ Len(item) \in Nat
  BY <1>2, LenProperties DEF IInv, ItemSound
<1>4. held \o ring \in Seq(Messages) /\ Len(held \o ring) = Len(held) + Len(ring)
  BY <1>1, <1>2, ConcatProperties
<1>5. /\ (held \o ring) \o handler \in Seq(Messages)
      /\ Len((held \o ring) \o handler) = Len(held) + Len(ring) + Len(handler)
  BY <1>1, <1>2, <1>3, <1>4, ConcatProperties
<1> QED
  BY <1>1, <1>3, <1>5 DEF Pending, Occupied

(* A restart leaves nothing pending.                                       *)
LEMMA ResetEmpties == Reset => Pending' = <<>> /\ obj' = "empty" /\ Undamaged' = TRUE
  BY Empty, ConcatEmptySeq DEF Reset, Pending, Undamaged

(* Without a ring nothing is pending, so a restart changes nothing.        *)
LEMMA ResetWithoutRing ==
    IInv /\ ringState = "null" /\ Reset => UNCHANGED <<Pending, obj, Undamaged>>
<1> SUFFICES ASSUME IInv, ringState = "null", Reset
             PROVE  UNCHANGED <<Pending, obj, Undamaged>>
  OBVIOUS
<1>1. Pending = <<>> /\ obj = "empty" /\ Undamaged = TRUE
  BY Empty, ConcatEmptySeq DEF IInv, NothingWithoutRing, Pending, Undamaged
<1> QED
  BY <1>1, ResetEmpties

LEMMA InboxInit == Init => Inbox!Init
  BY Empty, ConcatEmptySeq DEF Init, Inbox!Init, Pending, Undamaged

(* With damaged memory every step is one of a device astray: only a restart
   mends the memory, and that leaves nothing pending.                      *)
LEMMA DamagedStep ==
    ASSUME IInv, ~Undamaged, [Next]_vars
    PROVE  Inbox!Next \/ UNCHANGED <<Pending, obj, Undamaged>>
<1>1. Undamaged = FALSE
  BY DEF Undamaged
<1>2. CASE Reset
  BY <1>1, <1>2, ResetEmpties DEF Inbox!Next, Inbox!Astray
<1>3. CASE ~Reset
  <2>1. ringState \in {"corrupt", "overrun"}
    BY DEF Undamaged, IInv, TypeOK
  <2>2. CASE Parse
    <3>1. ringState' \in RingAfter
      BY <1>3, <2>2 DEF Parse
    <3>2. ringState' \in {"corrupt", "overrun"}
      BY <2>1, <3>1 DEF RingAfter
    <3> QED
      BY <1>1, <3>2 DEF Inbox!Next, Inbox!Astray, Undamaged
  <2>3. CASE ~Parse
    <3>1. phase # "boot"
      BY <2>1 DEF IInv, NothingAtBoot
    <3>2. ringState' \in {"corrupt", "overrun"}
      BY <1>3, <2>1, <2>3, <3>1
         DEF Next, MqttTask, ClientTask, Broker, ClientStart, CreateTask, Deliver, LinkLost,
             Connected, Disconnected, OutboxDone, DataEvent, Enqueue, Receive, Execute,
             MemoryFails, vars
    <3> QED
      BY <1>1, <3>2 DEF Inbox!Next, Inbox!Astray, Undamaged
  <2> QED
    BY <2>2, <2>3
<1> QED
  BY <1>2, <1>3

(* Every step of the device is a step of the inbox, or none.               *)
LEMMA InboxStep == IInv /\ [Next]_vars => [Inbox!Next]_(Inbox!inboxVars)
<1> SUFFICES ASSUME IInv, [Next]_vars
             PROVE  Inbox!Next \/ UNCHANGED <<Pending, obj, Undamaged>>
  BY DEF Inbox!inboxVars
<1>d. CASE ~Undamaged
  BY <1>d, DamagedStep
<1> SUFFICES ASSUME Undamaged
             PROVE  Inbox!Next \/ UNCHANGED <<Pending, obj, Undamaged>>
  BY <1>d
<1>t. /\ ring \in Seq(Messages) /\ handler \in Seq(Messages) /\ item \in Seq(Messages)
      /\ Len(item) <= 1
      /\ Undamaged = TRUE /\ ringState \in {"null", "sound"}
  BY DEF IInv, TypeOK, ItemSound, Undamaged
<1>1. CASE UNCHANGED <<ring, handler, item, pc, obj>> /\ Undamaged' = TRUE
  BY <1>1, <1>t DEF Pending
<1>2. CASE DataEvent
  <2>1. CASE ringState = "null"
    BY <1>2, <2>1, ResetWithoutRing DEF DataEvent
  <2>2. CASE ringState # "null"
    <3>1. /\ Head(net) \in Messages /\ handler = <<>> /\ handler' = <<Head(net)>>
          /\ UNCHANGED <<ring, item, pc, obj, Undamaged>>
      BY <1>2, <2>2, HeadTailProperties
         DEF DataEvent, MqttTaskFree, IInv, TypeOK, taskVars, Undamaged
    <3> DEFINE held == IF pc = "terminate" THEN item ELSE <<>>
    <3>2. held \o ring \in Seq(Messages)
      BY <1>t, Empty, ConcatProperties
    <3>3. Pending = held \o ring /\ Pending' = (held \o ring) \o <<Head(net)>>
      BY <3>1, <3>2, ConcatEmptySeq DEF Pending
    <3>4. Pending' = Append(Pending, Head(net))
      BY <3>1, <3>2, <3>3, AppendIsConcat
    <3>5. Len(Pending) < RingCapacity + 1
      BY <3>1, PendingType, Empty, LenProperties, Constants DEF IInv, TypeOK, Occupied
    <3> QED
      BY <1>t, <3>1, <3>4, <3>5 DEF Inbox!Next, Inbox!Accept
  <2> QED
    BY <2>1, <2>2
<1>3. CASE Enqueue
  <2> DEFINE held == IF pc = "terminate" THEN item ELSE <<>>
  <2>1. held \in Seq(Messages)
    BY <1>t, Empty
  <2> HIDE DEF held
  <2>2. (held \o ring) \o handler = held \o (ring \o handler)
    BY <1>t, <2>1, ConcatAssociative, SMTT(30)
  <2>3. held \o (ring \o handler) = (held \o (ring \o handler)) \o <<>>
    BY <1>t, <2>1, ConcatProperties, ConcatEmptySeq
  <2> QED
    BY <1>3, <2>2, <2>3 DEF held, Enqueue, taskVars, Pending, Undamaged
<1>4. CASE Receive
  <2>1. CASE ringState = "null"
    BY <1>4, <2>1, ResetWithoutRing DEF Receive
  <2>2. CASE ringState # "null"
    <3>1. /\ pc = "receive" /\ pc' = "terminate" /\ ring # <<>>
          /\ item' = <<Head(ring)>> /\ ring' = Tail(ring)
          /\ UNCHANGED <<handler, obj, Undamaged>>
      BY <1>4, <1>t, <2>2 DEF Receive, Undamaged
    <3>2. /\ Head(ring) \in Messages /\ Tail(ring) \in Seq(Messages)
          /\ ring = <<Head(ring)>> \o Tail(ring)
      BY <1>t, <3>1, HeadTail
    <3>3. Pending = ring \o handler /\ Pending' = (<<Head(ring)>> \o Tail(ring)) \o handler
      BY <1>t, <3>1, ConcatEmptySeq DEF Pending
    <3> QED
      BY <3>1, <3>2, <3>3
  <2> QED
    BY <2>1, <2>2
<1>5. CASE Parse
  <2>1. /\ pc = "terminate" /\ item # <<>> /\ ~(Executes /\ obj = "restart")
    BY <1>5 DEF Parse, IInv, Holding, RestartAtOnce
  <2>2. item = <<Head(item)>> /\ Head(item) \in Messages
    BY <1>t, <2>1, AtMostOne
  <2>3. ring \o handler \in Seq(Messages) /\ Pending = <<Head(item)>> \o (ring \o handler)
    <3>1. ring \o handler \in Seq(Messages)
      BY <1>t, ConcatProperties
    <3>2. Pending = (item \o ring) \o handler
      BY <2>1 DEF Pending
    <3>3. (item \o ring) \o handler = item \o (ring \o handler)
      BY <1>t, ConcatAssociative
    <3> QED
      BY <2>2, <3>1, <3>2, <3>3
  <2>4. /\ Pending # <<>> /\ Head(Pending) = Head(item)
        /\ Tail(Pending) = ring \o handler
    BY <2>2, <2>3, HeadTailOfConcat
  <2>5. CASE Head(item).kind # "nonstring" /\ ~Reset
    <3>1. /\ pc' = "execute" /\ obj' = Content(Head(item))
          /\ ringState' \in RingAfter
          /\ UNCHANGED <<ring, handler, item>>
      BY <1>5, <2>5 DEF Parse
    <3>2. Pending' = ring \o handler
      BY <1>t, <3>1, ConcatEmptySeq DEF Pending
    <3>3. obj' = Inbox!Content(Head(Pending))
      BY <2>2, <2>4, <2>5, <3>1, DeviceAssumption DEF Content, Inbox!Content, Kinds, Commands
    <3>4. Inbox!Doubtful(Head(Pending)) \/ Undamaged' = TRUE
      BY <1>t, <2>4, <3>1 DEF RingAfter, TerminatorDamages, Undamaged, Inbox!Doubtful
    <3> QED
      BY <1>t, <2>1, <2>4, <2>5, <3>2, <3>3, <3>4
         DEF Inbox!Next, Inbox!Handle, Inbox!RestartDue
  <2>6. CASE Reset
    <3>1. Head(item).kind \in {"nonstring", "overlong"}
      BY <1>5, <2>1, <2>6 DEF Parse, Reset
    <3> QED
      BY <1>t, <2>4, <2>6, <3>1, ResetEmpties
         DEF Inbox!Next, Inbox!Restart, Inbox!RestartDue
  <2> QED
    BY <1>5, <2>5, <2>6 DEF Parse
<1>6. CASE Execute
  <2>1. CASE Executes /\ obj = "restart"
    BY <1>6, <1>t, <2>1, ResetEmpties
       DEF Execute, Inbox!Next, Inbox!Restart, Inbox!RestartDue
  <2>2. CASE ~(Executes /\ obj = "restart")
    BY <1>6, <2>2 DEF Execute, Pending, Undamaged
  <2> QED
    BY <2>1, <2>2
<1>7. CASE ClientStart \/ CreateTask \/ Broker \/ Connected \/ Disconnected \/ OutboxDone
           \/ UNCHANGED vars
  BY <1>1, <1>7, <1>t
     DEF Broker, ClientStart, CreateTask, Deliver, LinkLost, Connected, Disconnected,
         OutboxDone, vars, taskVars, Undamaged
<1>8. CASE MemoryFails
  BY <1>8, <1>t DEF MemoryFails
<1> QED
  BY <1>2, <1>3, <1>4, <1>5, <1>6, <1>7, <1>8 DEF Next, MqttTask, ClientTask

-----------------------------------------------------------------------------
(* The theorems                                                            *)

(* The types, and the bound on the ring, for every firmware.               *)
THEOREM TypeCorrect == Spec => []TypeOK
  BY Invariance, PTL DEF IInv



(* A device handles every message it accepts, in order and once, and only a
   restart a message asks for or forces throws messages away, until it
   handles one that may damage its memory: any payload of an aligned length
   or with an over-long string.                                            *)
THEOREM DeviceImplementsInbox == Spec => ImplementsInbox
<1>1. Init => Inbox!Init
  BY InboxInit
<1>2. IInv /\ [Next]_vars => [Inbox!Next]_(Inbox!inboxVars)
  BY InboxStep
<1> QED
  BY <1>1, <1>2, Invariance, PTL DEF Spec, ImplementsInbox, Inbox!Spec

-----------------------------------------------------------------------------
(* Counting the restart commands a device holds                            *)

Places(s) == {i \in 1..Len(s) : s[i].kind = "restart"}
Count(s) == Cardinality(Places(s))

One(b) == IF b THEN 1 ELSE 0

LEMMA PlacesFinite ==
    ASSUME NEW S, NEW s \in Seq(S)
    PROVE  IsFiniteSet(Places(s)) /\ Count(s) \in Nat
<1>1. Len(s) \in Nat
  BY LenProperties
<1>2. IsFiniteSet(1..Len(s))
  BY <1>1, FS_Interval
<1>3. Places(s) \in SUBSET (1..Len(s))
  BY DEF Places
<1>4. IsFiniteSet(Places(s))
  BY <1>2, <1>3, FS_Subset
<1> QED
  BY <1>4, FS_CardinalityType DEF Count

LEMMA CountEmpty == Count(<<>>) = 0
<1>1. Places(<<>>) = {}
  BY DEF Places
<1> QED
  BY <1>1, FS_EmptySet DEF Count

LEMMA CountOne ==
    ASSUME NEW S, NEW e \in S
    PROVE  Count(<<e>>) = One(e.kind = "restart")
<1>1. CASE e.kind = "restart"
  <2>1. Places(<<e>>) = {1}
    BY <1>1 DEF Places
  <2> QED
    BY <1>1, <2>1, FS_Singleton DEF Count, One
<1>2. CASE e.kind # "restart"
  <2>1. Places(<<e>>) = {}
    BY <1>2 DEF Places
  <2> QED
    BY <1>2, <2>1, FS_EmptySet DEF Count, One
<1> QED
  BY <1>1, <1>2

LEMMA CountAppend ==
    ASSUME NEW S, NEW s \in Seq(S), NEW e \in S
    PROVE  Count(Append(s, e)) = Count(s) + One(e.kind = "restart")
<1>1. Len(s) \in Nat /\ Len(Append(s, e)) = Len(s) + 1
  BY LenProperties, AppendProperties
<1>2. \A i \in 1..Len(s) : Append(s, e)[i] = s[i]
  BY AppendProperties
<1>3. Append(s, e)[Len(s) + 1] = e
  BY AppendProperties
<1>4. IsFiniteSet(Places(s)) /\ Count(s) \in Nat
  BY PlacesFinite
<1>5. CASE e.kind = "restart"
  <2>1. Places(Append(s, e)) = Places(s) \cup {Len(s) + 1}
    BY <1>1, <1>2, <1>3, <1>5 DEF Places
  <2>2. Len(s) + 1 \notin Places(s)
    BY <1>1 DEF Places
  <2> QED
    BY <1>4, <1>5, <2>1, <2>2, FS_AddElement DEF Count, One
<1>6. CASE e.kind # "restart"
  <2>1. Places(Append(s, e)) = Places(s)
    BY <1>1, <1>2, <1>3, <1>6 DEF Places
  <2> QED
    BY <1>4, <1>6, <2>1 DEF Count, One
<1> QED
  BY <1>5, <1>6

(* A sequence counts as its head and its tail do.                          *)
LEMMA CountTail ==
    ASSUME NEW S, NEW s \in Seq(S), s # <<>>
    PROVE  Count(s) = Count(Tail(s)) + One(Head(s).kind = "restart")
<1> DEFINE t == Tail(s)
           behind == Places(s) \ {1}
           f == [i \in Places(t) |-> i + 1]
<1>1. /\ t \in Seq(S) /\ Len(t) = Len(s) - 1
      /\ \A i \in 1..Len(t) : t[i] = s[i + 1]
  BY HeadTailProperties
<1>2. Len(s) \in Nat \ {0} /\ Head(s) = s[1]
  BY EmptySeq
<1>3. IsFiniteSet(Places(t)) /\ Count(t) \in Nat /\ IsFiniteSet(Places(s))
  BY <1>1, PlacesFinite
<1>4. f \in Bijection(Places(t), behind)
  <2>1. \A i \in Places(t) : i + 1 \in behind
    BY <1>1, <1>2 DEF Places
  <2>2. \A j \in behind : j - 1 \in Places(t) /\ f[j - 1] = j
    BY <1>1, <1>2 DEF Places
  <2>3. \A i, j \in Places(t) : f[i] = f[j] => i = j
    BY DEF Places
  <2> QED
    BY <2>1, <2>2, <2>3 DEF Bijection, Injection, Surjection, IsInjective
<1>5. IsFiniteSet(behind) /\ Cardinality(behind) = Count(t)
  BY <1>3, <1>4, FS_Bijection DEF ExistsBijection, Count
<1>6. CASE Head(s).kind = "restart"
  <2>1. Places(s) = behind \cup {1} /\ 1 \notin behind
    BY <1>2, <1>6 DEF Places
  <2> QED
    BY <1>3, <1>5, <1>6, <2>1, FS_AddElement DEF Count, One
<1>7. CASE Head(s).kind # "restart"
  <2>1. Places(s) = behind
    BY <1>2, <1>7 DEF Places
  <2>2. Count(s) = Count(t)
    BY <1>5, <2>1 DEF Count
  <2> QED
    BY <1>3, <1>7, <2>2 DEF One
<1> QED
  BY <1>6, <1>7

-----------------------------------------------------------------------------
(* The restart commands of a device                                        *)

(* The one mqtt_client_task works on, before and after it is parsed.       *)
InHand == IF pc = "terminate" THEN Count(item)
          ELSE One(pc = "execute" /\ obj = "restart")

Held == Count(net) + Count(handler) + Count(ring) + InHand

LEMMA HeldType ==
    ASSUME IInv
    PROVE  /\ Count(net) \in Nat /\ Count(handler) \in Nat /\ Count(ring) \in Nat
           /\ Count(item) \in Nat /\ InHand \in Nat /\ Held \in Nat
<1>1. /\ Count(net) \in Nat /\ Count(handler) \in Nat /\ Count(ring) \in Nat
      /\ Count(item) \in Nat
  BY PlacesFinite DEF IInv, TypeOK
<1>2. InHand \in Nat
  BY <1>1 DEF InHand, One
<1> QED
  BY <1>1, <1>2 DEF Held

LEMMA HeldTypeNext ==
    ASSUME IInv'
    PROVE  Held' \in Nat
<1>1. /\ Count(net') \in Nat /\ Count(handler') \in Nat /\ Count(ring') \in Nat
      /\ Count(item') \in Nat
  BY PlacesFinite DEF IInv, TypeOK
<1>2. InHand' \in Nat
  BY <1>1 DEF InHand, One
<1> QED
  BY <1>1, <1>2 DEF Held

LEMMA InitHolds == Init => Held = 0
  BY CountEmpty DEF Init, Held, InHand, One

LEMMA ResetHolds == Reset => Held' = 0
  BY CountEmpty DEF Reset, Held, InHand, One

(* What is in hand does not change when the task's variables do not.       *)
LEMMA HandUnchanged == UNCHANGED taskVars => InHand' = InHand
  BY DEF taskVars, InHand

LEMMA DeliverHolds ==
    ASSUME IInv, NEW m \in Messages, Deliver(m)
    PROVE  Held' = Held + One(m.kind = "restart")
<1>1. Count(net') = Count(net) + One(m.kind = "restart")
  BY CountAppend DEF IInv, TypeOK, Deliver
<1>2. handler' = handler /\ ring' = ring /\ InHand' = InHand
  BY HandUnchanged DEF Deliver
<1>3. One(m.kind = "restart") \in Nat
  BY DEF One
<1> QED
  BY <1>1, <1>2, <1>3, HeldType DEF Held

(* A device that is sent no restart command gets no new one.               *)
LEMMA StepHolds ==
    ASSUME IInv,
           ClientStart \/ CreateTask \/ MqttTask \/ ClientTask \/ MemoryFails \/ LinkLost
    PROVE  Held' <= Held
<1> USE DEF IInv
<1>t. /\ net \in Seq(Messages) /\ ring \in Seq(Messages)
      /\ handler \in Seq(Messages) /\ Len(handler) <= 1
      /\ item \in Seq(Messages \cup {Garbage}) /\ Len(item) <= 1
  BY DEF TypeOK
<1>n. /\ Count(net) \in Nat /\ Count(handler) \in Nat /\ Count(ring) \in Nat
      /\ Count(item) \in Nat /\ InHand \in Nat /\ Held \in Nat
  BY HeldType
<1>b. \A b \in BOOLEAN : One(b) \in Nat
  BY DEF One
<1>r. ASSUME Reset PROVE Held' <= Held
  BY <1>r, <1>n, ResetHolds
<1>1. CASE ClientStart \/ CreateTask \/ LinkLost \/ Connected \/ OutboxDone
  <2>1. UNCHANGED <<net, handler, ring, taskVars>>
    BY <1>1 DEF ClientStart, CreateTask, LinkLost, Connected, OutboxDone, linkVars
  <2> QED
    BY <2>1, <1>n, HandUnchanged DEF Held
<1>2. CASE Disconnected
  <2>1. UNCHANGED <<handler, ring, taskVars>> /\ Count(net') = 0
    BY <1>2, CountEmpty DEF Disconnected
  <2> QED
    BY <2>1, <1>n, HandUnchanged DEF Held
<1>3. CASE DataEvent /\ ~Reset
  <2>1. /\ handler = <<>> /\ handler' = <<Head(net)>>
        /\ net # <<>> /\ net' = Tail(net)
        /\ UNCHANGED <<ring, taskVars>>
    BY <1>3 DEF DataEvent, MqttTaskFree
  <2>2. Head(net) \in Messages
    BY <1>t, <2>1, HeadTail
  <2>3. Count(handler') = One(Head(net).kind = "restart")
    BY <2>1, <2>2, CountOne
  <2>4. Count(net) = Count(net') + One(Head(net).kind = "restart")
    BY <1>t, <2>1, CountTail
  <2>5. Count(net') \in Nat /\ Count(handler) = 0
    BY <1>t, <2>1, HeadTail, PlacesFinite, CountEmpty
  <2> QED
    BY <1>n, <1>b, <2>1, <2>3, <2>4, <2>5, HandUnchanged DEF Held
<1>4. CASE Enqueue
  <2>1. handler # <<>> /\ ring' = ring \o handler /\ handler' = <<>>
    BY <1>4 DEF Enqueue
  <2>2. handler = <<Head(handler)>> /\ Head(handler) \in Messages
    BY <1>t, <2>1, AtMostOne
  <2>3. ring' = Append(ring, Head(handler))
    BY <1>t, <2>1, <2>2
  <2>4. Count(ring') = Count(ring) + One(Head(handler).kind = "restart")
    BY <1>t, <2>2, <2>3, CountAppend
  <2>5. Count(handler) = One(Head(handler).kind = "restart")
    BY <2>2, CountOne
  <2>6. Count(handler') = 0 /\ net' = net /\ InHand' = InHand
    BY <1>4, <2>1, CountEmpty, HandUnchanged DEF Enqueue, linkVars
  <2> QED
    BY <1>n, <2>4, <2>5, <2>6 DEF Held
<1>5. CASE Receive /\ ~Reset
  <2>1. /\ pc = "receive" /\ pc' = "terminate"
        /\ ring # <<>> /\ ring' = Tail(ring)
        /\ item' = <<Head(ring)>> \/ item' = <<Garbage>>
        /\ net' = net /\ handler' = handler
    BY <1>5 DEF Receive, linkVars
  <2>2. Head(ring) \in Messages
    BY <1>t, <2>1, HeadTail
  <2>g. Garbage.kind # "restart" /\ Count(<<Garbage>>) = One(Garbage.kind = "restart")
    BY CountOne, Garbage \in {Garbage} DEF Garbage
  <2>h. Count(<<Head(ring)>>) = One(Head(ring).kind = "restart")
    BY <2>2, CountOne
  <2>3. Count(item') \in Nat /\ Count(item') <= One(Head(ring).kind = "restart")
    BY <2>1, <2>g, <2>h DEF One
  <2>4. Count(ring) = Count(ring') + One(Head(ring).kind = "restart")
    BY <1>t, <2>1, CountTail
  <2>5. Count(ring') \in Nat
    BY <1>t, <2>1, HeadTail, PlacesFinite
  <2>6. InHand = 0 /\ InHand' = Count(item')
    BY <2>1 DEF InHand, One
  <2> QED
    <3>1. Count(net') = Count(net) /\ Count(handler') = Count(handler)
      BY <2>1
    <3>2. One(Head(ring).kind = "restart") \in Nat
      BY DEF One
    <3>3. Count(ring') + Count(item') <= Count(ring)
      BY <2>3, <2>4, <2>5, <3>2
    <3>4. /\ Held' = Count(net) + Count(handler) + Count(ring') + Count(item')
          /\ Held = Count(net) + Count(handler) + Count(ring) + 0
      BY <2>6, <3>1 DEF Held
    <3> QED
      BY <1>n, <2>3, <2>5, <3>3, <3>4
<1>6. CASE Parse /\ ~Reset
  <2>1. /\ pc = "terminate" /\ pc' = "execute"
        /\ obj' = Content(Head(item))
        /\ UNCHANGED <<net, handler, ring>>
    BY <1>6 DEF Parse, linkVars
  <2>2. item # <<>>
    BY <2>1 DEF Holding
  <2>3. item = <<Head(item)>> /\ Head(item) \in Messages \cup {Garbage}
    BY <1>t, <2>2, AtMostOne
  <2>4. Count(item) = One(Head(item).kind = "restart")
    BY <2>3, CountOne
  <2>5. obj' = "restart" => Head(item).kind = "restart"
    BY <2>1 DEF Content
  <2>6. InHand' <= InHand /\ InHand' \in Nat
    BY <2>1, <2>4, <2>5 DEF InHand, One
  <2> QED
    BY <1>n, <2>1, <2>6 DEF Held
<1>7. CASE Execute /\ ~Reset
  <2>1. pc' = "receive" /\ UNCHANGED <<net, handler, ring>>
    BY <1>7 DEF Execute, linkVars
  <2>2. InHand' = 0
    BY <2>1 DEF InHand, One
  <2> QED
    BY <1>n, <2>1, <2>2 DEF Held
<1>8. CASE MemoryFails /\ ~Reset
  <2>1. UNCHANGED <<net, handler, ring, taskVars>>
    BY <1>8 DEF MemoryFails, linkVars
  <2> QED
    BY <2>1, <1>n, HandUnchanged DEF Held
<1> QED
  BY <1>r, <1>1, <1>2, <1>3, <1>4, <1>5, <1>6, <1>7, <1>8 DEF MqttTask, ClientTask

(* A restart that a command causes uses up the command.                    *)
LEMMA RestartHolds ==
    ASSUME IInv, Execute, phase' = "boot"
    PROVE  Held' + 1 <= Held
<1>1. pc = "execute" /\ phase = "running"
  BY DEF IInv, Holding, Execute
<1>2. Executes /\ obj = "restart" /\ Reset
  BY <1>1 DEF Execute
<1>3. InHand = 1
  BY <1>1, <1>2 DEF InHand, One
<1> QED
  BY <1>2, <1>3, HeldType, ResetHolds DEF Held

=============================================================================
