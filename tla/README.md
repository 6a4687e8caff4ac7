# A TLA+ verification of the smart-home firmware

This directory keeps a formal model of the firmware under `src/Firmware`: TLA+
modules, TLC configurations that check them on small instances, and theorems
checked by TLAPS.  It is written from the C code; `PROJECT.json` maps every
definition to the lines it stands for.

## 1. Inventory

Three ESP32 firmwares (ESP-IDF, FreeRTOS), `Gateway`, `Node_CoAP` and
`Node_MQTT`, share one set of components, copied into each firmware's `common/`
directory with small differences, and talk over MQTT (test.mosquitto.org) and
CoAP (theThings.io).

| component | files (under `src/Firmware`) | state | operations |
|---|---|---|---|
| MQTT client | `*/common/mqtt_hadilao` | ring buffer, parsed object, esp-mqtt's connection and outbox | `mqtt_client_start`, `mqtt_event_handler` (esp-mqtt task), `mqtt_client_task` |
| message parser | `*/common/cfg_hadilao` | none (fills `mqtt_obj`) | `mqtt_parse_data` |
| CoAP task | `Node_CoAP/main` | `psCtx`, `psSession`, `optlist`, `resp_wait` | `CoAP_Task`, `CoAP_event_handler` |
| libcoap message layer | `Node_CoAP/managed_components/espressif__coap` | sessions, `con_active`, delay queue, send queue | `coap_send`, `coap_retransmit`, `coap_dispatch`, `coap_session_connected` |
| libcoap message building | `coap_pdu.c`, `coap_option.c` of the same | `coap_pdu_t` and its buffer | add, insert, update and remove options, set and replace the token, add the payload, copy |
| Wi-Fi station | `*/common/wifi_sta_hadilao` | the driver's association, queued events, `status_blue` (Node_MQTT) | `wifi_init`, `wifi_sta_start`, `wifi_event_handler` |
| status LED | `*/common/interface_hadilao/led_hadilao.c` | position in a blink pattern | `led_blue_task` |
| button | `*/common/interface_hadilao/button_hadilao.c` | press time, duration, click count | `button_task` |
| UART | `*/common/uart_hadilao` | the driver's bytes, event queue of 20, callback | `uart_init`, `uart_event_task`, `uart_set_callback` |
| GPIO | `*/common/input_hadilao`, `output_hadilao` | callback pointer, pin levels | interrupt handler, setters, toggle |
| soft AP and web server | `*/common/wifi_AP_hadilao`, `webserver_hadilao` | server handle | HTTP handlers, `start_webserver`, `stop_webserver`, `wifi_init_softap` |
| start-up | `*/main/app_main.c` | which parts run | `app_main` |
| vendored | cJSON, mdns, the rest of libcoap | | used as libraries; mdns is linked and never called |

How they interact: the esp-mqtt task and `mqtt_client_task` share a FreeRTOS ring
buffer; the nodes and the gateway share retained topics of the broker;
`status_blue` is a global written by `app_main` and by Node_MQTT's Wi-Fi event
handler, and read by the LED task; `CoAP_Task` calls libcoap, whose queues hold
references to the task's session; the UART driver's interrupt and
`uart_event_task` share a byte buffer and a queue of events; `esp_restart()` is
called from `mqtt_client_task` and `button_task` and takes everything down.

What runs at this commit: Node_MQTT starts its LED task, the station and the MQTT
client, but not `mqtt_client_task`; Node_CoAP starts the station, the LED task
and the CoAP task; the Gateway's `app_main` only toggles its outputs, with the
calls of `wifi_sta_start` and `mqtt_client_start` commented out.  `button_task`,
`uart_init`, the soft AP and the web server are started by none of them.  A
component that is not started is modelled as its own code says it runs.

### Where it is hard

* **Concurrency.**  The event handler sends to the ring with `portMAX_DELAY`:
  when the consumer is slow, or absent, the whole esp-mqtt task waits.  The ring
  keeps a received item's space until it is returned.  Events may arrive before
  the consumer exists.  The Wi-Fi handler acts on events of the past.  The UART
  driver goes on receiving between `uart_flush_input` and `xQueueReset`.  The
  button's level is read up to three times in one poll.
* **Failure.**  The link is lost at any time; QoS 0 messages on their way are
  then gone.  A restart, requested by a message or forced by a bad one, loses
  everything accepted.  A datagram may be refused by the socket at each of the
  places where libcoap writes one.
* **Ordering and life time.**  The CoAP task frees its context and session on
  every round, over several error paths, and keeps the pointers.  libcoap's send
  queue holds times relative to the node before.  `con_active` is changed in six
  places and decides when a delayed message may go.  Answers come late, twice, or
  never.
* **Bytes in place.**  A CoAP option's header holds the difference to the number
  before it: whatever comes or goes changes the header of the next one, which is
  patched in place, and moves the payload, which a pointer finds again.
* **Memory.**  The parser copies strings of any length into fields of 15 bytes and
  less of an object on its task's stack.  A terminating zero is written behind an
  item that has no room for it.  libcoap counts a message as under way before it
  has the memory to remember it.
* **Numbers and time.**  The button's thresholds in tick counts divided by ten,
  with 0 for "not pressed"; the LED's patterns; a topic of 20 characters in an
  array of 20.

`PROJECT.json` lists the hazards one by one, each with its line.

### What makes each component correct

* MQTT client: what is accepted is handled in order, once, and lost only by a
  restart; the event handler never waits for good; a dead link is noticed.
* System: a report published by a node reaches the broker and the gateway, also
  one that connects later; a restart command restarts a node once each
  time it is sent to it.
* CoAP task: a session or context is never used after it is released; whatever
  fails, nothing is leaked; the task comes round again.
* libcoap message layer: a message is in exactly one queue until it ends, is sent
  again at its time, at most NSTART are under way, and what ends a message
  makes room for a delayed one.
* libcoap message building: the receiver reads the token, the options and the
  payload that the sender put there, and the bytes stay within what is allocated.
* Wi-Fi and LED: a lost association is retried; the LED shows the latest status.
* Button: clicks, holds and restarts are reported when the button did so.
* UART: an event's bytes are the bytes that are read for it; a reception that
  stopped because the buffer was full resumes.

## 2. Plan

Done, in this order: the device (`OrderedInbox`, `MqttDevice`), the CoAP task
(`CoapTask`), station and LED (`StatusLed`), the board's interface (`Button`,
`Uart`), libcoap's message layer (`SendQueue`, `CoapMessages`), the composition of
gateway, node and broker (`MqttSystem`), libcoap's message building
(`CoapOptions`, `OptionList`, `CoapPdu`); then proofs, in the same order, of
every invariant that a run checks.

Left:

* the fields of `mqtt_parse_data` with their widths, if code is added that reads
  them: at this commit nothing does, so that no property could depend on them;
* soft AP, web server and GPIO, once a firmware starts them;
* the proof that `CoapPdu` implements `OptionList`: the lemmas about each call
  already say which options the bytes hold afterwards, but not yet in the
  abstract list's words;
* what a message said before it was sent is what the peer's `CoapPdu` reads from
  it, as a composition of two messages.

## 3. Modules

Operators whose comment begins with `MUTANT` are not part of a model.  Each is a
plausible bug in the definition after it; `PROJECT.json` says which property
notices it.

### The MQTT client

`MqttDevice` is `mqtt_hadilao.c` with the parser of `common_hadilao.c`, once for
all three firmwares.  What differs between them is in its constants: whether
`mqtt_client_start` creates the task (`HasConsumer`), whether the parser reads the
key `action` (`ParsesAction`), whether the task acts on it (`Executes`), what is
published on a connection (`Reports`).

| in the model | in the code |
|---|---|
| `phase`, `ringState` | how far `mqtt_client_start` has got; `mqtt_ring_buf` |
| `ring`, `item` | items in the FreeRTOS ring buffer; the one received and not yet returned, which still keeps its space |
| `handler` | the payload `mqtt_event_handler` is sending; it waits without limit |
| `pc`, `obj` | where `mqtt_client_task` is; `mqtt_obj` after memset and parsing |
| `status` | `status_blue` |
| `link`, `net`, `outbox` | esp-mqtt's connection, what is on its way, what is published and not acknowledged: external |

A message is a record of its kind and whether its length is a multiple of four.
The kinds are what the parser and the task tell apart: a report, the commands
`close` and `restart`, text that is not JSON, a value of the wrong JSON type
(`strlen(NULL)`, the task aborts), and a string that is longer than its field.
Two of the task's writes go past their place, and both leave open what they hit:

* the terminating zero behind a payload of aligned length is the low byte of the
  next item's length, if there is a next item (the ring becomes `"corrupt"`), and
  may be behind the ring's own memory (`"overrun"`);
* `memcpy` of an over-long string runs over the parsed object on the task's stack:
  it aborts, or overwrites something (`"overrun"`), or hits nothing that matters.

After an overrun, `MemoryFails` may damage the ring or reset the device at any
moment.  `Reset` is `esp_restart()` and the reset after an abort; it is called
from the task and from a failed assertion, and mends everything.  `Deliver` and
`LinkLost` are the network.

`OrderedInbox` is what a user of the device may expect, written without looking
at tasks or buffers: messages are handled in the order of their arrival, one at a
time, and lost only when a restart is requested or forced.  Its variable `sound`
says how far the promise goes: handling an aligned or over-long message may end
it, after which anything may happen until a restart.  `Pending` is the refinement
mapping: what the task has received and not parsed, then the ring, then what the
handler waits with; `sound` is `Undamaged`, that no such write has hit anything.

`MqttSystem` composes a gateway (the `MqttDevice` it EXTENDS), a node (an
INSTANCE) and an external broker with retained messages.  `SendToGateway` and
`SendToNode` are the devices' `Deliver` joined with the broker's queues; a
connection subscribes and is sent what is retained.  The node's reports are
retained (`NodeRetains`, the 1 in `esp_mqtt_client_publish`); the user decides for
each command, and a retained restart command comes back whenever the node
connects, which `again` counts (`MaxAgain` bounds it).  `topicEnds` is chosen at
the start and never changes: whether the build places a zero behind
`topic_commands_data[20]`, whose 20 characters leave no room for a terminator.
Where it does not, the node's topic is another one; `GatewayLearns` is claimed for
the builds where it does, and the run `gateway_misses` shows the others.

`NodeHasConsumer` is TRUE in the run `mqtt_system`, although no firmware of this
commit both starts the task and reads commands (Node_MQTT reads them, and has the
creation of its task commented out): without it no command is ever obeyed, and
`RestartsOnce` would say nothing.  It shows the node as its task is written.

### The CoAP client

`CoapTask` is `CoAP_Task` of Node_CoAP's `app_main.c`, with the reference counts
of libcoap's sessions and contexts.  There is an action for every outcome of every
library call; `psCtx` and `psSession` hold addresses, which are used again after
they are freed, or `"undefined"` before they are assigned.  The loop that waits
for the response and the response handler are left out: `resp_wait` is set to
false in front of the loop.

`SendQueue` holds the operators on libcoap's send queue, in which the time of a
node is relative to the node before it.  `CoapMessages` is the exchange of
confirmable messages: `Send`, `Retransmit`, `GiveUp`, and `Receive` with the four
ways a message can be answered: acknowledgement, reset, a response of its own, and
a non-confirmable response under the message id of one that waits.  The peer
numbers its messages as it likes, so that the last may be the id of another
message than the one it answers (`ReceiveEcho(m, x)`): `coap_dispatch` takes that
one off the queue, and it is lost without a word.  The socket may refuse a
datagram wherever one is written, and the memory for a node may be missing: then
`coap_send` tells the application that it failed, after it has written and counted
the message (`Leaked`).  `Io` is what all of them change: queue, delay queue,
`con_active`.  `fate`, `onWire`, `left` and `odd` are histories.  Assumed of the
peer is only that it answers what has been sent.  Left out: the check for
duplicate responses, ICMP errors, `coap_session_disconnected`.

There is no liveness here.  That a message ends needs somebody to go on calling
`coap_io_process`, and Node_CoAP, which sets `resp_wait` to false in front of the
loop that would (`app_main.c:307`), never does.

`CoapOptions` is the encoding of one option, and the two ways to patch the header
of the option behind a change.  `CoapPdu` is a request under construction: a
record with the used bytes, the lengths of the token, the place of the payload,
`max_opt`, and how much is allocated.  Every function of `coap_pdu.c` that changes
a message is an operator from a message to a message and a result; the actions
call them in any order, each with an allocator that has memory for 0 to
`Reallocs` enlargements.  `Received` is what a peer gets to parse: the nibble of
the header comes from `actual_token.length`, as `coap_pdu_encode_header` writes it,
and the space of the token from that nibble and the bytes behind it, as
`coap_pdu_parse_header` reads it.  `tokenRefused` says that the last token did not
fit; the two may then differ, and the properties say so.  `said` is a history:
token, options and payload of the message as they are read out of it.  (It is a
variable only because TLC evaluates a refinement mapping over a recursive function
again and again.)  `call` is a history too, the name and arguments of the last
call.

`OptionList` is what the functions promise, without bytes: a token, a list of
options ordered by their numbers, a payload.  Every step is tied to its call, so
that only a call for a copy may drop the payload, and an option that may occur once
is not taken behind its like at the end of the message.  That is all the code does
(see section 4): the abstract list says what is so, not what the name of the check
says.  Nothing is promised of the token after one that did not fit.  The runs have
`VIEW WithoutCall`: no action and no invariant reads `call`, and steps are checked
before the view is taken, so that states which differ in it alone need be kept
only once.

### Station, LED and board

`StatusLed` composes the Wi-Fi driver's events, `wifi_event_handler` and
`led_blue_task` in units of 100 ms.  `age` is a history: how long `status_blue` has
its value.

`Button` is one poll of `button_task` per step, with the three readings of the pin
in it and ticks divided by ten that wrap around.  The user's presses are a history
of their own.  `regular` turns false at what the properties leave out: a press no
longer than `TIME_CLICK_MIN`, one between `TIME_CLICK_MAX` and `TIME_HOLD`, a
bounce inside a poll, a press seen in unit 0 of the counter, and a wrap while the
button is down.

`Uart` is `uart_event_task` with ESP-IDF's driver as the external part: a ring of
bytes, a stash for what did not fit, a queue of events that drops what it has no
room for.  `uart_flush_input` and `xQueueReset` are two steps, between which the
driver goes on.

`MCDevice`, `MCSystem`, `MCBoard`, `MCCoap` and `MCPdu` give the constants their
values.  `MCBoard` also puts the button, the UART and the station with its LED
side by side: they share no variable, so `focus` chooses at the start the one that
moves, and the fairness of each is claimed for that one.

## 4. Runs

| run | configuration | shows |
|---|---|---|
| `device` | `Device.cfg` | Node_CoAP's device implements `OrderedInbox`; its inbox drains, its handler returns, a dead link is noticed |
| `coap_rounds` | `CoapRounds.cfg` | whatever fails, a round leaves nothing behind, and no queued request belongs to what is freed; the node posts again and again, unless its task deletes itself or releases what is gone |
| `board` | `Board.cfg` | holds and clicks mean what the user did; bytes come in order and belong to their events; a reception that stopped resumes; `status_blue` agrees with the station in the end, the LED with `status_blue`; a lost association is retried |
| `coap_messages` | `CoapMessages.cfg` | a message is in one queue until it ends, sent again at its time, and counted, with the exceptions that `odd` names |
| `mqtt_system` | `MqttSystem.cfg` | a restart command restarts a node once each time it is sent; a gateway that connects late learns the node's report |
| `coap_pdu` | `Pdu.cfg` | bytes, receiver and abstract list agree after every call, refused or not |

Six more runs end in a violation.  Each shows one disagreement between the code
and what is said of it (`findings` in `PROJECT.json` has the lines):

| run | what happens |
|---|---|
| `node_mqtt_stuck` | Node_MQTT's consumer task is commented out: what it receives is never handled, and once the ring is full the esp-mqtt task waits for good |
| `terminator` | the terminating zero behind a payload of aligned length damages the next item |
| `gateway_misses` | the topic of 20 characters in an array of 20 runs on: in a build where no zero follows it, the node's reports never come to the gateway |
| `coap_stale` | the task's pointers outlive a round: a round that fails early releases the session of the round before again |
| `coap_delayed` | after a refused retransmission the end of the message releases none of those delayed behind it |
| `coap_long_token` | replacing a token by one of 255 bytes cuts the length of its space to eight bits, and the options are looked for inside it |

`coap_stale` checks `NothingReleasedTwice` with contexts that may be refused.
That it holds as long as every context is created and every address is IPv4 or
IPv6 is not a run but a theorem, `NeverStale`.

More disagreements are certain by reading and need no run of their own.

* A comment at Node_CoAP's `app_main.c:56-58` describes a limited number of
  attempts to connect, and the station of this firmware retries for ever.
* `coap_pdu.c:532` says that a second copy of an option which may occur once is
  ignored.  `coap_insert_option` (lines 592-596) asks only if the difference to the
  option it has found is 0, but it has stopped at one with a greater number: a copy
  is accepted whenever a greater option is already there.  `InsertInside` and
  `OptionList` do it too.
* `coap_net.c:3753` takes whatever message has the id of a non-confirmable one off
  the queue, although that id comes from the peer's numbers: `QueuedOnce` names the
  loss, and `CountsOutstanding` excepts it.
* `coap_net.c:1592-1595`: the message whose node found no memory stays counted in
  `con_active` for ever (`Leaked`).
* `coap_pdu_duplicate` does not look at the result of `coap_add_token`, which has set
  `actual_token.length` before it finds no room (`coap_pdu.c:315`): the header of
  such a copy announces a token that is not there.  This is what `tokenRefused`
  excepts in `ReceiverAgrees` and `TokenAgrees`.
* The button and the UART have inputs that their code misreads, which `regular` and
  the precondition of `EventsMatchBytes` leave out: bounces, presses in unit 0 of
  the counter, and bytes of an event that was dropped.

### Bounds, and why they are enough

* **Device.** A ring of two items: the third message makes the handler wait, and
  one item is in hand while another is queued.  One or two messages on their way
  suffice, as the broker's order is the network's order.  The messages are one of
  every kind, and an aligned one.
* **CoAP task.** Three addresses: a context, its session, and one that was freed
  and can be used again.
* **LED.** `AgeBound` is 12 units; the longest pattern has 10.
* **Board.** Thresholds of 1, 3, 4 and 3 polls instead of 50, 1000, 3000 and 1000 ms
  keep their order and the equality of the two that are equal; the counter wraps at 18
  and the run goes on until 21, past a whole wrap.  An event queue of 2 and a
  buffer of 3 bytes are both full, and overflow, within 6 bytes.
* **Messages.** Three messages with `NStart` 2: two under way and one delayed.  One
  retransmission has both outcomes of the counter.  `Late` answers arrive one
  time unit too late.  Writes and memory may fail.  By hand the same properties passed with two sessions and
  `NStart` 1, with `MaxRetransmit` 2 and with `Timeouts` {2, 3}.
* **System.** One order, sent again once, one report and rings of one item: the
  properties speak of one message in many places.
* **Message building.** Numbers 11, 23, 35 and 292 differ by less than 13, by 12,
  and by 269 and more, so that headers of one, two and three bytes become longer
  and shorter; 35 brings the hop limit 16 with it.  Seven bytes hold up to
  three options or two and a payload; `Chunk` 4 makes the buffer grow and be
  refused.  Values and tokens are made of bytes that look like the payload marker.
  By hand it passed with 8 bytes, and with tokens and values of 13 bytes in 22.

### Fairness, and why the code justifies it

* A FreeRTOS task that is ready runs in the end: weak fairness of the client task,
  of the event handler, of `CoAP_Task`'s own steps, of the LED task and of the UART
  task.
* esp-mqtt's keep-alive notices a dead connection if the task runs: weak fairness
  of `Disconnected`.  It is not fair while the handler waits in the same task, as
  `Disconnected` is not enabled then.
* The event loop calls its handler, and the driver ends an attempt to associate.
* `KeepsPosting` is claimed under strong fairness of every library call's success:
  a call that is made again and again succeeds some time.  The code asks for that
  and for no more: each failure leads to another try.
* `ReceptionResumes` needs the hardware to overflow again when bytes go on
  arriving, while the event queue has room: strong fairness of that step.
* The device's fairness ends with damaged memory: a send to a ring that is not sound
  need not return.
* `GatewayLearns` assumes nothing of connections: it is claimed if the gateway is
  connected from some time on, and fair are the delivery to it and its own steps.

## 5. Proofs

All proofs are for every value of the constants that the named assumptions admit.

| module | what is proved | how |
|---|---|---|
| `MqttDeviceProofs` | `TypeOK`, `ImplementsInbox` | `IInv`: the types, an item is held exactly where the task has one, nothing is queued without a ring or on its way offline, and the parsed object is that of the item. `TypeOK` alone is not inductive: returning an item has to know that one is held. The refinement follows `Pending` through every action; where memory is damaged, `DamagedStep` shows that every step is one that `OrderedInbox` leaves open. |
| `MqttSystemProofs` | `GatewayIsDevice`, `NodeIsDevice`, `SystemTypeOK`, `RestartsOnce` | Each step of the system is a step of both devices or leaves one as it is, so that what is proved of a device holds of both. `RestartsOnce` counts restart commands in the user's hand, the broker's queue, the network, the handler, the ring and the task, together with the restarts that have happened: no step raises the sum by more than it raises `orders + again`. |
| `CoapTaskProofs` | `TypeOK`, `NothingLeft`, `QueueSafe`; `NothingReleasedTwice` while contexts can be made | one invariant that says, for each place in the task, which of context, session, request and option list exist, and how many references they have |
| `BoardProofs`: station and LED | `TypeOK`, `StatusAgrees`, `LedFollows`, `DarkWhenOffline` | `Backlog` lists the event queues that can occur, at most two long; `LedCatchesUp` bounds the age of what the LED shows by its place in the pattern |
| `BoardProofs`: button | `ButtonTypeOK`, `HoldMeansHeld`; `ClicksMeanClicks` if `ClickMax <= Forget` | `Remembered`: while `regular`, the task's time and duration are those of the user's press. For clicks, the counter is at most the run of clicks the user gave, which needs that the task has forgotten a click by the time the user's next one no longer follows it. The code has 1000 ms for both. |
| `UartProofs` | `UartTypeOK`, `BytesInOrder`, `ReadNeverWaits`, `EventsMatchBytes` | Bytes handed over, in hand, in the buffer and in the stash, one behind the other, increase. `AnnounceInv`: the sizes that the task and the queued events announce add up to no more than the buffer holds, except between the flush and the reset; and when they add up to all of it, the bytes of each event lie behind those of the events before it. |
| `CoapMessagesProofs` | `TypeOK`, `QueuedOnce`, `CountsOutstanding`, `TimesKept` | see below |
| `CoapPduProofs` | `WrittenIsRead`, `LoweredIsWritten`, `RaisedIsWritten`, `RaisedFits` of the headers; `PduTypeOK`, `NeverOverruns`, `ReceiverAgrees`, `TokenAgrees` for tokens that fit (`TokensFit`) | see below |
| `SumsProofs` | lemmas: induction, sums over sequences, recursive functions | see below |

**Induction.**  The library's induction theorems take an operator as a parameter,
which cannot be instantiated here.  `SumsProofs` states induction about sets
instead: `LeastNatural` (from the well-foundedness of strict inclusion between
finite sets, `FiniteSetTheorems`), and from it `Induction`: a set of natural
numbers with 0 and every successor has them all.  On it rest the lemmas about
running sums (`SumSteps`, `SumMonotonic`, ...) and `Recursion`: a recursive
definition whose recursive uses are of lower rank defines a function.  The models
therefore use recursive functions and no RECURSIVE operator.

**`CoapMessages`.**  The invariant `IInv` is `Orderly(Io)` and these parts: the
types; at most `NStart` messages counted for each session; no time passes on an
empty queue; `Once` (a message that is sent and has not ended is in exactly one of
the two queues); `Counted` (`con_active` is the number of the session's messages in
the send queue and of those that leaked, unless one of the exceptions has happened,
which `odd` notes); and
`Timed` (the sum of the relative times up to a message is its own time).  Every
handler is a chain of the same few steps: taking a node out, putting one in,
sending what is delayed.  So there is one lemma for each of them (`WaitAck`,
`RemoveNode`, `UnlinkNode`, `Connected`), over a view of queue and counters in
which the order of the queue does not show, and the handlers' lemmas combine them.

**`CoapPdu`.**  `Flat(lo, os)` is the bytes of the options `os` behind a number
`lo`, defined without the model's walk, and `Laid(p, t, os, tail)` says that a
buffer consists of the token's space `t`, `Flat(0, os)` and either nothing or the
marker and a payload, and that the fields say so.  `PduInv` is that there are such
`t`, `os` and `tail`, and, unless the last token was refused, that the header and
the bytes of `t` say the length of `t` (`HoldsToken`, `Announced`): `LaidToken` and
`LaidKeeps` carry this through the calls that change options and payload, and
`AnnouncedIsRead` says that a receiver takes it from them.  `EntriesFound`
proves that the iterator's walk over `Laid` bytes finds exactly `os`, each with its
place, number and length: at every option `WrittenIsRead` applies, and behind the
last there is nothing or the marker.  `Exchanged` proves once what moving bytes
does: when the bytes of some options are replaced by those of others and what is
behind stays, the result is laid out again.  Each of the calls is then an
exchange: adding at the end, putting in between (with `LoweredIsWritten` for the
neighbour), removing (with `RaisedIsWritten` and `RaisedFits`), updating; lists and
filtered copies are inductions over them.

`TokensFit` says that tokens are at most 254 bytes long.  It is needed: the run
`coap_long_token` shows that `coap_update_token` loses the length of a longer one.
The code keeps to it: tokens have at most `COAP_TOKEN_DEFAULT_MAX` = 8 bytes
(`coap_pdu.h:56`, `coap_net.c:542`) unless an application raises the limit, and
Node_CoAP does not.  `PduAssumption` bounds values by 65804 bytes, the greatest
length a header can say, and option numbers by `COAP_MAX_OPT`.

Only model-checked:

* liveness and the leads-to properties (`InboxDrains`, `HandlerReturns`,
  `DeadLinkNoticed`, `ReceivedIsHandled`, `KeepsPosting`, `Reconnects`, `Blinks`,
  `HoldIsObeyed`, `ReceptionResumes`, `GatewayLearns`): fairness and
  ENABLED are out of the prover's reach;
* `ImplementsList`, that every call does to token, options and payload what
  `OptionList` says.

## 6. Not modelled

* **GPIO** (`input_hadilao`, `output_hadilao`): single register accesses; the one
  order that matters, the callback before the interrupt, is up to a caller, and
  there is none.
* **Soft AP and web server**: no firmware starts them, and the handlers change
  nothing that another part reads.
* **The parser's fields**: nothing reads them.  What decides anything, whether a
  payload is a command, a report, broken, or aborts, is in `MqttDevice`.
* **cJSON** and **mdns**: vendored; mdns is never called.
* **The rest of libcoap**: TCP, TLS and WebSockets, block-wise transfer, observe,
  multicast, pings, OSCORE, the server side.  Node_CoAP uses none of it.
* **NVS, chip initialisation, logging.**

The vendored libraries are nearly all of the repository's lines: the map covers
most of the firmwares' own control flow, and of libcoap what Node_CoAP's requests
pass through, and is still a small share of the whole.
