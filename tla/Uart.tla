--------------------------------- MODULE Uart ---------------------------------
(***************************************************************************)
(* uart_hadilao.c: uart_event_task takes the events of the UART driver     *)
(* from a queue, reads the bytes an event announces and hands them to a    *)
(* callback; on an overflow it flushes the driver and resets the queue.    *)
(*                                                                         *)
(* The driver is external: its interrupt puts received bytes into a buffer *)
(* and announces them in the queue; when the queue is full the event is    *)
(* lost, when the buffer is full the bytes are stashed and reception stops *)
(* until somebody reads or flushes.                                        *)
(***************************************************************************)
EXTENDS Sums, Sequences, SequencesExt

CONSTANTS
    QueueLength,  \* events the queue holds, 20 in the code
    BufferSize,   \* bytes the driver holds, 2 * BUF_SIZE in the code
    ChunkSizes,   \* how many bytes one interrupt takes from the hardware
    MaxBytes      \* bound: the bytes received between two boots

ASSUME UartAssumption ==
    /\ QueueLength \in Nat \ {0} /\ BufferSize \in Nat \ {0} /\ MaxBytes \in Nat
    /\ ChunkSizes \subseteq 1..BufferSize

VARIABLES
    buffer,     \* the driver's bytes, oldest first; a byte is its number
    stash,      \* bytes that found the buffer full: reception has stopped
    events,     \* uart0_queue
    uartPc,     \* where uart_event_task is
    event,      \* the event it is working on, as a sequence
    callback,   \* p_uart_handle # NULL
    received,   \* how many bytes have arrived
    handed,     \* history: the last bytes given to the callback
    past        \* history: the largest byte given to it before those

uartVars == <<buffer, stash, events, uartPc, event, callback, received, handed, past>>

(* An event announces bytes (size > 0), or reports an overflow, or something
   that is only logged.  "first" is the first byte it was posted for.      *)
Data(n, b) == [type |-> "UART_DATA", size |-> n, first |-> b]
Notice(t) == [type |-> t, size |-> 0, first |-> 0]
Overflows == {"UART_FIFO_OVF", "UART_BUFFER_FULL"}

(* UART_BREAK, UART_PARITY_ERR and UART_FRAME_ERR are only logged.         *)
Logged == "UART_BREAK"

-----------------------------------------------------------------------------
(* The driver and the line                                                 *)

(* The state uart_init leaves behind.                                      *)
UartInit ==
    /\ buffer = <<>> /\ stash = <<>> /\ events = <<>>
    /\ uartPc = "receive" /\ event = <<>>
    /\ callback = FALSE
    /\ received = 0
    /\ handed = <<>> /\ past = 0

(* MUTANT: the driver is installed with a queue of one more event.         *)
Post_OneMore(e) ==
    events' = IF Len(events) <= QueueLength THEN Append(events, e) ELSE events

(* xQueueSendFromISR: an event that finds the queue full is lost.          *)
Post(e) == events' = IF Len(events) < QueueLength THEN Append(events, e) ELSE events

Bytes(from, n) == [i \in 1..n |-> from + i]

(* The interrupt takes n bytes from the hardware.                          *)
Arrive(n) ==
    /\ stash = <<>>
    /\ received + n <= MaxBytes
    /\ received' = received + n
    /\ IF Len(buffer) + n <= BufferSize
       THEN /\ buffer' = buffer \o Bytes(received, n)
            /\ Post(Data(n, received + 1))
            /\ UNCHANGED stash
       ELSE /\ stash' = Bytes(received, n)
            /\ Post(Notice("UART_BUFFER_FULL"))
            /\ UNCHANGED buffer
    /\ UNCHANGED <<uartPc, event, callback, handed, past>>

(* Bytes arrive while reception has stopped: the hardware overflows.       *)
HardwareOverflow ==
    /\ stash # <<>>
    /\ Post(Notice("UART_FIFO_OVF"))
    /\ UNCHANGED <<buffer, stash, uartPc, event, callback, received, handed, past>>

LineNotice ==
    /\ Post(Notice(Logged))
    /\ UNCHANGED <<buffer, stash, uartPc, event, callback, received, handed, past>>

(* uart_set_callback(cb), which ignores NULL.                              *)
SetCallback ==
    /\ callback' = TRUE
    /\ UNCHANGED <<buffer, stash, events, uartPc, event, received, handed, past>>

-----------------------------------------------------------------------------
(* uart_event_task                                                         *)

(* MUTANT: the overflow of the buffer is only logged.                      *)
TakeEvent_LogsOverflow ==
    /\ uartPc = "receive" /\ events # <<>>
    /\ event' = <<Head(events)>>
    /\ events' = Tail(events)
    /\ uartPc' = IF Head(events).type = "UART_DATA" THEN "read" ELSE "receive"
    /\ UNCHANGED <<buffer, stash, callback, received, handed, past>>

(* xQueueReceive, and the switch on the event's type.                      *)
TakeEvent ==
    /\ uartPc = "receive" /\ events # <<>>
    /\ event' = <<Head(events)>>
    /\ events' = Tail(events)
    /\ uartPc' = CASE Head(events).type = "UART_DATA" -> "read"
                   [] Head(events).type \in Overflows -> "flush"
                   [] OTHER -> "receive"
    /\ UNCHANGED <<buffer, stash, callback, received, handed, past>>

(* MUTANT: whatever is in the buffer is read for one event.                *)
ReadBytes_All ==
    /\ uartPc = "read"
    /\ buffer # <<>>
    /\ handed' = buffer
    /\ past' = IF handed = <<>> THEN past ELSE Last(handed)
    /\ buffer' = stash
    /\ stash' = <<>>
    /\ uartPc' = "call"
    /\ UNCHANGED <<events, event, callback, received>>

(* MUTANT: stashed bytes are put in front of those that are still there.   *)
ReadBytes_StashFirst ==
    /\ uartPc = "read"
    /\ LET n == Head(event).size
           rest == SubSeq(buffer, n + 1, Len(buffer))
           fits == Len(rest) + Len(stash) <= BufferSize
       IN  /\ n <= Len(buffer)
           /\ handed' = SubSeq(buffer, 1, n)
           /\ past' = IF handed = <<>> THEN past ELSE Last(handed)
           /\ buffer' = IF fits THEN stash \o rest ELSE rest
           /\ stash' = IF fits THEN <<>> ELSE stash
    /\ uartPc' = "call"
    /\ UNCHANGED <<events, event, callback, received>>

(* uart_read_bytes(..., portMAX_DELAY) returns once there are enough bytes;
   room in the buffer lets the stash in and reception go on.               *)
ReadBytes ==
    /\ uartPc = "read"
    /\ LET n == Head(event).size
           rest == SubSeq(buffer, n + 1, Len(buffer))
           fits == Len(rest) + Len(stash) <= BufferSize
       IN  /\ n <= Len(buffer)
           /\ handed' = SubSeq(buffer, 1, n)
           /\ past' = IF handed = <<>> THEN past ELSE Last(handed)
           /\ buffer' = IF fits THEN rest \o stash ELSE rest
           /\ stash' = IF fits THEN <<>> ELSE stash
    /\ uartPc' = "call"
    /\ UNCHANGED <<events, event, callback, received>>

(* p_uart_handle(dtmp, event.size): calling NULL resets the device, and the
   driver is installed anew.                                               *)
CallBack ==
    /\ uartPc = "call"
    /\ \/ /\ callback
          /\ uartPc' = "receive"
          /\ event' = <<>>
          /\ UNCHANGED <<buffer, stash, events, callback, received, handed, past>>
       \/ /\ ~callback
          /\ buffer' = <<>> /\ stash' = <<>> /\ events' = <<>>
          /\ uartPc' = "receive" /\ event' = <<>>
          /\ callback' = FALSE
          /\ received' = 0
          /\ handed' = <<>> /\ past' = 0

(* uart_flush_input                                                        *)
Flush ==
    /\ uartPc = "flush"
    /\ buffer' = <<>> /\ stash' = <<>>
    /\ uartPc' = "reset"
    /\ UNCHANGED <<events, event, callback, received, handed, past>>

(* MUTANT: the queue is not reset.                                         *)
ResetQueue_Missing ==
    /\ uartPc = "reset"
    /\ uartPc' = "receive" /\ event' = <<>>
    /\ UNCHANGED <<buffer, stash, events, callback, received, handed, past>>

(* xQueueReset                                                             *)
ResetQueue ==
    /\ uartPc = "reset"
    /\ events' = <<>>
    /\ uartPc' = "receive" /\ event' = <<>>
    /\ UNCHANGED <<buffer, stash, callback, received, handed, past>>

Driver == HardwareOverflow \/ LineNotice \/ \E n \in ChunkSizes : Arrive(n)
UartTask == TakeEvent \/ ReadBytes \/ CallBack \/ Flush \/ ResetQueue

UartNext == Driver \/ SetCallback \/ UartTask

UartSpec == UartInit /\ [][UartNext]_uartVars

(* The task runs when it can, and a sender that keeps sending to a driver
   that has stopped finds the queue with room in the end.                  *)
UartFairness == /\ WF_uartVars(UartTask)
                /\ SF_uartVars(Len(events) < QueueLength /\ HardwareOverflow)

-----------------------------------------------------------------------------
(* Properties                                                              *)

SizesOf(queue) == [i \in 1..Len(queue) |-> queue[i].size]
Announced == SumTo(SizesOf(events), Len(events))
Due == IF uartPc = "read" THEN Head(event).size ELSE 0

(* The state stays in its types, with no more bytes and events than the
   driver has room for.                                                    *)
UartTypeOK ==
    /\ Len(buffer) <= BufferSize
    /\ \A i \in 1..Len(buffer) : buffer[i] \in 1..received
    /\ Len(stash) <= BufferSize
    /\ Len(events) <= QueueLength
    /\ \A i \in 1..Len(events) : events[i].size \in 0..BufferSize
    /\ uartPc \in {"receive", "read", "call", "flush", "reset"}
    /\ Len(event) <= 1
    /\ callback \in BOOLEAN
    /\ received \in 0..MaxBytes

(* What the queue announces is in the buffer, except between the flush and
   the reset that follows it: uart_read_bytes, which waits without limit,
   never has to wait.                                                      *)
ReadNeverWaits == uartPc # "reset" => Due + Announced <= Len(buffer)

(* The callback is given bytes in the order in which they arrived, and no
   byte twice.                                                             *)
BytesInOrder ==
    \A i \in 1..Len(handed) :
        handed[i] > (IF i = 1 THEN past ELSE handed[i - 1])

(* As long as every byte in the buffer is announced, an event's bytes are
   the bytes that will be read for it: events that were lost shift the
   bytes of later ones, but only until nothing unannounced is left.        *)
EventsMatchBytes ==
    uartPc = "read" /\ Due + Announced = Len(buffer)
        => Head(buffer) = Head(event).first

(* Reception that has stopped because the buffer was full starts again.    *)
ReceptionResumes == stash # <<>> ~> stash = <<>>

=============================================================================
