----------------------------- MODULE CoapMessages -----------------------------
(***************************************************************************)
(* How libcoap, as Node_CoAP uses it over UDP, carries confirmable         *)
(* messages (coap_net.c, coap_session.c): a session has at most NSTART of  *)
(* them under way and delays the others; one under way is sent again, each *)
(* time after twice as long, until it is acknowledged, reset or answered,  *)
(* or until it has been sent often enough.                                 *)
(*                                                                         *)
(* The peer and the network answer only what has been sent; beyond that    *)
(* any answer may come at any time, late, twice, or never, and a message   *)
(* of the peer's own may carry any message id.                             *)
(***************************************************************************)
EXTENDS SendQueue

CONSTANTS
    Messages,       \* confirmable requests; each has its own mid and token
    Sessions,       \* sessions of the one context
    Owner,          \* the session of each message
    NStart,         \* COAP_NSTART: the session's nstart, 1 by default
    MaxRetransmit,  \* session->max_retransmit
    Timeouts,       \* what coap_calc_timeout may return
    Answers,        \* the answers the peer gives
    WritesFail,     \* the socket may refuse a datagram
    OutOfMemory,    \* coap_new_node may fail
    Late            \* bound: how late coap_io_process may run

(* What may come back for a message:
     ack       an empty acknowledgement, or one with the response in it
     rst       a reset
     separate  a response with its token, under a message id that is none of
               the session's
     echo      a non-confirmable response with its token, under the message
               id of one that waits: this one or another, since the peer
               numbers its messages as it likes                            *)
AnswerKinds == {"ack", "rst", "separate", "echo"}

ASSUME MessagesAssumption ==
    /\ IsFiniteSet(Messages) /\ Owner \in [Messages -> Sessions]
    /\ NStart \in Nat \ {0} /\ MaxRetransmit \in Nat /\ Late \in Nat
    /\ Timeouts \subseteq Nat \ {0} /\ Timeouts # {}
    /\ Answers \subseteq AnswerKinds
    /\ WritesFail \in BOOLEAN /\ OutOfMemory \in BOOLEAN

VARIABLES
    sendqueue,   \* context->sendqueue
    elapsed,     \* time since context->sendqueue_basetime, 0 if it is empty
    delayqueue,  \* session->delayqueue
    conActive,   \* session->con_active
    fate,        \* history: what has become of each message
    onWire,      \* history: the messages written at least once
    left,        \* history: time until each message is to be sent again
    odd          \* history: what the code does not allow for, so far

ioVars == <<sendqueue, elapsed, delayqueue, conActive>>
vars == <<ioVars, fate, onWire, left, odd>>

Ends == {"refused", "answered", "reset", "failed", "lost"}

-----------------------------------------------------------------------------
(* The code's state as one record, which the functions below work on       *)

Io == [queue |-> sendqueue, elapsed |-> elapsed,
       delayed |-> delayqueue, active |-> conActive]

Becomes(next) ==
    \E io \in {next} :
        /\ sendqueue' = io.queue
        /\ elapsed' = IF io.queue = <<>> THEN 0 ELSE io.elapsed
        /\ delayqueue' = io.delayed
        /\ conActive' = io.active

Mids(nodes) == {nodes[i].mid : i \in 1..Len(nodes)}
Index(queue, m) == CHOOSE i \in 1..Len(queue) : queue[i].mid = m
Waits(m) == m \in Mids(sendqueue)

(* node->timeout << node->retransmit_cnt                                   *)
Backoff(node) ==
    LET shifted[n \in 0..node.cnt] == IF n = 0 THEN node.timeout ELSE 2 * shifted[n - 1]
    IN  shifted[node.cnt]

(* coap_wait_ack: a queue that is empty gets a new base time.              *)
WaitAck(io, node) ==
    IF io.queue = <<>>
    THEN [io EXCEPT !.queue = <<[node EXCEPT !.t = Backoff(node)]>>, !.elapsed = 0]
    ELSE [io EXCEPT !.queue = InsertNode(@, [node EXCEPT !.t = io.elapsed + Backoff(node)])]

(* if (session->con_active) session->con_active--                          *)
OneLess(io, s) == [io EXCEPT !.active[s] = IF @ > 0 THEN @ - 1 ELSE 0]

(* What coap_session_connected takes off the delay queue of s, when the
   first w writes of its loop succeed and the next one does not.           *)
Released(io, s, w) ==
    SubSeq(io.delayed[s], 1, Min({NStart - io.active[s], Len(io.delayed[s]), w + 1}))

(* coap_session_connected: each released message is counted, written, and
   waits for its acknowledgement even if the write failed.                 *)
Connected(io, s, w) ==
    LET out == Released(io, s, w)
        after[j \in 0..Len(out)] ==
            IF j = 0 THEN io
            ELSE WaitAck([after[j - 1] EXCEPT !.delayed[s] = Tail(@),
                                              !.active[s] = @ + 1], out[j])
    IN  after[Len(out)]

(* MUTANT: the counter goes down, but nobody looks at the delay queue.     *)
Finished_NoFlush(io, s, w) == OneLess(io, s)

(* One message of s is over: count it, and flush what was delayed.         *)
Finished(io, s, w) ==
    IF io.active[s] > 0 THEN Connected(OneLess(io, s), s, w) ELSE io

(* What such a flush takes, and the writes of it that may succeed.         *)
Flushed(io, s, w) ==
    IF io.active[s] > 0 THEN Released(OneLess(io, s), s, w) ELSE <<>>
Writes == IF WritesFail THEN 0..NStart ELSE {NStart}
Written(flushed, w) == {flushed[i].mid : i \in 1..Min({w, Len(flushed)})}
Failed(flushed, w) == IF Len(flushed) > w THEN {"write"} ELSE {}

-----------------------------------------------------------------------------

Init ==
    /\ sendqueue = <<>> /\ elapsed = 0
    /\ delayqueue = [s \in Sessions |-> <<>>]
    /\ conActive = [s \in Sessions |-> 0]
    /\ fate = [m \in Messages |-> "new"]
    /\ onWire = {}
    /\ left = [m \in Messages |-> 0]
    /\ odd = {}

(* The history of a step: what has become of each message, the messages in
   "written" have been sent, and those that entered the send queue have
   their full time.                                                        *)
NoteAll(fates, written, what) ==
    /\ fate' = fates
    /\ onWire' = onWire \cup written
    /\ left' = [x \in Messages |->
                   IF x \notin Mids(sendqueue') THEN 0
                   ELSE IF x \in Mids(sendqueue) /\ sendqueue[Index(sendqueue, x)].cnt
                                                   = sendqueue'[Index(sendqueue', x)].cnt
                        THEN left[x]
                        ELSE Backoff(sendqueue'[Index(sendqueue', x)])]
    /\ odd' = odd \cup what

Note(m, f, written, what) == NoteAll([fate EXCEPT ![m] = f], written, what)

(* A step in which m ends as f, out of a state io in which it is still
   counted, and what was delayed is flushed.                               *)
Ended(io, m, f, what) ==
    \E w \in Writes :
        LET s == Owner[m]
            flushed == Flushed(io, s, w)
        IN  /\ Becomes(Finished(io, s, w))
            /\ Note(m, f, Written(flushed, w), what \cup Failed(flushed, w))

Without(m) == [Io EXCEPT !.queue = RemoveNode(@, Index(@, m))]

(* coap_cancel_all_messages by the token of m, and what is odd about it.   *)
Unlinked(io, m) == [io EXCEPT !.queue = UnlinkNode(@, Index(@, m))]
Cancels(io, m) == IF Index(io.queue, m) < Len(io.queue) THEN {"cancel"} ELSE {}

-----------------------------------------------------------------------------
(* The application and the clock                                           *)

(* coap_send_internal, coap_send_pdu: the application sends m.  It is told
   that m was refused if the write fails, and also if there is no memory for
   the node: then m may have been written and counted all the same.        *)
Send(m) ==
    /\ fate[m] = "new"
    /\ \E timeout \in Timeouts :
         LET s == Owner[m]
             node == [mid |-> m, t |-> 0, timeout |-> timeout, cnt |-> 0]
         IN  \/ /\ conActive[s] >= NStart
                /\ Becomes([Io EXCEPT !.delayed[s] = Append(@, node)])
                /\ Note(m, "sent", {}, {})
             \/ /\ conActive[s] < NStart
                /\ Becomes(WaitAck([Io EXCEPT !.active[s] = @ + 1], node))
                /\ Note(m, "sent", {m}, {})
    \/ /\ fate[m] = "new"
       /\ conActive[Owner[m]] < NStart
       /\ WritesFail
       /\ UNCHANGED ioVars
       /\ Note(m, "refused", {}, {"write"})
    \/ /\ fate[m] = "new"
       /\ OutOfMemory
       /\ \/ /\ conActive[Owner[m]] >= NStart
             /\ UNCHANGED ioVars
             /\ Note(m, "refused", {}, {})
          \/ /\ conActive[Owner[m]] < NStart
             /\ Becomes([Io EXCEPT !.active[Owner[m]] = @ + 1])
             /\ Note(m, "refused", {m}, {"memory"})

(* Time passes while something waits.                                      *)
Tick ==
    /\ sendqueue # <<>>
    /\ elapsed < Head(sendqueue).t + Late
    /\ elapsed' = elapsed + 1
    /\ left' = [m \in Messages |-> IF Waits(m) THEN left[m] - 1 ELSE 0]
    /\ UNCHANGED <<sendqueue, delayqueue, conActive, fate, onWire, odd>>

-----------------------------------------------------------------------------
(* coap_io_prepare_io: one turn of its loop over what is due               *)

HeadDue == sendqueue # <<>> /\ Head(sendqueue).t <= elapsed

(* MUTANT: the last retransmission is one too many.                        *)
MayRetry_OneMore(node) == node.cnt <= MaxRetransmit

MayRetry(node) == node.cnt < MaxRetransmit

(* MUTANT: the head is looked at, and not taken off the queue.             *)
Retransmit_Peeks ==
    /\ HeadDue
    /\ MayRetry(Head(sendqueue))
    /\ LET node == [Head(sendqueue) EXCEPT !.cnt = @ + 1] IN
       /\ Becomes(WaitAck(Io, node))
       /\ Note(node.mid, "sent", {node.mid}, {})

(* coap_retransmit puts the node back with twice the time and sends it
   again, for which it is counted anew.                                    *)
Retransmit ==
    /\ HeadDue
    /\ MayRetry(Head(sendqueue))
    /\ LET node == [Head(sendqueue) EXCEPT !.cnt = @ + 1]
           m == node.mid
           s == Owner[m]
           back == OneLess(WaitAck(Without(m), node), s)
       IN  \/ /\ Becomes([back EXCEPT !.active[s] = @ + 1])
              /\ Note(m, "sent", {m}, {})
           \/ /\ WritesFail
              /\ Becomes(back)
              /\ Note(m, "sent", {}, {"write"})

(* coap_retransmit has sent it often enough: the application is told.      *)
GiveUp ==
    /\ HeadDue
    /\ ~MayRetry(Head(sendqueue))
    /\ LET m == Head(sendqueue).mid IN Ended(Without(m), m, "failed", {})

-----------------------------------------------------------------------------
(* coap_dispatch: an answer arrives.  Those that change nothing, because m
   does not wait any more, are left out.                                   *)

(* COAP_MESSAGE_ACK                                                        *)
ReceiveAck(m) ==
    /\ "ack" \in Answers /\ m \in onWire
    /\ Waits(m)
    /\ Ended(Without(m), m, "answered", {})

(* COAP_MESSAGE_RST: the counter goes down, and what was delayed goes out,
   before the message is looked for.                                       *)
ReceiveReset(m) ==
    /\ "rst" \in Answers /\ m \in onWire
    /\ \/ /\ Waits(m)
          /\ \E w \in Writes :
               LET s == Owner[m]
                   io == Finished(Io, s, w)
                   flushed == Flushed(Io, s, w)
               IN  /\ Becomes([io EXCEPT !.queue = RemoveNode(@, Index(@, m))])
                   /\ Note(m, "reset", Written(flushed, w), Failed(flushed, w))
       \/ /\ ~Waits(m)
          /\ conActive[Owner[m]] > 0
          /\ Ended(Io, m, fate[m], {"reset"})

(* A separate response: coap_cancel_all_messages by its token.             *)
ReceiveSeparate(m) ==
    /\ "separate" \in Answers /\ m \in onWire
    /\ Waits(m)
    /\ Ended(Unlinked(Io, m), m, "answered", Cancels(Io, m))

(* COAP_MESSAGE_NON, in answer to m: x, whose message id it has, is taken out
   of the queue and not counted.  If m is another message that still waits,
   it is then cancelled by its token, as for a separate response.          *)
ReceiveEcho(m, x) ==
    /\ "echo" \in Answers /\ m \in onWire
    /\ Waits(x) /\ Owner[x] = Owner[m]
    /\ \/ /\ x = m
          /\ Becomes(Without(x))
          /\ Note(x, "answered", {}, {"echo"})
       \/ /\ x # m /\ ~Waits(m)
          /\ Becomes(Without(x))
          /\ Note(x, "lost", {}, {"echo"})
       \/ /\ x # m /\ Waits(m)
          /\ \E w \in Writes :
               LET s == Owner[m]
                   io == Unlinked(Without(x), m)
                   flushed == Flushed(io, s, w)
               IN  /\ Becomes(Finished(io, s, w))
                   /\ NoteAll([fate EXCEPT ![x] = "lost", ![m] = "answered"],
                              Written(flushed, w),
                              {"echo"} \cup Cancels(Without(x), m) \cup Failed(flushed, w))

-----------------------------------------------------------------------------

Receive(m) ==
    \/ ReceiveAck(m) \/ ReceiveReset(m) \/ ReceiveSeparate(m)
    \/ \E x \in Messages : ReceiveEcho(m, x)

Next == Tick \/ Retransmit \/ GiveUp \/ \E m \in Messages : Send(m) \/ Receive(m)

Spec == Init /\ [][Next]_vars

-----------------------------------------------------------------------------
(* Properties                                                              *)

Outstanding(s) == {m \in Mids(sendqueue) : Owner[m] = s}

(* Written and counted, and then refused for want of memory.               *)
Leaked(s) == {m \in onWire : Owner[m] = s /\ fate[m] = "refused"}

(* The state stays in its types: no more messages are counted than NSTART
   allows, no message is sent more often than MAX_RETRANSMIT allows.       *)
TypeOK ==
    /\ \A i \in 1..Len(sendqueue) :
          sendqueue[i] \in [mid : Messages, t : Nat, timeout : Timeouts,
                            cnt : 0..MaxRetransmit]
    /\ elapsed \in Nat
    /\ \A s \in Sessions : \A i \in 1..Len(delayqueue[s]) :
          delayqueue[s][i].mid \in Messages /\ Owner[delayqueue[s][i].mid] = s
    /\ conActive \in [Sessions -> 0..NStart]
    /\ fate \in [Messages -> Ends \cup {"new", "sent"}]

(* A message is in exactly one queue, and there once, as long as nothing has
   ended it, and in none afterwards: it is not sent by two timers and not
   reported twice.  And nothing ends it silently, with one exception: a
   non-confirmable answer to another message, which happens to have its
   message id, loses it.                                                   *)
QueuedOnce ==
    \A m \in Messages :
        /\ Cardinality({i \in 1..Len(sendqueue) : sendqueue[i].mid = m})
             + Cardinality({i \in 1..Len(delayqueue[Owner[m]]) :
                               delayqueue[Owner[m]][i].mid = m})
           = IF fate[m] = "sent" THEN 1 ELSE 0
        /\ fate[m] = "lost" => "echo" \in odd

(* Every message is sent again when its time has come and not later; and not
   earlier either, unless a separate response has cancelled one before it. *)
TimesKept ==
    \A i \in 1..Len(sendqueue) :
        LET due == DueAt(sendqueue, i) - elapsed
            time == left[sendqueue[i].mid]
        IN  due <= time /\ ("cancel" \notin odd => due = time)

(* con_active is the number of messages under way and of those that were
   counted before the memory for their node was missing, so that never more
   than NSTART are under way, and without such a loss never fewer while
   others are delayed: unless a write failed, a reset came for a message no
   longer under way, or a non-confirmable answer had the message id of one
   that waited.                                                            *)
CountsOutstanding ==
    odd \subseteq {"cancel", "memory"} =>
        \A s \in Sessions :
            /\ conActive[s] = Cardinality(Outstanding(s)) + Cardinality(Leaked(s))
            /\ delayqueue[s] # <<>> => conActive[s] = NStart

(* coap_net.c, "there may be another CON in a different queue entry on the
   same session that needs to be immediately released": when nothing of a
   session is under way any more, nothing of it is delayed.                *)
DelayedReleased ==
    \A s \in Sessions : Outstanding(s) = {} => delayqueue[s] = <<>>

=============================================================================
