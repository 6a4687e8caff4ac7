------------------------------- MODULE SendQueue -------------------------------
(***************************************************************************)
(* coap_net.c of libcoap: the queue of confirmable messages that wait for  *)
(* an answer, in the order in which they are to be sent again.  A node's t *)
(* is relative to the node before it, the first one's to the base time of  *)
(* the context.                                                            *)
(***************************************************************************)
EXTENDS Sums, Sequences, FiniteSets, SequencesExt

(* When the i-th node is due, after the base time.                         *)
DueAt(queue, i) == SumTo([j \in 1..Len(queue) |-> queue[j].t], i)

Later(node, d) == [node EXCEPT !.t = @ + d]

(* How many nodes stay in front of one that is due at t.                   *)
Position(queue, t) == Cardinality({i \in 1..Len(queue) : DueAt(queue, i) <= t})

(* MUTANT: the node behind the new one keeps its time.                     *)
InsertNode_NextKept(queue, node) ==
    LET k == Position(queue, node.t)
    IN  InsertAt(queue, k + 1, Later(node, -DueAt(queue, k)))

(* coap_insert_node: the node's t is relative to the base time.  It goes
   behind those due at the same time, and the one behind it becomes relative
   to it.                                                                  *)
InsertNode(queue, node) ==
    LET k == Position(queue, node.t)
        new == Later(node, -DueAt(queue, k))
        behind == IF k = Len(queue) THEN <<>>
                  ELSE <<Later(queue[k + 1], -new.t)>> \o SubSeq(queue, k + 2, Len(queue))
    IN  SubSeq(queue, 1, k) \o <<new>> \o behind

(* coap_remove_from_queue, and coap_pop_next with i = 1: the node behind
   keeps its time.                                                         *)
RemoveNode(queue, i) ==
    RemoveAt([j \in 1..Len(queue) |-> IF j = i + 1 THEN Later(queue[j], queue[i].t)
                                      ELSE queue[j]], i)

(* coap_cancel_all_messages: *p = q->next, and nothing else.               *)
UnlinkNode(queue, i) == RemoveAt(queue, i)

=============================================================================
