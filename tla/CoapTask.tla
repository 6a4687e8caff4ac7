------------------------------- MODULE CoapTask -------------------------------
(***************************************************************************)
(* CoAP_Task of Node_CoAP/main/app_main.c: every five minutes a context    *)
(* and a client session of libcoap are created, one confirmable POST is    *)
(* sent, and both are released again.                                      *)
(*                                                                         *)
(* libcoap counts references: the creator of a session holds one, an entry *)
(* of the send queue (a confirmable message that waits for its ACK) holds  *)
(* another.  Addresses of contexts and sessions are elements of Ids; an    *)
(* address that was freed may be handed out again.                         *)
(*                                                                         *)
(* The loop that would wait for the answer (lines 310-326) and with it the *)
(* response handler are never entered, because resp_wait is set to false   *)
(* right after the request is sent: neither is modelled.                   *)
(***************************************************************************)
EXTENDS Naturals, FiniteSets

CONSTANTS
    Ids,               \* addresses of contexts, and of sessions
    Null,              \* the null pointer
    OutOfMemory,       \* calloc may fail
    ContextMayFail,    \* coap_new_context may fail
    OtherFamilies      \* gethostbyname may return neither AF_INET nor AF_INET6

ASSUME CoapAssumption ==
    /\ Null \notin Ids
    /\ OutOfMemory \in BOOLEAN
    /\ ContextMayFail \in BOOLEAN
    /\ OtherFamilies \in BOOLEAN

VARIABLES
    pc,         \* where CoAP_Task is
    psCtx,      \* the pointers of CoAP_Task, which live across rounds
    psSession,
    optlist,    \* "null" or "built"
    contexts,   \* addresses of the contexts that exist
    ref,        \* reference count of a session; 0: there is none
    owner,      \* the context a session belongs to
    queue       \* sessions with a request in their context's send queue

taskVars == <<pc, psCtx, psSession, optlist>>
heapVars == <<contexts, ref, owner, queue>>
vars == <<taskVars, heapVars>>

-----------------------------------------------------------------------------
(* libcoap                                                                 *)

(* coap_new_client_session: coap_make_session and one reference.           *)
NewSession(s, c) ==
    /\ ref' = [ref EXCEPT ![s] = 1]
    /\ owner' = [owner EXCEPT ![s] = c]

(* coap_session_release                                                    *)
Release(r, s) == [r EXCEPT ![s] = @ - 1]

(* What coap_free_context leaves of the references: the send queue's are
   released first, then one of every session that still belongs to it.     *)
RefsWithout(r, c) ==
    [s \in Ids |->
        IF owner[s] # c THEN r[s]
        ELSE LET left == IF s \in queue THEN r[s] - 1 ELSE r[s]
             IN  IF left > 0 THEN left - 1 ELSE 0]

-----------------------------------------------------------------------------
(* Resolving the server                                                    *)

Init ==
    /\ pc = "resolve"
    /\ psCtx = Null
    /\ psSession = Null
    /\ optlist = "null"
    /\ contexts = {}
    /\ ref = [s \in Ids |-> 0]
    /\ owner = [s \in Ids |-> Null]
    /\ queue = {}

(* Line 191 forgets the option list of the previous round.                 *)
Goto(l) == pc' = l /\ UNCHANGED <<psCtx, psSession, heapVars>>

(* calloc of the host name fails: break, vTaskDelete.                      *)
HostNameFails ==
    /\ pc = "resolve" /\ OutOfMemory
    /\ optlist' = "null"
    /\ Goto("deleted")

(* DNS lookup failed: wait a second, continue.                             *)
DnsFails ==
    /\ pc = "resolve"
    /\ optlist' = "null"
    /\ Goto("backoff")

Backoff ==
    /\ pc = "backoff"
    /\ UNCHANGED optlist
    /\ Goto("resolve")

(* The address is filled in and the URI's path becomes an option list.     *)
Resolved ==
    /\ pc = "resolve"
    /\ optlist' = "built"
    /\ Goto("context")

OtherFamily ==
    /\ pc = "resolve" /\ OtherFamilies
    /\ optlist' = "null"
    /\ Goto("clean_up")

-----------------------------------------------------------------------------
(* Sending the request                                                     *)

ContextCreated ==
    /\ pc = "context"
    /\ \E c \in Ids \ contexts :
           /\ psCtx' = c
           /\ contexts' = contexts \cup {c}
    /\ pc' = "session"
    /\ UNCHANGED <<psSession, optlist, ref, owner, queue>>

ContextRefused ==
    /\ pc = "context" /\ ContextMayFail
    /\ psCtx' = Null
    /\ pc' = "clean_up"
    /\ UNCHANGED <<psSession, optlist, heapVars>>

SessionCreated ==
    /\ pc = "session"
    /\ \E s \in Ids :
           /\ ref[s] = 0
           /\ psSession' = s
           /\ NewSession(s, psCtx)
    /\ pc' = "request"
    /\ UNCHANGED <<psCtx, optlist, contexts, queue>>

(* MUTANT: "continue" where the code has "goto clean_up".                  *)
SessionRefused_Continues ==
    /\ pc = "session"
    /\ psSession' = Null
    /\ pc' = "backoff"
    /\ UNCHANGED <<psCtx, optlist, heapVars>>

SessionRefused ==
    /\ pc = "session"
    /\ psSession' = Null
    /\ pc' = "clean_up"
    /\ UNCHANGED <<psCtx, optlist, heapVars>>

(* coap_new_pdu, the options, coap_add_data.                               *)
RequestBuilt ==
    /\ pc = "request"
    /\ pc' = "send"
    /\ UNCHANGED <<psCtx, psSession, optlist, heapVars>>

RequestRefused ==
    /\ pc = "request"
    /\ pc' = "clean_up"
    /\ UNCHANGED <<psCtx, psSession, optlist, heapVars>>

(* MUTANT: coap_send and coap_wait_ack both take a reference.              *)
Sent_TwoReferences ==
    /\ pc = "send"
    /\ queue' = queue \cup {psSession}
    /\ ref' = [ref EXCEPT ![psSession] = @ + 2]
    /\ pc' = "clean_up"
    /\ UNCHANGED <<psCtx, psSession, optlist, contexts, owner>>

(* coap_send: the datagram goes out and coap_wait_ack queues the request
   for retransmission, with a reference of its own.                        *)
Sent ==
    /\ pc = "send"
    /\ queue' = queue \cup {psSession}
    /\ ref' = [ref EXCEPT ![psSession] = @ + 1]
    /\ pc' = "clean_up"
    /\ UNCHANGED <<psCtx, psSession, optlist, contexts, owner>>

(* coap_send frees a request it cannot send; its result is ignored.        *)
SendFails ==
    /\ pc = "send"
    /\ pc' = "clean_up"
    /\ UNCHANGED <<psCtx, psSession, optlist, heapVars>>

-----------------------------------------------------------------------------
(* Cleaning up                                                             *)

StaleSession == psSession # Null /\ ref[psSession] = 0
StaleContext == psCtx # Null /\ psCtx \notin contexts

AfterRelease == IF psSession = Null THEN ref ELSE Release(ref, psSession)

(* MUTANT: the send queue is not emptied with its context.                 *)
FreeContext_KeepsQueue(r) ==
    /\ ref' = IF psCtx = Null THEN r ELSE RefsWithout(r, psCtx)
    /\ contexts' = contexts \ {psCtx}
    /\ UNCHANGED queue

(* coap_free_context                                                       *)
FreeContext(r) ==
    IF psCtx = Null
    THEN ref' = r /\ UNCHANGED <<contexts, queue>>
    ELSE /\ ref' = RefsWithout(r, psCtx)
         /\ contexts' = contexts \ {psCtx}
         /\ queue' = {s \in queue : owner[s] # psCtx}

(* MUTANT: the context is kept when the session could not be created.      *)
CleanUp_SkipsContext ==
    /\ pc = "clean_up"
    /\ ~StaleSession /\ ~StaleContext
    /\ IF psSession = Null THEN UNCHANGED <<ref, contexts, queue>>
                           ELSE FreeContext(AfterRelease)
    /\ pc' = "sleep"
    /\ optlist' = "null"
    /\ UNCHANGED <<psCtx, psSession, owner>>

(* clean_up: the option list, the session, the context; the pointers keep
   their values.  The socket is closed with the session.                   *)
CleanUp ==
    /\ pc = "clean_up"
    /\ ~StaleSession /\ ~StaleContext
    /\ FreeContext(AfterRelease)
    /\ pc' = "sleep"
    /\ optlist' = "null"
    /\ UNCHANGED <<psCtx, psSession, owner>>

(* What was freed before is released again: anything may happen, and
   nothing is said of it.                                                  *)
CleanUpStale ==
    /\ pc = "clean_up"
    /\ StaleSession \/ StaleContext
    /\ pc' = "undefined"
    /\ UNCHANGED <<psCtx, psSession, optlist, heapVars>>

Sleep ==
    /\ pc = "sleep"
    /\ UNCHANGED optlist
    /\ Goto("resolve")

Next ==
    \/ HostNameFails \/ DnsFails \/ Backoff \/ Resolved \/ OtherFamily
    \/ ContextCreated \/ ContextRefused \/ SessionCreated \/ SessionRefused
    \/ RequestBuilt \/ RequestRefused \/ Sent \/ SendFails
    \/ CleanUp \/ CleanUpStale \/ Sleep

Spec == Init /\ [][Next]_vars

(* The task is scheduled, and no resource is refused every time it is asked
   for: lookups, memory and sockets are there again and again.             *)
Fairness ==
    /\ WF_vars(Backoff) /\ WF_vars(CleanUp \/ CleanUpStale) /\ WF_vars(Sleep)
    /\ SF_vars(Resolved) /\ SF_vars(ContextCreated) /\ SF_vars(SessionCreated)
    /\ SF_vars(RequestBuilt) /\ SF_vars(Sent)

FairSpec == Spec /\ Fairness

-----------------------------------------------------------------------------
(* Properties                                                              *)

Locations == {"resolve", "backoff", "context", "session", "request", "send",
              "clean_up", "sleep", "deleted", "undefined"}

(* The state stays in its types; a session never has more than the two
   references of the task and of the send queue.                           *)
TypeOK ==
    /\ pc \in Locations
    /\ psCtx \in Ids \cup {Null}
    /\ psSession \in Ids \cup {Null}
    /\ optlist \in {"null", "built"}
    /\ contexts \in SUBSET Ids
    /\ ref \in [Ids -> 0..2]
    /\ owner \in [Ids -> Ids \cup {Null}]
    /\ queue \in SUBSET Ids

(* coap_session.h:71-72, "the session may be deleted as a result and should
   not be used after this call": CoAP_Task releases nothing that was
   released in an earlier round.                                           *)
NothingReleasedTwice == pc # "undefined"

(* Whatever fails on the way, a round gives back all it took: between
   rounds there is no context, no session, no request waiting to be
   retransmitted and no option list.                                       *)
NothingLeft ==
    pc \in {"resolve", "backoff", "sleep", "deleted"} =>
        /\ contexts = {}
        /\ \A s \in Ids : ref[s] = 0
        /\ queue = {}
        /\ optlist = "null"

(* A session that can still retransmit belongs to a context that exists.   *)
QueueSafe == \A s \in queue : ref[s] > 0 /\ owner[s] \in contexts

(* The node posts again and again, whatever is refused in between, unless
   the task has deleted itself or released what was gone.                  *)
KeepsPosting == []<>(queue # {}) \/ <>(pc \in {"deleted", "undefined"})

=============================================================================
