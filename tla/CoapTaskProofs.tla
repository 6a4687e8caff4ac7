---------------------------- MODULE CoapTaskProofs ----------------------------
(***************************************************************************)
(* Proofs about CoapTask, for any number of addresses: every round gives   *)
(* back what it took, and nothing is released twice as long as contexts    *)
(* can be created and the server has an IP address.                        *)
(***************************************************************************)
EXTENDS CoapTask, TLAPS

-----------------------------------------------------------------------------
(* The inductive invariant: what the heap of libcoap holds at each line    *)

Nothing == /\ contexts = {}
           /\ ref = [s \in Ids |-> 0]
           /\ queue = {}

OneContext == /\ psCtx \in Ids
              /\ contexts = {psCtx}

NoSession == ref = [s \in Ids |-> 0] /\ queue = {}

(* The task's session, with n references.                                  *)
OneSession(n) == /\ psSession \in Ids
                 /\ ref = [s \in Ids |-> IF s = psSession THEN n ELSE 0]
                 /\ owner[psSession] = psCtx

MayBeStale == ContextMayFail \/ OtherFamilies

(* The ways to reach clean_up: with a request queued, or not; without a
   session; without anything of this round.                                *)
BeforeCleanUp ==
    \/ OneContext /\ OneSession(2) /\ queue = {psSession}
    \/ OneContext /\ OneSession(1) /\ queue = {}
    \/ OneContext /\ NoSession /\ psSession = Null
    \/ Nothing /\ MayBeStale

Heap ==
    /\ pc \in {"resolve", "backoff", "sleep", "deleted"} => Nothing /\ optlist = "null"
    /\ pc = "context" => Nothing
    /\ pc = "session" => OneContext /\ NoSession
    /\ pc \in {"request", "send"} => OneContext /\ OneSession(1) /\ queue = {}
    /\ pc = "clean_up" => BeforeCleanUp
    /\ pc = "undefined" => Nothing /\ MayBeStale

IInv == TypeOK /\ Heap

-----------------------------------------------------------------------------
(* Cleaning up leaves nothing                                              *)

(* Releasing the session and then the context frees both, whatever the
   round had reached.                                                      *)
LEMMA CleanUpFrees == IInv /\ CleanUp => Nothing'
<1> SUFFICES ASSUME IInv, CleanUp PROVE Nothing'
  OBVIOUS
<1>t. Null \notin Ids /\ BeforeCleanUp /\ ref \in [Ids -> 0..2]
  BY CoapAssumption DEF CleanUp, IInv, Heap, TypeOK
<1>1. CASE OneContext /\ OneSession(2) /\ queue = {psSession}
  <2>1. AfterRelease = [s \in Ids |-> IF s = psSession THEN 1 ELSE 0]
    BY <1>t, <1>1 DEF OneSession, AfterRelease, Release
  <2>2. RefsWithout(AfterRelease, psCtx) = [s \in Ids |-> 0]
    BY <1>t, <1>1, <2>1 DEF OneSession, OneContext, RefsWithout
  <2> QED
    BY <1>t, <1>1, <2>2 DEF CleanUp, FreeContext, OneContext, OneSession, Nothing
<1>2. CASE OneContext /\ OneSession(1) /\ queue = {}
  <2>1. AfterRelease = [s \in Ids |-> 0]
    BY <1>t, <1>2 DEF OneSession, AfterRelease, Release
  <2>2. RefsWithout(AfterRelease, psCtx) = [s \in Ids |-> 0]
    BY <1>t, <1>2, <2>1 DEF RefsWithout
  <2> QED
    BY <1>t, <1>2, <2>2 DEF CleanUp, FreeContext, OneContext, Nothing
<1>3. CASE OneContext /\ NoSession /\ psSession = Null
  <2>1. RefsWithout(AfterRelease, psCtx) = [s \in Ids |-> 0]
    BY <1>t, <1>3 DEF NoSession, AfterRelease, RefsWithout
  <2> QED
    BY <1>t, <1>3, <2>1 DEF CleanUp, FreeContext, OneContext, NoSession, Nothing
<1>4. CASE Nothing
  <2>1. psSession = Null /\ psCtx = Null
    BY <1>t, <1>4 DEF CleanUp, StaleSession, StaleContext, Nothing, IInv, TypeOK
  <2> QED
    BY <1>4, <2>1 DEF CleanUp, FreeContext, AfterRelease, Nothing
<1> QED
  BY <1>t, <1>1, <1>2, <1>3, <1>4 DEF BeforeCleanUp

-----------------------------------------------------------------------------

LEMMA InitInv == Init => IInv
  BY DEF Init, IInv, TypeOK, Heap, Nothing, Locations

LEMMA StepInv == IInv /\ [Next]_vars => IInv'
<1> SUFFICES ASSUME IInv, [Next]_vars PROVE IInv'
  OBVIOUS
<1> USE CoapAssumption DEF IInv, Locations
<1>1. CASE HostNameFails \/ DnsFails \/ Backoff \/ Resolved \/ OtherFamily \/ Sleep
  BY <1>1
     DEF HostNameFails, DnsFails, Backoff, Resolved, OtherFamily, Sleep, Goto, heapVars,
         TypeOK, Heap, Nothing, BeforeCleanUp, MayBeStale
<1>2. CASE ContextCreated
  BY <1>2 DEF ContextCreated, TypeOK, Heap, Nothing, OneContext, NoSession
<1>3. CASE ContextRefused
  BY <1>3 DEF ContextRefused, heapVars, TypeOK, Heap, Nothing, BeforeCleanUp, MayBeStale
<1>4. CASE SessionCreated
  <2>1. TypeOK'
    BY <1>4 DEF SessionCreated, NewSession, TypeOK, Heap, OneContext
  <2>2. OneContext' /\ queue' = {}
    BY <1>4 DEF SessionCreated, Heap, OneContext, NoSession
  <2>3. OneSession(1)'
    <3>1. PICK s \in Ids : /\ psSession' = s
                           /\ ref' = [ref EXCEPT ![s] = 1]
                           /\ owner' = [owner EXCEPT ![s] = psCtx]
                           /\ psCtx' = psCtx
      BY <1>4 DEF SessionCreated, NewSession
    <3>2. ref = [t \in Ids |-> 0] /\ owner \in [Ids -> Ids \cup {Null}]
      BY <1>4 DEF SessionCreated, TypeOK, Heap, NoSession
    <3> QED
      BY <3>1, <3>2 DEF OneSession
  <2>4. Heap'
    BY <1>4, <2>2, <2>3 DEF SessionCreated, Heap
  <2> QED
    BY <2>1, <2>4
<1>5. CASE SessionRefused
  BY <1>5 DEF SessionRefused, heapVars, TypeOK, Heap, OneContext, NoSession, BeforeCleanUp
<1>6. CASE RequestBuilt \/ RequestRefused \/ SendFails
  BY <1>6
     DEF RequestBuilt, RequestRefused, SendFails, heapVars, TypeOK, Heap,
         OneContext, OneSession, BeforeCleanUp
<1>7. CASE Sent
  <2>1. ref' = [s \in Ids |-> IF s = psSession THEN 2 ELSE 0] /\ queue' = {psSession}
    <3>1. OneSession(1) /\ queue = {}
      BY <1>7 DEF Sent, Heap
    <3>2. ref' = [ref EXCEPT ![psSession] = @ + 1]
      BY <1>7 DEF Sent
    <3>3. ref' = [s \in Ids |-> IF s = psSession THEN 2 ELSE 0]
      BY <3>1, <3>2 DEF OneSession
    <3> QED
      BY <1>7, <3>1, <3>3 DEF Sent
  <2>2. TypeOK'
    BY <1>7, <2>1 DEF Sent, TypeOK, Heap, OneSession
  <2>3. BeforeCleanUp'
    BY <1>7, <2>1 DEF Sent, Heap, OneContext, OneSession, BeforeCleanUp
  <2> QED
    BY <1>7, <2>2, <2>3 DEF Sent, Heap
<1>8. CASE CleanUp
  <2>1. Nothing'
    BY <1>8, CleanUpFrees
  <2>2. TypeOK'
    BY <1>8, <2>1 DEF CleanUp, TypeOK, Nothing
  <2> QED
    BY <1>8, <2>1, <2>2 DEF CleanUp, Heap
<1>9. CASE CleanUpStale
  <2>1. Nothing /\ MayBeStale
    BY <1>9
       DEF CleanUpStale, StaleSession, StaleContext, Heap, BeforeCleanUp, OneContext,
           OneSession, NoSession
  <2> QED
    BY <1>9, <2>1 DEF CleanUpStale, heapVars, TypeOK, Heap, Nothing, MayBeStale
<1>10. CASE UNCHANGED vars
  BY <1>10
     DEF vars, taskVars, heapVars, TypeOK, Heap, Nothing, OneContext, NoSession,
         OneSession, BeforeCleanUp, MayBeStale
<1> QED
  BY <1>1, <1>2, <1>3, <1>4, <1>5, <1>6, <1>7, <1>8, <1>9, <1>10 DEF Next

THEOREM Invariance == Spec => []IInv
  BY InitInv, StepInv, PTL DEF Spec

-----------------------------------------------------------------------------
(* The theorems                                                            *)

(* The types, and at most two references to any session.                   *)
THEOREM TypeCorrect == Spec => []TypeOK
  BY Invariance, PTL DEF IInv

(* Between two rounds libcoap holds nothing of the task's, whichever calls
   have failed.                                                            *)
THEOREM RoundsLeaveNothing == Spec => []NothingLeft
<1>1. IInv => NothingLeft
  BY DEF IInv, Heap, Nothing, NothingLeft
<1> QED
  BY <1>1, Invariance, PTL

(* A queued request always has its session and its context.                *)
THEOREM QueueStaysSafe == Spec => []QueueSafe
<1>1. IInv => QueueSafe
  BY DEF IInv, TypeOK, Locations, Heap, Nothing, OneContext, NoSession, OneSession, BeforeCleanUp, QueueSafe
<1> QED
  BY <1>1, Invariance, PTL

(* If contexts can always be created and the lookup yields an IP address,
   CoAP_Task never releases what it has released before.                   *)
THEOREM NeverStale ==
    ASSUME ~ContextMayFail, ~OtherFamilies
    PROVE  Spec => []NothingReleasedTwice
<1>1. IInv => NothingReleasedTwice
  BY DEF IInv, Heap, MayBeStale, NothingReleasedTwice
<1> QED
  BY <1>1, Invariance, PTL

=============================================================================
