----------------------------- MODULE OrderedInbox -----------------------------
(***************************************************************************)
(* What a device promises about the MQTT messages it accepts: they are     *)
(* handled one at a time, in the order in which they were accepted, each   *)
(* once, and the only thing that throws accepted messages away is a        *)
(* message that makes the device restart.                                  *)
(*                                                                         *)
(* The promise ends with the first message whose handling may write past   *)
(* the end of something, and begins anew with the next restart.            *)
(*                                                                         *)
(* This is an abstract specification: nothing here is translated from the  *)
(* source.  MqttDevice is shown to implement it.                           *)
(***************************************************************************)
EXTENDS Naturals, Sequences

CONSTANTS Messages,   \* the MQTT messages the broker may deliver
          Bound,      \* how many accepted messages a device can hold
          ParsesAction, \* the firmware reads the "action" of a message
          Executes    \* the firmware acts on the "action" of a message

VARIABLES pending,    \* accepted, not yet handled, oldest first
          obj,        \* what the last handled message said
          sound       \* nothing has been overwritten since the last restart

inboxVars == <<pending, obj, sound>>

-----------------------------------------------------------------------------

(* What a message says to this firmware: nothing, if it is not JSON, and
   no command, if the firmware does not read its "action" or its text is
   too long to be one.                                                     *)
Content(m) ==
    CASE m.kind = "malformed" -> "empty"
      [] m.kind \in {"close", "restart"} /\ ~ParsesAction -> "report"
      [] m.kind = "overlong" -> "report"
      [] OTHER -> m.kind

(* Handling the message may overwrite what is not its own.                 *)
Doubtful(m) == m.aligned \/ m.kind = "overlong"

Init == /\ pending = <<>>
        /\ obj = "empty"
        /\ sound = TRUE

Accept(m) == /\ sound = TRUE
             /\ Len(pending) < Bound
             /\ pending' = Append(pending, m)
             /\ UNCHANGED <<obj, sound>>

(* A restart is due: the message handled last asks for it, or the oldest
   pending one forces it (a value of the wrong JSON type).                 *)
RestartDue == \/ Executes /\ obj = "restart"
              \/ pending # <<>> /\ Head(pending).kind = "nonstring"

Handle == /\ sound = TRUE
          /\ pending # <<>>
          /\ ~RestartDue
          /\ obj' = Content(Head(pending))
          /\ pending' = Tail(pending)
          /\ Doubtful(Head(pending)) \/ sound' = TRUE

(* An over-long text may force one, too.                                   *)
Restart == /\ sound = TRUE
           /\ RestartDue \/ (pending # <<>> /\ Head(pending).kind = "overlong")
           /\ pending' = <<>>
           /\ obj' = "empty"
           /\ sound' = TRUE

(* With damaged memory the device may do anything; a restart mends it.     *)
Astray == /\ sound = FALSE
          /\ sound' = TRUE => pending' = <<>> /\ obj' = "empty"

Next == (\E m \in Messages : Accept(m)) \/ Handle \/ Restart \/ Astray

Spec == Init /\ [][Next]_inboxVars

(* Whatever is pending is handled, unless the device restarts first.  Either
   step changes what is pending, or obj.                                   *)
Fairness == WF_<<pending, obj>>(Handle \/ Restart)

=============================================================================
