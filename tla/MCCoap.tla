-------------------------------- MODULE MCCoap --------------------------------
(***************************************************************************)
(* Values of CoapMessages's constants for TLC: the messages are numbered.  *)
(***************************************************************************)
EXTENDS CoapMessages

(* One session, as in Node_CoAP.                                           *)
OneSession == [m \in Messages |-> 1]

(* A context with two sessions, the second with one message.               *)
TwoSessions == [m \in Messages |-> IF m = 3 THEN 2 ELSE 1]

=============================================================================
