-------------------------------- MODULE MCBoard --------------------------------
(***************************************************************************)
(* Button, UART and LED of one board, for TLC.  The tasks share no         *)
(* variable, and a restart brings each of them back to its initial state,  *)
(* so their interleavings reach no state of one that it does not reach     *)
(* alone: "focus" chooses the one that moves, the others stay as they are. *)
(***************************************************************************)
EXTENDS Button, Uart, StatusLed

VARIABLE focus

boardVars == <<buttonVars, uartVars, vars, focus>>

MCInit == ButtonInit /\ UartInit /\ Init /\ focus \in {"button", "uart", "led"}

ButtonMoves == focus = "button" /\ ButtonNext /\ UNCHANGED <<uartVars, vars, focus>>
UartMoves == focus = "uart" /\ UartNext /\ UNCHANGED <<buttonVars, vars, focus>>
LedMoves == focus = "led" /\ Next /\ UNCHANGED <<buttonVars, uartVars, focus>>

MCNext == ButtonMoves \/ UartMoves \/ LedMoves

(* StatusLed's fairness, while it is the one that moves.                   *)
LedFairness ==
    /\ WF_vars(focus = "led" /\ WifiStart)
    /\ WF_vars(focus = "led" /\ Handler)
    /\ WF_vars(focus = "led" /\ (Associate \/ AssociationFails))
    /\ WF_vars(focus = "led" /\ Led)
    /\ WF_vars(focus = "led" /\ Tick)

MCSpec == MCInit /\ [][MCNext]_boardVars /\ UartFairness /\ LedFairness

=============================================================================
