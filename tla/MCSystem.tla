------------------------------- MODULE MCSystem -------------------------------
(***************************************************************************)
(* Values of MqttSystem's constants for TLC.  None of the payloads has a   *)
(* length that is a multiple of four: a report is 73 characters long.      *)
(***************************************************************************)
EXTENDS MqttSystem

Msg(k) == [kind |-> k, aligned |-> FALSE]

SystemMessages == {Msg("report"), Msg("restart")}
NoReports == <<>>
OneReport == <<Msg("report")>>
Restart == {Msg("restart")}

(* Only the node's reports. *)
ReportsOnly == {Msg("report")}
NoCommands == {}

=============================================================================
