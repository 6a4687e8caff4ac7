------------------------------- MODULE MCDevice -------------------------------
(***************************************************************************)
(* Values of MqttDevice's constants for TLC.  The .cfg files choose among  *)
(* them: the Gateway, Node_CoAP and Node_MQTT firmwares.                   *)
(***************************************************************************)
EXTENDS MqttDevice

Msg(k, a) == [kind |-> k, aligned |-> a]

(* Every kind of payload that its firmware tells apart, and one whose length
   is a multiple of four.  No firmware but Node_MQTT reads an "action": a
   command is a report to the others.                                      *)
EveryKind == {Msg(k, FALSE) : k \in Kinds \ {"close"}} \cup {Msg("report", TRUE)}

(* Reports and commands of the user, some of a length that is a multiple of
   four.                                                                   *)
UserCommands == {Msg("report", FALSE), Msg("report", TRUE), Msg("restart", FALSE)}

(* Node_MQTT receives its own reports back. *)
OneReportKind == {Msg("report", FALSE)}

OneReport == <<Msg("report", FALSE)>>

(* Node_CoAP publishes cJSON_mqtt_handler's and cJSON_update_stt's report.  *)
TwoReports == OneReport \o OneReport

=============================================================================
