------------------------------ MODULE StatusLed ------------------------------
(***************************************************************************)
(* The Wi-Fi station of a node and the LED that tells its status:          *)
(* wifi_sta_hadilao.c, led_hadilao.c and what app_main does with them.     *)
(*                                                                         *)
(* The driver posts events to the default event loop, whose task calls     *)
(* wifi_event_handler later: the handler acts on what the driver was.      *)
(* led_blue_task reads status_blue only between two patterns.  Time passes *)
(* in units of 100 ms, and the LED task, when its delay is over, runs      *)
(* before the next unit.                                                   *)
(***************************************************************************)
EXTENDS Naturals, Sequences

CONSTANTS
    HandlerSetsStatus,  \* wifi_event_handler writes status_blue (Node_MQTT)
    InitialStatus,      \* status_blue after app_main has initialised it
    FotaBlinks,         \* the FOTA pattern has a dark half (Node_CoAP)
    AgeBound            \* bound: where age stops counting

Status == {"NOT_STATE", "NORMAL_MODE", "FOTA", "WIFI_SOFTAP"}

(* The patterns of the statuses that anything in the code ever sets last at
   most this long.                                                         *)
Longest == 10

ASSUME LedAssumption ==
    /\ HandlerSetsStatus \in BOOLEAN
    /\ FotaBlinks \in BOOLEAN
    /\ InitialStatus \in {"NOT_STATE", "NORMAL_MODE"}
    /\ AgeBound \in Nat /\ AgeBound > Longest

VARIABLES
    driver,    \* the station: "stopped", "idle", "connecting", "connected"
    posted,    \* posted to the event loop, oldest first
    status,    \* status_blue
    shown,     \* the status whose pattern is played; "none" before the first
    step,      \* the step of that pattern
    left,      \* what is left of the delay of the step
    led,       \* the LED: "on" or "off"
    age        \* history: how long status_blue has had its value

wifiVars == <<driver, posted>>
ledVars == <<shown, step, left, led>>
vars == <<wifiVars, status, ledVars, age>>

-----------------------------------------------------------------------------

On(d) == [level |-> "on", delay |-> d]
Off(d) == [level |-> "off", delay |-> d]

(* MUTANT: the "break" of NORMAL_MODE is missing.                          *)
Pattern_FallsThrough(s) ==
    CASE s = "none" -> <<>>
      [] s = "NORMAL_MODE" -> <<On(5), Off(5), On(1), Off(1)>>
      [] OTHER -> <<Off(1)>>

(* MUTANT: NORMAL_MODE lights the LED twice.                               *)
Pattern_StaysOn(s) ==
    CASE s = "none" -> <<>>
      [] s = "NORMAL_MODE" -> <<On(5), On(5)>>
      [] OTHER -> <<Off(1)>>

(* What led_blue_task plays for a status.                                  *)
Pattern(s) ==
    CASE s = "none" -> <<>>
      [] s = "NORMAL_MODE" -> <<On(5), Off(5)>>
      [] s = "FOTA" -> IF FotaBlinks THEN <<On(1), Off(1)>> ELSE <<On(1)>>
      [] s = "WIFI_SOFTAP" -> <<On(1), Off(1), On(1), Off(1), On(1), Off(1),
                                On(1), Off(1), On(1), Off(10)>>
      [] OTHER -> <<Off(1)>>

Init ==
    /\ driver = "stopped"
    /\ posted = <<>>
    /\ status = InitialStatus
    /\ shown = "none"
    /\ step = 0
    /\ left = 0
    /\ led = "off"
    /\ age = 0

-----------------------------------------------------------------------------
(* The Wi-Fi driver                                                        *)

(* MUTANT: the station is started again while it is idle.                  *)
WifiStart_Again ==
    /\ driver \in {"stopped", "idle"}
    /\ driver' = "idle"
    /\ posted' = Append(posted, "STA_START")
    /\ UNCHANGED <<status, ledVars, age>>

(* wifi_sta_start: esp_wifi_start posts WIFI_EVENT_STA_START.              *)
WifiStart ==
    /\ driver = "stopped"
    /\ driver' = "idle"
    /\ posted' = Append(posted, "STA_START")
    /\ UNCHANGED <<status, ledVars, age>>

Associate ==
    /\ driver = "connecting"
    /\ driver' = "connected"
    /\ posted' = Append(posted, "STA_CONNECTED")
    /\ UNCHANGED <<status, ledVars, age>>

(* The access point is not there, or refuses.                              *)
AssociationFails ==
    /\ driver = "connecting"
    /\ driver' = "idle"
    /\ posted' = Append(posted, "STA_DISCONNECTED")
    /\ UNCHANGED <<status, ledVars, age>>

AssociationLost ==
    /\ driver = "connected"
    /\ driver' = "idle"
    /\ posted' = Append(posted, "STA_DISCONNECTED")
    /\ UNCHANGED <<status, ledVars, age>>

-----------------------------------------------------------------------------
(* wifi_event_handler                                                      *)

(* esp_wifi_connect; it refuses, unnoticed, unless the station is idle.    *)
Connect == driver' = IF driver = "idle" THEN "connecting" ELSE driver

(* An assignment to status_blue, if this firmware's handler has it.        *)
SetStatus(s) ==
    IF HandlerSetsStatus
    THEN /\ status' = s
         /\ age' = IF s = status THEN age ELSE 0
    ELSE UNCHANGED <<status, age>>

OnStart ==
    /\ posted # <<>> /\ Head(posted) = "STA_START"
    /\ posted' = Tail(posted)
    /\ Connect
    /\ UNCHANGED <<status, ledVars, age>>

(* MUTANT: the status is set, and the station stays disconnected.          *)
OnDisconnected_NoRetry ==
    /\ posted # <<>> /\ Head(posted) = "STA_DISCONNECTED"
    /\ posted' = Tail(posted)
    /\ SetStatus("NOT_STATE")
    /\ UNCHANGED <<driver, ledVars>>

(* MUTANT: the status is left as it was.                                   *)
OnDisconnected_KeepsStatus ==
    /\ posted # <<>> /\ Head(posted) = "STA_DISCONNECTED"
    /\ posted' = Tail(posted)
    /\ Connect
    /\ UNCHANGED <<status, ledVars, age>>

OnDisconnected ==
    /\ posted # <<>> /\ Head(posted) = "STA_DISCONNECTED"
    /\ posted' = Tail(posted)
    /\ SetStatus("NOT_STATE")
    /\ Connect
    /\ UNCHANGED ledVars

OnConnected ==
    /\ posted # <<>> /\ Head(posted) = "STA_CONNECTED"
    /\ posted' = Tail(posted)
    /\ SetStatus("NORMAL_MODE")
    /\ UNCHANGED <<driver, ledVars>>

-----------------------------------------------------------------------------
(* led_blue_task                                                           *)

Play(s, i) ==
    /\ shown' = s
    /\ step' = i
    /\ led' = Pattern(s)[i].level
    /\ left' = Pattern(s)[i].delay
    /\ UNCHANGED <<wifiVars, status, age>>

(* switch (status_blue); the first time when the task has been created.    *)
ReadStatus == left = 0 /\ step = Len(Pattern(shown)) /\ Play(status, 1)

NextStep == left = 0 /\ step < Len(Pattern(shown)) /\ Play(shown, step + 1)

(* 100 ms pass.                                                            *)
Tick ==
    /\ left > 0 \/ shown = "none"
    /\ left' = IF left > 0 THEN left - 1 ELSE 0
    /\ age' = IF age < AgeBound THEN age + 1 ELSE age
    /\ UNCHANGED <<wifiVars, status, shown, step, led>>

-----------------------------------------------------------------------------

Station == WifiStart \/ Associate \/ AssociationFails \/ AssociationLost
Handler == OnStart \/ OnConnected \/ OnDisconnected
Led == ReadStatus \/ NextStep

Next == Station \/ Handler \/ Led \/ Tick

Spec == Init /\ [][Next]_vars

(* app_main starts the station and the event loop's task runs; an attempt
   to connect comes to an end; time passes and the LED task is scheduled.  *)
Fairness ==
    /\ WF_vars(WifiStart)
    /\ WF_vars(Handler)
    /\ WF_vars(Associate \/ AssociationFails)
    /\ WF_vars(Led)
    /\ WF_vars(Tick)

FairSpec == Spec /\ Fairness

-----------------------------------------------------------------------------
(* Properties                                                              *)

(* The state stays in its types; however fast the access point comes and
   goes, no more than two events wait for the handler, so the event loop's
   queue cannot fill up.                                                   *)
TypeOK ==
    /\ driver \in {"stopped", "idle", "connecting", "connected"}
    /\ posted \in Seq({"STA_START", "STA_CONNECTED", "STA_DISCONNECTED"})
    /\ Len(posted) <= 2
    /\ status \in Status
    /\ shown \in Status \cup {"none"}
    /\ step \in 0..10
    /\ left \in 0..10
    /\ led \in {"on", "off"}
    /\ age \in 0..AgeBound

(* Once the handler has caught up, status_blue says whether the station is
   associated, in whatever order associations and losses came.             *)
StatusAgrees ==
    HandlerSetsStatus /\ InitialStatus = "NOT_STATE" /\ posted = <<>> =>
        (status = "NORMAL_MODE" <=> driver = "connected")

(* The LED is never later than one pattern: a status older than the longest
   pattern is the one being shown.                                         *)
LedFollows == shown # "none" /\ age > Longest => shown = status

(* What a user relies on: a node that has been without an association for
   longer than one pattern is dark.                                        *)
DarkWhenOffline ==
    HandlerSetsStatus /\ InitialStatus = "NOT_STATE" =>
        (posted = <<>> /\ driver # "connected" /\ age > Longest => led = "off")

(* Every lost or refused association is tried again.                       *)
Reconnects == driver = "idle" ~> driver \in {"connecting", "connected"}

(* While the status is NORMAL_MODE the LED goes on and off for ever.       *)
Blinks == <>[](status = "NORMAL_MODE") => []<>(led = "on") /\ []<>(led = "off")

=============================================================================
