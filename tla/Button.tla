-------------------------------- MODULE Button --------------------------------
(***************************************************************************)
(* button_hadilao.c: button_task polls a push button, counts clicks and    *)
(* restarts the device after a long press or after five clicks.            *)
(*                                                                         *)
(* Time is counted in the units of the code, xTaskGetTickCount() divided   *)
(* by portTICK_PERIOD_MS.  Several polls fall into one unit, so a poll     *)
(* advances the clock by zero or more.                                     *)
(***************************************************************************)
EXTENDS Integers

CONSTANTS
    ClickMin,    \* TIME_CLICK_MIN: a press must be longer to be seen
    ClickMax,    \* TIME_CLICK_MAX: a click is shorter
    Hold,        \* TIME_HOLD: a longer press restarts the device
    Forget,      \* TIME_RESET: clicks are forgotten after this time
    Clicks,      \* clicks that restart the device, 5 in the code
    UnitWrap,    \* units until the tick counter wraps: 2^32 \div 10
    Width,       \* range of uint32_t, 2^32
    Gap,         \* longest time between two polls
    Horizon      \* bound: the time that is looked at after a boot

ASSUME ButtonAssumption ==
    /\ ClickMin \in Nat /\ ClickMax \in Nat /\ Hold \in Nat /\ Forget \in Nat
    /\ Clicks \in Nat \ {0} /\ Gap \in Nat /\ Horizon \in Nat
    /\ UnitWrap \in Nat \ {0} /\ Width \in Nat
    /\ ClickMin < ClickMax /\ ClickMax <= Hold
    /\ UnitWrap + Hold < Width

VARIABLES
    timeUp,      \* button.time_up: when the press began, 0 for "none"
    deltaT,      \* button.deltaT: how long it has lasted
    clickCnt,    \* button.click_cnt
    timeStamp,   \* button.time_stamp: when the last click began, 0 for "none"
    restart,     \* "no", or why esp_restart() was called
    clock,       \* time since the boot, which never wraps
    press,       \* history: when the present press was first seen, or None
    seen,        \* history: when it was last seen
    lastClick,   \* history: when the last click began, or None
    chain,       \* history: clicks one after the other
    bounced,     \* history: the readings of the last poll disagreed
    regular      \* history: nothing irregular has happened since the boot

codeVars == <<timeUp, deltaT, clickCnt, timeStamp, restart>>
pressVars == <<clock, press, seen, lastClick, chain, bounced, regular>>
buttonVars == <<codeVars, pressVars>>

None == -1

Readings == {"trigger", "released"}

-----------------------------------------------------------------------------

(* What the code computes: the wrapped counter and uint32_t differences.   *)
Now == clock' % UnitWrap
Since(t) == (Now - t) % Width

ButtonInit ==
    /\ timeUp = 0 /\ deltaT = 0 /\ clickCnt = 0 /\ timeStamp = 0
    /\ restart = "no"
    /\ clock = 0
    /\ press = None /\ seen = None /\ lastClick = None
    /\ chain = 0
    /\ bounced = FALSE
    /\ regular = TRUE

-----------------------------------------------------------------------------
(* The user, independently of the code: presses from the first poll that   *)
(* sees one to the first that does not.                                    *)

(* A press that ended at t was a click, or was long.                       *)
WasSeen == seen - press > ClickMin
WasClick(t) == WasSeen /\ t - press < ClickMax
WasLong(t) == WasSeen /\ t - press > Hold

(* The first reading of a poll at time clock' sees the button pressed.     *)
UserPresses ==
    /\ press' = IF press = None THEN clock' ELSE press
    /\ seen' = clock'
    /\ bounced' = FALSE
    /\ regular' = (regular /\ clock' < UnitWrap /\ (press = None => clock' # 0))
    /\ UNCHANGED <<lastClick, chain>>

(* It does not; a press may have ended.  A further reading of the same poll
   that still, or again, finds the button pressed is a bounce.             *)
UserReleases(bounce) ==
    /\ press' = None
    /\ seen' = None
    /\ IF press # None /\ WasClick(clock')
       THEN /\ chain' = IF lastClick # None /\ press - lastClick <= Forget + Gap
                        THEN chain + 1 ELSE 1
            /\ lastClick' = press
       ELSE UNCHANGED <<chain, lastClick>>
    /\ bounced' = bounce
    /\ regular' = (/\ regular /\ clock' < UnitWrap /\ ~bounce
                   /\ press # None => WasClick(clock') \/ WasLong(clock'))

-----------------------------------------------------------------------------
(* button_task: the three branches of one poll                             *)

(* vTaskDelay, after which higher tasks may still delay the poll.          *)
Delay == \E d \in 0..Gap : clock' = clock + d /\ clock' <= Horizon

(* MUTANT: the start of a press is taken again while it lasts.             *)
PollPressed_Restarts ==
    /\ Delay
    /\ timeUp' = Now
    /\ deltaT' = Since(timeUp)
    /\ UNCHANGED <<clickCnt, timeStamp, restart>>
    /\ UserPresses

(* Pressed: note when it began, then how long it has lasted.               *)
PollPressed ==
    /\ Delay
    /\ IF timeUp = 0
       THEN timeUp' = Now /\ UNCHANGED deltaT
       ELSE deltaT' = Since(timeUp) /\ UNCHANGED timeUp
    /\ UNCHANGED <<clickCnt, timeStamp, restart>>
    /\ UserPresses

PressPending == timeUp # 0 /\ deltaT > ClickMin

(* MUTANT: the counter is compared before it counts the click.             *)
PollReleased_CountsOn ==
    /\ Delay
    /\ PressPending
    /\ Since(timeUp) < ClickMax
    /\ clickCnt' = clickCnt + 1
    /\ timeStamp' = timeUp
    /\ timeUp' = 0 /\ deltaT' = 0
    /\ restart' = IF clickCnt = Clicks THEN "clicks" ELSE "no"
    /\ UserReleases(FALSE)

(* MUTANT: the start of a press is not forgotten when it was a click.      *)
PollReleased_KeepsStart ==
    /\ Delay
    /\ PressPending
    /\ LET held == Since(timeUp) IN
       /\ restart' = IF held > Hold THEN "hold" ELSE "no"
       /\ deltaT' = 0
       /\ clickCnt' = IF held < ClickMax /\ clickCnt < Clicks - 1
                      THEN clickCnt + 1 ELSE clickCnt
       /\ timeStamp' = timeUp
       /\ UNCHANGED timeUp
    /\ UserReleases(FALSE)

(* Released after a press that counts: a long one, one of the clicks, or
   neither, which changes nothing but deltaT.                              *)
PollReleased ==
    /\ Delay
    /\ PressPending
    /\ LET held == Since(timeUp) IN
       \/ /\ held > Hold
          /\ restart' = "hold"
          /\ deltaT' = held
          /\ UNCHANGED <<timeUp, clickCnt, timeStamp>>
       \/ /\ held <= Hold /\ held > ClickMin /\ held < ClickMax
          /\ clickCnt' = clickCnt + 1
          /\ IF clickCnt' = Clicks
             THEN /\ restart' = "clicks"
                  /\ deltaT' = held
                  /\ UNCHANGED <<timeUp, timeStamp>>
             ELSE /\ timeStamp' = timeUp
                  /\ timeUp' = 0 /\ deltaT' = 0
                  /\ UNCHANGED restart
       \/ /\ held <= Hold /\ ~(held > ClickMin /\ held < ClickMax)
          /\ deltaT' = held
          /\ UNCHANGED <<timeUp, clickCnt, timeStamp, restart>>
    /\ UserReleases(FALSE)

(* MUTANT: the clicks are never forgotten.                                 *)
ClicksExpired_Never == FALSE

ClicksExpired == Since(timeStamp) > Forget /\ timeStamp # 0

(* Released, no press pending, and the last click is too long ago.  The
   second reading decides whether a press may be pending, so a bounce on it
   leads here as well.                                                     *)
PollExpired ==
    \E second \in Readings :
        /\ Delay
        /\ second = "released" => ~PressPending
        /\ ClicksExpired
        /\ timeUp' = 0 /\ deltaT' = 0 /\ clickCnt' = 0 /\ timeStamp' = 0
        /\ UNCHANGED restart
        /\ UserReleases(second = "trigger")

(* Released, and nothing to do.                                            *)
PollIdle ==
    \E second, third \in Readings :
        /\ Delay
        /\ second = "released" => ~PressPending
        /\ third = "released" => ~ClicksExpired
        /\ UNCHANGED codeVars
        /\ UserReleases(second = "trigger" \/ third = "trigger")

(* esp_restart(): the task begins anew, and so does the tick counter.      *)
ButtonReboot ==
    /\ restart # "no"
    /\ timeUp' = 0 /\ deltaT' = 0 /\ clickCnt' = 0 /\ timeStamp' = 0
    /\ restart' = "no"
    /\ clock' = 0
    /\ press' = None /\ seen' = None /\ lastClick' = None
    /\ chain' = 0
    /\ bounced' = FALSE
    /\ regular' = TRUE

Poll == restart = "no" /\ (PollPressed \/ PollReleased \/ PollExpired \/ PollIdle)

ButtonNext == Poll \/ ButtonReboot

ButtonSpec == ButtonInit /\ [][ButtonNext]_buttonVars

-----------------------------------------------------------------------------
(* Properties                                                              *)

(* The state stays in its types, and fewer clicks are counted than restart
   the device.                                                             *)
ButtonTypeOK ==
    /\ timeUp \in 0..UnitWrap-1
    /\ timeStamp \in 0..UnitWrap-1
    /\ deltaT \in 0..Width-1
    /\ clickCnt \in 0..Clicks
    /\ clickCnt = Clicks <=> restart = "clicks"
    /\ restart \in {"no", "hold", "clicks"}
    /\ clock \in 0..Horizon
    /\ press \in {None} \cup 0..Horizon
    /\ seen \in {None} \cup 0..Horizon
    /\ lastClick \in {None} \cup 0..Horizon
    /\ chain \in Nat
    /\ bounced \in BOOLEAN /\ regular \in BOOLEAN

(* The device does not restart because of a long press unless the button was
   held longer than TIME_HOLD, as long as nothing irregular has happened: a
   press too short to count, one between click and hold, a bounce within a
   poll, a press in the first unit, the wrap of the tick counter.          *)
HoldMeansHeld ==
    [][restart' = "hold" /\ regular' => press # None /\ clock' - press > Hold]_buttonVars

(* It restarts because of clicks only after that many clicks, each begun in
   time after the one before it.                                           *)
ClicksMeanClicks == regular => clickCnt <= chain

(* Until the tick counter wraps, a press longer than TIME_HOLD restarts the
   device when it ends, whatever irregular happened before, unless it ends in
   a bounce.  A unit is lost if it began while the counter was 0.          *)
HoldIsObeyed ==
    [][press # None /\ seen - press > Hold + 1
       /\ press' = None /\ ~bounced' /\ clock' < UnitWrap
          => restart' = "hold"]_buttonVars

=============================================================================
