------------------------------- MODULE BoardProofs -------------------------------
(***************************************************************************)
(* Proofs about two tasks of a board, which share no variable.             *)
(*                                                                         *)
(* Button, for any thresholds: the types, that as long as nothing          *)
(* irregular has happened the device restarts because of a long press only *)
(* if the button was held that long, and that its clicks are the user's.   *)
(*                                                                         *)
(* StatusLed: the types, that status_blue agrees with the station once the *)
(* event handler has caught up, and that the LED is never later than one   *)
(* pattern.                                                                *)
(***************************************************************************)
EXTENDS Button, StatusLed, SequenceTheorems, TLAPS

-----------------------------------------------------------------------------
(* BUTTON                                                                  *)

(* Arithmetic                                                              *)

LEMMA ModRange ==
    ASSUME NEW x \in Int, NEW w \in Nat \ {0}
    PROVE  x % w \in 0..w-1
  OBVIOUS

LEMMA ModSmall ==
    ASSUME NEW w \in Nat \ {0}, NEW x \in 0..w-1
    PROVE  x % w = x
  OBVIOUS

(* The time a poll reads is in range, and so is a difference.              *)
LEMMA TimeInRange ==
    ASSUME Delay, clock \in 0..Horizon
    PROVE  /\ clock' \in 0..Horizon /\ clock' >= clock
           /\ Now \in 0..UnitWrap-1
           /\ \A t \in 0..UnitWrap-1 : Since(t) \in 0..Width-1
<1>1. clock' \in 0..Horizon /\ clock' >= clock
  BY ButtonAssumption DEF Delay
<1>2. UnitWrap \in Nat \ {0} /\ Width \in Nat \ {0}
  BY ButtonAssumption
<1>i. clock' \in Int
  BY <1>1
<1>m. clock' % UnitWrap \in 0..UnitWrap-1
  BY <1>2, <1>i, ModRange
<1>3. Now \in 0..UnitWrap-1
  BY <1>m DEF Now
<1>4. \A t \in 0..UnitWrap-1 : Now - t \in Int
  BY <1>2, <1>3
<1>5. \A t \in 0..UnitWrap-1 : (Now - t) % Width \in 0..Width-1
  BY <1>2, <1>4, ModRange
<1> QED
  BY <1>1, <1>3, <1>5 DEF Since

(* Before the tick counter has wrapped, a difference is the time passed.   *)
LEMMA DifferenceInRange ==
    ASSUME NEW c \in Nat, c < UnitWrap, NEW t \in 0..c
    PROVE  c \in 0..UnitWrap-1 /\ c - t \in 0..Width-1
  BY ButtonAssumption

LEMMA SinceIsElapsed ==
    ASSUME clock' \in Nat, clock' < UnitWrap, NEW t \in 0..clock'
    PROVE  Now = clock' /\ Since(t) = clock' - t
<1>1. UnitWrap \in Nat \ {0} /\ Width \in Nat \ {0}
  BY ButtonAssumption
<1>2. clock' \in 0..UnitWrap-1 /\ clock' - t \in 0..Width-1
  BY DifferenceInRange
<1>3. clock' % UnitWrap = clock'
  BY <1>1, <1>2, ModSmall
<1>4. Now = clock'
  BY <1>3 DEF Now
<1>5. (clock' - t) % Width = clock' - t
  BY <1>1, <1>2, ModSmall
<1> QED
  BY <1>4, <1>5 DEF Since

LEMMA NoTime == \A c \in Nat : c - c = 0 /\ c <= c
  OBVIOUS

LEMMA LongOrNot == \A h \in Int : h <= Hold => ~(h > Hold)
  BY ButtonAssumption

(* A press that was a click or was long is one or the other to the code.   *)
LEMMA ClickOrLong ==
    ASSUME NEW p \in Nat, NEW s \in Nat, NEW c \in Nat, s <= c,
           s - p > ClickMin, c - p < ClickMax \/ c - p > Hold
    PROVE  c - p > Hold \/ (c - p > ClickMin /\ c - p < ClickMax)
  BY ButtonAssumption

-----------------------------------------------------------------------------
(* Types                                                                   *)

(* The types without what relates two variables.                           *)
CodeTypes ==
    /\ timeUp \in 0..UnitWrap-1 /\ timeStamp \in 0..UnitWrap-1
    /\ deltaT \in 0..Width-1
    /\ clickCnt \in 0..Clicks
    /\ clickCnt = Clicks <=> restart = "clicks"
    /\ restart \in {"no", "hold", "clicks"}

UserTypes ==
    /\ press \in {None} \cup 0..Horizon
    /\ seen \in {None} \cup 0..Horizon
    /\ lastClick \in {None} \cup 0..Horizon
    /\ chain \in Nat
    /\ bounced \in BOOLEAN /\ regular \in BOOLEAN

LEMMA TypeSplit == ButtonTypeOK <=> CodeTypes /\ UserTypes /\ clock \in 0..Horizon
  BY DEF ButtonTypeOK, CodeTypes, UserTypes

(* Zero is a value of every counter, and no click is as many as restart.   *)
LEMMA ZeroFits ==
    /\ 0 \in 0..UnitWrap-1 /\ 0 \in 0..Width-1
    /\ 0 \in 0..Clicks /\ 0 # Clicks /\ 0 \in 0..Horizon /\ 0 \in Nat
  BY ButtonAssumption

LEMMA InitType == ButtonInit => ButtonTypeOK
  BY ZeroFits DEF ButtonInit, ButtonTypeOK

LEMMA PressesType ==
    ASSUME UserTypes, UserPresses, clock' \in 0..Horizon
    PROVE  UserTypes'
  BY DEF UserTypes, UserPresses, None

LEMMA ReleasesType ==
    ASSUME UserTypes, clock' \in 0..Horizon, NEW b \in BOOLEAN, UserReleases(b)
    PROVE  UserTypes'
  BY DEF UserTypes, UserReleases, None

LEMMA StepType == ButtonTypeOK /\ [ButtonNext]_buttonVars => ButtonTypeOK'
<1> SUFFICES ASSUME ButtonTypeOK, [ButtonNext]_buttonVars PROVE ButtonTypeOK'
  OBVIOUS
<1>t. CodeTypes /\ UserTypes /\ clock \in 0..Horizon
  BY TypeSplit
<1>c. UnitWrap \in Nat \ {0} /\ Clicks \in Nat \ {0} /\ Width \in Nat \ {0} /\ Horizon \in Nat
  BY ButtonAssumption
<1>1. CASE Poll
  <2> USE <1>t, <1>c
  <2>d. Delay
    BY <1>1 DEF Poll, PollPressed, PollReleased, PollExpired, PollIdle
  <2>r. /\ clock' \in 0..Horizon
        /\ Now \in 0..UnitWrap-1
        /\ \A t \in 0..UnitWrap-1 : Since(t) \in 0..Width-1
    BY <2>d, TimeInRange
  <2>n. restart = "no" /\ clickCnt \in 0..Clicks-1
    BY <1>1 DEF Poll, CodeTypes
  <2>pressed. CASE PollPressed
    <3>1. UserTypes'
      BY <2>pressed, <2>r, PressesType DEF PollPressed
    <3>2. timeUp' \in 0..UnitWrap-1 /\ deltaT' \in 0..Width-1
      BY <2>pressed, <2>r DEF PollPressed, CodeTypes
    <3>3. CodeTypes'
      BY <2>pressed, <3>2 DEF PollPressed, CodeTypes
    <3> QED
      BY <2>r, <3>1, <3>3, TypeSplit DEF ButtonTypeOK, CodeTypes, UserTypes
  <2>released. CASE PollReleased
    <3>1. UserTypes'
      BY <2>released, <2>r, ReleasesType DEF PollReleased
    <3>h. Since(timeUp) \in 0..Width-1
      BY <2>r DEF CodeTypes
    <3>2. timeUp' \in 0..UnitWrap-1 /\ deltaT' \in 0..Width-1 /\ timeStamp' \in 0..UnitWrap-1
      BY <2>released, <3>h DEF PollReleased, CodeTypes
    <3>3. /\ clickCnt' \in 0..Clicks /\ restart' \in {"no", "hold", "clicks"}
          /\ clickCnt' = Clicks <=> restart' = "clicks"
      BY <2>released, <2>n DEF PollReleased, CodeTypes
    <3> QED
      BY <2>r, <3>1, <3>2, <3>3 DEF ButtonTypeOK, UserTypes
  <2>expired. CASE PollExpired
    <3>1. UserTypes'
      BY <2>expired, <2>r, ReleasesType DEF PollExpired
    <3>2. CodeTypes'
      BY <2>expired, <2>n DEF PollExpired, CodeTypes
    <3> QED
      BY <2>r, <3>1, <3>2 DEF ButtonTypeOK, CodeTypes, UserTypes
  <2>idle. CASE PollIdle
    <3>1. UserTypes'
      BY <2>idle, <2>r, ReleasesType DEF PollIdle
    <3>2. CodeTypes'
      BY <2>idle DEF PollIdle, CodeTypes, codeVars
    <3> QED
      BY <2>r, <3>1, <3>2 DEF ButtonTypeOK, CodeTypes, UserTypes
  <2> QED
    BY <1>1, <2>pressed, <2>released, <2>expired, <2>idle DEF Poll
<1>2. CASE ButtonReboot
  BY <1>2, ZeroFits DEF ButtonReboot, ButtonTypeOK
<1>3. CASE UNCHANGED buttonVars
  BY <1>3 DEF buttonVars, codeVars, pressVars, ButtonTypeOK
<1> QED
  BY <1>1, <1>2, <1>3 DEF ButtonNext

(* ButtonTypeOK holds in every reachable state of button_task.             *)
THEOREM ButtonTypeCorrect == ButtonSpec => []ButtonTypeOK
<1>1. ButtonInit => ButtonTypeOK
  BY InitType
<1>2. ButtonTypeOK /\ [ButtonNext]_buttonVars => ButtonTypeOK'
  BY StepType
<1> QED
  BY <1>1, <1>2, PTL DEF ButtonSpec

-----------------------------------------------------------------------------
(* A restart because of a long press                                       *)

(* What the code remembers of a press agrees with the press.               *)
Remembered ==
    IF press = None
    THEN timeUp = 0 /\ deltaT = 0
    ELSE /\ press # 0 /\ timeUp = press
         /\ press <= seen /\ seen <= clock
         /\ deltaT = seen - press

(* As long as nothing irregular has happened, and until the restart.       *)
HoldInv == regular /\ restart = "no" => Remembered

(* In a regular poll the memory is right, and differences are times.       *)
LEMMA RegularPoll ==
    ASSUME ButtonTypeOK, Remembered, Delay, clock' < UnitWrap
    PROVE  /\ clock' \in Nat /\ Now = clock'
           /\ press # None => /\ press \in Nat /\ seen \in Nat
                              /\ press <= seen /\ seen <= clock'
                              /\ timeUp = press /\ timeUp # 0
                              /\ Since(timeUp) = clock' - press
<1>1. clock \in 0..Horizon
  BY DEF ButtonTypeOK
<1>2. clock' \in Nat /\ clock' >= clock /\ clock \in Nat
  BY <1>1, TimeInRange
<1>3. 0 \in 0..clock'
  BY <1>2
<1>4. Now = clock'
  BY <1>2, <1>3, SinceIsElapsed
<1>5. ASSUME press # None
      PROVE  /\ press \in Nat /\ seen \in Nat
             /\ press <= seen /\ seen <= clock'
             /\ timeUp = press /\ timeUp # 0
             /\ Since(timeUp) = clock' - press
  <2>1. press \in 0..Horizon /\ seen \in {None} \cup 0..Horizon
    BY <1>5 DEF ButtonTypeOK
  <2>2. press # 0 /\ timeUp = press /\ press <= seen /\ seen <= clock
    BY <1>5 DEF Remembered
  <2>times. press \in Nat /\ seen \in Nat
    BY <2>1, <2>2, ButtonAssumption DEF None
  <2>4. seen <= clock' /\ press \in 0..clock'
    BY <1>2, <2>2, <2>times
  <2>since. Since(press) = clock' - press
    BY <1>2, <2>4, SinceIsElapsed
  <2> QED
    BY <2>2, <2>times, <2>4, <2>since
<1> QED
  BY <1>2, <1>4, <1>5

(* What a regular poll starts from, whichever reading it begins with.      *)
LEMMA RegularBefore ==
    ASSUME Poll, HoldInv, regular'
    PROVE  Delay /\ Remembered /\ clock' < UnitWrap
<1>1. Delay /\ restart = "no"
  BY DEF Poll, PollPressed, PollReleased, PollExpired, PollIdle
<1>2. UserPresses \/ \E b \in BOOLEAN : UserReleases(b)
  BY DEF Poll, PollPressed, PollReleased, PollExpired, PollIdle
<1>3. regular /\ clock' < UnitWrap
  BY <1>2 DEF UserPresses, UserReleases
<1> QED
  BY <1>1, <1>3 DEF HoldInv

LEMMA PressRemembered ==
    ASSUME ButtonTypeOK, Remembered, PollPressed, regular'
    PROVE  Remembered'
<1>1. Delay /\ clock' < UnitWrap /\ (press = None => clock' # 0)
  BY DEF PollPressed, UserPresses
<1>2. /\ clock' \in Nat /\ Now = clock'
      /\ press # None => /\ press \in Nat /\ seen \in Nat
                         /\ press <= seen /\ seen <= clock'
                         /\ timeUp = press /\ timeUp # 0
                         /\ Since(timeUp) = clock' - press
  BY <1>1, RegularPoll
<1>3. seen' = clock' /\ press' = IF press = None THEN clock' ELSE press
  BY DEF PollPressed, UserPresses
<1>4. clock' # None
  BY <1>2 DEF None
<1>5. CASE press = None
  <2>1. timeUp = 0 /\ deltaT = 0
    BY <1>5 DEF Remembered
  <2>2. timeUp' = clock' /\ deltaT' = 0
    BY <1>2, <2>1 DEF PollPressed
  <2>3. clock' - clock' = 0 /\ clock' <= clock'
    BY <1>2, NoTime
  <2> QED
    BY <1>1, <1>3, <1>4, <1>5, <2>2, <2>3 DEF Remembered
<1>6. CASE press # None
  <2>1. timeUp' = press /\ deltaT' = clock' - press
    BY <1>2, <1>6 DEF PollPressed
  <2>2. press <= clock' /\ clock' <= clock'
    BY <1>2, <1>6
  <2>3. press # 0
    BY <1>6 DEF Remembered
  <2> QED
    BY <1>3, <1>6, <2>1, <2>2, <2>3 DEF Remembered
<1> QED
  BY <1>5, <1>6

(* A release ends what is remembered, or the device restarts.              *)
LEMMA ReleaseRemembered ==
    ASSUME ButtonTypeOK, Remembered, PollReleased, regular'
    PROVE  /\ restart' = "no" => Remembered'
           /\ restart' = "hold" /\ restart = "no" => press # None /\ clock' - press > Hold
<1>1. Delay /\ clock' < UnitWrap
  BY DEF PollReleased, UserReleases
<1>2. press # None
  BY DEF PollReleased, PressPending, Remembered
<1>3. /\ press \in Nat /\ seen \in Nat /\ clock' \in Nat
      /\ press <= seen /\ seen <= clock'
      /\ Since(timeUp) = clock' - press
  BY <1>1, <1>2, RegularPoll
<1>4. press' = None
  BY DEF PollReleased, UserReleases
<1>5. WasClick(clock') \/ WasLong(clock')
  BY <1>2 DEF PollReleased, UserReleases
<1>6. CASE /\ Since(timeUp) > Hold /\ restart' = "hold"
  BY <1>2, <1>3, <1>6
<1>7. CASE restart' = "clicks"
  BY <1>7
<1>8. CASE restart' = restart /\ timeUp' = 0 /\ deltaT' = 0
  BY <1>4, <1>8 DEF Remembered
<1>9. CASE /\ Since(timeUp) <= Hold
           /\ ~(Since(timeUp) > ClickMin /\ Since(timeUp) < ClickMax)
  <2>1. ~(clock' - press > Hold)
    BY <1>3, <1>9, LongOrNot
  <2>2. ~(clock' - press > ClickMin /\ clock' - press < ClickMax)
    BY <1>3, <1>9
  <2>3. seen - press > ClickMin /\ (clock' - press < ClickMax \/ clock' - press > Hold)
    BY <1>5 DEF WasClick, WasLong, WasSeen
  <2> QED
    BY <1>3, <2>1, <2>2, <2>3, ClickOrLong
<1> QED
  BY <1>6, <1>7, <1>8, <1>9 DEF PollReleased

(* A poll that finds the button released and nothing pending.              *)
LEMMA IdleRemembered ==
    ASSUME ButtonTypeOK, Remembered, PollExpired \/ PollIdle, regular'
    PROVE  Remembered' /\ restart' = restart
<1>1. press' = None /\ restart' = restart
  BY DEF PollExpired, PollIdle, UserReleases, codeVars
<1>2. CASE PollExpired
  BY <1>1, <1>2 DEF PollExpired, Remembered
<1>3. CASE PollIdle
  <2>1. ~PressPending /\ timeUp' = timeUp /\ deltaT' = deltaT
    BY <1>3 DEF PollIdle, UserReleases, codeVars, Readings
  <2>2. ASSUME press # None PROVE FALSE
    <3>1. WasSeen
      BY <1>3, <2>2 DEF PollIdle, UserReleases, WasClick, WasLong
    <3>2. timeUp # 0 /\ deltaT = seen - press
      BY <2>2 DEF Remembered
    <3> QED
      BY <2>1, <3>1, <3>2 DEF PressPending, WasSeen
  <2> QED
    BY <1>1, <2>1, <2>2 DEF Remembered
<1> QED
  BY <1>2, <1>3

LEMMA PollHolds ==
    ASSUME ButtonTypeOK, HoldInv, Poll, regular'
    PROVE  /\ restart' = "no" => Remembered'
           /\ restart' = "hold" => press # None /\ clock' - press > Hold
<1>1. Remembered /\ restart = "no"
  BY RegularBefore DEF Poll
<1>2. CASE PollPressed
  <2>1. restart' = "no"
    BY <1>1, <1>2 DEF PollPressed
  <2> QED
    BY <1>1, <1>2, <2>1, PressRemembered
<1>3. CASE PollReleased
  BY <1>1, <1>3, ReleaseRemembered
<1>4. CASE PollExpired \/ PollIdle
  <2>1. Remembered' /\ restart' = "no"
    BY <1>1, <1>4, IdleRemembered
  <2> QED
    BY <2>1
<1> QED
  BY <1>2, <1>3, <1>4 DEF Poll

(* The button's variables remember the user's press as long as nothing
   irregular has happened.                                                 *)
THEOREM HoldInvariance == ButtonSpec => []HoldInv
<1>1. ButtonInit => HoldInv
  BY DEF ButtonInit, HoldInv, Remembered
<1>2. HoldInv /\ ButtonTypeOK /\ [ButtonNext]_buttonVars => HoldInv'
  <2> SUFFICES ASSUME HoldInv, ButtonTypeOK, [ButtonNext]_buttonVars PROVE HoldInv'
    OBVIOUS
  <2>1. CASE Poll
    BY PollHolds, <2>1 DEF HoldInv
  <2>2. CASE ButtonReboot
    BY <2>2 DEF ButtonReboot, HoldInv, Remembered
  <2>3. CASE UNCHANGED buttonVars
    BY <2>3 DEF buttonVars, codeVars, pressVars, HoldInv, Remembered
  <2> QED
    BY <2>1, <2>2, <2>3 DEF ButtonNext
<1> QED
  BY <1>1, <1>2, ButtonTypeCorrect, PTL DEF ButtonSpec

(* The device restarts because of a long press only if the button was held
   that long, as long as nothing irregular has happened.                   *)
THEOREM HoldCorrect == ButtonSpec => HoldMeansHeld
<1> DEFINE Held == restart' = "hold" /\ regular' => press # None /\ clock' - press > Hold
<1>1. HoldInv /\ ButtonTypeOK /\ [ButtonNext]_buttonVars => [Held]_buttonVars
  <2> SUFFICES ASSUME HoldInv, ButtonTypeOK, ButtonNext PROVE Held
    OBVIOUS
  <2>1. CASE Poll
    BY PollHolds, <2>1
  <2>2. CASE ButtonReboot
    BY <2>2 DEF ButtonReboot
  <2> QED
    BY <2>1, <2>2 DEF ButtonNext
<1> QED
  BY <1>1, HoldInvariance, ButtonTypeCorrect, PTL DEF ButtonSpec, HoldMeansHeld

-----------------------------------------------------------------------------
(* A restart because of clicks                                             *)

(* While clicks are counted the last of them is known, and has not been
   forgotten, or was not yet when the present press began.                 *)
Timely ==
    clickCnt > 0 => /\ lastClick # None /\ lastClick # 0
                    /\ timeStamp = lastClick /\ lastClick <= clock
                    /\ press = None => clock - lastClick <= Forget
                    /\ press # None => press - lastClick <= Forget + Gap

ClickInv == regular => /\ clickCnt <= chain
                       /\ restart = "no" => Timely

LEMMA CountTypes ==
    ASSUME ButtonTypeOK
    PROVE  /\ clickCnt \in Nat /\ chain \in Nat /\ clock \in Nat
           /\ lastClick # None => lastClick \in Nat
           /\ press # None => press \in Nat
           /\ Forget \in Nat /\ Gap \in Nat
  BY ButtonAssumption DEF ButtonTypeOK

(* Arithmetic of three moments and the time between two polls.             *)
LEMMA StillTimely ==
    ASSUME NEW l \in Nat, NEW c \in Nat, NEW d \in Nat, c - l <= Forget,
           c <= d, d <= c + Gap
    PROVE  d - l <= Forget + Gap
  BY ButtonAssumption

LEMMA DelayBound ==
    ASSUME ButtonTypeOK, Delay
    PROVE  clock' \in Nat /\ clock <= clock' /\ clock' <= clock + Gap
  BY ButtonAssumption DEF Delay, ButtonTypeOK

LEMMA PressTimely ==
    ASSUME ButtonTypeOK, ClickInv, Remembered, PollPressed, regular', restart = "no"
    PROVE  clickCnt' <= chain' /\ Timely'
<1>1. regular /\ clickCnt' = clickCnt /\ chain' = chain
  BY DEF PollPressed, UserPresses
<1>2. clickCnt <= chain /\ Timely
  BY <1>1 DEF ClickInv
<1>3. UNCHANGED <<lastClick, timeStamp>> /\ press' = IF press = None THEN clock' ELSE press
  BY DEF PollPressed, UserPresses
<1>4. clock' \in Nat /\ clock <= clock' /\ clock' <= clock + Gap
  BY DelayBound DEF PollPressed
<1>5. ASSUME clickCnt > 0 PROVE /\ lastClick # None /\ lastClick # 0
                                /\ timeStamp = lastClick /\ lastClick <= clock'
                                /\ press' # None /\ press' - lastClick <= Forget + Gap
  <2>1. /\ lastClick \in Nat /\ lastClick # None /\ lastClick # 0 /\ clock \in Nat
        /\ timeStamp = lastClick /\ lastClick <= clock
    BY <1>2, <1>5, CountTypes DEF Timely
  <2>2. lastClick <= clock'
    BY <1>4, <2>1
  <2>3. CASE press = None
    <3>1. press' = clock' /\ clock' # None
      BY <1>3, <1>4, <2>3 DEF None
    <3>2. clock - lastClick <= Forget
      BY <1>2, <1>5, <2>3 DEF Timely
    <3>3. clock' - lastClick <= Forget + Gap
      BY <1>4, <2>1, <3>2, StillTimely
    <3> QED
      BY <2>1, <2>2, <3>1, <3>3
  <2>4. CASE press # None
    BY <1>2, <1>3, <1>5, <2>1, <2>2, <2>4 DEF Timely
  <2> QED
    BY <2>3, <2>4
<1> QED
  BY <1>1, <1>2, <1>3, <1>5 DEF Timely

LEMMA ClickCounts ==
    ASSUME NEW n \in Nat, NEW c \in Nat, NEW b \in BOOLEAN, n <= c, n > 0 => b
    PROVE  n + 1 <= IF b THEN c + 1 ELSE 1
  OBVIOUS

(* What the thresholds say about a duration.                               *)
LEMMA HoldIsNoClick ==
    ASSUME NEW h \in Int, h > Hold
    PROVE  ~(h < ClickMax)
  BY ButtonAssumption

LEMMA ClickIsRecent ==
    ASSUME NEW h \in Int, h < ClickMax, ClickMax <= Forget
    PROVE  h <= Forget
  BY ButtonAssumption

LEMMA NotForgotten ==
    ASSUME NEW h \in Int, ~(h > Forget)
    PROVE  h <= Forget
  BY ButtonAssumption

LEMMA DifferenceIsInt ==
    ASSUME NEW a \in Nat, NEW b \in Nat
    PROVE  a - b \in Int
  OBVIOUS

LEMMA ThroughMiddle ==
    ASSUME NEW a \in Nat, NEW b \in Nat, NEW c \in Nat, a <= b, b <= c
    PROVE  a <= c
  OBVIOUS

LEMMA ReleaseTimely ==
    ASSUME ClickMax <= Forget,
           ButtonTypeOK, ClickInv, Remembered, PollReleased, regular', restart = "no"
    PROVE  clickCnt' <= chain' /\ (restart' = "no" => Timely')
<1>1. regular /\ Delay /\ clock' < UnitWrap
  BY DEF PollReleased, UserReleases
<1>2. press # None
  BY DEF PollReleased, PressPending, Remembered
<1>3. /\ press \in Nat /\ seen \in Nat /\ clock' \in Nat
      /\ press <= seen /\ seen <= clock'
      /\ timeUp = press /\ timeUp # 0
      /\ Since(timeUp) = clock' - press
  BY <1>1, <1>2, RegularPoll
<1>4. WasClick(clock') \/ WasLong(clock')
  BY <1>2 DEF PollReleased, UserReleases
<1>5. /\ clickCnt <= chain /\ Timely
      /\ clickCnt \in Nat /\ chain \in Nat
  BY <1>1, CountTypes DEF ClickInv
<1>6. CASE Since(timeUp) > Hold /\ restart' = "hold" /\ clickCnt' = clickCnt
  <2>1. ~WasClick(clock')
    <3>1. clock' - press \in Int /\ clock' - press > Hold
      BY <1>3, <1>6, DifferenceIsInt
    <3>2. ~(clock' - press < ClickMax)
      BY <3>1, HoldIsNoClick
    <3> QED
      BY <3>2 DEF WasClick
  <2>2. chain' = chain
    BY <2>1 DEF PollReleased, UserReleases
  <2> QED
    BY <1>5, <1>6, <2>2
<1>7. CASE /\ Since(timeUp) < ClickMax /\ clickCnt' = clickCnt + 1
           /\ restart' = "no" => timeStamp' = timeUp
  <2> DEFINE follows == lastClick # None /\ press - lastClick <= Forget + Gap
  <2>1. WasClick(clock')
    BY <1>3, <1>4, <1>7, ButtonAssumption DEF WasClick, WasLong, WasSeen
  <2>2. chain' = IF follows THEN chain + 1 ELSE 1
    BY <1>2, <2>1 DEF PollReleased, UserReleases
  <2>3. lastClick' = press /\ press' = None
    BY <1>2, <2>1 DEF PollReleased, UserReleases
  <2>4. clickCnt > 0 => follows
    BY <1>2, <1>5 DEF Timely
  <2>5. clickCnt' <= chain'
    <3> HIDE DEF follows
    <3>1. follows \in BOOLEAN
      BY DEF follows
    <3> QED
      BY <1>5, <1>7, <2>2, <2>4, <3>1, ClickCounts
  <2>6. press <= clock' /\ clock' - press <= Forget
    <3>1. clock' - press \in Int /\ clock' - press < ClickMax
      BY <1>3, <1>7, DifferenceIsInt
    <3>2. clock' - press <= Forget
      BY <3>1, ClickIsRecent
    <3> QED
      BY <1>3, <3>2, ThroughMiddle
  <2>7. restart' = "no" => Timely'
    BY <1>2, <1>3, <1>7, <2>3, <2>6 DEF Timely
  <2> QED
    BY <2>5, <2>7
<1>9. CASE /\ Since(timeUp) <= Hold
           /\ ~(Since(timeUp) > ClickMin /\ Since(timeUp) < ClickMax)
  <2>1. ~(clock' - press > Hold)
    BY <1>3, <1>9, LongOrNot
  <2>2. ~(clock' - press > ClickMin /\ clock' - press < ClickMax)
    BY <1>3, <1>9
  <2>3. seen - press > ClickMin /\ (clock' - press < ClickMax \/ clock' - press > Hold)
    BY <1>4 DEF WasClick, WasLong, WasSeen
  <2> QED
    BY <1>3, <2>1, <2>2, <2>3, ClickOrLong
<1> QED
  BY <1>6, <1>7, <1>9 DEF PollReleased

LEMMA IdleTimely ==
    ASSUME ButtonTypeOK, ClickInv, Remembered, PollExpired \/ PollIdle, regular',
           restart = "no"
    PROVE  clickCnt' <= chain' /\ Timely'
<1>1. regular /\ Delay /\ clock' < UnitWrap /\ press' = None
  BY DEF PollExpired, PollIdle, UserReleases
<1>2. /\ clickCnt <= chain /\ Timely
      /\ clickCnt \in Nat /\ chain \in Nat
  BY <1>1, CountTypes DEF ClickInv
<1>3. press = None
  <2> SUFFICES ASSUME press # None PROVE FALSE
    OBVIOUS
  <2>1. WasSeen /\ ~PressPending
    BY DEF PollExpired, PollIdle, UserReleases, WasClick, WasLong, Readings
  <2>2. timeUp # 0 /\ deltaT = seen - press
    BY DEF Remembered
  <2> QED
    BY <2>1, <2>2 DEF PressPending, WasSeen
<1>4. chain' = chain /\ lastClick' = lastClick
  BY <1>3 DEF PollExpired, PollIdle, UserReleases
<1>5. CASE PollExpired
  <2>1. clickCnt' = 0
    BY <1>5 DEF PollExpired
  <2> QED
    BY <1>2, <1>4, <2>1 DEF Timely
<1>6. CASE PollIdle
  <2>1. clickCnt' = clickCnt /\ timeStamp' = timeStamp /\ ~ClicksExpired
    BY <1>6 DEF PollIdle, codeVars, UserReleases, Readings
  <2>2. ASSUME clickCnt > 0
        PROVE  /\ lastClick # None /\ lastClick # 0 /\ timeStamp = lastClick
               /\ lastClick <= clock' /\ clock' - lastClick <= Forget
    <3>1. /\ lastClick \in Nat /\ lastClick # None /\ lastClick # 0
          /\ timeStamp = lastClick /\ lastClick <= clock /\ clock \in Nat
      BY <1>2, <2>2, CountTypes DEF Timely
    <3>2. clock' \in Nat /\ lastClick <= clock'
      BY <1>1, <3>1, DelayBound
    <3>3. Since(lastClick) = clock' - lastClick
      BY <1>1, <3>1, <3>2, SinceIsElapsed
    <3>4. ~(Since(lastClick) > Forget)
      BY <2>1, <3>1 DEF ClicksExpired
    <3>5. clock' - lastClick <= Forget
      <4>1. clock' - lastClick \in Int /\ ~(clock' - lastClick > Forget)
        BY <3>1, <3>2, <3>3, <3>4, DifferenceIsInt
      <4> QED
        BY <4>1, NotForgotten
    <3> QED
      BY <3>1, <3>2, <3>5
  <2> QED
    BY <1>1, <1>2, <1>4, <2>1, <2>2 DEF Timely
<1> QED
  BY <1>5, <1>6

(* Restarts because of clicks: as long as nothing irregular has happened, no
   more clicks are counted than the user gave one after the other, because
   the task forgets a click before the user's next one would no longer
   follow it.  In the code TIME_CLICK_MAX and TIME_RESET are both 1000 ms.  *)
THEOREM ClicksCorrect ==
    ASSUME ClickMax <= Forget
    PROVE  ButtonSpec => []ClicksMeanClicks
<1>1. ButtonInit => HoldInv /\ ClickInv
  BY DEF ButtonInit, HoldInv, Remembered, ClickInv, Timely, None
<1>2. ButtonTypeOK /\ HoldInv /\ ClickInv /\ [ButtonNext]_buttonVars => ClickInv'
  <2> SUFFICES ASSUME ButtonTypeOK, HoldInv, ClickInv, [ButtonNext]_buttonVars, regular'
               PROVE  clickCnt' <= chain' /\ (restart' = "no" => Timely')
    BY DEF ClickInv
  <2>1. CASE Poll
    <3>1. restart = "no" /\ (PollPressed \/ PollReleased \/ PollExpired \/ PollIdle)
      BY <2>1 DEF Poll
    <3>2. regular
      BY <3>1 DEF PollPressed, PollReleased, PollExpired, PollIdle, UserPresses, UserReleases
    <3>3. Remembered
      BY <3>1, <3>2 DEF HoldInv
    <3>4. CASE PollPressed
      BY <3>1, <3>3, <3>4, PressTimely
    <3>5. CASE PollReleased
      BY <3>1, <3>3, <3>5, ReleaseTimely
    <3>6. CASE PollExpired \/ PollIdle
      BY <3>1, <3>3, <3>6, IdleTimely
    <3> QED
      BY <3>1, <3>4, <3>5, <3>6
  <2>2. CASE ButtonReboot
    BY <2>2 DEF ButtonReboot, Timely
  <2>3. CASE UNCHANGED buttonVars
    <3>1. ClickInv /\ regular
      BY <2>3 DEF buttonVars, pressVars
    <3> QED
      BY <2>3, <3>1 DEF buttonVars, codeVars, pressVars, ClickInv, Timely
  <2> QED
    BY <2>1, <2>2, <2>3 DEF ButtonNext
<1>3. ClickInv => ClicksMeanClicks
  BY DEF ClickInv, ClicksMeanClicks
<1> QED
  BY <1>1, <1>2, <1>3, HoldInvariance, ButtonTypeCorrect, PTL DEF ButtonSpec

-----------------------------------------------------------------------------
(* STATUS LED                                                              *)

(* The inductive invariant                                                 *)

(* What may wait for the handler, given what the station is.  An idle
   station is one that the handler has yet to hear of.                     *)
Backlog ==
    \/ driver = "stopped" /\ posted = <<>>
    \/ driver = "connecting" /\ posted = <<>>
    \/ driver = "connected" /\ posted \in {<<>>, <<"STA_CONNECTED">>}
    \/ driver = "idle" /\ posted \in {<<"STA_START">>, <<"STA_DISCONNECTED">>,
                                      <<"STA_CONNECTED", "STA_DISCONNECTED">>}

(* Only the two statuses that the code sets are ever set or shown.         *)
Reachable ==
    /\ status \in {"NOT_STATE", "NORMAL_MODE"}
    /\ shown \in {"none", "NOT_STATE", "NORMAL_MODE"}

(* How long the pattern being played still lasts.                          *)
Rest == IF shown = "NORMAL_MODE" /\ step = 1 THEN left + 5 ELSE left

(* Where led_blue_task is in the pattern it plays.                         *)
InPattern ==
    /\ shown = "none" => step = 0 /\ left = 0 /\ led = "off"
    /\ shown = "NOT_STATE" => step = 1 /\ left <= 1 /\ led = "off"
    /\ shown = "NORMAL_MODE" => step \in {1, 2} /\ left <= 5

(* A status not yet shown is no older than the part of the pattern that has
   been played since.                                                      *)
LedCatchesUp == shown \notin {"none", status} => age + Rest <= Longest

(* Until its start is handled the station was never online.                *)
NotYetOnline ==
    HandlerSetsStatus /\ InitialStatus = "NOT_STATE" =>
        (driver = "stopped" \/ posted = <<"STA_START">> => status = "NOT_STATE")

IInv ==
    /\ TypeOK
    /\ Backlog
    /\ Reachable
    /\ InPattern
    /\ LedCatchesUp
    /\ StatusAgrees
    /\ NotYetOnline

(* A backlog of one event: how it comes about, and what handling leaves.   *)
LEMMA OneEvent ==
    ASSUME NEW e
    PROVE  /\ Append(<<>>, e) = <<e>>
           /\ Head(<<e>>) = e
           /\ Tail(<<e>>) = <<>>
           /\ <<e>> # <<>>
  OBVIOUS

(* The same of a backlog of two.                                           *)
LEMMA TwoEvents ==
    ASSUME NEW S, NEW e \in S, NEW f \in S
    PROVE  /\ Append(<<e>>, f) = <<e, f>>
           /\ Head(<<e, f>>) = e
           /\ Tail(<<e, f>>) = <<f>>
           /\ <<e, f>> # <<>>
<1> DEFINE s == Append(<<e>>, f)
           t == <<e, f>>
<1>1. s \in Seq(S) /\ Len(s) = 2 /\ s[1] = e /\ s[2] = f
  OBVIOUS
<1>2. t \in Seq(S) /\ Len(t) = 2 /\ t[1] = e /\ t[2] = f
  OBVIOUS
<1>3. s = t
  <2>1. \A i \in 1..Len(s) : s[i] = t[i]
    BY <1>1, <1>2
  <2> HIDE DEF s, t
  <2> QED
    BY <1>1, <1>2, <2>1, SeqEqual
<1>4. Head(s) = e
  OBVIOUS
<1>5. Tail(s) \in Seq(S) /\ Len(Tail(s)) = 1 /\ Tail(s)[1] = f
  BY <1>1
<1>6. <<f>> \in Seq(S) /\ Len(<<f>>) = 1 /\ <<f>>[1] = f
  OBVIOUS
<1>7. Tail(s) = <<f>>
  <2>1. \A i \in 1..Len(Tail(s)) : Tail(s)[i] = <<f>>[i]
    BY <1>5, <1>6
  <2> QED
    BY <1>5, <1>6, <2>1, SeqEqual
<1>8. s # <<>>
  OBVIOUS
<1> QED
  BY <1>3, <1>4, <1>7, <1>8

LEMMA Backlogs ==
    /\ Append(<<>>, "STA_START") = <<"STA_START">>
    /\ Append(<<>>, "STA_CONNECTED") = <<"STA_CONNECTED">>
    /\ Append(<<>>, "STA_DISCONNECTED") = <<"STA_DISCONNECTED">>
    /\ Append(<<"STA_CONNECTED">>, "STA_DISCONNECTED")
           = <<"STA_CONNECTED", "STA_DISCONNECTED">>
    /\ Head(<<"STA_START">>) = "STA_START" /\ Tail(<<"STA_START">>) = <<>>
    /\ Head(<<"STA_CONNECTED">>) = "STA_CONNECTED" /\ Tail(<<"STA_CONNECTED">>) = <<>>
    /\ Head(<<"STA_DISCONNECTED">>) = "STA_DISCONNECTED"
    /\ Tail(<<"STA_DISCONNECTED">>) = <<>>
    /\ Head(<<"STA_CONNECTED", "STA_DISCONNECTED">>) = "STA_CONNECTED"
    /\ Tail(<<"STA_CONNECTED", "STA_DISCONNECTED">>) = <<"STA_DISCONNECTED">>
    /\ <<"STA_START">> # <<>> /\ <<"STA_CONNECTED">> # <<>>
    /\ <<"STA_DISCONNECTED">> # <<>>
    /\ <<"STA_CONNECTED", "STA_DISCONNECTED">> # <<>>
<1> DEFINE Ids == {"STA_START", "STA_CONNECTED", "STA_DISCONNECTED"}
<1>1. \A e \in Ids : Append(<<>>, e) = <<e>> /\ Head(<<e>>) = e /\ Tail(<<e>>) = <<>> /\ <<e>> # <<>>
  BY OneEvent
<1>2. \A e \in Ids, f \in Ids :
          /\ Append(<<e>>, f) = <<e, f>> /\ Head(<<e, f>>) = e
          /\ Tail(<<e, f>>) = <<f>> /\ <<e, f>> # <<>>
  <2> TAKE e \in Ids, f \in Ids
  <2> HIDE DEF Ids
  <2> QED
    BY TwoEvents
<1> QED
  BY <1>1, <1>2

(* Every backlog has the type of events.                                   *)
LEMMA BacklogType ==
    ASSUME NEW e \in {<<>>, <<"STA_START">>, <<"STA_CONNECTED">>, <<"STA_DISCONNECTED">>,
                      <<"STA_CONNECTED", "STA_DISCONNECTED">>}
    PROVE  /\ e \in Seq({"STA_START", "STA_CONNECTED", "STA_DISCONNECTED"})
           /\ Len(e) <= 2
<1>1. CASE e = <<>>
  BY <1>1
<1>2. CASE e = <<"STA_START">>
  BY <1>2
<1>3. CASE e = <<"STA_CONNECTED">>
  BY <1>3
<1>4. CASE e = <<"STA_DISCONNECTED">>
  BY <1>4
<1>5. CASE e = <<"STA_CONNECTED", "STA_DISCONNECTED">>
  BY <1>5
<1> QED
  BY <1>1, <1>2, <1>3, <1>4, <1>5

(* The patterns of the reachable statuses, step by step.                   *)
LEMMA Patterns ==
    /\ Len(Pattern("none")) = 0
    /\ Len(Pattern("NOT_STATE")) = 1
    /\ Len(Pattern("NORMAL_MODE")) = 2
    /\ Pattern("NOT_STATE")[1] = Off(1)
    /\ Pattern("NORMAL_MODE")[1] = On(5)
    /\ Pattern("NORMAL_MODE")[2] = Off(5)
  BY DEF Pattern, On, Off


-----------------------------------------------------------------------------
(* Every step preserves the invariant                                      *)

LEMMA InitInv == Init => IInv
  BY LedAssumption
     DEF Init, IInv, TypeOK, Backlog, Reachable, InPattern, LedCatchesUp, StatusAgrees,
         NotYetOnline, Status

LEMMA StepInv == IInv /\ [Next]_vars => IInv'
<1> SUFFICES ASSUME IInv, [Next]_vars PROVE IInv'
  OBVIOUS
<1>1. ASSUME WifiStart \/ Associate \/ AssociationFails \/ AssociationLost PROVE IInv'
  <2>1. Backlog'
    BY <1>1, Backlogs
       DEF WifiStart, Associate, AssociationFails, AssociationLost, IInv, Backlog
  <2>2. UNCHANGED <<status, ledVars, age>> /\ driver' \in {"idle", "connected"}
    BY <1>1 DEF WifiStart, Associate, AssociationFails, AssociationLost
  <2>3. TypeOK'
    BY <2>1, <2>2, BacklogType DEF IInv, TypeOK, Backlog, ledVars
  <2>4. Reachable' /\ InPattern' /\ LedCatchesUp'
    BY <2>2 DEF IInv, Reachable, InPattern, LedCatchesUp, Rest, ledVars
  <2>5. posted' # <<>>
    BY <2>1, <2>2, <1>1, Backlogs
       DEF WifiStart, Associate, AssociationFails, AssociationLost, IInv, Backlog
  <2>6. NotYetOnline'
    BY <1>1, <2>2, Backlogs
       DEF WifiStart, Associate, AssociationFails, AssociationLost, IInv, Backlog,
           NotYetOnline
  <2> QED
    BY <2>1, <2>3, <2>4, <2>5, <2>6 DEF IInv, StatusAgrees
<1>2. ASSUME Handler PROVE IInv'
  <2>1. Backlog'
    BY <1>2, Backlogs
       DEF Handler, OnStart, OnConnected, OnDisconnected, Connect, IInv, Backlog
  <2>2. /\ UNCHANGED ledVars
        /\ status' \in {"NOT_STATE", "NORMAL_MODE"}
        /\ \/ status' = status /\ age' = age
           \/ age' = 0
    BY <1>2 DEF Handler, OnStart, OnConnected, OnDisconnected, SetStatus, IInv, Reachable
  <2>3. TypeOK'
    BY <1>2, <2>1, <2>2, BacklogType, LedAssumption
       DEF Handler, OnStart, OnConnected, OnDisconnected, Connect, IInv, TypeOK, Backlog,
           ledVars, Status
  <2>4. Reachable' /\ InPattern' /\ LedCatchesUp'
    BY <2>2, LedAssumption
       DEF IInv, TypeOK, Reachable, InPattern, LedCatchesUp, Rest, Longest, ledVars
  <2>5. StatusAgrees'
    BY <1>2, Backlogs
       DEF Handler, OnStart, OnConnected, OnDisconnected, Connect, SetStatus, IInv,
           Backlog, Reachable, StatusAgrees, NotYetOnline
  <2>6. NotYetOnline'
    BY <1>2, Backlogs
       DEF Handler, OnStart, OnConnected, OnDisconnected, Connect, IInv, Backlog,
           NotYetOnline
  <2> QED
    BY <2>1, <2>3, <2>4, <2>5, <2>6 DEF IInv
<1>3. CASE ReadStatus
  BY <1>3, Patterns
     DEF ReadStatus, Play, On, Off, IInv, TypeOK, Backlog, Reachable, InPattern,
         LedCatchesUp, StatusAgrees, NotYetOnline, Rest, Longest, wifiVars, Status
<1>4. CASE NextStep
  <2>1. shown = "NORMAL_MODE" /\ step = 1 /\ left = 0
    <3>1. /\ left = 0 /\ step < Len(Pattern(shown))
          /\ shown \in {"none", "NOT_STATE", "NORMAL_MODE"}
      BY <1>4 DEF NextStep, IInv, Reachable
    <3>2. CASE shown = "none"
      BY <3>1, <3>2, Patterns DEF IInv, InPattern
    <3>3. CASE shown = "NOT_STATE"
      BY <3>1, <3>3, Patterns DEF IInv, InPattern
    <3>4. CASE shown = "NORMAL_MODE"
      <4>1. Len(Pattern(shown)) = 2
        BY <3>4, Patterns
      <4>2. step \in {1, 2}
        BY <3>4 DEF IInv, InPattern
      <4>3. step < 2
        BY <3>1, <4>1
      <4>4. step = 1
        BY <4>2, <4>3
      <4> QED
        BY <3>1, <3>4, <4>4
    <3> QED
      BY <3>1, <3>2, <3>3, <3>4
  <2>2. /\ shown' = "NORMAL_MODE" /\ step' = 2 /\ led' = "off" /\ left' = 5
        /\ UNCHANGED <<wifiVars, status, age>>
    BY <1>4, <2>1, Patterns DEF NextStep, Play, On, Off
  <2> QED
    BY <2>1, <2>2
       DEF IInv, TypeOK, Backlog, Reachable, InPattern, LedCatchesUp, StatusAgrees,
           NotYetOnline, Rest, Longest, wifiVars, Status
<1>5. CASE Tick
  BY <1>5, LedAssumption
     DEF Tick, IInv, TypeOK, Backlog, Reachable, InPattern,
         LedCatchesUp, StatusAgrees, NotYetOnline, Rest, Longest, wifiVars, Status
<1>6. CASE UNCHANGED vars
  BY <1>6
     DEF vars, wifiVars, ledVars, IInv, TypeOK, Backlog, Reachable, InPattern,
         LedCatchesUp, StatusAgrees, NotYetOnline, Rest
<1> QED
  BY <1>1, <1>2, <1>3, <1>4, <1>5, <1>6 DEF Next, Station, Led

THEOREM Invariance == Spec => []IInv
  BY InitInv, StepInv, PTL DEF Spec

-----------------------------------------------------------------------------
(* The theorems                                                            *)

(* The types, and that no more than two events ever wait.                  *)
THEOREM TypeCorrect == Spec => []TypeOK
  BY Invariance, PTL DEF IInv

(* With an empty backlog status_blue is what the station is.               *)
THEOREM StatusAlwaysAgrees == Spec => []StatusAgrees
  BY Invariance, PTL DEF IInv

(* A status older than the longest pattern is the one being shown.         *)
THEOREM LedNeverLate == Spec => []LedFollows
<1>1. IInv => LedFollows
  BY LedAssumption
     DEF IInv, TypeOK, Reachable, InPattern, LedCatchesUp, LedFollows, Rest, Longest
<1> QED
  BY <1>1, Invariance, PTL

(* A node that has been without an association for longer than one pattern
   is dark.                                                                *)
THEOREM OfflineIsDark == Spec => []DarkWhenOffline
<1>1. IInv => DarkWhenOffline
  BY LedAssumption
     DEF IInv, TypeOK, Reachable, InPattern, LedCatchesUp, StatusAgrees, DarkWhenOffline,
         Rest, Longest
<1> QED
  BY <1>1, Invariance, PTL

=============================================================================
