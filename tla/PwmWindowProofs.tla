---------------------------- MODULE PwmWindowProofs ----------------------------
(***************************************************************************)
(* DutyExact of PwmWindow, for every period and deadband.                  *)
(***************************************************************************)
EXTENDS PwmWindow, BeerCtrlProofs

-------------------------------------------------------------------------------
(* One trigger. *)

(* A duty is a number of triggers of the period, and one of the two is 0. *)
LEMMA DutyType ==
    ASSUME NEW out \in -PERIOD .. PERIOD
    PROVE  /\ Duty(out) \in 0 .. PERIOD /\ Duty(-out) \in 0 .. PERIOD
           /\ Duty(out) = 0 \/ Duty(-out) = 0
BY PeriodAssumption DEF Duty

(* The cascade of BCTRL_Trigger turns a relay on in the first Duty slots   *)
(* of a period.                                                            *)
LEMMA DemandDuty ==
    ASSUME NEW out \in -PERIOD .. PERIOD, NEW p \in 0 .. PERIOD - 1
    PROVE  /\ Demand(out, p) = "COOL" <=> p < Duty(-out)
           /\ Demand(out, p) = "HEAT" <=> p < Duty(out)
           /\ Demand(out, p) \in {"OFF", "COOL", "HEAT"}
BY PeriodAssumption DEF Duty, Demand

-------------------------------------------------------------------------------
(* The window, by where it began. *)

(* Slots before position x in which a relay of duty d is on. *)
OnBefore(x, d) == IF x < d THEN x ELSE d

(* The last slots triggers before position p began in this period, or in   *)
(* the one before.                                                         *)
OnWithin(slots, p, d) ==
    IF slots <= p THEN OnBefore(p, d) - OnBefore(p - slots, d)
                  ELSE d - OnBefore(p - slots + PERIOD, d) + OnBefore(p, d)

LastSlot(p) == IF p = 0 THEN PERIOD - 1 ELSE p - 1

(* The inductive form of DutyExact: a window counts what the duty asks for *)
(* of its slots, and has seen a start only if it has passed position 0     *)
(* after its first slot.                                                   *)
WindowInv ==
    /\ win \in [slots : 0 .. PERIOD, cools : Nat, heats : Nat, starts : 0 .. 1]
    /\ win.slots = 0 => win = NoWindow
    /\ win.slots > 0 => /\ b.ctrl = "AUTOMATIC"
                        /\ call = Demand(b.output, LastSlot(pwm))
                        /\ win.cools = OnWithin(win.slots, pwm, Duty(-b.output))
                        /\ win.heats = OnWithin(win.slots, pwm, Duty(b.output))
                        /\ win.starts = 1 => 1 <= pwm /\ pwm < win.slots

(* A full window holds the duty. *)
LEMMA FullWindow ==
    ASSUME NEW p \in 0 .. PERIOD - 1, NEW d \in 0 .. PERIOD
    PROVE  OnWithin(PERIOD, p, d) = d
BY PeriodAssumption DEF OnWithin, OnBefore

(* One more slot, or the first one. *)
LEMMA OneMore ==
    ASSUME NEW p \in 0 .. PERIOD - 1, NEW d \in 0 .. PERIOD, NEW slots \in 0 .. PERIOD - 1
    PROVE  OnWithin(slots + 1, NextSlot(p), d) = (IF slots = 0 THEN 0 ELSE OnWithin(slots, p, d)) + Count(p < d)
<1>1. CASE p + 1 < PERIOD
  BY <1>1, PeriodAssumption DEF OnWithin, OnBefore, NextSlot, Count
<1>2. CASE p + 1 = PERIOD
  BY <1>2, PeriodAssumption DEF OnWithin, OnBefore, NextSlot, Count
<1>3. p + 1 < PERIOD \/ p + 1 = PERIOD
  BY PeriodAssumption
<1> QED BY <1>1, <1>2, <1>3

LEMMA SlotStep == TypeOK /\ WindowInv /\ Slot => WindowInv'
<1> SUFFICES ASSUME TypeOK, WindowInv, Slot PROVE WindowInv'
  OBVIOUS
<1> DEFINE old == IF win.slots = PERIOD THEN NoWindow ELSE win
           cd == Duty(-b.output)
           hd == Duty(b.output)
<1>1. /\ b.output \in -PERIOD .. PERIOD /\ pwm \in 0 .. PERIOD - 1
      /\ call' = Demand(b.output, pwm) /\ pwm' = NextSlot(pwm) /\ b' = b /\ b.ctrl = "AUTOMATIC"
  BY DEF TypeOK, State, Slot, BCTRL_Trigger, Call
<1>2. /\ cd \in 0 .. PERIOD /\ hd \in 0 .. PERIOD /\ (cd = 0 \/ hd = 0)
      /\ call' = "COOL" <=> pwm < cd
      /\ call' = "HEAT" <=> pwm < hd
      /\ call' \in {"OFF", "COOL", "HEAT"}
  BY <1>1, DutyType, DemandDuty
<1>3. /\ old \in [slots : 0 .. PERIOD, cools : Nat, heats : Nat, starts : 0 .. 1]
      /\ old.slots \in 0 .. PERIOD - 1
      /\ old.slots = 0 => old.cools = 0 /\ old.heats = 0 /\ old.starts = 0
      /\ old.slots > 0 => old = win
  BY PeriodAssumption DEF WindowInv, NoWindow
<1>4. win' = [slots  |-> old.slots + 1,
              cools  |-> old.cools + Count(call' = "COOL"),
              heats  |-> old.heats + Count(call' = "HEAT"),
              starts |-> old.starts + Count(old.slots # 0 /\ call = "OFF" /\ call' # "OFF")]
  BY DEF Slot
<1>5. NextSlot(pwm) \in 0 .. PERIOD - 1 /\ LastSlot(NextSlot(pwm)) = pwm
  BY <1>1, PeriodAssumption DEF NextSlot, LastSlot
<1> HIDE DEF old, cd, hd
<1>6. /\ old.slots > 0 => /\ old.cools = OnWithin(old.slots, pwm, cd)
                          /\ old.heats = OnWithin(old.slots, pwm, hd)
                          /\ call = Demand(b.output, LastSlot(pwm))
                          /\ old.starts = 1 => 1 <= pwm /\ pwm < old.slots
  BY <1>3 DEF WindowInv, cd, hd
<1>7. /\ win'.slots = old.slots + 1
      /\ win'.cools = old.cools + Count(pwm < cd)
      /\ win'.heats = old.heats + Count(pwm < hd)
  BY <1>2, <1>4 DEF Count
<1>8. /\ win'.cools = OnWithin(old.slots + 1, pwm', cd)
      /\ win'.heats = OnWithin(old.slots + 1, pwm', hd)
  BY <1>1, <1>2, <1>3, <1>6, <1>7, OneMore
<1>9. /\ win'.starts \in 0 .. 1
      /\ win'.starts = 1 => 1 <= pwm' /\ pwm' < old.slots + 1
  <2>1. CASE old.slots # 0 /\ call = "OFF" /\ call' # "OFF"
    <3>1. LastSlot(pwm) \in 0 .. PERIOD - 1
      BY <1>1, PeriodAssumption DEF LastSlot
    <3>2. ~(LastSlot(pwm) < cd) /\ ~(LastSlot(pwm) < hd)
      BY <1>1, <1>3, <1>6, <2>1, <3>1, DemandDuty DEF cd, hd
    <3>3. pwm < cd \/ pwm < hd
      BY <1>2, <2>1
    <3>4. pwm = 0
      BY <1>1, <1>2, <3>2, <3>3 DEF LastSlot
    <3>5. old.starts = 0
      BY <1>3, <1>6, <2>1, <3>4
    <3>6. PERIOD > 1 /\ pwm' = 1
      BY <1>1, <1>3, <2>1, <3>4 , PeriodAssumption DEF NextSlot
    <3>7. win'.starts = 1
      BY <1>4, <2>1, <3>5 DEF Count
    <3> QED BY <1>3, <2>1, <3>6, <3>7
  <2>2. CASE ~(old.slots # 0 /\ call = "OFF" /\ call' # "OFF")
    <3>1. win'.starts = old.starts
      BY <1>3, <1>4, <2>2 DEF Count
    <3>2. old.starts = 1 => old.slots > 0
      BY <1>3
    <3>3. old.starts = 1 => pwm' = pwm + 1
      BY <1>1, <1>3, <1>6, <3>2, PeriodAssumption DEF NextSlot
    <3> QED BY <1>1, <1>3, <1>6, <3>1, <3>2, <3>3
  <2> QED BY <2>1, <2>2
<1>10. win'.cools \in Nat /\ win'.heats \in Nat
  BY <1>3, <1>7 DEF Count
<1>11. win' \in [slots : 0 .. PERIOD, cools : Nat, heats : Nat, starts : 0 .. 1]
  <2>1. win'.slots \in 0 .. PERIOD
    BY <1>3, <1>7, PeriodAssumption
  <2> QED BY <1>4, <1>9, <1>10, <2>1
<1>12. win'.slots > 0
  BY <1>3, <1>7
<1> QED BY <1>1, <1>5, <1>7, <1>8, <1>9, <1>11, <1>12 DEF WindowInv, cd, hd

(* What is not a trigger keeps the window only while it keeps the output,  *)
(* the counter and the automatic mode.                                     *)
LEMMA OtherStep == TypeOK /\ WindowInv /\ Other => WindowInv'
<1> SUFFICES ASSUME TypeOK, WindowInv, Other PROVE WindowInv'
  OBVIOUS
<1>1. CASE win' = NoWindow
  BY <1>1, PeriodAssumption DEF WindowInv, NoWindow
<1>2. CASE win' = win /\ b'.output = b.output /\ pwm' = pwm /\ b'.ctrl = "AUTOMATIC"
  <2>1. CASE win.slots = 0
    BY <1>2, <2>1 DEF WindowInv
  <2>2. CASE win.slots # 0
    <3>1. b.ctrl = "AUTOMATIC" /\ call = Demand(b.output, LastSlot(pwm))
      BY <2>2, PeriodAssumption DEF WindowInv
    <3>2. call' = call
      <4>1. CASE Reset
        <5>1. b.output = 0 /\ call' = "OFF"
          BY <1>2, <4>1 DEF Reset, Booted, Call
        <5>2. call = "OFF"
          BY <3>1, <5>1, PeriodAssumption DEF Demand
        <5> QED BY <5>1, <5>2
      <4>2. CASE Write \/ Settings
        BY <3>1, <4>2 DEF Write, Settings, BCTRL_SetKP, BCTRL_SetKI, BCTRL_SetKD, BCTRL_SetTemp,
                          BCTRL_SetCtrl, BCTRL_SetFridge
      <4>3. CASE Report /\ ~Reset
        BY <4>3 DEF Report, BCTRL_ReportNewReading
      <4> QED BY <4>1, <4>2, <4>3 DEF Other
    <3> QED BY <1>2, <3>2 DEF WindowInv
  <2> QED BY <2>1, <2>2
<1> QED BY <1>1, <1>2 DEF Other

-------------------------------------------------------------------------------
(* The history changes nothing of the controller. *)
LEMMA WindowSpec == WSpec => Spec
<1>1. WInit => Init
  BY DEF WInit
<1>2. [WNext]_wvars => [Next]_vars
  BY DEF WNext, Slot, Other, Next, wvars
<1> QED BY <1>1, <1>2, PTL DEF WSpec, Spec

(* In any PERIOD consecutive triggers with one output, wherever they begin *)
(* in the cycle of the counter, BCTRL_Trigger demands cooling and heating  *)
(* in exactly as many as the output asks for, and no relay starts twice.   *)
THEOREM DutyCorrect == WSpec => []DutyExact
<1>1. WInit => WindowInv
  BY PeriodAssumption DEF WInit, WindowInv, NoWindow
<1>2. TypeOK /\ WindowInv /\ [WNext]_wvars => WindowInv'
  <2>1. UNCHANGED wvars /\ WindowInv => WindowInv'
    BY DEF wvars, vars, WindowInv
  <2> QED BY <2>1, SlotStep, OtherStep DEF WNext
<1>3. TypeOK /\ WindowInv => DutyExact
  <2> SUFFICES ASSUME TypeOK, WindowInv PROVE DutyExact
    OBVIOUS
  <2>1. b.output \in -PERIOD .. PERIOD /\ pwm \in 0 .. PERIOD - 1
    BY DEF TypeOK, State
  <2>2. win.slots = PERIOD => win.cools = Duty(-b.output) /\ win.heats = Duty(b.output)
    BY <2>1, DutyType, FullWindow, PeriodAssumption DEF WindowInv
  <2> QED BY <2>2 DEF WindowInv, DutyExact
<1> QED BY <1>1, <1>2, <1>3, WindowSpec, TypeCorrect, PTL DEF WSpec
===============================================================================
