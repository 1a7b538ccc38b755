------------------------------ MODULE PwmWindow -------------------------------
(***************************************************************************)
(* BeerCtrl with a history of its PWM: what BCTRL_Trigger demanded in the  *)
(* triggers since the output last changed, in windows of PERIOD triggers   *)
(* that start at any position of the counter.                              *)
(***************************************************************************)
EXTENDS BeerCtrl

VARIABLE win
    (* win.slots   triggers of the current window, 0..PERIOD               *)
    (* win.cools   of those, the ones that demanded COOL                   *)
    (* win.heats   of those, the ones that demanded HEAT                   *)
    (* win.starts  of those, the ones that demanded COOL or HEAT after OFF *)

wvars == <<vars, win>>

NoWindow == [slots |-> 0, cools |-> 0, heats |-> 0, starts |-> 0]

Count(P) == IF P THEN 1 ELSE 0

Slot == LET old == IF win.slots = PERIOD THEN NoWindow ELSE win
        IN  /\ BCTRL_Trigger
            /\ win' = [slots  |-> old.slots + 1,
                       cools  |-> old.cools + Count(call' = "COOL"),
                       heats  |-> old.heats + Count(call' = "HEAT"),
                       starts |-> old.starts + Count(/\ old.slots # 0
                                                     /\ call = "OFF"
                                                     /\ call' # "OFF")]

(* Anything else leaves the window alone unless it changes the output or   *)
(* takes the fridge or the counter for itself.                             *)
Other == /\ Write \/ Settings \/ Report \/ Reset
         /\ win' = IF b'.output = b.output /\ pwm' = pwm /\ b'.ctrl = "AUTOMATIC"
                   THEN win ELSE NoWindow

WInit == Init /\ win = NoWindow
WNext == Slot \/ Other
WSpec == WInit /\ [][WNext]_wvars
WFairSpec == WSpec /\ WF_vars(Write) /\ WF_vars(BCTRL_Trigger)

(* The share of a period the output asks for, in triggers: all of it       *)
(* within DEADBAND of the limit, none within DEADBAND of 0.                *)
Duty(out) == IF out > PERIOD - DEADBAND THEN PERIOD
             ELSE IF out > DEADBAND THEN out ELSE 0

(* Over any PERIOD consecutive triggers with the same output the cooler    *)
(* gets Duty(-output) and the heater Duty(output) of them, wherever in its *)
(* cycle the counter stood when the output was computed, and the compressor*)
(* is not short-cycled: a relay that was off starts at most once in them.  *)
DutyExact ==
    /\ win.slots = PERIOD => win.cools = Duty(-b.output) /\ win.heats = Duty(b.output)
    /\ win.starts <= 1
===============================================================================
