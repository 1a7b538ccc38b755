------------------------------- MODULE BeerCtrl -------------------------------
(***************************************************************************)
(* The beer temperature controller, user/beerctrl.c, with the relay        *)
(* drivers cooler.c, heater.c and gpio16.c below it: a PID computation on  *)
(* each sensor reading, a slow "PWM" of the fridge on each timer tick, and *)
(* remote settings.                                                        *)
(*                                                                         *)
(* The SDK runs handlers to completion, one at a time, so a handler is one *)
(* action up to the point where it calls setFridge().  setFridge() itself  *)
(* is executed one device write at a time (pc), because the pins it sets   *)
(* are seen by the hardware in between and a reset may come in between.    *)
(* No other handler starts while pc # 0.                                   *)
(*                                                                         *)
(* The time a reading is taken at is an input of the reading; Brewpi       *)
(* supplies the real clock.                                                *)
(***************************************************************************)
EXTENDS Integers

CONSTANTS
    PERIOD,         \* length of a PWM period in triggers, beerctrl.c:13
    DEADBAND,       \* outputs this close to 0 or to a limit, beerctrl.c:12
    CONFIG_KP, CONFIG_KI, CONFIG_KD,    \* gains at boot, beerctrl.c:8-10
    CONFIG_TEMP,    \* setpoint at boot, in 1/16 degree
    Word,           \* number of values of an int32_t, 2^32 in the code
    KPs, KIs, KDs,  \* gains that may be set
    Setpoints,      \* setpoints that may be set
    Readings,       \* temperatures a sensor may report
    Seconds,        \* values of system_get_time() / 1000000 at a reading
    BootTimes       \* values of system_get_time() when BCTRL_Init runs

ASSUME PeriodAssumption == PERIOD \in Nat \ {0} /\ DEADBAND \in 0 .. PERIOD
ASSUME WordAssumption == Word \in Nat \ {0}
ASSUME GainAssumption ==
    /\ CONFIG_KP \in KPs /\ CONFIG_KI \in KIs /\ CONFIG_KD \in KDs
    /\ KPs \subseteq Int /\ KIs \subseteq Int /\ KDs \subseteq Int
ASSUME TemperatureAssumption ==
    CONFIG_TEMP \in Setpoints /\ Setpoints \subseteq Int /\ Readings \subseteq Int
ASSUME TimeAssumption == Seconds \subseteq Int /\ BootTimes \subseteq Int

VARIABLES
    b,      \* the static struct beerctrl_t
    pwm,    \* cnt, the static counter of BCTRL_Trigger
    call,   \* argument of the last call of setFridge()
    pc,     \* next statement of that call, 0 when it has returned
    io      \* the devices: levels of the two pins, fridge state on display

vars == <<b, pwm, call, pc, io>>

-------------------------------------------------------------------------------
(* Devices and the relay drivers. *)

Fridge == {"OFF", "COOL", "HEAT"}

(* Both relays are active low: level 0 energises. *)
Cooling == io.gpio16 = 0
Heating == io.gpio2 = 0

Relays == IF Cooling /\ Heating THEN "BOTH"
          ELSE IF Cooling THEN "COOL"
          ELSE IF Heating THEN "HEAT" ELSE "OFF"

COOLER_setState(on) == [dev |-> "gpio16", val |-> IF on THEN 0 ELSE 1]
HEATER_setState(on) == [dev |-> "gpio2", val |-> IF on THEN 0 ELSE 1]
FridgeEvent(state) == [dev |-> "display", val |-> state]

(* Mutants of setFridge(): make before break; a heater forgotten in OFF. *)
setFridge_makeFirst(state) ==
    CASE state = "COOL" -> <<COOLER_setState(TRUE), HEATER_setState(FALSE), FridgeEvent("COOL")>>
      [] state = "HEAT" -> <<HEATER_setState(TRUE), COOLER_setState(FALSE), FridgeEvent("HEAT")>>
      [] OTHER          -> <<COOLER_setState(FALSE), HEATER_setState(FALSE), FridgeEvent("OFF")>>
setFridge_heaterKept(state) ==
    CASE state = "COOL" -> <<HEATER_setState(FALSE), COOLER_setState(TRUE), FridgeEvent("COOL")>>
      [] state = "HEAT" -> <<COOLER_setState(FALSE), HEATER_setState(TRUE), FridgeEvent("HEAT")>>
      [] OTHER          -> <<COOLER_setState(FALSE), COOLER_setState(FALSE), FridgeEvent("OFF")>>

(* The statements of setFridge(state), in program order. *)
setFridge(state) ==
    CASE state = "COOL" -> <<HEATER_setState(FALSE), COOLER_setState(TRUE), FridgeEvent("COOL")>>
      [] state = "HEAT" -> <<COOLER_setState(FALSE), HEATER_setState(TRUE), FridgeEvent("HEAT")>>
      [] OTHER          -> <<COOLER_setState(FALSE), HEATER_setState(FALSE), FridgeEvent("OFF")>>

Idle == pc = 0
Call(state) == call' = state /\ pc' = 1

(* One statement of the running setFridge(). *)
Write == /\ pc # 0
         /\ LET w == setFridge(call)[pc] IN io' = [io EXCEPT ![w.dev] = w.val]
         /\ pc' = (pc + 1) % 4
         /\ UNCHANGED <<b, pwm, call>>

-------------------------------------------------------------------------------
(* Arithmetic of the target: two's complement words, division that         *)
(* truncates towards zero.                                                 *)

Int32(x) == ((x + (Word \div 2)) % Word) - (Word \div 2)

(* Mutant: the lower limit is not enforced. *)
Clamp_upperOnly(x) == IF x > PERIOD THEN PERIOD ELSE x
Clamp(x) == IF x > PERIOD THEN PERIOD ELSE IF x < -PERIOD THEN -PERIOD ELSE x
Quotient(n, d) == LET a(x) == IF x < 0 THEN -x ELSE x
                      q == a(n) \div a(d)
                  IN  IF (n < 0) = (d < 0) THEN q ELSE -q

(* b after BCTRL_Init at system_get_time() = t; .bss is zeroed at reset. *)
Booted(t) ==
    [ctrl |-> "AUTOMATIC", temp |-> CONFIG_TEMP, output |-> 0,
     kp |-> CONFIG_KP, ki |-> CONFIG_KI, kd |-> CONFIG_KD,
     integral |-> 0, lasttime |-> t, lasterror |-> 0]

Error(c, temp) == c.temp - temp

(* b after BCTRL_ReportNewReading(temp) in AUTOMATIC at second now. *)
Computed(c, temp, now) ==
    LET error == Error(c, temp)
        dt == now - c.lasttime
        integral == Clamp(Int32(c.integral + error * dt))
        derivative == Quotient(error - c.lasterror, dt)
        output == Clamp(Int32(c.kp * error + c.ki * integral + c.kd * derivative))
    IN  [c EXCEPT !.integral = integral, !.output = output,
                  !.lasttime = now, !.lasterror = error]

(* Mutant: the positions are taken to count from 1. *)
Demand_late(output, p) ==
    IF output < DEADBAND - PERIOD \/ (output < -DEADBAND /\ p + 1 < -output) THEN "COOL"
    ELSE IF output > PERIOD - DEADBAND \/ (output > DEADBAND /\ p + 1 < output) THEN "HEAT"
    ELSE "OFF"

(* The fridge state BCTRL_Trigger asks for at PWM position p. *)
Demand(output, p) ==
    IF output < DEADBAND - PERIOD \/ (output < -DEADBAND /\ p < -output) THEN "COOL"
    ELSE IF output > PERIOD - DEADBAND \/ (output > DEADBAND /\ p < output) THEN "HEAT"
    ELSE "OFF"

(* Mutants of the wrap of the counter: none, one late. *)
NextSlot_stays(p) == IF p + 1 >= PERIOD THEN p ELSE p + 1
NextSlot_late(p) == IF p + 1 > PERIOD THEN 0 ELSE p + 1
NextSlot(p) == IF p + 1 >= PERIOD THEN 0 ELSE p + 1

-------------------------------------------------------------------------------
(* Power-on: the pins float high, and user_init runs BCTRL_Init, whose     *)
(* pin writes are those of setFridge(OFF) (COOLER_init writes what the     *)
(* first of them writes again).                                            *)
Init == /\ \E t \in BootTimes : b = Booted(t)
        /\ pwm = 0
        /\ call = "OFF" /\ pc = 1
        /\ io = [gpio16 |-> 1, gpio2 |-> 1, display |-> "BLANK"]

(* A reset or an exception at any time.  The GPIO block is reset, so GPIO2 *)
(* is an input with pull-up again; GPIO16 belongs to the RTC block, which  *)
(* keeps its level over some kinds of reset, until COOLER_init sets it.    *)
Reset == /\ \E t \in BootTimes : b' = Booted(t)
         /\ pwm' = 0
         /\ Call("OFF")
         /\ \E level \in {io.gpio16, 1} :
                io' = [gpio16 |-> level, gpio2 |-> 1, display |-> "BLANK"]

BCTRL_SetKP(kp) == Idle /\ b' = [b EXCEPT !.kp = kp] /\ UNCHANGED <<pwm, call, pc, io>>
BCTRL_SetKI(ki) == Idle /\ b' = [b EXCEPT !.ki = ki] /\ UNCHANGED <<pwm, call, pc, io>>
BCTRL_SetKD(kd) == Idle /\ b' = [b EXCEPT !.kd = kd] /\ UNCHANGED <<pwm, call, pc, io>>
BCTRL_SetTemp(temp) == Idle /\ b' = [b EXCEPT !.temp = temp] /\ UNCHANGED <<pwm, call, pc, io>>
BCTRL_SetCtrl(ctrl) == Idle /\ b' = [b EXCEPT !.ctrl = ctrl] /\ UNCHANGED <<pwm, call, pc, io>>

BCTRL_SetFridge(state) ==
    /\ Idle
    /\ b.ctrl = "MANUAL"
    /\ Call(state)
    /\ UNCHANGED <<b, pwm, io>>

(* Two readings in the same second divide by zero: an exception, and with  *)
(* it a reset.  In MANUAL a reading only reaches the display.              *)
BCTRL_ReportNewReading(temp, now) ==
    /\ Idle
    /\ b.ctrl = "AUTOMATIC"
    /\ \/ /\ now # b.lasttime
          /\ b' = Computed(b, temp, now)
          /\ UNCHANGED <<pwm, call, pc, io>>
       \/ /\ now = b.lasttime
          /\ Reset

BCTRL_Trigger ==
    /\ Idle
    /\ b.ctrl = "AUTOMATIC"
    /\ Call(Demand(b.output, pwm))
    /\ pwm' = NextSlot(pwm)
    /\ UNCHANGED <<b, io>>

Settings == \/ \E kp \in KPs : BCTRL_SetKP(kp)
            \/ \E ki \in KIs : BCTRL_SetKI(ki)
            \/ \E kd \in KDs : BCTRL_SetKD(kd)
            \/ \E temp \in Setpoints : BCTRL_SetTemp(temp)
            \/ \E ctrl \in {"MANUAL", "AUTOMATIC"} : BCTRL_SetCtrl(ctrl)
            \/ \E state \in Fridge : BCTRL_SetFridge(state)

Report == \E temp \in Readings, now \in Seconds : BCTRL_ReportNewReading(temp, now)

Next == Write \/ Settings \/ Report \/ BCTRL_Trigger \/ Reset

Spec == Init /\ [][Next]_vars

(* A started setFridge() goes on, and the periodic timer keeps triggering. *)
FairSpec == Spec /\ WF_vars(Write) /\ WF_vars(BCTRL_Trigger)

-------------------------------------------------------------------------------
(* Properties. *)

State == [ctrl : {"MANUAL", "AUTOMATIC"}, temp : Setpoints,
          output : -PERIOD .. PERIOD, kp : KPs, ki : KIs, kd : KDs,
          integral : -PERIOD .. PERIOD, lasttime : Seconds \cup BootTimes,
          lasterror : Int]

(* Types of the controller: output and integral stay within the limits    *)
(* the clamps of BCTRL_ReportNewReading enforce, pwm within one period.    *)
TypeOK == /\ b \in State
          /\ pwm \in 0 .. PERIOD - 1
          /\ call \in Fridge
          /\ pc \in 0 .. 3
          /\ io \in [gpio16 : {0, 1}, gpio2 : {0, 1}, display : Fridge \cup {"BLANK"}]

(* The compressor and the heater are never energised together, not even    *)
(* between two register writes of setFridge() or across a reset in between.*)
Interlock == ~(Cooling /\ Heating)

(* Between handlers the display tells what the relays do: the event sent   *)
(* at the end of setFridge() matches the pins it has set.                  *)
DisplayTruth == Idle => io.display = Relays

(* What the two pins are known to be at each statement of setFridge(): the *)
(* inductive form of Interlock and DisplayTruth.                           *)
RelayInv == /\ Interlock
            /\ DisplayTruth
            /\ pc = 2 => IF call = "COOL" THEN ~Heating ELSE ~Cooling
            /\ pc \in {0, 3} => Relays = call

(* The relay driver implements the abstract fridge: it moves only towards  *)
(* the last call of setFridge(), through OFF between cooling and heating,  *)
(* and it gets there.                                                      *)
F == INSTANCE Fridge WITH relays <- Relays, request <- call
FridgeSafety == F!FSafety
FridgeSpec == F!FSpec

(* The fridge serves the output: at the limits the relay comes on, between *)
(* the deadbands it is switched both on and off, and inside the deadband   *)
(* around zero it goes off, unless the output or the mode changes first.   *)
Steady(out) == b.ctrl = "AUTOMATIC" /\ b.output = out
OutputServed == \A out \in -PERIOD .. PERIOD :
    /\ (Steady(out) /\ out < -DEADBAND) ~> (~Steady(out) \/ Relays = "COOL")
    /\ (Steady(out) /\ out > DEADBAND) ~> (~Steady(out) \/ Relays = "HEAT")
    /\ (Steady(out) /\ out \in DEADBAND - PERIOD .. PERIOD - DEADBAND)
            ~> (~Steady(out) \/ Relays = "OFF")
===============================================================================
