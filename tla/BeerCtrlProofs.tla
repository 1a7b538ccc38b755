---------------------------- MODULE BeerCtrlProofs ----------------------------
(***************************************************************************)
(* Theorems about BeerCtrl, for every period, deadband, gain, temperature  *)
(* and clock value.                                                        *)
(***************************************************************************)
EXTENDS BeerCtrl, TLAPS

-------------------------------------------------------------------------------
(* Arithmetic of one reading. *)

(* The clamps of BCTRL_ReportNewReading (beerctrl.c:140 and 150) bring any *)
(* value into the limits set by BCTRL_Init.                                *)
LEMMA ClampRange == \A x \in Int : Clamp(x) \in -PERIOD .. PERIOD
  BY PeriodAssumption DEF Clamp

(* A wrapped word is an integer. *)
LEMMA Int32Type == \A x \in Int : Int32(x) \in Int
  BY WordAssumption DEF Int32

(* The truncating division of two integers is an integer. *)
LEMMA QuotientType == \A n \in Int, d \in Int \ {0} : Quotient(n, d) \in Int
  BY DEF Quotient

(* One reading keeps the types of the controller. *)
LEMMA ComputedType ==
  ASSUME NEW c \in State, NEW temp \in Readings, NEW now \in Seconds,
         now # c.lasttime
  PROVE  Computed(c, temp, now) \in State
<1> DEFINE error == Error(c, temp)
           dt == now - c.lasttime
           integral == Clamp(Int32(c.integral + error * dt))
           derivative == Quotient(error - c.lasterror, dt)
           output == Clamp(Int32(c.kp * error + c.ki * integral + c.kd * derivative))
<1>1. error \in Int /\ dt \in Int \ {0}
  <2>1. c.temp \in Int /\ temp \in Int
    BY TemperatureAssumption DEF State
  <2>2. c.lasttime \in Int /\ now \in Int
    BY TimeAssumption DEF State
  <2>3. now # c.lasttime
    OBVIOUS
  <2>4. dt \in Int /\ dt # 0
    BY <2>2, <2>3
  <2> QED BY <2>1, <2>4 DEF Error
<1>2. integral \in -PERIOD .. PERIOD
  <2>1. c.integral + error * dt \in Int
    BY <1>1, PeriodAssumption DEF State
  <2> HIDE DEF error, dt
  <2> QED BY <2>1, Int32Type, ClampRange
<1>3. derivative \in Int
  <2>1. error - c.lasterror \in Int
    BY <1>1 DEF State
  <2> HIDE DEF error, dt
  <2> QED BY <2>1, <1>1, QuotientType
<1>4. output \in -PERIOD .. PERIOD
  <2>1. c.kp \in Int /\ c.ki \in Int /\ c.kd \in Int
    BY GainAssumption DEF State
  <2> HIDE DEF error, dt, integral, derivative
  <2>2. integral \in Int
    BY <1>2, PeriodAssumption
  <2>3. c.kp * error + c.ki * integral + c.kd * derivative \in Int
    BY <1>1, <1>3, <2>1, <2>2
  <2> QED BY <2>3, Int32Type, ClampRange
<1>5. Computed(c, temp, now) =
        [c EXCEPT !.integral = integral, !.output = output,
                  !.lasttime = now, !.lasterror = error]
  BY DEF Computed
<1> HIDE DEF error, dt, integral, derivative, output
<1> QED BY <1>1, <1>2, <1>4, <1>5 DEF State

(* A demand is a fridge state. *)
LEMMA DemandType == \A output \in Int, p \in Int : Demand(output, p) \in Fridge
  BY DEF Demand, Fridge

-------------------------------------------------------------------------------
(* The statements of setFridge(), written out. *)
LEMMA Statements ==
  /\ setFridge("OFF")[1] = [dev |-> "gpio16", val |-> 1]
  /\ setFridge("OFF")[2] = [dev |-> "gpio2", val |-> 1]
  /\ setFridge("OFF")[3] = [dev |-> "display", val |-> "OFF"]
  /\ setFridge("COOL")[1] = [dev |-> "gpio2", val |-> 1]
  /\ setFridge("COOL")[2] = [dev |-> "gpio16", val |-> 0]
  /\ setFridge("COOL")[3] = [dev |-> "display", val |-> "COOL"]
  /\ setFridge("HEAT")[1] = [dev |-> "gpio16", val |-> 1]
  /\ setFridge("HEAT")[2] = [dev |-> "gpio2", val |-> 0]
  /\ setFridge("HEAT")[3] = [dev |-> "display", val |-> "HEAT"]
  BY DEF setFridge, COOLER_setState, HEATER_setState, FridgeEvent

(* The controller and its devices keep their types (user/beerctrl.c). *)
THEOREM TypeCorrect == Spec => []TypeOK
<1>1. Init => TypeOK
  BY PeriodAssumption, GainAssumption, TemperatureAssumption
     DEF Init, TypeOK, Booted, State, Fridge
<1>2. ASSUME TypeOK, [Next]_vars PROVE TypeOK'
  <2>0. \A t \in BootTimes : Booted(t) \in State
    BY PeriodAssumption, GainAssumption, TemperatureAssumption DEF Booted, State
  <2>1. CASE Write
    <3>1. pc \in {1, 2, 3} /\ call \in {"OFF", "COOL", "HEAT"}
      BY <1>2, <2>1 DEF Write, TypeOK, Fridge
    <3>2. io' \in [gpio16 : {0, 1}, gpio2 : {0, 1}, display : Fridge \cup {"BLANK"}]
      BY <1>2, <2>1, <3>1, Statements DEF Write, TypeOK, Fridge
    <3> QED BY <1>2, <2>1, <3>1, <3>2 DEF Write, TypeOK
  <2>2. CASE Settings
    <3>1. b' \in State
      BY <1>2, <2>2
         DEF Settings, BCTRL_SetKP, BCTRL_SetKI, BCTRL_SetKD, BCTRL_SetTemp,
             BCTRL_SetCtrl, BCTRL_SetFridge, TypeOK, State
    <3> QED BY <1>2, <2>2, <3>1
            DEF Settings, BCTRL_SetKP, BCTRL_SetKI, BCTRL_SetKD, BCTRL_SetTemp,
                BCTRL_SetCtrl, BCTRL_SetFridge, TypeOK, Call, Fridge
  <2>3. CASE Reset
    BY <1>2, <2>3, <2>0, PeriodAssumption DEF Reset, TypeOK, Call, Fridge
  <2>4. CASE Report
    <3>1. PICK temp \in Readings, now \in Seconds : BCTRL_ReportNewReading(temp, now)
      BY <2>4 DEF Report
    <3>2. CASE now = b.lasttime
      BY <2>3, <3>1, <3>2 DEF BCTRL_ReportNewReading
    <3>3. CASE now # b.lasttime
      BY <1>2, <3>1, <3>3, ComputedType DEF BCTRL_ReportNewReading, TypeOK
    <3> QED BY <3>2, <3>3
  <2>5. CASE BCTRL_Trigger
    <3>1. Demand(b.output, pwm) \in Fridge
      BY <1>2, DemandType, PeriodAssumption DEF TypeOK, State
    <3>2. NextSlot(pwm) \in 0 .. PERIOD - 1
      BY <1>2, PeriodAssumption DEF TypeOK, NextSlot
    <3> QED BY <1>2, <2>5, <3>1, <3>2 DEF BCTRL_Trigger, TypeOK, Call
  <2>6. CASE UNCHANGED vars
    BY <1>2, <2>6 DEF vars, TypeOK
  <2> QED BY <1>2, <2>1, <2>2, <2>3, <2>4, <2>5, <2>6 DEF Next
<1> QED BY <1>1, <1>2, PTL DEF Spec

-------------------------------------------------------------------------------
(* What a Write does to the pins, one case per statement and argument. *)
LEMMA WriteEffect ==
  ASSUME TypeOK, Write
  PROVE  /\ pc \in {1, 2, 3} /\ call \in {"OFF", "COOL", "HEAT"}
         /\ pc = 1 => pc' = 2
         /\ pc = 2 => pc' = 3
         /\ pc = 3 => pc' = 0
         /\ call' = call
         /\ io'.gpio16 = IF pc = 1 /\ call # "COOL" THEN 1
                         ELSE IF pc = 2 /\ call = "COOL" THEN 0 ELSE io.gpio16
         /\ io'.gpio2 = IF pc = 1 /\ call = "COOL" THEN 1
                        ELSE IF pc = 2 /\ call = "OFF" THEN 1
                        ELSE IF pc = 2 /\ call = "HEAT" THEN 0 ELSE io.gpio2
         /\ io'.display = IF pc = 3 THEN call ELSE io.display
<1>1. pc \in {1, 2, 3} /\ call \in {"OFF", "COOL", "HEAT"}
  BY DEF Write, TypeOK, Fridge
<1>2. /\ pc = 1 => pc' = 2
      /\ pc = 2 => pc' = 3
      /\ pc = 3 => pc' = 0
      /\ call' = call
  BY <1>1 DEF Write
<1>3. CASE call = "OFF"
  BY <1>1, <1>2, <1>3, Statements DEF Write, TypeOK
<1>4. CASE call = "COOL"
  BY <1>1, <1>2, <1>4, Statements DEF Write, TypeOK
<1>5. CASE call = "HEAT"
  BY <1>1, <1>2, <1>5, Statements DEF Write, TypeOK
<1> QED BY <1>1, <1>3, <1>4, <1>5

(* Every step keeps the inductive invariant of setFridge(). *)
LEMMA RelayStep == TypeOK /\ RelayInv /\ [Next]_vars => RelayInv'
<1> SUFFICES ASSUME TypeOK, RelayInv, [Next]_vars PROVE RelayInv'
  OBVIOUS
<1> USE DEF RelayInv, Interlock, DisplayTruth, Idle, Relays, Cooling, Heating
<1>1. CASE Write
  BY <1>1, WriteEffect
<1>2. CASE Settings
  <2>1. CASE pc = 0 /\ UNCHANGED <<call, pc, io>>
    BY <2>1
  <2>2. CASE \E state \in Fridge : BCTRL_SetFridge(state)
    BY <2>2 DEF BCTRL_SetFridge, Call
  <2> QED BY <1>2, <2>1, <2>2
          DEF Settings, BCTRL_SetKP, BCTRL_SetKI, BCTRL_SetKD, BCTRL_SetTemp, BCTRL_SetCtrl
<1>3. CASE Reset
  BY <1>3 DEF Reset, Call, TypeOK
<1>4. CASE Report
  BY <1>3, <1>4 DEF Report, BCTRL_ReportNewReading
<1>5. CASE BCTRL_Trigger
  BY <1>5 DEF BCTRL_Trigger, Call
<1>6. CASE UNCHANGED vars
  BY <1>6 DEF vars
<1> QED BY <1>1, <1>2, <1>3, <1>4, <1>5, <1>6 DEF Next

(* The pins are as setFridge() needs them at each of its statements. *)
THEOREM RelayCorrect == Spec => []RelayInv
<1>1. Init => RelayInv
  BY DEF Init, RelayInv, Interlock, DisplayTruth, Idle, Cooling, Heating
<1> QED BY <1>1, RelayStep, TypeCorrect, PTL DEF Spec

(* Compressor and heater are never energised together: whatever the        *)
(* settings, the readings and the resets, and at every register write.     *)
THEOREM InterlockCorrect == Spec => []Interlock
<1>1. RelayInv => Interlock
  BY DEF RelayInv
<1> QED BY <1>1, RelayCorrect, PTL

(* Whenever no setFridge() is running the display is truthful. *)
THEOREM DisplayCorrect == Spec => []DisplayTruth
<1>1. RelayInv => DisplayTruth
  BY DEF RelayInv
<1> QED BY <1>1, RelayCorrect, PTL

(* The controller implements the safety part of the abstract fridge: the   *)
(* relays open before they close, and close only on the last call.         *)
THEOREM FridgeRefined == Spec => FridgeSafety
<1>1. Init => F!FInit
  BY DEF Init, F!FInit, Relays, Cooling, Heating
<1>2. TypeOK /\ RelayInv /\ [Next]_vars => [F!FNext]_(F!fvars)
  <2> SUFFICES ASSUME TypeOK, RelayInv, [Next]_vars,
                      ~(call' = call /\ Relays' = Relays)
               PROVE  F!FNext
    BY DEF F!fvars
  <2> USE DEF F!FNext, F!Ask, F!Open, F!Close, F!Restart, F!FridgeState
  <2>0. /\ Relays \in {"OFF", "COOL", "HEAT"}
        /\ Relays = "COOL" <=> Cooling
        /\ Relays = "HEAT" <=> Heating
    BY DEF RelayInv, Interlock, Relays
  <2>1. CASE Write
    <3>1. call' = call /\ pc \in {1, 2, 3}
      BY <2>1, WriteEffect
    <3>2. CASE pc = 1
      BY <2>0, <2>1, <3>1, <3>2, WriteEffect DEF Relays, Cooling, Heating
    <3>3. CASE pc = 2
      BY <2>0, <2>1, <3>1, <3>3, WriteEffect DEF RelayInv, Relays, Cooling, Heating
    <3>4. CASE pc = 3
      BY <2>0, <2>1, <3>1, <3>4, WriteEffect DEF Relays, Cooling, Heating
    <3> QED BY <3>1, <3>2, <3>3, <3>4
  <2>2. CASE Settings
    <3>1. CASE UNCHANGED <<call, io>>
      BY <3>1 DEF Relays, Cooling, Heating
    <3>2. CASE \E state \in Fridge : BCTRL_SetFridge(state)
      BY <3>2 DEF BCTRL_SetFridge, Call, Fridge, Relays, Cooling, Heating
    <3> QED BY <2>2, <3>1, <3>2
            DEF Settings, BCTRL_SetKP, BCTRL_SetKI, BCTRL_SetKD, BCTRL_SetTemp, BCTRL_SetCtrl
  <2>3. CASE Reset
    <3>1. Relays' \in {Relays, "OFF"}
      BY <2>0, <2>3 DEF Reset, Relays, Cooling, Heating
    <3> QED BY <2>3, <3>1 DEF Reset, Call
  <2>4. CASE Report
    <3>1. CASE UNCHANGED <<call, io>>
      BY <3>1 DEF Relays, Cooling, Heating
    <3> QED BY <2>3, <2>4, <3>1 DEF Report, BCTRL_ReportNewReading
  <2>5. CASE BCTRL_Trigger
    <3>1. call' \in Fridge /\ UNCHANGED io
      BY <2>5, DemandType, PeriodAssumption DEF BCTRL_Trigger, Call, TypeOK, State
    <3> QED BY <3>1 DEF Fridge, Relays, Cooling, Heating
  <2>6. CASE UNCHANGED vars
    BY <2>6 DEF vars, Relays, Cooling, Heating
  <2> QED BY <2>1, <2>2, <2>3, <2>4, <2>5, <2>6 DEF Next
<1> QED BY <1>1, <1>2, TypeCorrect, RelayCorrect, PTL DEF Spec, FridgeSafety, F!FSafety
===============================================================================
