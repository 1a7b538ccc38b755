----------------------------- MODULE SensorProofs ------------------------------
(***************************************************************************)
(* Theorems about SensorCycle and SensorWatch, for any bus, any number of  *)
(* slots and any number of ticks between scans.                            *)
(***************************************************************************)
EXTENDS SensorWatch, TLAPS

-------------------------------------------------------------------------------
(* Types. *)

LEMMA SeqOfType ==
    ASSUME NEW S, NEW n \in Nat
    PROVE  /\ \A s \in SeqOf(S, n) : /\ Len(s) \in 0 .. n /\ DOMAIN s = 1 .. Len(s)
                                     /\ \A i \in 1 .. Len(s) : s[i] \in S
           /\ \A T : S \subseteq T => SeqOf(S, n) \subseteq SeqOf(T, n)
           /\ <<>> \in SeqOf(S, n)
           /\ \A s \in SeqOf(S, n) : S = {} => s = <<>>
<1>1. ASSUME NEW s \in SeqOf(S, n)
      PROVE  /\ Len(s) \in 0 .. n /\ DOMAIN s = 1 .. Len(s)
             /\ \A i \in 1 .. Len(s) : s[i] \in S
             /\ S = {} => s = <<>>
  <2>1. PICK m \in 0 .. n : s \in [1 .. m -> S]
    BY DEF SeqOf
  <2>2. s \in Seq(S) /\ Len(s) = m /\ DOMAIN s = 1 .. m
    BY <2>1
  <2>3. S = {} => s = <<>>
    BY <2>1, <2>2
  <2> QED BY <2>1, <2>2, <2>3
<1>2. ASSUME NEW T, S \subseteq T PROVE SeqOf(S, n) \subseteq SeqOf(T, n)
  BY <1>2 DEF SeqOf
<1>3. <<>> \in SeqOf(S, n)
  <2>1. <<>> \in [1 .. 0 -> S]
    OBVIOUS
  <2> QED BY <2>1 DEF SeqOf
<1> QED BY <1>1, <1>2, <1>3

(* STypeOK, with the two flags apart. *)
Flags == trigger \in BOOLEAN /\ upload \in BOOLEAN
Scalars == /\ state \in 0 .. 2 /\ cnt \in 0 .. DS18B20_SCAN_CNT
           /\ addrs \in SeqOf(Supported, MAX_SENSORS) /\ t \in [Slot -> Values]
           /\ report \in Values \cup {NoReading}
           /\ attached \subseteq Device /\ wire \in {"ok"} \cup Faults
           /\ scratch \in [Device -> Temps \cup {PowerOn}]

LEMMA TypeParts == STypeOK <=> Scalars /\ Flags
BY DEF STypeOK, Scalars, Flags

LEMMA TypePartsNext == STypeOK' <=> Scalars' /\ Flags'
BY DEF STypeOK, Scalars, Flags

(* The turns of the callback and their counter: only a read turn ends a    *)
(* cycle, and it may do so one tick late.                                  *)
Turns == /\ state = 0 <=> cnt = 0
         /\ state = 1 => cnt < DS18B20_SCAN_CNT
         /\ state = 2 => cnt > 1
         /\ report # NoReading => addrs # <<>>

(* A tick triggers the controller unless it has ended a cycle. *)
Triggered == trigger = (cnt # 0)

LEMMA TriggerStep == Triggered /\ [SNext]_svars => Triggered' /\ (Flags => Flags')
<1>1. ASSUME timer_cb PROVE trigger' = (cnt' # 0)
  BY <1>1, Zenon DEF timer_cb, ScanTurn, ConvertTurn, ReadTurn, Triggers
<1>2. ASSUME timer_cb PROVE upload' = FALSE \/ upload' = Upload(CycleDone)
  BY <1>2, Zenon DEF timer_cb, ScanTurn, ConvertTurn, ReadTurn
<1>3. ASSUME Restart PROVE trigger' = FALSE /\ cnt' = 0 /\ upload' = FALSE
  BY <1>3, Zenon DEF Restart
<1>4. ASSUME BusChange \/ UNCHANGED svars PROVE trigger' = trigger /\ cnt' = cnt /\ upload' = upload
  BY <1>4 DEF BusChange, svars, program, calls
<1> QED BY <1>1, <1>2, <1>3, <1>4, Zenon DEF SNext, Triggered, Flags, Upload

LEMMA ReadAllType ==
    ASSUME Scalars, ds18b20_read_all
    PROVE  t' \in [Slot -> Values] /\ ds18b20_get_temp(t') \in Values \cup {NoReading}
<1>1. addrs \in SeqOf(Supported, MAX_SENSORS) /\ t \in [Slot -> Values]
  BY DEF Scalars
<1>2. PICK data \in [1 .. Len(addrs) -> Values \cup {NoReading}] :
        t' = [i \in Slot |-> IF i <= Len(addrs) /\ data[i] # NoReading THEN data[i] ELSE t[i]]
  BY DEF ds18b20_read_all
<1>3. \A i \in Slot : i <= Len(addrs) => i \in 1 .. Len(addrs)
  BY DEF Slot
<1>4. t' \in [Slot -> Values]
  BY <1>1, <1>2, <1>3
<1>5. 1 \in Slot
  BY SlotAssumption DEF Slot
<1> QED BY <1>4, <1>5 DEF ds18b20_get_temp

LEMMA ScalarStep == Scalars /\ Turns /\ [SNext]_svars => Scalars' /\ Turns'
<1> SUFFICES ASSUME Scalars, Turns, [SNext]_svars PROVE Scalars' /\ Turns'
  OBVIOUS
<1> USE ScanAssumption
<1>1. CASE ScanTurn
  <2>1. SeqOf(Sensors, MAX_SENSORS) \subseteq SeqOf(Supported, MAX_SENSORS)
    BY SeqOfType, SlotAssumption DEF Sensors
  <2>2. addrs' \in SeqOf(Supported, MAX_SENSORS)
    BY <1>1, <2>1 DEF ScanTurn, ds18b20_scan
  <2>3. /\ state = 0 /\ cnt = 0 /\ state' = 1 /\ cnt' = 1 /\ report' = NoReading
        /\ UNCHANGED <<t, bus>>
    BY <1>1 DEF ScanTurn, Turns, Scalars
  <2> QED BY <2>2, <2>3 DEF Scalars, Turns, bus
<1>2. CASE ConvertTurn
  <2>1. PICK hears \in SUBSET Device : \E temp \in [hears \cap Supported -> Temps] :
           scratch' = [d \in Device |-> IF d \in DOMAIN temp THEN temp[d] ELSE scratch[d]]
    <3>1. attached \in SUBSET Device /\ {} \in SUBSET Device
      BY DEF Scalars
    <3>2. PICK hears : /\ hears = attached \/ hears = {}
                       /\ \E temp \in [hears \cap Supported -> Temps] :
                           scratch' = [d \in Device |-> IF d \in DOMAIN temp THEN temp[d] ELSE scratch[d]]
      BY <1>2, WireAssumption DEF ConvertTurn, ds18b20_convert_all, Scalars
    <3> QED BY <3>1, <3>2
  <2>2. scratch' \in [Device -> Temps \cup {PowerOn}]
    BY <2>1 DEF Scalars
  <2>3. /\ state = 1 /\ cnt \in 1 .. DS18B20_SCAN_CNT - 1 /\ state' = 2 /\ cnt' = cnt + 1
        /\ report' = NoReading /\ UNCHANGED <<addrs, t, attached, wire>>
    BY <1>2 DEF ConvertTurn, Turns, Scalars
  <2> QED BY <2>2, <2>3 DEF Scalars, Turns
<1>3. CASE ReadTurn
  <2>1. t' \in [Slot -> Values] /\ report' \in Values \cup {NoReading}
    BY <1>3, ReadAllType DEF ReadTurn
  <2>2. report' # NoReading => addrs' # <<>>
    BY <1>3 DEF ReadTurn, ds18b20_get_temp
  <2>3. /\ cnt \in 2 .. DS18B20_SCAN_CNT
        /\ \/ cnt' = 0 /\ state' = 0
           \/ cnt' = cnt + 1 /\ cnt + 1 < DS18B20_SCAN_CNT /\ state' = 1
    BY <1>3 DEF ReadTurn, Turns, CycleDone, Scalars
  <2>4. UNCHANGED <<addrs, bus>>
    BY <1>3 DEF ReadTurn
  <2> QED BY <2>1, <2>2, <2>3, <2>4 DEF Scalars, Turns, bus
<1>4. CASE BusChange
  <2>1. attached' \subseteq Device /\ wire' \in {"ok"} \cup Faults /\ scratch' \in [Device -> Temps \cup {PowerOn}]
    BY <1>4 DEF BusChange, Rewire, Plug, Unplug, Scalars
  <2> QED BY <1>4, <2>1 DEF BusChange, Scalars, Turns, program, calls
<1>5. CASE Restart
  <2>1. <<>> \in SeqOf(Supported, MAX_SENSORS)
    BY SeqOfType, SlotAssumption
  <2>2. t' = [i \in Slot |-> 0] /\ state' = 0 /\ cnt' = 0 /\ addrs' = <<>> /\ report' = NoReading /\ UNCHANGED bus
    BY <1>5 DEF Restart
  <2> QED BY <2>1, <2>2 DEF Scalars, Turns, bus, Values
<1>6. CASE UNCHANGED svars
  BY <1>6 DEF svars, program, calls, bus, Scalars, Turns
<1> QED BY <1>1, <1>2, <1>3, <1>4, <1>5, <1>6 DEF SNext, timer_cb

LEMMA SensorInit == SInit => Scalars /\ Flags /\ Turns /\ Triggered
<1> SUFFICES ASSUME SInit PROVE Scalars /\ Flags /\ Turns /\ Triggered
  OBVIOUS
<1>1. <<>> \in SeqOf(Supported, MAX_SENSORS)
  BY SeqOfType, SlotAssumption
<1>2. /\ t = [i \in Slot |-> 0] /\ state = 0 /\ cnt = 0 /\ addrs = <<>> /\ report = NoReading
      /\ attached \subseteq Device /\ wire = "ok" /\ scratch = [d \in Device |-> PowerOn]
  BY DEF SInit
<1>3. Scalars /\ Turns
  BY <1>1, <1>2, ScanAssumption DEF Scalars, Turns, Values
<1>4. Flags /\ Triggered
  BY Zenon DEF SInit, Flags, Triggered
<1> QED BY <1>3, <1>4

SensorInv == STypeOK /\ Turns /\ Triggered

LEMMA SensorStep == SensorInv /\ [SNext]_svars => SensorInv'
BY ScalarStep, TriggerStep, TypeParts, TypePartsNext DEF SensorInv

(* The program, its calls and the bus keep their types. *)
THEOREM STypeCorrect == SSpec => []STypeOK
<1>1. SInit => SensorInv
  BY SensorInit, TypeParts DEF SensorInv
<1>2. SensorInv => STypeOK
  BY DEF SensorInv
<1> QED BY <1>1, <1>2, SensorStep, PTL DEF SSpec

-------------------------------------------------------------------------------
(* What a settled bus does to the table of sensors and to the reading. *)

(* The ticks since the last scan began, at least. *)
ScanAge == IF cnt = 0 THEN DS18B20_SCAN_CNT + 1 ELSE cnt

(* addrs is what a scan of the bus as it is may find. *)
Scanned == /\ addrs \in SeqOf(Sensors, MAX_SENSORS)
           /\ wire = "ok" => Complete(addrs)
           /\ wire = "short" => addrs = <<>>

(* The last callback was a read turn. *)
HasRead == state = 0 \/ (state = 1 /\ cnt # 1)

(* If the bus has been left alone since the last scan, addrs fits it, and  *)
(* on a sound wire a read turn has reported what is in the scratchpad.     *)
SettledInv ==
    calm >= ScanAge => /\ Scanned
                       /\ HasRead /\ wire = "ok" =>
                            report = IF addrs = <<>> THEN NoReading ELSE scratch[addrs[1]]

WatchType == calm \in 0 .. Settled /\ quota \in Nat

LEMMA WatchTypeStep == WatchType /\ [Tick \/ Disturb]_watch => WatchType'
BY ScanAssumption DEF WatchType, Tick, Disturb, Least, Settled, watch

(* A read turn on a sound wire, with a table that fits it. *)
LEMMA ReadReports ==
    ASSUME SensorInv, ReadTurn, Scanned, wire = "ok"
    PROVE  report' = IF addrs = <<>> THEN NoReading ELSE scratch[addrs[1]]
<1>1. CASE addrs = <<>>
  BY <1>1 DEF ReadTurn, ds18b20_get_temp
<1>2. CASE addrs # <<>>
  <2>1. addrs \in SeqOf(Sensors, MAX_SENSORS) /\ Sensors \subseteq attached /\ attached \subseteq Device
    BY DEF Scanned, Sensors, SensorInv, STypeOK
  <2>2. /\ Len(addrs) \in 0 .. MAX_SENSORS
        /\ \A i \in 1 .. Len(addrs) : addrs[i] \in Sensors
    BY <2>1, SeqOfType, SlotAssumption
  <2>3. addrs \in Seq(Sensors)
    BY <2>1 DEF SeqOf
  <2>4. 1 \in 1 .. Len(addrs) /\ 1 \in Slot
    BY <1>2, <2>2, <2>3, SlotAssumption DEF Slot
  <2>5. addrs[1] \in attached /\ scratch[addrs[1]] \in Temps \cup {PowerOn}
    BY <2>1, <2>2, <2>4 DEF SensorInv, STypeOK
  <2>6. PICK data \in [1 .. Len(addrs) -> Values \cup {NoReading}] :
          /\ \A i \in 1 .. Len(addrs) : data[i] \in Received(addrs[i])
          /\ t' = [i \in Slot |-> IF i <= Len(addrs) /\ data[i] # NoReading THEN data[i] ELSE t[i]]
    BY DEF ReadTurn, ds18b20_read_all
  <2>7. Received(addrs[1]) = {scratch[addrs[1]]}
    BY <2>5 DEF Received
  <2>8. data[1] = scratch[addrs[1]] /\ data[1] # NoReading
    BY <2>4, <2>5, <2>6, <2>7, ValueAssumption
  <2>9. t'[1] = scratch[addrs[1]]
    BY <2>4, <2>6, <2>8
  <2> QED BY <1>2, <2>9 DEF ReadTurn, ds18b20_get_temp
<1> QED BY <1>1, <1>2

LEMMA SettledStep ==
    ASSUME SensorInv, WatchType, SettledInv, [Tick \/ Disturb]_watch
    PROVE  SettledInv'
<1> USE ScanAssumption
<1>0. state \in 0 .. 2 /\ cnt \in 0 .. DS18B20_SCAN_CNT /\ calm \in 0 .. Settled
  BY DEF SensorInv, STypeOK, WatchType
<1>1. CASE Tick /\ ScanTurn
  <2>1. state = 0 /\ cnt' = 1 /\ state' = 1 /\ UNCHANGED bus
    BY <1>0, <1>1 DEF ScanTurn, SensorInv, Turns
  <2>2. addrs' \in SeqOf(Sensors, MAX_SENSORS) /\ (wire = "ok" => Complete(addrs')) /\ (wire = "short" => addrs' = <<>>)
    BY <1>1 DEF ScanTurn, ds18b20_scan
  <2>3. Scanned'
    BY <2>1, <2>2 DEF Scanned, Sensors, Complete, bus
  <2> QED BY <2>1, <2>3 DEF SettledInv, HasRead
<1>2. CASE Tick /\ ConvertTurn
  <2>1. cnt > 0 /\ cnt' = cnt + 1 /\ state' = 2 /\ UNCHANGED <<addrs, attached, wire>>
    BY <1>0, <1>2 DEF ConvertTurn, SensorInv, Turns
  <2>2. calm' >= ScanAge' => calm >= ScanAge
    <3>1. calm' = Least(calm + 1, Settled)
      BY <1>2 DEF Tick
    <3> QED BY <1>0, <2>1, <3>1 DEF Least, ScanAge, Settled
  <2>3. Scanned => Scanned'
    BY <2>1 DEF Scanned, Sensors, Complete
  <2> QED BY <2>1, <2>2, <2>3 DEF SettledInv, HasRead
<1>3. CASE Tick /\ ReadTurn
  <2>1. /\ cnt \in 2 .. DS18B20_SCAN_CNT /\ (cnt' = 0 \/ cnt' = cnt + 1)
        /\ UNCHANGED <<addrs, bus>>
    BY <1>0, <1>3 DEF ReadTurn, SensorInv, Turns
  <2>2. calm' >= ScanAge' => calm >= ScanAge
    <3>1. calm' = Least(calm + 1, Settled)
      BY <1>3 DEF Tick
    <3>2. calm' <= calm + 1
      BY <1>0, <3>1 DEF Least, Settled
    <3>3. ScanAge = cnt /\ cnt \in 2 .. DS18B20_SCAN_CNT
      BY <2>1 DEF ScanAge
    <3>4. ScanAge' \in Int /\ ScanAge' >= cnt + 1
      <4>1. CASE cnt' = 0
        BY <3>3, <4>1 DEF ScanAge
      <4>2. CASE cnt' = cnt + 1
        BY <3>3, <4>2 DEF ScanAge
      <4> QED BY <2>1, <4>1, <4>2
    <3>5. calm' \in Int
      BY <1>0, <3>1 DEF Least, Settled
    <3> QED BY <1>0, <3>2, <3>3, <3>4, <3>5
  <2>3. Scanned => Scanned'
    BY <2>1 DEF Scanned, Sensors, Complete, bus
  <2>4. Scanned /\ wire = "ok" => report' = IF addrs = <<>> THEN NoReading ELSE scratch[addrs[1]]
    BY <1>3, ReadReports
  <2> QED BY <2>1, <2>2, <2>3, <2>4 DEF SettledInv, bus
<1>4. CASE Disturb
  BY <1>0, <1>4 DEF Disturb, BusChange, Restart, SettledInv, ScanAge, program
<1>5. CASE UNCHANGED watch
  BY <1>5 DEF watch, svars, program, calls, bus, SettledInv, ScanAge, Scanned, Sensors, Complete, HasRead
<1> QED BY <1>1, <1>2, <1>3, <1>4, <1>5 DEF Tick, timer_cb

(* The history changes nothing of the program. *)
LEMMA WatchSensor == WatchSpec => SSpec
<1>1. WatchInit => SInit
  BY DEF WatchInit
<1>2. [Tick \/ Disturb]_watch => [SNext]_svars
  BY DEF Tick, Disturb, SNext, watch
<1> QED BY <1>1, <1>2, PTL DEF WatchSpec, SSpec

LEMMA SensorAlways == SSpec => []SensorInv
<1>1. SInit => SensorInv
  BY SensorInit, TypeParts DEF SensorInv
<1> QED BY <1>1, SensorStep, PTL DEF SSpec

LEMMA SettledAlways == WatchSpec => [](SensorInv /\ WatchType /\ SettledInv)
<1>1. WatchInit => WatchType /\ SettledInv
  <2> SUFFICES ASSUME WatchInit PROVE WatchType /\ SettledInv
    OBVIOUS
  <2>1. calm = 0 /\ quota = DS18B20_SCAN_CNT /\ cnt = 0
    BY DEF WatchInit, SInit
  <2> QED BY <2>1, ScanAssumption DEF WatchType, SettledInv, ScanAge, Settled
<1> QED BY <1>1, SettledStep, WatchTypeStep, WatchSensor, SensorAlways, PTL DEF WatchSpec

(* When the bus has settled, a scan has seen it as it is. *)
LEMMA SettledScanned ==
    ASSUME SensorInv, SettledInv, calm = Settled
    PROVE  /\ Scanned
           /\ HasRead /\ wire = "ok" => report = IF addrs = <<>> THEN NoReading ELSE scratch[addrs[1]]
<1>1. calm >= ScanAge
  BY ScanAssumption DEF SensorInv, STypeOK, Settled, ScanAge
<1> QED BY <1>1 DEF SettledInv

(* A lost sensor is not reported for ever, whatever read_all has kept of   *)
(* it: the next scan empties the table.                                    *)
THEOREM LostSensorCorrect == WatchSpec => []LostSensorSilent
<1>1. ASSUME SensorInv, SettledInv PROVE LostSensorSilent
  <2> SUFFICES ASSUME calm = Settled, Sensors = {} \/ wire = "short" PROVE report = NoReading
    BY DEF LostSensorSilent
  <2>1. Scanned
    BY <1>1, SettledScanned
  <2>2. addrs = <<>>
    BY <2>1, SeqOfType, SlotAssumption DEF Scanned
  <2> QED BY <1>1, <2>2 DEF SensorInv, Turns
<1> QED BY <1>1, SettledAlways, PTL

(* The first sensor of the bus is the first of a complete table. *)
LEMMA FirstOfTable ==
    ASSUME SensorInv, Scanned, wire = "ok", Sensors # {}
    PROVE  addrs # <<>> /\ addrs[1] = FirstSensor
<1>0. /\ Len(addrs) \in 0 .. MAX_SENSORS /\ DOMAIN addrs = 1 .. Len(addrs)
      /\ \A i \in 1 .. Len(addrs) : addrs[i] \in Sensors
  BY SeqOfType, SlotAssumption DEF Scanned
<1>1. Complete(addrs)
  BY DEF Scanned
<1>2. Len(addrs) > 0
  <2> SUFFICES ASSUME Len(addrs) = 0 PROVE FALSE
    BY <1>0
  <2>1. ToSet(addrs) = {}
    BY <1>0 DEF ToSet
  <2> QED BY <1>1, <2>1, SlotAssumption DEF Complete
<1>3. 1 \in DOMAIN addrs /\ addrs[1] \in Sensors
  BY <1>0, <1>2
<1>4. \A e \in Sensors \ {addrs[1]} : Precedes(addrs[1], e)
  <2> SUFFICES ASSUME NEW e \in Sensors \ {addrs[1]} PROVE Precedes(addrs[1], e)
    OBVIOUS
  <2>1. CASE e \in ToSet(addrs)
    <3>1. PICK i \in DOMAIN addrs : addrs[i] = e
      BY <2>1 DEF ToSet
    <3>2. 1 < i
      BY <1>0, <3>1
    <3> QED BY <1>1, <1>3, <3>1, <3>2 DEF Complete
  <2>2. CASE e \notin ToSet(addrs)
    BY <1>1, <1>3, <2>2 DEF Complete
  <2> QED BY <2>1, <2>2
<1>5. \A d, e : Precedes(d, e) => ~Precedes(e, d)
  <2>1. DOMAIN Devices = 1 .. Len(Devices)
    BY BusAssumption
  <2>2. \A i, j \in DOMAIN Devices : Devices[i] = Devices[j] => i = j
    BY BusAssumption DEF IsInjective
  <2>3. \A i, j \in DOMAIN Devices : i < j => ~(j < i)
    BY <2>1
  <2> QED BY <2>2, <2>3 DEF Precedes
<1>6. FirstSensor \in Sensors /\ \A e \in Sensors \ {FirstSensor} : Precedes(FirstSensor, e)
  BY <1>3, <1>4 DEF FirstSensor
<1> QED BY <1>2, <1>3, <1>4, <1>5, <1>6

(* On a settled bus a read turn reports the first sensor, and the value of *)
(* its last conversion.                                                    *)
THEOREM SettledSensorCorrect == WatchSpec => []SettledSensorRead
<1>1. ASSUME SensorInv, SettledInv PROVE SettledSensorRead
  <2> SUFFICES ASSUME calm = Settled, wire = "ok", Sensors # {}, state # 2, cnt # 1
               PROVE  report = scratch[FirstSensor]
    BY DEF SettledSensorRead
  <2>1. HasRead
    BY <1>1 DEF SensorInv, STypeOK, HasRead
  <2> QED BY <1>1, <2>1, SettledScanned, FirstOfTable
<1> QED BY <1>1, SettledAlways, PTL

-------------------------------------------------------------------------------
(* The ticks since the last upload cover the cycle so far. *)
QuotaInv == quota >= cnt

LEMMA QuotaStep ==
    ASSUME SensorInv, WatchType, QuotaInv, [Tick \/ Disturb]_watch
    PROVE  QuotaInv'
<1> USE ScanAssumption
<1>0. cnt \in 0 .. DS18B20_SCAN_CNT /\ quota \in Nat
  BY DEF SensorInv, STypeOK, WatchType
<1>1. CASE Tick
  <2>1. CASE cnt' = 0
    BY <1>0, <1>1, <2>1 DEF Tick, QuotaInv, Least
  <2>2. CASE cnt' # 0
    <3>1. cnt' = cnt + 1 /\ cnt' <= DS18B20_SCAN_CNT
      BY <1>0, <1>1, <2>2 DEF Tick, timer_cb, ScanTurn, ConvertTurn, ReadTurn, SensorInv, Turns, CycleDone
    <3>2. ~upload'
      BY <1>1, <2>2, Zenon DEF Tick, timer_cb, ScanTurn, ConvertTurn, ReadTurn, Upload
    <3>3. quota' = Least(quota + 1, DS18B20_SCAN_CNT)
      BY <1>1, <3>2, Zenon DEF Tick
    <3> QED BY <1>0, <3>1, <3>3 DEF QuotaInv, Least
  <2> QED BY <2>1, <2>2
<1>2. CASE Disturb
  BY <1>0, <1>2 DEF Disturb, BusChange, Restart, program, QuotaInv
<1>3. CASE UNCHANGED watch
  BY <1>3 DEF watch, svars, program, QuotaInv
<1> QED BY <1>1, <1>2, <1>3

(* The fridge is triggered in one of any two ticks, and no more than one   *)
(* temperature is uploaded per cycle.                                      *)
THEOREM CadenceCorrect == WatchSpec => Cadence
<1>1. WatchInit => QuotaInv
  <2> SUFFICES ASSUME WatchInit PROVE QuotaInv
    OBVIOUS
  <2>1. quota = DS18B20_SCAN_CNT /\ cnt = 0
    BY DEF WatchInit, SInit
  <2> QED BY <2>1, ScanAssumption DEF QuotaInv
<1>2. ASSUME SensorInv, WatchType, QuotaInv, [Tick \/ Disturb]_watch, cnt' # cnt
      PROVE  (trigger \/ trigger') /\ (upload' => quota >= DS18B20_SCAN_CNT - 1)
  <2>0. cnt \in Nat /\ quota \in Nat
    BY <1>2 DEF SensorInv, STypeOK, WatchType
  <2>1. cnt # 0 \/ cnt' # 0
    BY <1>2
  <2>2. [SNext]_svars
    BY <1>2 DEF Tick, Disturb, SNext, watch
  <2>3. trigger = (cnt # 0) /\ trigger' = (cnt' # 0)
    BY <1>2, <2>2, SensorStep DEF SensorInv, Triggered
  <2>4. trigger \/ trigger'
    BY <2>1, <2>3, Zenon
  <2>5. ASSUME upload' PROVE cnt + 1 >= DS18B20_SCAN_CNT
    <3>1. CASE Restart
      BY <2>5, <3>1, Zenon DEF Restart
    <3>2. CASE ReadTurn
      BY <2>5, <3>2, Zenon DEF ReadTurn, Upload, CycleDone
    <3>3. CASE ScanTurn \/ ConvertTurn
      BY <2>5, <3>3, Zenon DEF ScanTurn, ConvertTurn
    <3>4. BusChange \/ UNCHANGED svars => cnt' = cnt
      BY DEF BusChange, svars, program
    <3> QED BY <1>2, <2>2, <3>1, <3>2, <3>3, <3>4 DEF SNext, timer_cb
  <2> QED BY <1>2, <2>0, <2>4, <2>5, ScanAssumption DEF QuotaInv
<1>3. SensorInv /\ WatchType /\ QuotaInv /\ [Tick \/ Disturb]_watch
        => [cnt' # cnt => (trigger \/ trigger') /\ (upload' => quota >= DS18B20_SCAN_CNT - 1)]_watch
  BY <1>2
<1> QED BY <1>1, <1>3, QuotaStep, SettledAlways, PTL DEF WatchSpec, Cadence
===============================================================================
