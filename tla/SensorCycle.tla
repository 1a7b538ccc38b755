------------------------------ MODULE SensorCycle -----------------------------
(***************************************************************************)
(* The one-second timer callback of user/user_main.c and the DS18B20       *)
(* driver, driver/ds18b20.c, with the 1-Wire bus and its sensors as the    *)
(* environment.  The callback takes turns: scan the bus once in a while,   *)
(* then convert, read, convert, read...                                    *)
(*                                                                         *)
(* The controller is not in this module: report and trigger are the calls  *)
(* a callback makes to it.  Brewpi composes the two.                       *)
(***************************************************************************)
EXTENDS Integers, Sequences, SequencesExt

CONSTANTS
    DS18B20_SCAN_CNT,   \* ticks between scans, user_main.c:20
    MAX_SENSORS,        \* slots of the driver, ds18b20.c:16
    Devices,            \* everything that may be on the bus, in search order
    Supported,          \* the devices of family 0x10 or 0x28
    Temps,              \* results of a conversion, in 1/16 degree
    PowerOn,            \* scratchpad of a sensor that has not converted yet
    NoReading,          \* no call of BCTRL_ReportNewReading
    Faults              \* what may be wrong with the wire: "noise", "short"

Device == ToSet(Devices)

ASSUME ScanAssumption == DS18B20_SCAN_CNT \in Nat \ {0, 1}
ASSUME SlotAssumption == MAX_SENSORS \in Nat \ {0}
ASSUME BusAssumption == Devices \in Seq(Device) /\ IsInjective(Devices) /\ Supported \subseteq Device
ASSUME WireAssumption == Faults \subseteq {"noise", "short"}
ASSUME ValueAssumption == NoReading \notin Temps \cup {PowerOn, 0}

VARIABLES
    (* the program *)
    state, cnt,     \* the static variables of timer_cb
    addrs,          \* sensors found by the last scan; num_sensors is its length
    t,              \* last good reading of each slot
    (* calls made by the last callback *)
    report,         \* reading passed to BCTRL_ReportNewReading, or NoReading
    trigger,        \* BCTRL_Trigger was called
    upload,         \* http_post was called
    (* the bus *)
    attached,       \* sensors connected and powered
    wire,           \* "ok", "noise": transfers may be garbled, "short": held low
    scratch         \* temperature in the scratchpad of each sensor

program == <<state, cnt, addrs, t>>
calls == <<report, trigger, upload>>
bus == <<attached, wire, scratch>>
svars == <<program, calls, bus>>

Slot == 1 .. MAX_SENSORS
Values == Temps \cup {PowerOn, 0}

SInit == /\ state = 0 /\ cnt = 0
         /\ addrs = <<>> /\ t = [i \in Slot |-> 0]
         /\ report = NoReading /\ trigger = FALSE /\ upload = FALSE
         /\ attached \in SUBSET Device /\ wire = "ok"
         /\ scratch = [d \in Device |-> PowerOn]

-------------------------------------------------------------------------------
(* The driver. *)

(* A device of another family is skipped.                                  *)
Sensors == attached \cap Supported

Precedes(d, e) == \E i, j \in DOMAIN Devices : i < j /\ Devices[i] = d /\ Devices[j] = e

(* The sensors in the order of the search, which is that of their bits, as *)
(* many as there are slots for.                                            *)
Complete(found) ==
    /\ \A i, j \in DOMAIN found : i < j => Precedes(found[i], found[j])
    /\ \A d \in Sensors \ ToSet(found) :
          Len(found) = MAX_SENSORS /\ \A i \in DOMAIN found : Precedes(found[i], d)

(* Noise makes the search (OneWire) end early, pass over a device or       *)
(* return one twice, but the CRC keeps out what is not there.  A shorted   *)
(* bus gives no presence pulse.                                            *)
ds18b20_scan ==
    /\ addrs' \in SeqOf(Sensors, MAX_SENSORS)
    /\ wire = "ok" => Complete(addrs')
    /\ wire = "short" => addrs' = <<>>

(* Skip ROM, Convert T: whoever is there converts, found or not.  The      *)
(* result of onewire_reset() is not looked at.                             *)
ds18b20_convert_all ==
    \E hears \in CASE wire = "ok" -> {attached}
                   [] wire = "noise" -> {attached, {}}
                   [] wire = "short" -> {{}} :
        \E temp \in [hears \cap Supported -> Temps] :
            scratch' = [d \in Device |-> IF d \in DOMAIN temp THEN temp[d] ELSE scratch[d]]

(* What the nine bytes read from a sensor decode to: an absent sensor      *)
(* reads as ones, which fails the CRC; a shorted bus reads as zeros, which *)
(* passes it.                                                              *)
Received(d) == IF wire = "short" THEN {0}
               ELSE (IF d \in attached THEN {scratch[d]} ELSE {NoReading})
                    \cup (IF wire = "noise" THEN {NoReading} ELSE {})

(* A CRC error keeps the value of the slot. *)
ds18b20_read_all ==
    \E data \in [1 .. Len(addrs) -> Values \cup {NoReading}] :
        /\ \A i \in 1 .. Len(addrs) : data[i] \in Received(addrs[i])
        /\ t' = [i \in Slot |-> IF i <= Len(addrs) /\ data[i] # NoReading
                                THEN data[i] ELSE t[i]]

(* Mutant: the last sensor found instead of the first. *)
ds18b20_get_temp_last(value) == IF addrs = <<>> THEN NoReading ELSE value[Len(addrs)]

(* ds18b20_get_temp(0): an error if the last scan found nothing. *)
ds18b20_get_temp(value) == IF addrs = <<>> THEN NoReading ELSE value[1]

-------------------------------------------------------------------------------
(* The timer callback: the three turns of its switch. *)

(* Mutants: a cycle ends at exactly DS18B20_SCAN_CNT ticks, which a read   *)
(* turn may step over; a trigger for each reading instead of each tick.    *)
CycleDone_exactly == cnt + 1 = DS18B20_SCAN_CNT
Triggers_onRead == state = 2

CycleDone == cnt + 1 >= DS18B20_SCAN_CNT
Upload(done) == done /\ report' # NoReading
Triggers == cnt' # 0

ScanTurn ==
    /\ state = 0
    /\ ds18b20_scan
    /\ state' = 1 /\ cnt' = cnt + 1
    /\ report' = NoReading /\ trigger' = Triggers /\ upload' = FALSE
    /\ UNCHANGED <<t, bus>>

ConvertTurn ==
    /\ state = 1
    /\ ds18b20_convert_all
    /\ state' = 2 /\ cnt' = cnt + 1
    /\ report' = NoReading /\ trigger' = Triggers /\ upload' = FALSE
    /\ UNCHANGED <<addrs, t, attached, wire>>

ReadTurn ==
    /\ state = 2
    /\ ds18b20_read_all
    /\ report' = ds18b20_get_temp(t')
    /\ upload' = Upload(CycleDone)
    /\ cnt' = IF CycleDone THEN 0 ELSE cnt + 1
    /\ state' = IF CycleDone THEN 0 ELSE 1
    /\ trigger' = Triggers
    /\ UNCHANGED <<addrs, bus>>

timer_cb == ScanTurn \/ ConvertTurn \/ ReadTurn

-------------------------------------------------------------------------------
(* The environment: sensors come and go, and lose their scratchpad with    *)
(* the power; the wire fails and is repaired; the program restarts.        *)

Plug(d) == d \notin attached /\ attached' = attached \cup {d} /\ UNCHANGED <<wire, scratch>>

Unplug(d) == /\ d \in attached
             /\ attached' = attached \ {d}
             /\ scratch' = [scratch EXCEPT ![d] = PowerOn]
             /\ UNCHANGED wire

Rewire == wire' \in ({"ok"} \cup Faults) \ {wire} /\ UNCHANGED <<attached, scratch>>

BusChange == /\ Rewire \/ \E d \in Device : Plug(d) \/ Unplug(d)
             /\ UNCHANGED <<program, calls>>

Restart == /\ state' = 0 /\ cnt' = 0
           /\ addrs' = <<>> /\ t' = [i \in Slot |-> 0]
           /\ report' = NoReading /\ trigger' = FALSE /\ upload' = FALSE
           /\ UNCHANGED bus

SNext == timer_cb \/ BusChange \/ Restart
SSpec == SInit /\ [][SNext]_svars

-------------------------------------------------------------------------------
(* Properties. *)

(* The sensor that slot 0 is for, if there is any. *)
FirstSensor == CHOOSE d \in Sensors : \A e \in Sensors \ {d} : Precedes(d, e)

(* Types of the program, the calls and the bus; cnt counts to at most one  *)
(* past DS18B20_SCAN_CNT because only the read turn tests it.              *)
STypeOK == /\ state \in 0 .. 2 /\ cnt \in 0 .. DS18B20_SCAN_CNT
           /\ addrs \in SeqOf(Supported, MAX_SENSORS) /\ t \in [Slot -> Values]
           /\ report \in Values \cup {NoReading} /\ {trigger, upload} \subseteq BOOLEAN
           /\ attached \subseteq Device /\ wire \in {"ok"} \cup Faults
           /\ scratch \in [Device -> Temps \cup {PowerOn}]
===============================================================================
