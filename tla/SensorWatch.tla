------------------------------ MODULE SensorWatch -----------------------------
(***************************************************************************)
(* SensorCycle with a history of its ticks: for how long the bus has been  *)
(* left alone and when the last temperature was uploaded.                  *)
(***************************************************************************)
EXTENDS SensorCycle

VARIABLES
    calm,       \* ticks since the bus last changed, up to Settled
    quota       \* ticks since the last upload, up to DS18B20_SCAN_CNT

watch == <<svars, calm, quota>>

(* A scan is at most two ticks past DS18B20_SCAN_CNT away, and its result  *)
(* is read two ticks later.                                                *)
Settled == DS18B20_SCAN_CNT + 3

Least(x, y) == IF x < y THEN x ELSE y

WatchInit == SInit /\ calm = 0 /\ quota = DS18B20_SCAN_CNT

Tick == /\ timer_cb
        /\ calm' = Least(calm + 1, Settled)
        /\ quota' = IF upload' THEN 0 ELSE Least(quota + 1, DS18B20_SCAN_CNT)

Disturb == \/ BusChange /\ calm' = 0 /\ UNCHANGED quota
           \/ Restart /\ calm' = 0 /\ quota' = DS18B20_SCAN_CNT

WatchSpec == WatchInit /\ [][Tick \/ Disturb]_watch

(* A sensor that is gone is not reported for ever although read_all keeps  *)
(* its last value: a scan and a turn later nothing is reported any more,   *)
(* noise on the wire or not.                                               *)
LostSensorSilent ==
    calm = Settled /\ (Sensors = {} \/ wire = "short") => report = NoReading

(* On a bus that has settled every read turn reports the first supported   *)
(* sensor in search order, and the value of its last conversion.           *)
SettledSensorRead ==
    calm = Settled /\ wire = "ok" /\ Sensors # {} /\ state # 2 /\ cnt # 1 =>
        report = scratch[FirstSensor]

(* The fridge is never left without a trigger for two ticks in a row,      *)
(* though the last turn of a cycle skips it; and temperatures are uploaded *)
(* at most once in DS18B20_SCAN_CNT ticks, the pace the counter is for.    *)
Cadence ==
    [][cnt' # cnt => /\ trigger \/ trigger'
                     /\ upload' => quota >= DS18B20_SCAN_CNT - 1]_watch
===============================================================================
