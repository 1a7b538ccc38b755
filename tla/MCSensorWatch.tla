----------------------------- MODULE MCSensorWatch ----------------------------
(* SensorWatch for TLC: two sensors and a device of another family between *)
(* them on the bus, and a cycle of a few turns.                            *)
EXTENDS SensorWatch

CONSTANTS s1, s2, foreign, none

const_Devices == <<s1, foreign, s2>>
const_Supported == {s1, s2}
const_Temps == {-8, 320}
const_Faults == {"noise", "short"}
===============================================================================
