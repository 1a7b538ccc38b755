----------------------------- MODULE MCPwmWindow ------------------------------
(* PwmWindow for TLC: a period of six triggers and a deadband of one, so   *)
(* that outputs in the deadbands, between them and at the limits occur;    *)
(* readings a second apart, and before the boot time stamp.                *)
EXTENDS PwmWindow

const_KPs == {1}
const_KIs == {1}
const_KDs == {1}
const_Setpoints == {0, 1}
const_Readings == {0, 1}
const_Seconds == {1, 2}
const_BootTimes == {4}
===============================================================================
