------------------------------- MODULE MCBrewpi -------------------------------
(* Brewpi for TLC: one sensor a degree around the setpoint, half-second    *)
(* clock ticks, a callback up to half a second late and a clock that wraps *)
(* every four and a half seconds.                                          *)
EXTENDS Brewpi

CONSTANTS s1, none

const_One == {1}
const_Zero == {0}
const_Setpoints == {16}
const_TwoSetpoints == {16, 32}
const_TwoPayloads == {1, 2, 4097}
const_Readings == {20, 0}
const_Seconds == 0 .. (Wrap - 1) \div Second
const_BootTimes == {20}
const_Devices == <<s1>>
const_Supported == {s1}
const_Temps == {20}
const_None == {}
===============================================================================
