------------------------------- MODULE MCLibrary -------------------------------
(***************************************************************************)
(* The parts that the timer callback, the MQTT client and the controller   *)
(* call, and two that only other configurations use, for TLC.              *)
(*   MqttMsg: digits of four values and a buffer of 18 bytes, which are to *)
(*   each other as 128 and 16386; texts that take a packet to the last     *)
(*   length of one digit, the first of two, the last that fits and over;   *)
(*   the longest data that deliver_publish() has room for, and longer,     *)
(*   whole and cut.                                                        *)
(*   Display: a KP on both sides of the end of its row, the shortest and   *)
(*   the longest temperature.                                              *)
(* These parts share no variable: each behaviour is one of one part, the   *)
(* others stay where they begin.                                           *)
(***************************************************************************)
EXTENDS MqttMsg, MCHttpClient, MCTexts, Display, Pid, Rotary

CONSTANT none

const_Topics == {1, 13}
const_Payloads == {0, 1, 3, 10}
const_Stale == {0, Radix + 1}

const_Tunings == {[kp |-> 2, ki |-> 1, kd |-> 2], [kp |-> 1, ki |-> 0, kd |-> 0],
                  [kp |-> 1, ki |-> -1, kd |-> 0]}
const_CreateLimits == [min |-> 0, max |-> 3]
const_Limits == {const_CreateLimits, [min |-> -2, max |-> 1], [min |-> 2, max |-> 2]}

VARIABLE part

lvars == <<msgvars, http, tvars, dvars, pvars, rvars, part>>

Init == /\ MsgInit /\ HInit /\ TextInit /\ DInit /\ PidInit /\ RotaryInit
        /\ part \in {"msg", "http", "texts", "display", "pid", "rotary"}
        /\ part # "texts" => alphabet = {} /\ temp = 0
        /\ part # "display" => shown["kp"] = 2 /\ shown["temp"] = 5
        /\ part # "pid" => pid.kp = 2 /\ myInput = PidSetpoint /\ myOutput = 0

Http(step) == /\ part = "http" /\ step
              /\ UNCHANGED <<msgvars, tvars, dvars, pvars, rvars, part>>

Next == \/ part = "msg" /\ MsgNext /\ UNCHANGED <<http, tvars, dvars, pvars, rvars, part>>
        \/ Http(HNext)
        \/ part = "texts" /\ TextNext /\ UNCHANGED <<msgvars, http, dvars, pvars, rvars, part>>
        \/ part = "display" /\ DNext /\ UNCHANGED <<msgvars, http, tvars, pvars, rvars, part>>
        \/ part = "pid" /\ PidNext /\ UNCHANGED <<msgvars, http, tvars, dvars, rvars, part>>
        \/ part = "rotary" /\ RotaryNext /\ UNCHANGED <<msgvars, http, tvars, dvars, pvars, part>>

(* The fairness of HFairSpec. *)
FairSpec ==
    /\ Init /\ [][Next]_lvars
    /\ \A r \in Request : /\ WF_http(Http(\E found \in BOOLEAN : dns_callback(r, found)))
                          /\ WF_http(Http(connect_callback(r) \/ error_callback(r)))
                          /\ WF_http(Http(Closed(r) \/ error_callback(r)))
===============================================================================
