---------------------------------- MODULE Pid ----------------------------------
(***************************************************************************)
(* The PID library of user/pid.c with one controller, whose input, output  *)
(* and setpoint belong to the caller.  Numbers are integers: the gains are *)
(* such that a division by the time that has passed leaves no remainder.   *)
(*                                                                         *)
(* Only PID_Compute() reads the clock, and subtracts the 32-bit counter    *)
(* before it converts it: the time since the last computation, modulo its  *)
(* 71 minutes, is all that the clock does here.                            *)
(***************************************************************************)
EXTENDS Integers

CONSTANTS
    Inputs, Outputs,    \* what the process, and in MANUAL mode the caller, may set
    PidSetpoint,
    Tunings,            \* [kp, ki, kd] for PID_SetTunings(), before their sign is tested
    Limits,             \* [min, max] for PID_SetOutputLimits(), before they are tested
    CreateLimits,       \* 0 and 255 in the code
    Elapses             \* times between two computations

ASSUME PidAssumption ==
    /\ Inputs \cup Outputs \cup {PidSetpoint} \subseteq Int
    /\ Elapses \subseteq Nat \ {0}
    /\ Tunings \subseteq [kp : Int, ki : Int, kd : Int]
    /\ Limits \subseteq [min : Int, max : Int]
    /\ CreateLimits \in Limits /\ CreateLimits.min < CreateLimits.max
    /\ \A t \in Tunings : \A e \in Elapses : t.kd % e = 0

DIRECT == 0
REVERSE == 1

VARIABLES
    pid,            \* kp, ki, kd, controllerDirection, inAuto, ITerm, lastInput, outMin, outMax
    myInput, myOutput,
    (* history *)
    switched,       \* "" or, before the first computation after a switch to AUTOMATIC, whether
                    \* the output was "within" or "beyond" the limits at the switch
    turned          \* the direction was changed in MANUAL since the last PID_SetTunings()

pvars == <<pid, myInput, myOutput, switched, turned>>

-------------------------------------------------------------------------------
Within(x, lo, hi) == IF x > hi THEN hi ELSE IF x < lo THEN lo ELSE x

Tuned(p, t) ==
    LET s == IF p.controllerDirection = REVERSE THEN -1 ELSE 1
    IN  [p EXCEPT !.kp = s * t.kp, !.ki = s * t.ki, !.kd = s * t.kd]
Positive(t) == t.kp >= 0 /\ t.ki >= 0 /\ t.kd >= 0

(* PID_Create(), of gains that PID_SetTunings() takes. *)
PidInit == \E t \in Tunings, direction \in {DIRECT, REVERSE} :
    /\ Positive(t)
    /\ myInput \in Inputs /\ myOutput \in Outputs
    /\ pid = Tuned([kp |-> 0, ki |-> 0, kd |-> 0, controllerDirection |-> direction, inAuto |-> FALSE,
                    ITerm |-> 0, lastInput |-> 0, outMin |-> CreateLimits.min, outMax |-> CreateLimits.max], t)
    /\ switched = "" /\ turned = FALSE

PID_SetTunings == \E t \in Tunings :
    /\ Positive(t)
    /\ pid' = Tuned(pid, t)
    /\ turned' = FALSE
    /\ UNCHANGED <<myInput, myOutput, switched>>

PID_SetOutputLimits == \E l \in Limits :
    /\ l.min < l.max
    /\ LET p == [pid EXCEPT !.outMin = l.min, !.outMax = l.max]
       IN  IF pid.inAuto
           THEN /\ myOutput' = Within(myOutput, l.min, l.max)
                /\ pid' = [p EXCEPT !.ITerm = Within(@, l.min, l.max)]
           ELSE pid' = p /\ UNCHANGED myOutput
    /\ UNCHANGED <<myInput, switched, turned>>

(* PID_Initialize(). *)
Initialized(p) == [p EXCEPT !.ITerm = Within(myOutput, p.outMin, p.outMax), !.lastInput = myInput]

(* Mutant: only the way back to MANUAL initializes. *)
Changed_back(newAuto) == pid.inAuto /\ ~newAuto
Changed(newAuto) == newAuto = ~pid.inAuto

PID_SetMode == \E newAuto \in BOOLEAN :
    /\ pid' = [(IF Changed(newAuto) THEN Initialized(pid) ELSE pid) EXCEPT !.inAuto = newAuto]
    /\ switched' = IF ~newAuto THEN "" ELSE IF pid.inAuto THEN switched
                   ELSE IF myOutput \in pid.outMin .. pid.outMax THEN "within" ELSE "beyond"
    /\ UNCHANGED <<myInput, myOutput, turned>>

PID_SetControllerDirection == \E direction \in {DIRECT, REVERSE} :
    /\ LET p == IF pid.inAuto /\ direction # pid.controllerDirection
                THEN [pid EXCEPT !.kp = -@, !.ki = -@, !.kd = -@] ELSE pid
       IN  pid' = [p EXCEPT !.controllerDirection = direction]
    /\ turned' = (turned \/ (~pid.inAuto /\ direction # pid.controllerDirection))
    /\ UNCHANGED <<myInput, myOutput, switched>>

(* Mutant: the integral is not limited. *)
ITermAfter_free(error, dt) == pid.ITerm + pid.ki * error * dt
ITermAfter(error, dt) == Within(pid.ITerm + pid.ki * error * dt, pid.outMin, pid.outMax)

(* The input moves, or time passes, before the computation. *)
PID_Compute == \E dt \in Elapses :
    LET error == PidSetpoint - myInput
        iTerm == ITermAfter(error, dt)
        output == pid.kp * error + iTerm - (pid.kd \div dt) * (myInput - pid.lastInput)
    IN  /\ pid.inAuto
        /\ myOutput' = Within(output, pid.outMin, pid.outMax)
        /\ pid' = [pid EXCEPT !.ITerm = iTerm, !.lastInput = myInput]
        /\ switched' = ""
        /\ UNCHANGED <<myInput, turned>>

InputMoves == myInput' \in Inputs /\ UNCHANGED <<pid, myOutput, switched, turned>>
OutputSet == ~pid.inAuto /\ myOutput' \in Outputs /\ UNCHANGED <<pid, myInput, switched, turned>>

PidNext == \/ PID_SetTunings \/ PID_SetOutputLimits \/ PID_SetMode
           \/ PID_SetControllerDirection \/ PID_Compute
           \/ InputMoves \/ OutputSet
PidSpec == PidInit /\ [][PidNext]_pvars

-------------------------------------------------------------------------------
(* Properties. *)

(* No windup: in AUTOMATIC the integral is within the limits, whatever was *)
(* changed in between, and so is the output once it has been computed.     *)
NoWindup ==
    pid.inAuto => /\ pid.ITerm \in pid.outMin .. pid.outMax
                  /\ switched = "" => myOutput \in pid.outMin .. pid.outMax

(* The gains have the sign of the direction, also after it was turned at   *)
(* work.  (In MANUAL PID_SetControllerDirection() leaves the gains as they *)
(* are, and they stay wrong until the next PID_SetTunings().)              *)
GainsDirected ==
    ~turned => LET s == IF pid.controllerDirection = REVERSE THEN -1 ELSE 1
               IN  s * pid.kp >= 0 /\ s * pid.ki >= 0 /\ s * pid.kd >= 0

(* The two together: what the modes and settings leave behind is in order. *)
PidSound == NoWindup /\ GainsDirected

(* pid.c:6, "bumpless transfer": at the setpoint, and with an input that   *)
(* has not moved, the first computation leaves the output as it is, however*)
(* long ago the one before was.  (The clock has run on in MANUAL: with an  *)
(* error all of that time is integrated at once.)                          *)
Bumpless ==
    [][switched = "within" /\ PID_Compute /\ myInput = PidSetpoint /\ pid.lastInput = myInput
         => UNCHANGED myOutput]_pvars
===============================================================================
