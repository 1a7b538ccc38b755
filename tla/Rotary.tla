-------------------------------- MODULE Rotary --------------------------------
(***************************************************************************)
(* The interrupt handler of user/rotary.c, which CONFIG_VIRT_SENSOR        *)
(* compiles in.  A knob at rest reads 0; a click to one side reads 2, 3, 1 *)
(* and 0, one to the other side 1, 3, 2 and 0.  The knob turns, and may    *)
(* turn back, between any two accesses of the handler to a register, and   *)
(* an edge that comes while it runs makes it run again.                    *)
(***************************************************************************)
EXTENDS Integers, Sequences

VARIABLES
    knob,           \* quarters of a click since it was last at rest, -4 .. 4
    status,         \* GPIO_STATUS: of the pins "clk", "dt" and "sw"
    handler,        \* "idle", or the access to the pins that comes next
    clk,            \* what it has read of the first pin
    armed, dir,
    (* history *)
    seen,           \* the last state the handler has read
    missed,         \* the last edge was dropped for a press of the button
    hurried,        \* since it left its rest the knob turned on before an edge was
                    \* handled, or an edge was dropped
    turns           \* directions reported since the knob left its rest, up to 2

rvars == <<knob, status, handler, clk, armed, dir, seen, missed, hurried, turns>>

-------------------------------------------------------------------------------
(* (clk << 1) | dt of both pins, active low. *)
Clk(k) == IF k % 4 \in {1, 2} THEN 1 ELSE 0
Dt(k) == IF k % 4 \in {2, 3} THEN 1 ELSE 0
State(k) == 2 * Clk(k) + Dt(k)

RotaryInit ==
    /\ knob = 0 /\ status = {} /\ handler = "idle" /\ clk = 0
    /\ armed = FALSE /\ dir = 0
    /\ seen = 0 /\ missed = FALSE /\ hurried = FALSE /\ turns = <<>>

(* A click is over when the knob is at rest; the next one starts from 0.   *)
Turn(step) ==
    LET from == IF State(knob) = 0 THEN 0 ELSE knob
        to == from + step
    IN  /\ knob' = to
        /\ status' = status \cup (IF Clk(from) # Clk(to) THEN {"clk"} ELSE {"dt"})
        /\ hurried' = (status # {} \/ handler # "idle" \/ (hurried /\ from # 0))
        /\ turns' = IF from = 0 THEN <<>> ELSE turns
        /\ UNCHANGED <<handler, clk, armed, dir, seen, missed>>

Press == /\ status' = status \cup {"sw"}
         /\ UNCHANGED <<knob, handler, clk, armed, dir, seen, missed, hurried, turns>>

(* rotary_handler(): the status is read and what was read is cleared; with *)
(* the bit of the button in it the edges are not looked at.                *)
Interrupt ==
    /\ handler = "idle" /\ status # {}
    /\ status' = {}
    /\ handler' = IF "sw" \in status THEN "idle" ELSE "clk"
    /\ LET dropped == "sw" \in status /\ status # {"sw"}
       IN  /\ missed' = (dropped \/ ("sw" \in status /\ missed))
           /\ hurried' = (hurried \/ dropped)
    /\ UNCHANGED <<knob, clk, armed, dir, seen, turns>>

ReadClk == /\ handler = "clk"
           /\ clk' = Clk(knob) /\ handler' = "dt"
           /\ UNCHANGED <<knob, status, armed, dir, seen, missed, hurried, turns>>

(* Mutant: the status is cleared again. *)
StatusAfter_cleared(st) == {}
StatusAfter(st) == st
DirAfter(state) == IF state \in {1, 2} /\ armed THEN state - 1 ELSE dir

ReadDt ==
    /\ handler = "dt"
    /\ LET state == 2 * clk + Dt(knob)
       IN  /\ seen' = state
           /\ armed' = (state = 3 \/ (armed /\ state # 0))
           /\ dir' = DirAfter(state)
           /\ turns' = IF state = 0 /\ armed /\ Len(turns) < 2 THEN Append(turns, 1 - dir) ELSE turns
    /\ status' = StatusAfter(status)
    /\ handler' = "idle"
    /\ UNCHANGED <<knob, clk, missed, hurried>>

RotaryNext == Turn(1) \/ Turn(-1) \/ Press \/ Interrupt \/ ReadClk \/ ReadDt
RotarySpec == RotaryInit /\ [][RotaryNext]_rvars

-------------------------------------------------------------------------------
(* Properties. *)

(* When the handler is done it has seen where the knob stands, however the *)
(* knob turned in the middle of it, unless the button was pressed together *)
(* with the last edge.                                                     *)
KnobSeen == handler = "idle" /\ status = {} /\ ~missed => seen = State(knob)

(* A click of which no edge is hurried or dropped, though it may go back   *)
(* and forth on its way and the button be pressed in between, is reported  *)
(* once and to its side, whatever the clicks before it left in armed and   *)
(* dir.  (One that turns back from state 3 to where it came from is        *)
(* reported too, as a click to the other side.)                            *)
ClickReported ==
    handler = "idle" /\ status = {} /\ ~hurried =>
        /\ knob = 4 => turns = <<1>>
        /\ knob = -4 => turns = <<0>>

(* The two together: what is read and what is reported follow the knob. *)
KnobFollowed == KnobSeen /\ ClickReported
===============================================================================
