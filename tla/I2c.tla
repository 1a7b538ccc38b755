---------------------------------- MODULE I2c ----------------------------------
(***************************************************************************)
(* OLED_writeReg() of driver/i2c_oled.c over the bit-banged bus of         *)
(* driver/i2c.c, one write of a line at a time, and the panel that listens *)
(* to the two lines.  A line is low if anybody pulls it low.               *)
(*                                                                         *)
(* The panel (SSD1306) is external: a START or a STOP is a change of SDA   *)
(* while SCK is high; a bit is read when SCK rises; after the last bit of  *)
(* a byte it pulls SDA for one clock.  It may be plugged in and out, and   *)
(* knows nothing of resets of the chip.                                    *)
(***************************************************************************)
EXTENDS Integers, Sequences, SequencesExt

CONSTANTS
    ByteWidth,      \* bits of a byte, 8 in the code
    OLED_ADDRESS,   \* bytes, most significant bit first
    Registers,      \* first bytes of a write: commands and data
    Values,
    COMMAND         \* the register of commands, 0x00 in the code

ByteOnBus == [1 .. ByteWidth -> {0, 1}]

ASSUME ByteAssumption ==
    /\ ByteWidth \in Nat \ {0}
    /\ OLED_ADDRESS \in ByteOnBus /\ COMMAND \in Registers
    /\ Registers \subseteq ByteOnBus /\ Values \subseteq ByteOnBus

VARIABLES
    sda, sck,       \* what the chip puts on the lines
    lineops,        \* writes and reads of lines left to do in this call of i2c.c
    message, index, \* of OLED_writeReg(): its bytes; the one being sent, 0 none, 4 i2c_stop()
    ack,            \* what i2c_check_ack() has read
    oledstat,
    panel,          \* [phase, bits, pull, reg]
    (* history *)
    calls,          \* calls since the last reset, up to 2
    returned,       \* what the last call returned, or "none"
    executed,       \* what the panel has executed since the call began
    present         \* it has been plugged in since the call began

ivars == <<sda, sck, lineops, message, index, ack, oledstat, panel, calls, returned, executed, present>>

-------------------------------------------------------------------------------
(* i2c.c: the writes and reads each function makes, in order. *)

Sda(level) == [line |-> "sda", level |-> level]
Sck(level) == [line |-> "sck", level |-> level]
ReadSda == [line |-> "read", level |-> 1]

(* An enabled pin shows its latch, whose level after a reset is not known. *)
i2c_init(dataLatch, clockLatch) == <<Sda(dataLatch), Sck(clockLatch), Sda(1), Sck(1)>>
i2c_start == <<Sda(1), Sck(1), Sda(0), Sck(0)>>

(* Mutant: the lines are released in the other order. *)
i2c_stop_swapped == <<Sda(1), Sck(1)>>
i2c_stop == <<Sck(1), Sda(1)>>

i2c_writeByte(data) ==
    FlattenSeq([i \in 1 .. ByteWidth |-> <<Sda(data[i]), Sck(1), Sck(0)>>])

(* Mutant: SDA is not released before the clock. *)
i2c_check_ack_held == <<Sck(0), Sck(1), ReadSda, Sck(0), Sda(0)>>
i2c_check_ack == <<Sda(1), Sck(0), Sck(1), ReadSda, Sck(0), Sda(0)>>

-------------------------------------------------------------------------------
(* The panel. *)

Deaf == [phase |-> "off", bits |-> <<>>, pull |-> FALSE, reg |-> <<>>]
Idle_panel == [Deaf EXCEPT !.phase = "idle"]
OnWire(level, p) == IF p.pull THEN 0 ELSE level

(* A byte is complete: it is acknowledged unless it is another's address. *)
Heard(p) ==
    CASE p.phase = "address" /\ p.bits = OLED_ADDRESS -> [p EXCEPT !.phase = "register", !.pull = TRUE, !.bits = <<>>]
      [] p.phase = "address" /\ p.bits # OLED_ADDRESS -> Idle_panel
      [] p.phase = "register" -> [p EXCEPT !.phase = "value", !.reg = p.bits, !.pull = TRUE, !.bits = <<>>]
      [] p.phase = "value" -> [p EXCEPT !.pull = TRUE, !.bits = <<>>]

ByteComplete(p, c0, c1) == c0 = 1 /\ c1 = 0 /\ ~p.pull /\ Len(p.bits) = ByteWidth

(* The lines change from s0, c0 to s1, c1. *)
Listens(p, s0, c0, s1, c1) ==
    CASE p.phase = "off" -> p
      [] p.phase # "off" /\ c0 = 1 /\ c1 = 1 /\ s0 > s1 -> [Idle_panel EXCEPT !.phase = "address"]
      [] p.phase # "off" /\ c0 = 1 /\ c1 = 1 /\ s0 < s1 -> Idle_panel
      [] p.phase \notin {"off", "idle"} /\ c0 < c1 -> IF p.pull THEN p ELSE [p EXCEPT !.bits = Append(@, s1)]
      [] p.phase \notin {"off", "idle"} /\ c0 > c1 /\ p.pull -> [p EXCEPT !.pull = FALSE]
      [] p.phase \notin {"off", "idle"} /\ ByteComplete(p, c0, c1) -> Heard(p)
      [] OTHER -> p

(* A value is executed when it is complete. *)
Executes(p, c0, c1) ==
    IF p.phase = "value" /\ ByteComplete(p, c0, c1) THEN <<<<p.reg, p.bits>>>> ELSE <<>>

-------------------------------------------------------------------------------
IInit == /\ sda = 1 /\ sck = 1
         /\ \E d, c \in {0, 1} : lineops = i2c_init(d, c)
         /\ message = <<>> /\ index = 0 /\ ack = FALSE /\ oledstat = FALSE
         /\ panel = Idle_panel
         /\ calls = 0 /\ returned = "none" /\ executed = <<>> /\ present = TRUE

Send(byte) == i2c_writeByte(byte) \o i2c_check_ack

OLED_writeReg(reg, val) ==
    /\ index = 0 /\ lineops = <<>>
    /\ message' = <<OLED_ADDRESS, reg, val>> /\ index' = 1
    /\ lineops' = i2c_start \o Send(OLED_ADDRESS)
    /\ calls' = IF calls < 2 THEN calls + 1 ELSE calls
    /\ returned' = "none" /\ executed' = <<>> /\ present' = (panel.phase # "off")
    /\ UNCHANGED <<sda, sck, ack, oledstat, panel>>

(* The next line operation of i2c.c. *)
LineWrite ==
    /\ lineops # <<>> /\ Head(lineops).line # "read"
    /\ sda' = IF Head(lineops).line = "sda" THEN Head(lineops).level ELSE sda
    /\ sck' = IF Head(lineops).line = "sck" THEN Head(lineops).level ELSE sck
    /\ panel' = Listens(panel, OnWire(sda, panel), sck, OnWire(sda', panel), sck')
    /\ executed' = executed \o Executes(panel, sck, sck')
    /\ lineops' = Tail(lineops)
    /\ UNCHANGED <<message, index, ack, oledstat, calls, returned, present>>

LineRead ==
    /\ lineops # <<>> /\ Head(lineops).line = "read"
    /\ ack' = (OnWire(sda, panel) = 0)
    /\ lineops' = Tail(lineops)
    /\ UNCHANGED <<sda, sck, message, index, oledstat, panel, calls, returned, executed, present>>

(* A byte is through: the next one, or i2c_stop() after the last one and   *)
(* after one that nobody has acknowledged.                                 *)
ByteDone ==
    /\ index \in 1 .. 3 /\ lineops = <<>>
    /\ IF ack /\ index < 3
       THEN index' = index + 1 /\ lineops' = Send(message[index + 1])
       ELSE index' = 4 /\ lineops' = i2c_stop
    /\ UNCHANGED <<sda, sck, message, ack, oledstat, panel, calls, returned, executed, present>>

Returns ==
    /\ index = 4 /\ lineops = <<>>
    /\ index' = 0 /\ returned' = IF ack THEN "ok" ELSE "failed"
    /\ oledstat' = (oledstat \/ (ack /\ message[2] = COMMAND))
    /\ UNCHANGED <<sda, sck, lineops, message, ack, panel, calls, executed, present>>

(* The chip resets: both lines float up, in either order, until i2c_init().*)
ChipReset ==
    /\ sda' = 1 /\ sck' = 1
    /\ \E s, c \in {0, 1} :
        /\ <<s, c>> \in {<<sda, 1>>, <<1, sck>>}
        /\ LET between == Listens(panel, OnWire(sda, panel), sck, OnWire(s, panel), c)
           IN  panel' = Listens(between, OnWire(s, between), c, OnWire(1, between), 1)
    /\ \E d, c \in {0, 1} : lineops' = i2c_init(d, c)
    /\ index' = 0 /\ oledstat' = FALSE
    /\ message' = <<>> /\ ack' = FALSE
    /\ calls' = 0 /\ returned' = "none" /\ executed' = <<>> /\ present' = (panel.phase # "off")

PanelPower ==
    /\ panel' = IF panel.phase = "off" THEN Idle_panel ELSE Deaf
    /\ present' = FALSE
    /\ UNCHANGED <<sda, sck, lineops, message, index, ack, oledstat, calls, returned, executed>>

INext == \/ \E reg \in Registers, val \in Values : OLED_writeReg(reg, val)
         \/ LineWrite \/ LineRead \/ ByteDone \/ Returns
         \/ ChipReset \/ PanelPower

ISpec == IInit /\ [][INext]_ivars

-------------------------------------------------------------------------------
(* Properties. *)

(* The panel executes what it was sent, once, or nothing, whatever happens *)
(* to its plug; OLED_writeReg() returns 1 only if it did, and does so if   *)
(* the panel is there.  (A reset while the panel pulls SDA may hide the    *)
(* START of one write, but never of a second.)                             *)
WrittenAsSent ==
    calls = 2 =>
        /\ executed \in {<<>>, <<<<message[2], message[3]>>>>}
        /\ returned = "ok" => executed # <<>>
        /\ returned # "none" /\ present => returned = "ok"

(* Between writes the lines are high and the panel waits for a START, even *)
(* after a write that was not understood or not acknowledged.              *)
BusReleased ==
    index = 0 /\ calls > 0 =>
        sda = 1 /\ sck = 1 /\ ~panel.pull /\ panel.phase \in {"off", "idle"}
===============================================================================
