----------------------------- MODULE OneWireSlots -----------------------------
(***************************************************************************)
(* The time slots of driver/onewire.c: reset, write and read of bytes, and *)
(* the slots of a search, one statement at a time and in microseconds.     *)
(*                                                                         *)
(* The device is external.  It counts from the falling edge of the line:   *)
(* it samples a bit it receives, holds the line low for a 0 it sends, and  *)
(* answers a low of ResetTime with a presence pulse.  Its own times are    *)
(* any of the ranges below.                                                *)
(***************************************************************************)
EXTENDS Integers, Sequences, SequencesExt

CONSTANTS
    BitsPerByte,    \* 8 in the code
    WireBytes,      \* bytes that are sent, least significant bit first
    SEARCHROM, READ_SCRATCHPAD, \* two of them: the device sends after these
    Retries,        \* 125 in the code
    SampleTimes, HoldTimes, PresenceDelays, PresenceTimes,  \* of devices
    ResetTime,      \* low for so long resets a device
    Late            \* bound: microseconds that interrupts add to a slot

WireByte == [1 .. BitsPerByte -> {0, 1}]

ASSUME SlotsAssumption ==
    /\ BitsPerByte \in Nat \ {0} /\ Retries \in Nat \ {0} /\ ResetTime \in Nat /\ Late \in Nat
    /\ WireBytes \subseteq WireByte
    /\ {SEARCHROM, READ_SCRATCHPAD} \subseteq WireBytes
    /\ SampleTimes \cup HoldTimes \cup PresenceDelays \cup PresenceTimes \subseteq Nat

(* The times of the data sheet. *)
ASSUME TimesAssumption ==
    /\ SampleTimes \cup HoldTimes \cup PresenceDelays \subseteq 15 .. 60
    /\ PresenceTimes \subseteq 60 .. 240
    /\ ResetTime \in 70 .. 500 /\ Retries > 30
    /\ SEARCHROM # READ_SCRATCHPAD

VARIABLES
    drives,     \* what the chip does to the line: "low", "high", or "free", pulled up
    statements, \* left to execute of the function that runs
    retries,    \* of onewire_reset()
    wire_call,  \* the call that runs, or ran last: [name, byte]
    bits,       \* what it has read
    age, late,  \* since the line fell; interrupts since then
    disturbed,  \* history: since the last reset pulse began, a slot took too long
    device      \* [there, shorted, times, on, in, out, sampleAt, from, until] and, as history, the
                \* bits it has heard last and its last answer

wvars == <<drives, statements, retries, wire_call, bits, age, late, disturbed, device>>

(* What the delays leave room for: read_bit looks at the line 13           *)
(* microseconds after it fell, and a device may let go of it after 15.     *)
(* Nothing in the driver keeps interrupts from taking longer.              *)
Margin == 1

-------------------------------------------------------------------------------
(* onewire.c: the statements of each function. *)

Drive(level) == [do |-> IF level = 0 THEN "low" ELSE "high", us |-> 0]
Release == [do |-> "free", us |-> 0]
os_delay_us(us) == [do |-> "wait", us |-> us]
ReadPin == [do |-> "read", us |-> 0]
WaitHigh == [do |-> "high?", us |-> 0]

(* Mutant: a 1 is held low as long as the device may wait to sample it. *)
write_bit_slow(v) ==
    <<Drive(0)>> \o (IF v = 1 THEN <<os_delay_us(15), Drive(1), os_delay_us(55)>>
                              ELSE <<os_delay_us(65), Drive(1), os_delay_us(5)>>)
write_bit(v) ==
    <<Drive(0)>> \o (IF v = 1 THEN <<os_delay_us(10), Drive(1), os_delay_us(55)>>
                              ELSE <<os_delay_us(65), Drive(1), os_delay_us(5)>>)

(* Mutant: the slot is not waited for. *)
read_bit_short == <<Drive(0), os_delay_us(3), Release, os_delay_us(10), ReadPin, os_delay_us(3)>>
read_bit == <<Drive(0), os_delay_us(3), Release, os_delay_us(10), ReadPin, os_delay_us(53)>>

(* Without power the pin is released, and GPIO_OUTPUT_SET then drives it   *)
(* low: the first slot of the next call has begun.  The wait of 0 stands   *)
(* for the return of the call, which interrupts may lengthen.              *)
onewire_write(byte, power) ==
    FlattenSeq([i \in 1 .. BitsPerByte |-> write_bit(byte[i])])
    \o IF power THEN <<>> ELSE <<Release, Drive(0), os_delay_us(0)>>
onewire_read == FlattenSeq([i \in 1 .. BitsPerByte |-> read_bit])
onewire_reset ==
    <<Release, os_delay_us(2), WaitHigh, Drive(0), os_delay_us(500), Release,
      os_delay_us(65), ReadPin, os_delay_us(490)>>

-------------------------------------------------------------------------------
(* The device. *)

HeldBy(d, a) == d.there /\ d.from <= a /\ a < d.until
Pulls(d, a) == d.shorted \/ HeldBy(d, a)
High(dr, d, a) == dr # "low" /\ ~Pulls(d, a)

(* The line falls: it sends its next bit, or will sample one. *)
SlotBegins(d) ==
    IF ~d.there \/ ~d.on THEN d
    ELSE IF d.out # <<>>
    THEN [d EXCEPT !.out = Tail(@), !.from = 0, !.until = IF Head(d.out) = 0 THEN d.times.hold ELSE 0]
    ELSE [d EXCEPT !.sampleAt = d.times.sample, !.from = 0, !.until = 0]

(* The chip lets go of a line that it held low for as long as a.           *)
LineRises(d, a) ==
    IF ~d.there \/ a < ResetTime THEN d
    ELSE [d EXCEPT !.on = TRUE, !.in = <<>>, !.out = <<>>, !.sampleAt = 0, !.last = <<>>,
                   !.from = a + d.times.delay, !.until = a + d.times.delay + d.times.presence]

(* What it sends once it has a byte; its address bit and the complement.   *)
Answers(byte) == CASE byte = READ_SCRATCHPAD -> WireBytes
                   [] byte = SEARCHROM -> {<<0, 1>>, <<1, 0>>}
                   [] OTHER -> {<<>>}

(* It samples bit v: the last one of a byte makes it answer. *)
SlotSampled(d, v) ==
    LET in == Append(d.in, v)
    IN  IF Len(in) < BitsPerByte
        THEN {[d EXCEPT !.in = in, !.sampleAt = 0, !.last = in]}
        ELSE {[d EXCEPT !.in = <<>>, !.sampleAt = 0, !.last = in, !.out = o, !.answer = o] : o \in Answers(in)}

Passes(d, from, to) == d.sampleAt # 0 /\ from < d.sampleAt /\ d.sampleAt <= to

-------------------------------------------------------------------------------
WInit == /\ drives = "free" /\ statements = <<>> /\ retries = 0
         /\ wire_call = [name |-> "none", byte |-> <<>>] /\ bits = <<>>
         /\ age = 0 /\ late = 0 /\ disturbed = FALSE
         /\ device \in [there : BOOLEAN, shorted : BOOLEAN, on : {FALSE},
                        times : [sample : SampleTimes, hold : HoldTimes,
                                 delay : PresenceDelays, presence : PresenceTimes],
                        in : {<<>>}, out : {<<>>}, last : {<<>>}, answer : {<<>>},
                        sampleAt : {0}, from : {0}, until : {0}]
         /\ ~(device.there /\ device.shorted)

Begin(name, byte, body) ==
    /\ statements = <<>>
    /\ statements' = body /\ wire_call' = [name |-> name, byte |-> byte] /\ bits' = <<>>
    /\ retries' = Retries
    /\ UNCHANGED <<drives, age, late, disturbed, device>>

CallReset == Begin("reset", <<>>, onewire_reset)

(* The drivers call in this order, with the device there or not: a reset,  *)
(* commands, and what the last one asks for.                               *)
Sending == wire_call.name \in {"search", "read"} \/ wire_call.byte \in {SEARCHROM, READ_SCRATCHPAD}
CallWrite(byte, power) ==
    /\ wire_call.name = "reset" \/ (wire_call.name = "write" /\ ~Sending /\ drives # "high")
    /\ ~(power /\ byte \in {SEARCHROM, READ_SCRATCHPAD})
    /\ Begin("write", byte, onewire_write(byte, power))
CallRead ==
    /\ wire_call = [name |-> "write", byte |-> READ_SCRATCHPAD]
    /\ Begin("read", <<>>, onewire_read)
CallSearch ==
    /\ wire_call = [name |-> "write", byte |-> SEARCHROM]
    /\ Begin("search", <<>>, read_bit \o read_bit)
(* The direction: the bit that was read, if the device is there. *)
CallDirection ==
    /\ wire_call.name = "search" /\ bits # <<1, 1>>
    /\ Begin("direction", bits, write_bit(IF bits[1] # bits[2] THEN bits[1] ELSE 0))

Next_statement == Head(statements)

Drives ==
    /\ statements # <<>> /\ Next_statement.do \in {"low", "high", "free"}
    /\ drives' = Next_statement.do
    /\ LET fell == High(drives, device, age) /\ drives' = "low"
           rose == drives = "low" /\ drives' # "low"
       IN  /\ age' = IF fell THEN 0 ELSE age
           /\ late' = IF fell THEN 0 ELSE late
           /\ disturbed' = (disturbed /\ ~(fell /\ wire_call.name = "reset"))
           /\ device' = IF fell THEN SlotBegins(device) ELSE IF rose THEN LineRises(device, age) ELSE device
    /\ statements' = Tail(statements)
    /\ UNCHANGED <<retries, wire_call, bits>>

Waits ==
    /\ statements # <<>> /\ Next_statement.do = "wait"
    /\ \E j \in 0 .. Late - late :   \* no device looks at the time of a shorted line
        /\ late' = IF device.shorted THEN 0 ELSE late + j
        /\ age' = IF device.shorted THEN 0 ELSE age + Next_statement.us + j
    /\ disturbed' = (disturbed \/ late' > Margin)
    /\ device' \in IF Passes(device, age, age')
                   THEN SlotSampled(device, IF High(drives, device, device.sampleAt) THEN 1 ELSE 0)
                   ELSE {device}
    /\ statements' = Tail(statements)
    /\ UNCHANGED <<drives, retries, wire_call, bits>>

Reads ==
    /\ statements # <<>> /\ Next_statement.do = "read"
    /\ bits' = Append(bits, IF High(drives, device, age) THEN 1 ELSE 0)
    /\ statements' = Tail(statements)
    /\ UNCHANGED <<drives, retries, wire_call, age, late, disturbed, device>>

(* do ... while of onewire_reset(): a line that stays low is given up.     *)
WaitsHigh ==
    /\ statements # <<>> /\ Next_statement.do = "high?"
    /\ IF High(drives, device, age)
       THEN statements' = Tail(statements) /\ UNCHANGED <<retries, bits>>
       ELSE IF retries > 2
       THEN /\ statements' = <<os_delay_us(2)>> \o statements
            /\ retries' = retries - 1
            /\ UNCHANGED bits
       ELSE /\ statements' = <<>> /\ bits' = <<1>>
            /\ UNCHANGED retries
    /\ UNCHANGED <<drives, wire_call, age, late, disturbed, device>>

WNext == \/ CallReset \/ CallRead \/ CallSearch \/ CallDirection
         \/ \E byte \in WireBytes, power \in BOOLEAN : CallWrite(byte, power)
         \/ Drives \/ Waits \/ Reads \/ WaitsHigh
WSpec == WInit /\ [][WNext]_wvars

-------------------------------------------------------------------------------
(* Properties. *)

Returned(name) == statements = <<>> /\ wire_call.name = name

(* onewire_reset() tells whether a device is there; a short has none. *)
PresenceSeen == Returned("reset") => (bits = <<0>>) = device.there

(* The device gets the bytes that are written and the chip those that the  *)
(* device sends, also in the slot that onewire_write() began before it was *)
(* called for.                                                             *)
BytesCarried ==
    device.there =>
        /\ Returned("write") => device.last = wire_call.byte
        /\ Returned("read") \/ Returned("search") => bits = device.answer
        /\ Returned("direction") => device.last = <<wire_call.byte[1]>>

(* The line says the same to both sides of it, unless interrupts have      *)
(* lengthened a slot by more than Margin; then again from the next reset   *)
(* on, whatever the two took each other's slots for before.                *)
SlotsUnderstood == ~disturbed => PresenceSeen /\ BytesCarried

(* The chip does not drive the line high while the device holds it low,    *)
(* with the same exception and the same end of it.                         *)
NoContention == ~disturbed => (drives = "high" => ~HeldBy(device, age))
===============================================================================
