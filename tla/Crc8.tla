--------------------------------- MODULE Crc8 ---------------------------------
(***************************************************************************)
(* crc8() of driver/onewire.c, by which the drivers tell addresses and     *)
(* scratchpads that were misread.  A register is the set of its bits that  *)
(* are 1.  One CRC is computed over what was sent, one over what was       *)
(* heard, in which single bits or one short burst are flipped.             *)
(***************************************************************************)
EXTENDS Integers, Sequences, SequencesExt, Folds

CONSTANTS
    RegisterBits,   \* 8 in the code
    FrameBits,      \* bits of a scratchpad with its CRC, 72
    Burst           \* a burst flips any bits of so many that follow each other, 8

ASSUME CrcAssumption == RegisterBits \in Nat \ {0} /\ FrameBits \in Nat /\ Burst \in Nat

VARIABLES
    crcSent, crcHeard,
    flips,          \* bits that were flipped, up to 3
    since           \* bits since the first flip, as far as it matters; 0 before it

cvars == <<crcSent, crcHeard, flips, since>>

-------------------------------------------------------------------------------
SymmetricDifference(S, T) == (S \ T) \cup (T \ S)

(* Mutant: the polynomial for the other order of bits, 0x31. *)
Polynomial_other == {5, 4, 0}
(* 0x8C. *)
Polynomial == {7, 3, 2}

Mix(crc, bit) == (0 \in crc) # (bit = 1)

(* crc8(), the body of its inner loop. *)
NextCrc(crc, bit) ==
    LET shifted == {b - 1 : b \in crc \ {0}}
    IN  IF Mix(crc, bit) THEN SymmetricDifference(shifted, Polynomial) ELSE shifted

(* Goes on over a byte, least significant bit first. *)
OverByte(crc, byte) ==
    FoldLeft(LAMBDA c, b : NextCrc(c, IF b \in byte THEN 1 ELSE 0), crc,
             [i \in 1 .. RegisterBits |-> i - 1])

CInit == crcSent = {} /\ crcHeard = {} /\ flips = 0 /\ since = 0

CountBit == since' = IF flips' = 0 THEN 0
                    ELSE LET bound == IF flips' = 1 THEN FrameBits ELSE Burst
                         IN  IF since < bound THEN since + 1 ELSE bound

BitHeard(bit) ==
    /\ crcSent' = NextCrc(crcSent, bit) /\ crcHeard' = NextCrc(crcHeard, bit)
    /\ UNCHANGED flips
    /\ CountBit

(* One bit, a second one anywhere behind it, or any within a burst. *)
BitFlipped(bit) ==
    /\ (flips < 2 /\ since < FrameBits) \/ since < Burst
    /\ crcSent' = NextCrc(crcSent, bit) /\ crcHeard' = NextCrc(crcHeard, 1 - bit)
    /\ flips' = IF flips < 3 THEN flips + 1 ELSE flips
    /\ CountBit

CNext == \E bit \in {0, 1} : BitHeard(bit) \/ BitFlipped(bit)
CSpec == CInit /\ [][CNext]_cvars

-------------------------------------------------------------------------------
(* Properties. *)

(* What was heard fails its CRC if one or two of its bits are wrong, or    *)
(* only bits of a burst: what SensorCycle and OneWire take a CRC to do.    *)
Detected == flips > 0 => crcHeard # crcSent

(* Bytes that end with their own CRC have CRC 0, which is what             *)
(* ds18b20_scan() and ds18b20_read_all() test, and so has a shorted line.  *)
OwnCrcZero == OverByte(crcSent, crcSent) = {} /\ OverByte({}, {}) = {}

(* The two together: the test passes what was sent and fails what was not. *)
CrcTells == Detected /\ OwnCrcZero
===============================================================================
