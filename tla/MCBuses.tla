-------------------------------- MODULE MCBuses --------------------------------
(***************************************************************************)
(* The drivers of the two buses for TLC: OneWire with addresses of four    *)
(* bits, a family code of two and a CRC that is the parity (family 01 is   *)
(* foreign, with one device), OneWireSlots with bytes of three bits, Crc8  *)
(* as it is, and I2c with bytes of three bits.  These parts share no       *)
(* variable: each behaviour is one of one part, the others stay where they *)
(* begin.                                                                  *)
(***************************************************************************)
EXTENDS OneWire, OneWireSlots, Crc8, I2c

const_Devices == {<<0, 1, 1, 0>>, <<1, 0, 0, 1>>, <<1, 0, 1, 0>>, <<1, 1, 0, 0>>, <<1, 1, 1, 1>>}
const_Families == {<<1, 0>>, <<1, 1>>}

const_WireBytes == [1 .. 3 -> {0, 1}]
const_SEARCHROM == <<0, 0, 1>>
const_READ_SCRATCHPAD == <<0, 1, 1>>

const_OLED_ADDRESS == <<1, 0, 0>>
const_COMMAND == <<0, 0, 0>>
const_Registers == {const_COMMAND, <<0, 1, 0>>}
const_Values == {<<0, 0, 1>>, <<1, 0, 0>>, <<1, 1, 0>>}

VARIABLE part

Init == /\ OInit /\ WInit /\ CInit /\ IInit
        /\ part \in {"search", "slots", "crc", "i2c"}
        /\ part # "slots" => device.shorted /\ \A n \in DOMAIN device.times : device.times[n] = 60
        /\ part # "i2c" => lineops = i2c_init(0, 0)

Search(step) == part = "search" /\ step /\ UNCHANGED <<wvars, cvars, ivars, part>>

Next == \/ Search(ONext)
        \/ part = "slots" /\ WNext /\ UNCHANGED <<ovars, cvars, ivars, part>>
        \/ part = "crc" /\ CNext /\ UNCHANGED <<ovars, wvars, ivars, part>>
        \/ part = "i2c" /\ INext /\ UNCHANGED <<ovars, wvars, cvars, part>>

FairSpec == Init /\ [][Next]_<<ovars, wvars, cvars, ivars, part>> /\ WF_ovars(Search(ScanStep))
===============================================================================
