-------------------------------- MODULE OneWire --------------------------------
(***************************************************************************)
(* The search of driver/onewire.c for the addresses of the devices on the  *)
(* 1-Wire bus, bit by bit, and the scan of driver/ds18b20.c that calls it. *)
(* The devices that do not match the bit chosen drop out of a search; the  *)
(* last place where 0 was chosen although a 1 was read too is where the    *)
(* next search turns off.                                                  *)
(*                                                                         *)
(* The wire is a wired AND: a bit and its complement both read as 0 if     *)
(* devices differ, and both as 1 if nobody is left.  Devices come and go   *)
(* at any time; a disturbance pulls the wire low where a 1 should be read, *)
(* for one bit or, a short, until the scan is over.                        *)
(***************************************************************************)
EXTENDS Integers, Sequences, FiniteSets, SequencesExt

CONSTANTS
    Bits,           \* bits of an address, 64 in the code
    FamilyBits,     \* of these, the first ones are the family code, 8 in the code
    Devices,        \* the addresses that end in their CRC; others are rejected
    Families,       \* the family codes ds18b20_scan() takes
    MAX_SENSORS,    \* slots of the driver, ds18b20.c:16
    MaxAttached     \* bound: devices on the bus at a time

Address == [1 .. Bits -> {0, 1}]
Zero == [n \in 1 .. Bits |-> 0]
Differ(a, b) == {n \in 1 .. Bits : a[n] # b[n]}

(* address[0], the family code, is 0. *)
NoFamily(a) == \A n \in 1 .. FamilyBits : a[n] = 0

(* A CRC tells addresses that differ in one bit. *)
ASSUME AddressAssumption ==
    /\ Bits \in Nat /\ FamilyBits \in 1 .. Bits
    /\ Devices \subseteq Address /\ \A d \in Devices : ~NoFamily(d)
    /\ \A d, e \in Devices : Cardinality(Differ(d, e)) # 1
ASSUME SlotAssumption == MAX_SENSORS \in Nat \ {0} /\ MaxAttached \in Nat

VARIABLES
    LastDiscrepancy, LastDeviceFlag, address,   \* onewire.c, kept between searches
    id_bit_number, last_zero,   \* of the search that runs; 0: none does
    scanning, addrs,    \* ds18b20_scan() is in its loop; its slots, num_sensors their length
    attached, talking,  \* devices on the bus, and those that still take part
    steady,             \* history: the bus has not changed since the scan began
    noisy               \* disturbed since the scan began: "" no, "scan" once, "search" in this
                        \* search, "short" from then on

search == <<LastDiscrepancy, LastDeviceFlag, address>>
walk == <<id_bit_number, last_zero, talking>>
ovars == <<search, walk, scanning, addrs, attached, steady, noisy>>

OInit == /\ LastDiscrepancy = 0 /\ LastDeviceFlag = FALSE /\ address = Zero
         /\ id_bit_number = 0 /\ last_zero = 0 /\ talking = {}
         /\ scanning = FALSE /\ addrs = <<>>
         /\ attached = {}
         /\ steady = FALSE /\ noisy = ""

-------------------------------------------------------------------------------
(* ds18b20_scan(): onewire_init() resets the search, then the loop. *)

onewire_search_reset ==
    LastDiscrepancy' = 0 /\ LastDeviceFlag' = FALSE /\ address' = Zero

ScanBegins == /\ ~scanning
              /\ onewire_search_reset
              /\ scanning' = TRUE /\ addrs' = <<>>
              /\ steady' = TRUE /\ noisy' = ""
              /\ UNCHANGED <<walk, attached>>

ScanFull == /\ scanning /\ id_bit_number = 0 /\ Len(addrs) = MAX_SENSORS
            /\ scanning' = FALSE
            /\ UNCHANGED <<search, walk, addrs, attached, steady, noisy>>

(* Mutant: the CRC is not looked at. *)
Known_anyCrc(a) == SubSeq(a, 1, FamilyBits) \in Families
(* The address takes a slot. *)
Known(a) == a \in Devices /\ SubSeq(a, 1, FamilyBits) \in Families

-------------------------------------------------------------------------------
(* onewire_search(). *)

(* It returns FALSE: the next search starts afresh, the scan is over. *)
NotFound == /\ LastDiscrepancy' = 0 /\ LastDeviceFlag' = FALSE
            /\ id_bit_number' = 0 /\ last_zero' = 0 /\ talking' = {}
            /\ scanning' = FALSE
            /\ UNCHANGED addrs

(* The last device was returned before, or no presence pulse: no search. *)
SearchBegins ==
    /\ scanning /\ id_bit_number = 0 /\ Len(addrs) < MAX_SENSORS
    /\ noisy' = IF noisy = "search" THEN "scan" ELSE noisy
    /\ IF LastDeviceFlag \/ attached = {} \/ noisy = "short"
       THEN NotFound
       ELSE /\ id_bit_number' = 1 /\ last_zero' = 0 /\ talking' = attached
            /\ UNCHANGED <<LastDiscrepancy, LastDeviceFlag, scanning, addrs>>
    /\ UNCHANGED <<address, attached, steady>>

(* What id_bit and cmp_id_bit tell: the values that devices seem to have.  *)
(* A disturbance, at most one in a search, lets both seem to be there.     *)
Sent == {d[id_bit_number] : d \in talking}
ReadBits == CASE noisy = "search" -> {Sent}
              [] noisy = "short" -> {{0, 1}}
              [] OTHER -> {Sent, {0, 1}}

(* Mutant: a place already turned off at is not told from a new one. *)
Direction_atOrBefore(bits) ==
    IF bits # {0, 1} THEN CHOOSE b \in bits : TRUE
    ELSE IF id_bit_number <= LastDiscrepancy THEN address[id_bit_number] ELSE 0

(* search_direction; at a discrepancy as last time if before the last one, *)
(* there 1, after it 0.                                                    *)
Direction(bits) ==
    IF bits # {0, 1} THEN CHOOSE b \in bits : TRUE
    ELSE IF id_bit_number < LastDiscrepancy THEN address[id_bit_number]
    ELSE IF id_bit_number = LastDiscrepancy THEN 1 ELSE 0

(* Mutant: every 0 counts as a place to turn off at. *)
LastZero_every(bits) == IF Direction(bits) = 0 THEN id_bit_number ELSE last_zero

LastZero(bits) ==
    IF bits = {0, 1} /\ Direction(bits) = 0 THEN id_bit_number ELSE last_zero

SearchBit ==
    /\ id_bit_number \in 1 .. Bits
    /\ \E bits \in ReadBits :
        /\ noisy' \in IF bits = Sent \/ noisy = "short" THEN {noisy} ELSE {"search", "short"}
        /\ \/ /\ bits = {}
              /\ NotFound
              /\ UNCHANGED address
           \/ /\ bits # {}
              /\ address' = [address EXCEPT ![id_bit_number] = Direction(bits)]
              /\ talking' = {d \in talking : d[id_bit_number] = Direction(bits)}
              /\ last_zero' = LastZero(bits)
              /\ id_bit_number' = id_bit_number + 1
              /\ UNCHANGED <<LastDiscrepancy, LastDeviceFlag, scanning, addrs>>
    /\ UNCHANGED <<attached, steady>>

(* An address is complete; the scan keeps it or goes on to the next one. *)
SearchEnds ==
    /\ id_bit_number > Bits
    /\ \/ /\ NoFamily(address)
          /\ NotFound
       \/ /\ ~NoFamily(address)
          /\ LastDiscrepancy' = last_zero /\ LastDeviceFlag' = (last_zero = 0)
          /\ id_bit_number' = 0 /\ last_zero' = 0 /\ talking' = {}
          /\ addrs' = IF Known(address) THEN Append(addrs, address) ELSE addrs
          /\ UNCHANGED scanning
    /\ UNCHANGED <<address, attached, steady, noisy>>

-------------------------------------------------------------------------------
(* A device is plugged in, and waits for the next search, or out. *)
BusChange(d) ==
    /\ attached' \in {attached \cup {d}, attached \ {d}} \ {attached}
    /\ Cardinality(attached') <= MaxAttached
    /\ talking' = talking \cap attached'
    /\ steady' = FALSE
    /\ UNCHANGED <<search, id_bit_number, last_zero, scanning, addrs, noisy>>

ScanStep == ScanFull \/ SearchBegins \/ SearchBit \/ SearchEnds
ONext == ScanBegins \/ ScanStep \/ \E d \in Devices : BusChange(d)
OSpec == OInit /\ [][ONext]_ovars

(* The loop of a scan runs on; the next scan comes with the timer. *)
OFairSpec == OSpec /\ WF_ovars(ScanStep)

-------------------------------------------------------------------------------
(* Properties. *)

(* Search order: the first bit in which two addresses differ decides. *)
Before(d, e) == \E n \in Differ(d, e) : d[n] = 0 /\ \A m \in Differ(d, e) : n <= m

(* s holds the first members of the set in search order, up to n of them.  *)
FirstOf(s, set, n) ==
    /\ Len(s) = IF Cardinality(set) < n THEN Cardinality(set) ELSE n
    /\ ToSet(s) \subseteq set
    /\ \A i \in 1 .. Len(s) - 1 : Before(s[i], s[i + 1])
    /\ \A d \in set \ ToSet(s), e \in ToSet(s) : Before(e, d)

(* A scan of a bus that neither changes nor is disturbed finds the known   *)
(* devices, each once, in search order and as many as there are slots for: *)
(* what SensorCycle takes a scan to do.                                    *)
ScanComplete ==
    steady /\ noisy = "" /\ ~scanning =>
        FirstOf(addrs, {d \in attached : Known(d)}, MAX_SENSORS)

(* Whatever single bits are misread, a slot is given only to a device that *)
(* is there, though one device may take two.  (A short may complete the    *)
(* beginning of one address to another one, CRC included.)                 *)
OnlyThere == steady /\ noisy # "short" => ToSet(addrs) \subseteq attached

(* A scan comes to an end once the bus is left alone: no search returns to *)
(* an address for ever, though a foreign device leaves the slots empty.    *)
ScanEnds ==
    <>[][attached' = attached /\ (noisy' \in {"search", "short"} => noisy' = noisy)]_ovars
        => (scanning ~> ~scanning)
===============================================================================
