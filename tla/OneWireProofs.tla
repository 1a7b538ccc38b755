----------------------------- MODULE OneWireProofs -----------------------------
(***************************************************************************)
(* Theorems about OneWire, for addresses of any length and any devices:    *)
(* the search finds every device once and in order, and no disturbance of  *)
(* single bits makes it find one that is not there.                        *)
(***************************************************************************)
EXTENDS OneWire, FiniteSetTheorems, TLAPS

-------------------------------------------------------------------------------
(* The inductive invariant. *)

Places == /\ LastDiscrepancy \in 0 .. Bits /\ last_zero \in 0 .. Bits
          /\ id_bit_number \in 0 .. Bits + 1
Wires == /\ LastDeviceFlag \in BOOLEAN /\ address \in Address
         /\ attached \subseteq Devices /\ IsFiniteSet(attached) /\ talking \subseteq attached
         /\ scanning \in BOOLEAN
         /\ steady \in BOOLEAN /\ noisy \in {"", "scan", "search", "short"}
Slots == addrs \in Seq(Devices) /\ Len(addrs) <= MAX_SENSORS

OType == Places /\ Wires /\ Slots

(* A search runs only within a scan, for a slot that is left, and not      *)
(* after the last device.                                                  *)
Searching == id_bit_number # 0 => scanning /\ ~LastDeviceFlag /\ Len(addrs) # MAX_SENSORS

Agree(d, e, n) == \A m \in 1 .. n : d[m] = e[m]

(* d and e differ first at bit n, and d comes first. *)
Under(d, e, n) == d[n] = 0 /\ e[n] = 1 /\ Agree(d, e, n - 1)

(* Who takes part agrees with the address so far; if a disturbance has     *)
(* silenced all, somebody differs from it in the last bit alone.           *)
Heard ==
    steady /\ noisy # "short" /\ id_bit_number # 0 =>
        /\ \A d \in talking : Agree(d, address, id_bit_number - 1)
        /\ talking = {} =>
               /\ noisy = "search" /\ id_bit_number # 1
               /\ \E d \in attached : /\ Agree(d, address, id_bit_number - 2)
                                      /\ d[id_bit_number - 1] # address[id_bit_number - 1]

Quiet == steady /\ noisy = ""

(* d is passed by, or turns off from, a search that is at a. *)
Passed(d, a, n) == \E m \in 1 .. n - 1 : Under(d, a, m)
Reached(d, a) == d = a \/ Passed(d, a, Bits + 1)
TurnsOff(d, a, n) == \E m \in 1 .. n : Under(a, d, m)

(* Until the search comes to where it turns off, the address is the one    *)
(* returned last: the others are before it or turn off from it, the last   *)
(* of them at LastDiscrepancy.                                             *)
Between ==
    /\ address \in attached
    /\ LastDeviceFlag = (LastDiscrepancy = 0)
    /\ \A d \in attached : Reached(d, address) \/ TurnsOff(d, address, LastDiscrepancy)
    /\ LastDiscrepancy > 0 => \E d \in attached : Under(address, d, LastDiscrepancy)
    /\ ToSet(addrs) = {d \in attached : Known(d) /\ Reached(d, address)}

(* Within a search, everyone takes part, has been passed or has turned off *)
(* from the address, the last of them at last_zero.                        *)
Walking ==
    /\ talking # {} /\ talking = {d \in attached : Agree(d, address, id_bit_number - 1)}
    /\ \A d \in attached :
           d \in talking \/ Passed(d, address, id_bit_number) \/ TurnsOff(d, address, last_zero)
    /\ last_zero < id_bit_number
    /\ last_zero > 0 => \E d \in attached : Under(address, d, last_zero)

Fresh == LastDiscrepancy = 0 /\ ~LastDeviceFlag

Tree ==
    Quiet /\ scanning =>
        /\ id_bit_number # 0 => Walking
        /\ ~Fresh /\ id_bit_number <= LastDiscrepancy => Between
        /\ id_bit_number = 0 /\ Fresh => addrs = <<>>
        /\ id_bit_number > LastDiscrepancy =>
               ToSet(addrs) = {d \in attached : Known(d) /\ Passed(d, address, id_bit_number)}

Sorted == Quiet => \A i, j \in 1 .. Len(addrs) : i < j => Before(addrs[i], addrs[j])

OInv == OType /\ Searching /\ Heard /\ Tree /\ Sorted /\ ScanComplete /\ OnlyThere

-------------------------------------------------------------------------------
(* Lemmas about addresses. *)

LEMMA BitsType == Bits \in Nat /\ Bits > 0 /\ FamilyBits \in 1 .. Bits /\ MAX_SENSORS \in Nat \ {0}
BY AddressAssumption, SlotAssumption

LEMMA NoPlace == 0 \in 0 .. Bits /\ 0 \in 0 .. Bits + 1
BY BitsType

LEMMA DeviceType == \A d \in Devices : d \in Address /\ ~NoFamily(d)
BY AddressAssumption

LEMMA AddressBit ==
    ASSUME NEW a \in Address, NEW n \in 1 .. Bits
    PROVE  a[n] \in {0, 1} /\ a[n] \in Int
BY DEF Address

(* e is a with bit i set to v. *)
IsSet(e, a, i, v) == e = [a EXCEPT ![i] = v]

LEMMA AddressSet ==
    ASSUME NEW a \in Address, NEW i \in 1 .. Bits, NEW v \in {0, 1},
           NEW e, IsSet(e, a, i, v)
    PROVE  /\ e \in Address /\ e[i] = v
           /\ \A m \in 1 .. Bits : m # i => e[m] = a[m]
BY DEF Address, IsSet

LEMMA SameAddress ==
    ASSUME NEW a \in Address, NEW d \in Address, Agree(d, a, Bits)
    PROVE  d = a
<1>1. d = [m \in 1 .. Bits |-> d[m]] /\ a = [m \in 1 .. Bits |-> a[m]]
  BY DEF Address
<1>2. \A m \in 1 .. Bits : d[m] = a[m]
  BY DEF Agree
<1> QED BY <1>1, <1>2

(* What a bit that is set in an address leaves as it was before it. *)
LEMMA SetKept ==
    ASSUME NEW a \in Address, NEW i \in 1 .. Bits, NEW v \in {0, 1},
           NEW e, IsSet(e, a, i, v), NEW d \in Address
    PROVE  /\ \A n \in 0 .. i - 1 : Agree(d, e, n) <=> Agree(d, a, n)
           /\ Agree(d, e, i) <=> Agree(d, a, i - 1) /\ d[i] = v
           /\ \A m \in 1 .. i - 1 : Under(d, e, m) <=> Under(d, a, m)
           /\ \A m \in 1 .. i - 1 : Under(e, d, m) <=> Under(a, d, m)
           /\ Under(d, e, i) <=> d[i] = 0 /\ v = 1 /\ Agree(d, a, i - 1)
           /\ Under(e, d, i) <=> v = 0 /\ d[i] = 1 /\ Agree(d, a, i - 1)
<1>1. e \in Address /\ e[i] = v /\ \A m \in 1 .. Bits : m # i => e[m] = a[m]
  BY AddressSet
<1>2. Bits \in Nat /\ i \in Nat /\ i > 0 /\ i <= Bits
  BY BitsType
<1>3. \A m \in 1 .. i - 1 : e[m] = a[m]
  BY <1>1, <1>2
<1>4. \A n \in 0 .. i - 1 : Agree(d, e, n) <=> Agree(d, a, n)
  BY <1>2, <1>3 DEF Agree
<1>5. \A n \in 0 .. i - 1 : Agree(e, d, n) <=> Agree(a, d, n)
  BY <1>2, <1>3 DEF Agree
<1>6. Agree(d, e, i) <=> Agree(d, a, i - 1) /\ d[i] = v
  BY <1>1, <1>2, <1>3 DEF Agree
<1>7. \A m \in 1 .. i - 1 : m - 1 \in 0 .. i - 1
  BY <1>2
<1>8. \A m \in 1 .. i - 1 : Under(d, e, m) <=> Under(d, a, m)
  BY <1>3, <1>4, <1>7 DEF Under
<1>9. \A m \in 1 .. i - 1 : Under(e, d, m) <=> Under(a, d, m)
  BY <1>3, <1>5, <1>7 DEF Under
<1>10. i - 1 \in 0 .. i - 1
  BY <1>2
<1>11. Agree(a, d, i - 1) <=> Agree(d, a, i - 1)
  BY DEF Agree
<1>12. Under(d, e, i) <=> d[i] = 0 /\ v = 1 /\ Agree(d, a, i - 1)
  BY <1>1, <1>4, <1>10 DEF Under
<1>13. Under(e, d, i) <=> v = 0 /\ d[i] = 1 /\ Agree(d, a, i - 1)
  BY <1>1, <1>5, <1>10, <1>11 DEF Under
<1> QED BY <1>4, <1>6, <1>8, <1>9, <1>12, <1>13

LEMMA PassedSet ==
    ASSUME NEW a \in Address, NEW i \in 1 .. Bits, NEW v \in {0, 1},
           NEW e, IsSet(e, a, i, v), NEW d \in Address
    PROVE  /\ Passed(d, e, i + 1) <=> Passed(d, a, i) \/ (d[i] = 0 /\ v = 1 /\ Agree(d, a, i - 1))
           /\ \A n \in 0 .. i - 1 : TurnsOff(d, e, n) <=> TurnsOff(d, a, n)
           /\ v = 0 /\ d[i] = 1 /\ Agree(d, a, i - 1) => TurnsOff(d, e, i)
           /\ \A n \in 0 .. i - 1 : TurnsOff(d, a, n) => TurnsOff(d, e, i)
<1>1. i \in Nat /\ i > 0 /\ i \in 1 .. i
  BY BitsType
<1>2. \A m \in 1 .. (i + 1) - 1 : m \in 1 .. i - 1 \/ m = i
  BY <1>1
<1>3. \A m \in 1 .. i - 1 : m \in 1 .. (i + 1) - 1
  BY <1>1
<1>4. i \in 1 .. (i + 1) - 1
  BY <1>1
<1>5. Passed(d, e, i + 1) <=> Passed(d, a, i) \/ (d[i] = 0 /\ v = 1 /\ Agree(d, a, i - 1))
  <2>1. \A m \in 1 .. i - 1 : Under(d, e, m) <=> Under(d, a, m)
    BY SetKept
  <2>2. Under(d, e, i) <=> d[i] = 0 /\ v = 1 /\ Agree(d, a, i - 1)
    BY SetKept
  <2> QED BY <1>2, <1>3, <1>4, <2>1, <2>2 DEF Passed
<1>6. \A n \in 0 .. i - 1 : \A m \in 1 .. n : m \in 1 .. i - 1 /\ m \in 1 .. i
  BY <1>1
<1>7. \A n \in 0 .. i - 1 : TurnsOff(d, e, n) <=> TurnsOff(d, a, n)
  <2>1. \A m \in 1 .. i - 1 : Under(e, d, m) <=> Under(a, d, m)
    BY SetKept
  <2> QED BY <1>6, <2>1 DEF TurnsOff
<1>8. v = 0 /\ d[i] = 1 /\ Agree(d, a, i - 1) => TurnsOff(d, e, i)
  <2>1. Under(e, d, i) <=> v = 0 /\ d[i] = 1 /\ Agree(d, a, i - 1)
    BY SetKept
  <2> QED BY <1>1, <2>1 DEF TurnsOff
<1>9. \A n \in 0 .. i - 1 : TurnsOff(d, a, n) => TurnsOff(d, e, i)
  BY <1>6, <1>7 DEF TurnsOff
<1> QED BY <1>5, <1>7, <1>8, <1>9

(* Two ways to differ first. *)
LEMMA UnderApart ==
    ASSUME NEW a \in Address, NEW d \in Address, NEW m \in 1 .. Bits, NEW n \in 1 .. Bits,
           Under(d, a, m), Under(a, d, n)
    PROVE  FALSE
<1>1. m \in Nat /\ n \in Nat /\ m > 0 /\ n > 0
  BY BitsType
<1>2. CASE m = n
  BY <1>2 DEF Under
<1>3. CASE m < n
  <2>1. m \in 1 .. n - 1
    BY <1>1, <1>3
  <2> QED BY <2>1 DEF Under, Agree
<1>4. CASE n < m
  <2>1. n \in 1 .. m - 1
    BY <1>1, <1>4
  <2> QED BY <2>1 DEF Under, Agree
<1> QED BY <1>1, <1>2, <1>3, <1>4

(* Where the search turns off from a, to e: it passes what a has reached.  *)
LEMMA TurnOff ==
    ASSUME NEW a \in Address, NEW l \in 1 .. Bits, a[l] = 0,
           NEW e, IsSet(e, a, l, 1), NEW d \in Address,
           Reached(d, a) \/ TurnsOff(d, a, l)
    PROVE  Reached(d, a) <=> Passed(d, e, l + 1)
<1>1. l \in Nat /\ l > 0 /\ l <= Bits /\ Bits \in Nat
  BY BitsType
<1>2. Passed(d, e, l + 1) <=> Passed(d, a, l) \/ (d[l] = 0 /\ Agree(d, a, l - 1))
  <2>1. 1 \in {0, 1}
    OBVIOUS
  <2>2. Passed(d, e, l + 1) <=> Passed(d, a, l) \/ (d[l] = 0 /\ 1 = 1 /\ Agree(d, a, l - 1))
    BY <2>1, PassedSet
  <2> QED BY <2>2
<1>3. ASSUME Passed(d, a, l) PROVE Reached(d, a)
  <2>1. PICK m \in 1 .. l - 1 : Under(d, a, m)
    BY <1>3 DEF Passed
  <2>2. m \in 1 .. (Bits + 1) - 1
    BY <1>1
  <2> QED BY <2>1, <2>2 DEF Passed, Reached
<1>4. ASSUME d[l] = 0, Agree(d, a, l - 1), TurnsOff(d, a, l) PROVE FALSE
  <2>1. PICK m \in 1 .. l : Under(a, d, m)
    BY <1>4 DEF TurnsOff
  <2>2. m = l \/ m \in 1 .. l - 1
    BY <1>1
  <2> QED BY <1>4, <2>1, <2>2 DEF Under, Agree
<1>5. ASSUME Reached(d, a) PROVE Passed(d, a, l) \/ (d[l] = 0 /\ Agree(d, a, l - 1))
  <2>1. CASE d = a
    BY <2>1 DEF Agree
  <2>2. CASE Passed(d, a, Bits + 1)
    <3>1. PICK m \in 1 .. (Bits + 1) - 1 : Under(d, a, m)
      BY <2>2 DEF Passed
    <3>2. CASE m < l
      <4>1. m \in 1 .. l - 1
        BY <1>1, <3>2
      <4> QED BY <3>1, <4>1 DEF Passed
    <3>3. CASE m = l
      BY <3>1, <3>3 DEF Under
    <3>4. CASE l < m
      <4>1. l \in 1 .. m - 1 /\ \A k \in 1 .. l - 1 : k \in 1 .. m - 1
        BY <1>1, <3>4
      <4> QED BY <3>1, <4>1 DEF Under, Agree
    <3>5. m \in Nat
      BY <1>1
    <3> QED BY <1>1, <3>2, <3>3, <3>4, <3>5
  <2> QED BY <1>5, <2>1, <2>2 DEF Reached
<1> QED BY <1>2, <1>3, <1>4, <1>5

LEMMA UnderBefore ==
    ASSUME NEW d \in Address, NEW e \in Address, NEW n \in 1 .. Bits, Under(d, e, n)
    PROVE  Before(d, e)
<1>1. n \in Differ(d, e)
  BY DEF Under, Differ
<1>2. ASSUME NEW m \in Differ(d, e) PROVE n <= m
  <2>1. m \in 1 .. Bits /\ d[m] # e[m]
    BY DEF Differ
  <2>2. m < n => m \in 1 .. n - 1
    BY <2>1, BitsType
  <2>3. ~(m < n)
    BY <2>1, <2>2 DEF Under, Agree
  <2> QED BY <2>1, <2>3, BitsType
<1> QED BY <1>1, <1>2 DEF Before, Under

LEMMA BeforeDiffers ==
    ASSUME NEW d, NEW e, Before(d, e)
    PROVE  d # e
BY DEF Before, Differ

(* What the address has reached is before what turns off from it. *)
LEMMA ReachedBefore ==
    ASSUME NEW a \in Address, NEW d \in Address, NEW e \in Address, NEW l \in 0 .. Bits,
           Reached(e, a), TurnsOff(d, a, l)
    PROVE  Before(e, d)
<1>1. PICK n \in 1 .. l : Under(a, d, n)
  BY DEF TurnsOff
<1>2. n \in 1 .. Bits /\ n \in Nat /\ n > 0
  BY BitsType
<1>3. CASE e = a
  BY <1>1, <1>2, <1>3, UnderBefore
<1>4. CASE Passed(e, a, Bits + 1)
  <2>1. PICK m \in 1 .. (Bits + 1) - 1 : Under(e, a, m)
    BY <1>4 DEF Passed
  <2>2. m \in 1 .. Bits /\ m \in Nat /\ m > 0
    BY BitsType
  <2>3. CASE m = n
    BY <1>1, <2>1, <2>3 DEF Under
  <2>4. CASE m < n
    <3>1. m \in 1 .. n - 1 /\ \A k \in 1 .. m - 1 : k \in 1 .. n - 1
      BY <1>2, <2>2, <2>4
    <3>2. Under(e, d, m)
      BY <1>1, <2>1, <3>1 DEF Under, Agree
    <3> QED BY <2>2, <3>2, UnderBefore
  <2>5. CASE n < m
    <3>1. n \in 1 .. m - 1 /\ \A k \in 1 .. n - 1 : k \in 1 .. m - 1
      BY <1>2, <2>2, <2>5
    <3>2. Under(e, d, n)
      BY <1>1, <2>1, <3>1 DEF Under, Agree
    <3> QED BY <1>2, <3>2, UnderBefore
  <2> QED BY <1>2, <2>2, <2>3, <2>4, <2>5
<1> QED BY <1>3, <1>4 DEF Reached

(* Who differs in one bit alone is not another device. *)
LEMMA OneBitApart ==
    ASSUME NEW d \in Devices, NEW a \in Address, Agree(d, a, Bits - 1), d[Bits] # a[Bits]
    PROVE  a \notin Devices
<1>1. Bits \in 1 .. Bits /\ \A m \in 1 .. Bits : m = Bits \/ m \in 1 .. Bits - 1
  BY BitsType
<1>2. Differ(d, a) = {Bits}
  BY <1>1 DEF Differ, Agree
<1>3. Cardinality(Differ(d, a)) = 1
  BY <1>2, FS_Singleton
<1> QED BY <1>3, AddressAssumption

-------------------------------------------------------------------------------
(* Lemmas about the slots. *)

LEMMA SlotsEmpty == ToSet(<<>>) = {}
BY DEF ToSet

LEMMA SlotsAppend ==
    ASSUME NEW S, NEW s \in Seq(S), NEW a \in S
    PROVE  ToSet(Append(s, a)) = ToSet(s) \cup {a}
<1>1. /\ Append(s, a) \in Seq(S) /\ Len(Append(s, a)) = Len(s) + 1 /\ Len(s) \in Nat
      /\ \A i \in 1 .. Len(s) : Append(s, a)[i] = s[i]
      /\ Append(s, a)[Len(s) + 1] = a
      /\ DOMAIN s = 1 .. Len(s) /\ DOMAIN Append(s, a) = 1 .. Len(s) + 1
  OBVIOUS
<1>2. \A i \in 1 .. Len(s) + 1 : i \in 1 .. Len(s) \/ i = Len(s) + 1
  BY <1>1
<1>3. Len(s) + 1 \in 1 .. Len(s) + 1 /\ \A i \in 1 .. Len(s) : i \in 1 .. Len(s) + 1
  BY <1>1
<1> QED BY <1>1, <1>2, <1>3 DEF ToSet

(* Sorted slots hold as many devices as there are slots taken. *)
LEMMA SlotsCounted ==
    ASSUME NEW s \in Seq(Devices), \A i, j \in 1 .. Len(s) : i < j => Before(s[i], s[j])
    PROVE  IsFiniteSet(ToSet(s)) /\ Cardinality(ToSet(s)) = Len(s)
<1>1. Len(s) \in Nat /\ DOMAIN s = 1 .. Len(s) /\ s \in [1 .. Len(s) -> Devices]
  OBVIOUS
<1>2. \A i, j \in 1 .. Len(s) : s[i] = s[j] => i = j
  <2> SUFFICES ASSUME NEW i \in 1 .. Len(s), NEW j \in 1 .. Len(s), i # j PROVE s[i] # s[j]
    OBVIOUS
  <2>1. i < j \/ j < i
    BY <1>1
  <2>2. Before(s[i], s[j]) \/ Before(s[j], s[i])
    BY <2>1
  <2> QED BY <2>2, BeforeDiffers
<1>3. s \in [1 .. Len(s) -> ToSet(s)] /\ \A d \in ToSet(s) : \E i \in 1 .. Len(s) : s[i] = d
  BY <1>1 DEF ToSet
<1>4. s \in Bijection(1 .. Len(s), ToSet(s))
  BY <1>2, <1>3 DEF Bijection, Injection, Surjection, IsInjective
<1>5. ExistsBijection(1 .. Len(s), ToSet(s))
  BY <1>4 DEF ExistsBijection
<1> QED BY <1>1, <1>5, FS_CountingElements, FS_NatBijection

(* When the slots hold all known devices, or the first ones and are full. *)
LEMMA ScanDone ==
    ASSUME NEW s \in Seq(Devices), \A i, j \in 1 .. Len(s) : i < j => Before(s[i], s[j]),
           NEW K, IsFiniteSet(K), ToSet(s) \subseteq K, Len(s) <= MAX_SENSORS,
           ToSet(s) = K \/ Len(s) = MAX_SENSORS,
           \A d \in K \ ToSet(s), e \in ToSet(s) : Before(e, d)
    PROVE  FirstOf(s, K, MAX_SENSORS)
<1>1. IsFiniteSet(ToSet(s)) /\ Cardinality(ToSet(s)) = Len(s)
  BY SlotsCounted
<1>2. Len(s) <= Cardinality(K) /\ Cardinality(K) \in Nat /\ Len(s) \in Nat /\ MAX_SENSORS \in Nat
  BY <1>1, FS_Subset, FS_CardinalityType, BitsType
<1>3. ToSet(s) = K => Cardinality(K) = Len(s)
  BY <1>1
<1>4. Len(s) = IF Cardinality(K) < MAX_SENSORS THEN Cardinality(K) ELSE MAX_SENSORS
  BY <1>2, <1>3
<1>5. ASSUME NEW i \in 1 .. Len(s) - 1 PROVE Before(s[i], s[i + 1])
  <2>1. i \in 1 .. Len(s) /\ i + 1 \in 1 .. Len(s) /\ i < i + 1
    BY <1>2
  <2> QED BY <2>1
<1> QED BY <1>4, <1>5 DEF FirstOf

-------------------------------------------------------------------------------
(* Types, and a search within a scan. *)

LEMMA DirectionType ==
    ASSUME OType, id_bit_number \in 1 .. Bits, NEW bits \in SUBSET {0, 1}, bits # {}
    PROVE  /\ Direction(bits) \in bits /\ Direction(bits) \in {0, 1}
           /\ bits = {0, 1} \/ \A v \in bits : v = Direction(bits)
<1>1. address[id_bit_number] \in {0, 1}
  BY AddressBit DEF OType, Wires
<1>2. CASE bits = {0, 1}
  BY <1>1, <1>2 DEF Direction
<1>3. CASE bits # {0, 1}
  <2>1. PICK v \in {0, 1} : bits = {v}
    <3>1. CASE 0 \in bits
      BY <1>3, <3>1
    <3>2. CASE 1 \in bits
      BY <1>3, <3>2
    <3> QED BY <3>1, <3>2
  <2>2. (CHOOSE x \in bits : TRUE) \in bits
    BY <2>1, Zenon
  <2>3. Direction(bits) = (CHOOSE x \in bits : TRUE)
    BY <1>3, Zenon DEF Direction
  <2> QED BY <2>1, <2>2, <2>3
<1> QED BY <1>2, <1>3

LEMMA SentType ==
    ASSUME OType, id_bit_number \in 1 .. Bits
    PROVE  /\ Sent \in SUBSET {0, 1}
           /\ Sent = {} <=> talking = {}
           /\ \A v \in Sent : \E d \in talking : d[id_bit_number] = v
           /\ \A d \in talking : d \in Address /\ d[id_bit_number] \in Sent
<1>1. \A d \in talking : d \in Address
  BY DeviceType DEF OType, Wires
<1>2. \A d \in talking : d[id_bit_number] \in {0, 1}
  BY <1>1, AddressBit
<1> QED BY <1>1, <1>2 DEF Sent

LEMMA ReadType == ASSUME Sent \in SUBSET {0, 1}, NEW bits \in ReadBits
                  PROVE  bits \in SUBSET {0, 1} /\ (bits = Sent \/ bits = {0, 1})
BY DEF ReadBits

(* A bit of the search, taken apart: it ends, or the address takes the     *)
(* direction chosen.                                                       *)
BitTaken(bits) ==
    /\ id_bit_number \in 1 .. Bits /\ bits \in SUBSET {0, 1} /\ bits # {}
    /\ bits = Sent \/ bits = {0, 1}
    /\ bits = Sent \/ noisy = "short" => noisy' = noisy
    /\ ~(bits = Sent \/ noisy = "short") => noisy' \in {"search", "short"}
    /\ noisy = "search" => bits = Sent
    /\ IsSet(address', address, id_bit_number, Direction(bits))
    /\ talking' = {d \in talking : d[id_bit_number] = Direction(bits)}
    /\ last_zero' = LastZero(bits)
    /\ id_bit_number' = id_bit_number + 1
    /\ UNCHANGED <<LastDiscrepancy, LastDeviceFlag, scanning, addrs, attached, steady>>

LEMMA SearchBitCases ==
    ASSUME OType, SearchBit
    PROVE  \/ /\ NotFound /\ UNCHANGED <<address, attached, steady>>
              /\ noisy' = "" => noisy = "" /\ talking = {}
              /\ noisy' \in {"", "scan", "search", "short"}
           \/ \E bits \in SUBSET {0, 1} : BitTaken(bits)
<1>1. id_bit_number \in 1 .. Bits
  BY DEF SearchBit
<1>2. PICK bits \in ReadBits :
        /\ noisy' \in IF bits = Sent \/ noisy = "short" THEN {noisy} ELSE {"search", "short"}
        /\ \/ /\ bits = {}
              /\ NotFound
              /\ UNCHANGED address
           \/ /\ bits # {}
              /\ address' = [address EXCEPT ![id_bit_number] = Direction(bits)]
              /\ talking' = {d \in talking : d[id_bit_number] = Direction(bits)}
              /\ last_zero' = LastZero(bits)
              /\ id_bit_number' = id_bit_number + 1
              /\ UNCHANGED <<LastDiscrepancy, LastDeviceFlag, scanning, addrs>>
  BY DEF SearchBit
<1>3. bits \in SUBSET {0, 1} /\ (bits = Sent \/ bits = {0, 1})
  BY <1>1, SentType, ReadType
<1>4. noisy = "search" => bits = Sent
  BY DEF ReadBits
<1>5. UNCHANGED <<attached, steady>>
  BY DEF SearchBit
<1>6. CASE bits = {}
  <2>1. noisy' = "" => noisy = "" /\ bits = Sent
    BY <1>2
  <2>2. noisy' = "" => noisy = "" /\ talking = {}
    BY <1>1, <1>6, <2>1, SentType
  <2>3. noisy' \in {"", "scan", "search", "short"}
    BY <1>2 DEF OType, Wires
  <2> QED BY <1>2, <1>5, <1>6, <2>2, <2>3
<1>7. CASE bits # {}
  <2>1. IsSet(address', address, id_bit_number, Direction(bits))
    BY <1>2, <1>7 DEF IsSet
  <2>2. BitTaken(bits)
    BY <1>1, <1>2, <1>3, <1>4, <1>5, <1>7, <2>1 DEF BitTaken
  <2> QED BY <1>3, <2>2
<1> QED BY <1>6, <1>7

(* A bit keeps the types, and everyone of those who take part who has the  *)
(* bit chosen.                                                             *)
LEMMA BitTakenType ==
    ASSUME OType, NEW bits \in SUBSET {0, 1}, BitTaken(bits)
    PROVE  /\ OType'
           /\ Direction(bits) \in bits /\ Direction(bits) \in {0, 1}
           /\ bits = {0, 1} \/ \A v \in bits : v = Direction(bits)
           /\ id_bit_number \in Nat /\ id_bit_number > 0 /\ (id_bit_number + 1) - 1 = id_bit_number
<1>1. id_bit_number \in 1 .. Bits /\ bits # {}
  BY DEF BitTaken
<1>2. /\ Direction(bits) \in bits /\ Direction(bits) \in {0, 1}
      /\ bits = {0, 1} \/ \A v \in bits : v = Direction(bits)
  BY <1>1, DirectionType
<1>3. address' \in Address
  <2>1. address \in Address
    BY DEF OType, Wires
  <2>2. IsSet(address', address, id_bit_number, Direction(bits))
    BY DEF BitTaken
  <2> QED BY <1>1, <1>2, <2>1, <2>2, AddressSet
<1>4. id_bit_number + 1 \in 0 .. Bits + 1 /\ id_bit_number \in 0 .. Bits
  BY <1>1, BitsType
<1>5. LastZero(bits) \in 0 .. Bits
  BY <1>4 DEF LastZero, OType, Places, Wires, Slots
<1>6. noisy' \in {"", "scan", "search", "short"}
  BY DEF BitTaken, OType, Places, Wires, Slots
<1>7. OType'
  BY <1>3, <1>4, <1>5, <1>6 DEF BitTaken, OType, Places, Wires, Slots
<1>8. id_bit_number \in Nat /\ id_bit_number > 0 /\ (id_bit_number + 1) - 1 = id_bit_number
  BY <1>1
<1> QED BY <1>2, <1>7, <1>8

LEMMA NotFoundType ==
    ASSUME OType, Searching, NotFound, UNCHANGED <<address, attached, steady>>,
           noisy' \in {"", "scan", "search", "short"}
    PROVE  OType' /\ Searching'
<1>1. Places'
  <2>1. LastDiscrepancy' = 0 /\ last_zero' = 0 /\ id_bit_number' = 0
    BY DEF NotFound
  <2> QED BY <2>1, NoPlace, Zenon DEF Places
<1>2. Wires'
  <2>1. LastDeviceFlag' = FALSE /\ scanning' = FALSE /\ talking' = {}
    BY DEF NotFound
  <2> QED BY <2>1 DEF OType, Wires
<1>3. Slots'
  <2>1. addrs' = addrs
    BY DEF NotFound
  <2> QED BY <2>1 DEF OType, Slots
<1>4. Searching'
  BY DEF Searching, NotFound
<1> QED BY <1>1, <1>2, <1>3, <1>4 DEF OType

LEMMA TypeStep == ASSUME OType, Searching, [ONext]_ovars
                  PROVE  OType' /\ Searching'
<1>1. CASE ScanBegins
  <2>1. Zero \in Address
    BY DEF Zero, Address
  <2>0. id_bit_number = 0
    BY <1>1 DEF ScanBegins, Searching
  <2>2. id_bit_number' = 0
    BY <1>1, <2>0 DEF ScanBegins, walk
  <2>3. Places'
    <3>1. LastDiscrepancy' = 0 /\ last_zero' = last_zero
      BY <1>1 DEF ScanBegins, onewire_search_reset, walk
    <3> QED BY <2>2, <3>1, BitsType DEF OType, Places
  <2>4. Wires'
    <3>1. /\ LastDeviceFlag' = FALSE /\ address' = Zero /\ attached' = attached /\ talking' = talking
          /\ scanning' = TRUE /\ steady' = TRUE /\ noisy' = ""
      BY <1>1 DEF ScanBegins, onewire_search_reset, walk
    <3> QED BY <2>1, <3>1 DEF OType, Wires
  <2>5. Slots'
    <3>1. addrs' = <<>>
      BY <1>1 DEF ScanBegins
    <3>2. <<>> \in Seq(Devices) /\ Len(<<>>) = 0
      OBVIOUS
    <3> QED BY <3>1, <3>2, BitsType DEF Slots
  <2> QED BY <2>2, <2>3, <2>4, <2>5 DEF OType, Searching
<1>2. CASE ScanFull
  <2>1. Places'
    BY <1>2 DEF ScanFull, search, walk, OType, Places
  <2>2. Wires' /\ Slots'
    BY <1>2 DEF ScanFull, search, walk, OType, Wires, Slots
  <2> QED BY <1>2, <2>1, <2>2 DEF ScanFull, search, walk, OType, Searching
<1>3. CASE SearchBegins
  <2>1. UNCHANGED <<address, attached, steady>> /\ noisy' \in {"", "scan", "search", "short"}
    BY <1>3 DEF SearchBegins, OType, Wires
  <2>2. CASE LastDeviceFlag \/ attached = {} \/ noisy = "short"
    BY <1>3, <2>1, <2>2, NotFoundType DEF SearchBegins
  <2>3. CASE ~(LastDeviceFlag \/ attached = {} \/ noisy = "short")
    <3>1. /\ id_bit_number' = 1 /\ last_zero' = 0 /\ talking' = attached /\ scanning
          /\ UNCHANGED <<LastDiscrepancy, LastDeviceFlag, scanning, addrs>>
          /\ Len(addrs) < MAX_SENSORS
      BY <1>3, <2>3 DEF SearchBegins
    <3>2. Places'
      BY <3>1, BitsType DEF OType, Places
    <3>3. Wires' /\ Slots'
      BY <2>1, <3>1 DEF OType, Wires, Slots
    <3>4. Len(addrs) # MAX_SENSORS
      BY <3>1, BitsType DEF OType, Slots
    <3> QED BY <2>3, <3>1, <3>2, <3>3, <3>4 DEF Searching, OType
  <2> QED BY <2>2, <2>3
<1>4. CASE SearchBit
  <2>1. CASE NotFound /\ UNCHANGED <<address, attached, steady>>
             /\ noisy' \in {"", "scan", "search", "short"}
    BY <2>1, NotFoundType
  <2>2. CASE \E bits \in SUBSET {0, 1} : BitTaken(bits)
    <3>1. PICK bits \in SUBSET {0, 1} : BitTaken(bits)
      BY <2>2
    <3>2. OType' /\ id_bit_number # 0
      BY <3>1, BitTakenType
    <3>3. Searching'
      BY <3>1, <3>2 DEF BitTaken, Searching
    <3> QED BY <3>2, <3>3
  <2> QED BY <1>4, <2>1, <2>2, SearchBitCases
<1>5. CASE SearchEnds
  <2>1. UNCHANGED <<address, attached, steady, noisy>>
    BY <1>5 DEF SearchEnds
  <2>2. CASE NotFound
    BY <2>1, <2>2, NotFoundType DEF OType, Wires
  <2>3. CASE ~NotFound
    <3>1. /\ LastDiscrepancy' = last_zero /\ LastDeviceFlag' = (last_zero = 0)
          /\ id_bit_number' = 0 /\ last_zero' = 0 /\ talking' = {}
          /\ addrs' = IF Known(address) THEN Append(addrs, address) ELSE addrs
          /\ UNCHANGED scanning
      BY <1>5, <2>3 DEF SearchEnds
    <3>2. Places'
      BY <3>1, BitsType DEF OType, Places
    <3>3. Wires'
      BY <2>1, <3>1 DEF OType, Wires
    <3>4. Slots'
      <4>1. id_bit_number # 0
        BY <1>5, BitsType DEF SearchEnds
      <4>2. Len(addrs) \in Nat /\ Len(addrs) + 1 <= MAX_SENSORS
        BY <4>1, BitsType DEF Searching, OType, Slots
      <4>3. CASE Known(address)
        <5>1. address \in Devices
          BY <4>3 DEF Known
        <5>2. Append(addrs, address) \in Seq(Devices) /\ Len(Append(addrs, address)) = Len(addrs) + 1
          BY <5>1 DEF OType, Slots
        <5> QED BY <3>1, <4>2, <4>3, <5>2 DEF Slots
      <4>4. CASE ~Known(address)
        BY <3>1, <4>4 DEF OType, Slots
      <4> QED BY <4>3, <4>4
    <3> QED BY <3>1, <3>2, <3>3, <3>4 DEF OType, Searching
  <2> QED BY <2>2, <2>3
<1>6. CASE \E d \in Devices : BusChange(d)
  <2>1. PICK d \in Devices : BusChange(d)
    BY <1>6
  <2>2. attached' = attached \cup {d} \/ attached' = attached \ {d}
    BY <2>1 DEF BusChange
  <2>3. IsFiniteSet(attached \cup {d}) /\ IsFiniteSet(attached \ {d})
    BY FS_AddElement, FS_RemoveElement DEF OType, Wires
  <2>4. Wires'
    BY <2>1, <2>2, <2>3 DEF BusChange, search, OType, Wires
  <2>5. Places' /\ Slots' /\ Searching'
    BY <2>1 DEF BusChange, search, OType, Places, Slots, Searching
  <2> QED BY <2>4, <2>5 DEF OType
<1>7. CASE UNCHANGED ovars
  BY <1>7 DEF ovars, search, walk, OType, Places, Wires, Slots, Searching
<1> QED BY <1>1, <1>2, <1>3, <1>4, <1>5, <1>6, <1>7 DEF ONext, ScanStep

-------------------------------------------------------------------------------
(* Disturbances. *)

LEMMA HeardStep == ASSUME OType, Searching, Heard, [ONext]_ovars
                   PROVE  Heard'
<1> SUFFICES ASSUME steady', noisy' # "short", id_bit_number' # 0
             PROVE  /\ \A d \in talking' : Agree(d, address', id_bit_number' - 1)
                    /\ talking' = {} =>
                           /\ noisy' = "search" /\ id_bit_number' # 1
                           /\ \E d \in attached' : /\ Agree(d, address', id_bit_number' - 2)
                                                   /\ d[id_bit_number' - 1] # address'[id_bit_number' - 1]
  BY DEF Heard
<1>1. CASE ScanBegins
  BY <1>1 DEF ScanBegins, walk, Searching
<1>2. CASE ScanFull
  BY <1>2 DEF ScanFull, walk
<1>3. CASE SearchBegins
  <2>1. /\ ~(LastDeviceFlag \/ attached = {} \/ noisy = "short")
        /\ id_bit_number' = 1 /\ talking' = attached
    BY <1>3 DEF SearchBegins, NotFound
  <2>2. \A d : Agree(d, address', 1 - 1)
    BY DEF Agree
  <2> QED BY <2>1, <2>2
<1>4. CASE SearchBit
  <2>1. PICK bits \in SUBSET {0, 1} : BitTaken(bits)
    BY <1>4, SearchBitCases DEF NotFound
  <2>2. /\ Direction(bits) \in bits /\ Direction(bits) \in {0, 1}
        /\ id_bit_number \in Nat /\ id_bit_number > 0 /\ (id_bit_number + 1) - 1 = id_bit_number
    BY <2>1, BitTakenType
  <2>3. /\ id_bit_number \in 1 .. Bits /\ bits # {} /\ id_bit_number # 0 /\ id_bit_number + 1 # 1
        /\ (id_bit_number + 1) - 2 = id_bit_number - 1 /\ id_bit_number - 1 \in 0 .. id_bit_number - 1
    BY <2>1, <2>2 DEF BitTaken
  <2>4. /\ IsSet(address', address, id_bit_number, Direction(bits))
        /\ talking' = {d \in talking : d[id_bit_number] = Direction(bits)}
        /\ id_bit_number' = id_bit_number + 1 /\ attached' = attached /\ steady
    BY <2>1 DEF BitTaken
  <2>5. noisy # "short"
    BY <2>1 DEF BitTaken
  <2>6. /\ \A d \in talking : Agree(d, address, id_bit_number - 1)
        /\ talking = {} => noisy = "search"
    BY <2>3, <2>4, <2>5 DEF Heard
  <2>7. address \in Address /\ \A d \in talking : d \in Address /\ d \in attached
    BY DeviceType DEF OType, Wires
  <2>8. /\ \A d \in talking : Agree(d, address', id_bit_number - 1)
        /\ \A d \in talking' : Agree(d, address', id_bit_number)
    BY <2>2, <2>3, <2>4, <2>6, <2>7, SetKept
  <2>9. ASSUME talking' = {}
        PROVE  /\ noisy' = "search"
               /\ \E d \in attached : d[id_bit_number] # address'[id_bit_number]
                                      /\ Agree(d, address', id_bit_number - 1)
    <3>1. talking # {}
      BY <2>1, <2>3, <2>6, SentType DEF BitTaken
    <3>2. bits # Sent
      BY <2>2, <2>3, <2>4, <2>9, SentType
    <3>3. noisy' = "search"
      BY <2>1, <2>5, <3>2 DEF BitTaken
    <3>4. address'[id_bit_number] = Direction(bits)
      BY <2>2, <2>3, <2>4, <2>7, AddressSet
    <3>5. PICK d \in talking : d[id_bit_number] # Direction(bits)
      BY <2>4, <2>9, <3>1
    <3> QED BY <2>7, <2>8, <3>3, <3>4, <3>5
  <2> QED BY <2>2, <2>3, <2>4, <2>8, <2>9
<1>5. CASE SearchEnds
  BY <1>5 DEF SearchEnds, NotFound
<1>6. CASE \E d \in Devices : BusChange(d)
  BY <1>6 DEF BusChange
<1>7. CASE UNCHANGED ovars
  BY <1>7 DEF ovars, search, walk, Heard
<1> QED BY <1>1, <1>2, <1>3, <1>4, <1>5, <1>6, <1>7 DEF ONext, ScanStep

LEMMA OnlyThereStep == ASSUME OType, Searching, Heard, OnlyThere, [ONext]_ovars
                       PROVE  OnlyThere'
<1> SUFFICES ASSUME steady', noisy' # "short" PROVE ToSet(addrs') \subseteq attached'
  BY DEF OnlyThere
<1>0. ASSUME addrs' = addrs, attached' = attached, steady, noisy # "short"
      PROVE  ToSet(addrs') \subseteq attached'
  BY <1>0 DEF OnlyThere
<1>1. CASE ScanBegins
  BY <1>1, SlotsEmpty DEF ScanBegins
<1>2. CASE ScanFull
  BY <1>0, <1>2 DEF ScanFull
<1>3. CASE SearchBegins
  BY <1>0, <1>3 DEF SearchBegins, NotFound
<1>4. CASE SearchBit
  <2>1. noisy # "short" /\ attached' = attached /\ steady
    BY <1>4 DEF SearchBit
  <2>2. addrs' = addrs
    BY <1>4 DEF SearchBit, NotFound
  <2> QED BY <1>0, <2>1, <2>2
<1>5. CASE SearchEnds
  <2>1. /\ attached' = attached /\ steady /\ noisy # "short"
        /\ addrs' = addrs \/ (Known(address) /\ addrs' = Append(addrs, address))
    BY <1>5 DEF SearchEnds, NotFound
  <2>2. CASE Known(address) /\ addrs' = Append(addrs, address)
    <3>1. /\ id_bit_number = Bits + 1 /\ id_bit_number # 0 /\ (Bits + 1) - 1 = Bits /\ (Bits + 1) - 2 = Bits - 1
      BY <1>5, BitsType DEF SearchEnds, OType, Places
    <3>2. address \in Devices /\ address \in Address
      BY <2>2, DeviceType DEF Known
    <3>3. address \in attached
      <4>1. CASE talking = {}
        <5>1. PICK d \in attached : Agree(d, address, Bits - 1) /\ d[Bits] # address[Bits]
          BY <2>1, <3>1, <4>1 DEF Heard
        <5>2. d \in Devices
          BY DEF OType, Wires
        <5> QED BY <3>2, <5>1, <5>2, OneBitApart
      <4>2. CASE talking # {}
        <5>1. PICK d \in talking : Agree(d, address, Bits)
          BY <2>1, <3>1, <4>2 DEF Heard
        <5>2. d \in attached /\ d \in Address
          BY DeviceType DEF OType, Wires
        <5> QED BY <3>2, <5>1, <5>2, SameAddress
      <4> QED BY <4>1, <4>2
    <3>4. ToSet(addrs') = ToSet(addrs) \cup {address}
      BY <2>2, <3>2, SlotsAppend DEF OType, Slots
    <3> QED BY <2>1, <3>3, <3>4 DEF OnlyThere
  <2> QED BY <1>0, <2>1, <2>2
<1>6. CASE \E d \in Devices : BusChange(d)
  BY <1>6 DEF BusChange
<1>7. CASE UNCHANGED ovars
  BY <1>0, <1>7 DEF ovars
<1> QED BY <1>1, <1>2, <1>3, <1>4, <1>5, <1>6, <1>7 DEF ONext, ScanStep

-------------------------------------------------------------------------------
(* The search of a bus that is left alone. *)

LEMMA FreshWalk ==
    ASSUME OType, attached # {}, id_bit_number' = 1, last_zero' = 0, talking' = attached,
           UNCHANGED <<address, attached>>
    PROVE  Walking' /\ \A d : ~Passed(d, address', id_bit_number')
<1>1. \A d : Agree(d, address', 1 - 1) /\ ~Passed(d, address', 1)
  BY DEF Agree, Passed
<1>2. 0 < 1 /\ ~(0 > 0)
  OBVIOUS
<1> QED BY <1>1, <1>2 DEF Walking

(* Everybody is where Walking says after one more bit. *)
LEMMA WalkStep ==
    ASSUME OType, Walking, NEW bits \in SUBSET {0, 1}, BitTaken(bits), bits = Sent
    PROVE  Walking'
<1>1. /\ Direction(bits) \in bits /\ Direction(bits) \in {0, 1}
      /\ bits = {0, 1} \/ \A v \in bits : v = Direction(bits)
      /\ id_bit_number \in Nat /\ id_bit_number > 0 /\ (id_bit_number + 1) - 1 = id_bit_number
  BY BitTakenType
<1>2. /\ id_bit_number \in 1 .. Bits /\ bits # {}
      /\ IsSet(address', address, id_bit_number, Direction(bits))
      /\ talking' = {d \in talking : d[id_bit_number] = Direction(bits)}
      /\ last_zero' = LastZero(bits)
      /\ id_bit_number' = id_bit_number + 1 /\ attached' = attached
  BY DEF BitTaken
<1>3. address \in Address /\ \A d \in attached : d \in Address
  BY DeviceType DEF OType, Wires
<1>4. \A d \in attached :
        /\ Agree(d, address', id_bit_number) <=>
              Agree(d, address, id_bit_number - 1) /\ d[id_bit_number] = Direction(bits)
        /\ \A m \in 1 .. id_bit_number - 1 : Under(address', d, m) <=> Under(address, d, m)
        /\ Under(address', d, id_bit_number) <=>
              Direction(bits) = 0 /\ d[id_bit_number] = 1 /\ Agree(d, address, id_bit_number - 1)
  BY <1>1, <1>2, <1>3, SetKept
<1>5. \A d \in attached :
        /\ Passed(d, address', id_bit_number + 1) <=>
              Passed(d, address, id_bit_number)
                \/ (d[id_bit_number] = 0 /\ Direction(bits) = 1 /\ Agree(d, address, id_bit_number - 1))
        /\ \A n \in 0 .. id_bit_number - 1 : TurnsOff(d, address', n) <=> TurnsOff(d, address, n)
        /\ Direction(bits) = 0 /\ d[id_bit_number] = 1 /\ Agree(d, address, id_bit_number - 1)
              => TurnsOff(d, address', id_bit_number)
        /\ \A n \in 0 .. id_bit_number - 1 : TurnsOff(d, address, n) => TurnsOff(d, address', id_bit_number)
  BY <1>1, <1>2, <1>3, PassedSet
<1>6. /\ talking = {d \in attached : Agree(d, address, id_bit_number - 1)}
      /\ \A d \in attached :
             d \in talking \/ Passed(d, address, id_bit_number) \/ TurnsOff(d, address, last_zero)
      /\ last_zero < id_bit_number
      /\ last_zero > 0 => \E d \in attached : Under(address, d, last_zero)
  BY DEF Walking
<1>7. last_zero \in 0 .. id_bit_number - 1
  BY <1>1, <1>6 DEF OType, Places
<1>8. PICK z \in 0 .. id_bit_number : z = LastZero(bits)
  BY <1>1, <1>7 DEF LastZero
<1>9. talking' # {} /\ talking' = {d \in attached : Agree(d, address', id_bit_number)}
  <2>1. talking' = {d \in attached : Agree(d, address', id_bit_number)}
    BY <1>2, <1>4, <1>6
  <2>2. \E d \in talking : d[id_bit_number] = Direction(bits)
    BY <1>1, <1>2, SentType
  <2> QED BY <1>2, <2>1, <2>2
<1>10. \A d \in talking : d[id_bit_number] \in bits
  BY <1>2, SentType
<1>11. \A d \in attached : d \in talking' \/ Passed(d, address', id_bit_number + 1) \/ TurnsOff(d, address', z)
  <2> SUFFICES ASSUME NEW d \in attached, d \notin talking', ~Passed(d, address', id_bit_number + 1)
               PROVE  TurnsOff(d, address', z)
    OBVIOUS
  <2>1. CASE d \in talking
    <3>1. d[id_bit_number] \in bits /\ d[id_bit_number] # Direction(bits) /\ Agree(d, address, id_bit_number - 1)
      BY <1>2, <1>6, <1>10, <2>1
    <3>2. bits = {0, 1}
      BY <1>1, <3>1
    <3>3. Direction(bits) = 0 /\ d[id_bit_number] = 1
      BY <1>1, <1>5, <3>1, <3>2
    <3>4. z = id_bit_number
      BY <1>8, <3>2, <3>3 DEF LastZero
    <3> QED BY <1>5, <3>1, <3>3, <3>4
  <2>2. CASE TurnsOff(d, address, last_zero)
    <3>1. z = id_bit_number \/ z = last_zero
      BY <1>8 DEF LastZero
    <3> QED BY <1>5, <1>7, <2>2, <3>1
  <2> QED BY <1>5, <1>6, <2>1, <2>2
<1>12. z > 0 => \E d \in attached : Under(address', d, z)
  <2>1. CASE bits = {0, 1} /\ Direction(bits) = 0
    <3>1. z = id_bit_number
      BY <1>8, <2>1 DEF LastZero
    <3>2. PICK d \in talking : d[id_bit_number] = 1
      BY <1>2, <2>1, SentType
    <3> QED BY <1>4, <1>6, <2>1, <3>1, <3>2
  <2>2. CASE ~(bits = {0, 1} /\ Direction(bits) = 0)
    <3>1. z = last_zero
      BY <1>8, <2>2 DEF LastZero
    <3>2. last_zero > 0 => last_zero \in 1 .. id_bit_number - 1
      BY <1>7
    <3> QED BY <1>4, <1>6, <3>1, <3>2
  <2> QED BY <2>1, <2>2
<1>13. z < id_bit_number + 1
  BY <1>1, <1>8
<1> QED BY <1>1, <1>2, <1>8, <1>9, <1>11, <1>12, <1>13 DEF Walking

(* Before it turns off, the search walks along the address returned last.  *)
LEMMA SameWay ==
    ASSUME OType, Walking, Between, NEW bits \in SUBSET {0, 1}, BitTaken(bits), bits = Sent,
           id_bit_number < LastDiscrepancy
    PROVE  address' = address
<1>1. /\ Direction(bits) \in bits
      /\ bits = {0, 1} \/ \A v \in bits : v = Direction(bits)
  BY BitTakenType
<1>2. id_bit_number \in 1 .. Bits /\ IsSet(address', address, id_bit_number, Direction(bits))
  BY DEF BitTaken
<1>3. address \in Address /\ address \in talking
  <2>1. Agree(address, address, id_bit_number - 1)
    BY DEF Agree
  <2> QED BY <2>1 DEF OType, Wires, Walking, Between
<1>4. address[id_bit_number] \in bits
  BY <1>2, <1>3, SentType
<1>5. Direction(bits) = address[id_bit_number]
  <2>1. CASE bits = {0, 1}
    BY <2>1 DEF Direction
  <2>2. CASE bits # {0, 1}
    BY <1>1, <1>4, <2>2
  <2> QED BY <2>1, <2>2
<1> QED BY <1>2, <1>3, <1>5 DEF IsSet, Address

(* Where it turns off it has passed the devices returned. *)
LEMMA TurnsHere ==
    ASSUME OType, Walking, Between, NEW bits \in SUBSET {0, 1}, BitTaken(bits), bits = Sent,
           id_bit_number = LastDiscrepancy
    PROVE  \A d \in attached : Reached(d, address) <=> Passed(d, address', id_bit_number + 1)
<1>1. id_bit_number \in 1 .. Bits /\ IsSet(address', address, id_bit_number, Direction(bits))
  BY DEF BitTaken
<1>2. address \in Address /\ \A d \in attached : d \in Address
  BY DeviceType DEF OType, Wires
<1>3. PICK e \in attached : Under(address, e, id_bit_number)
  BY <1>1, BitsType DEF Between
<1>4. /\ address[id_bit_number] = 0 /\ e[id_bit_number] = 1 /\ Agree(address, e, id_bit_number - 1)
  BY <1>3 DEF Under
<1>5. address \in talking /\ e \in talking
  <2>1. Agree(address, address, id_bit_number - 1) /\ Agree(e, address, id_bit_number - 1)
    BY <1>4 DEF Agree
  <2> QED BY <2>1 DEF Walking, Between
<1>6. 0 \in bits /\ 1 \in bits
  BY <1>1, <1>4, <1>5, SentType
<1>7. bits = {0, 1}
  BY <1>6
<1>8. Direction(bits) = 1
  BY <1>1, <1>7, BitsType DEF Direction
<1>9. \A d \in attached : Reached(d, address) \/ TurnsOff(d, address, id_bit_number)
  BY DEF Between
<1> QED BY <1>1, <1>2, <1>4, <1>8, <1>9, TurnOff

(* After that it passes nobody who is still there. *)
LEMMA PassesNobody ==
    ASSUME OType, Walking, NEW bits \in SUBSET {0, 1}, BitTaken(bits), bits = Sent,
           id_bit_number > LastDiscrepancy
    PROVE  \A d \in attached : Passed(d, address', id_bit_number + 1) <=> Passed(d, address, id_bit_number)
<1>1. /\ Direction(bits) \in bits /\ Direction(bits) \in {0, 1}
      /\ bits = {0, 1} \/ \A v \in bits : v = Direction(bits)
  BY BitTakenType
<1>2. id_bit_number \in 1 .. Bits /\ IsSet(address', address, id_bit_number, Direction(bits))
  BY DEF BitTaken
<1>3. address \in Address /\ \A d \in attached : d \in Address
  BY DeviceType DEF OType, Wires
<1>4. \A d \in attached :
        Passed(d, address', id_bit_number + 1) <=>
          Passed(d, address, id_bit_number)
            \/ (d[id_bit_number] = 0 /\ Direction(bits) = 1 /\ Agree(d, address, id_bit_number - 1))
  BY <1>1, <1>2, <1>3, PassedSet
<1>5. ASSUME NEW d \in attached, d[id_bit_number] = 0, Direction(bits) = 1,
             Agree(d, address, id_bit_number - 1)
      PROVE  FALSE
  <2>1. d \in talking
    BY <1>5 DEF Walking
  <2>2. 0 \in bits
    BY <1>2, <1>5, <2>1, SentType
  <2>3. bits = {0, 1}
    BY <1>1, <1>5, <2>2
  <2>4. ~(id_bit_number < LastDiscrepancy) /\ id_bit_number # LastDiscrepancy
    BY <1>2, BitsType DEF OType, Places
  <2>5. Direction(bits) = 0
    BY <2>3, <2>4 DEF Direction
  <2> QED BY <1>5, <2>5
<1> QED BY <1>4, <1>5

(* A search that ends has come to a device, and the ones passed are those  *)
(* that were returned before.                                              *)
LEMMA SearchEnded ==
    ASSUME OType, Searching, Tree, Quiet, SearchEnds
    PROVE  /\ ~NoFamily(address) /\ address \in attached /\ scanning /\ scanning'
           /\ \A d \in attached : Reached(d, address) \/ TurnsOff(d, address, last_zero)
           /\ last_zero > 0 => \E d \in attached : Under(address, d, last_zero)
           /\ ToSet(addrs) = {d \in attached : Known(d) /\ Passed(d, address, Bits + 1)}
           /\ LastDiscrepancy' = last_zero /\ LastDeviceFlag' = (last_zero = 0)
           /\ id_bit_number' = 0 /\ address' = address /\ attached' = attached
           /\ addrs' = IF Known(address) THEN Append(addrs, address) ELSE addrs
<1>1. id_bit_number = Bits + 1 /\ id_bit_number # 0 /\ (Bits + 1) - 1 = Bits
  BY BitsType DEF SearchEnds, OType, Places
<1>2. scanning /\ Walking
  BY <1>1 DEF Searching, Tree
<1>3. Bits + 1 > LastDiscrepancy
  BY BitsType DEF OType, Places
<1>4. ToSet(addrs) = {d \in attached : Known(d) /\ Passed(d, address, Bits + 1)}
  BY <1>1, <1>2, <1>3 DEF Tree
<1>5. /\ talking # {} /\ talking = {d \in attached : Agree(d, address, Bits)}
      /\ \A d \in attached :
             d \in talking \/ Passed(d, address, Bits + 1) \/ TurnsOff(d, address, last_zero)
      /\ last_zero > 0 => \E d \in attached : Under(address, d, last_zero)
  BY <1>1, <1>2 DEF Walking
<1>6. address \in Address /\ \A d \in attached : d \in Address /\ ~NoFamily(d)
  BY DeviceType DEF OType, Wires
<1>7. \A d \in talking : d = address
  BY <1>5, <1>6, SameAddress
<1>8. address \in attached /\ ~NoFamily(address)
  BY <1>5, <1>6, <1>7
<1>9. \A d \in attached : Reached(d, address) \/ TurnsOff(d, address, last_zero)
  BY <1>5, <1>7 DEF Reached
<1>10. /\ LastDiscrepancy' = last_zero /\ LastDeviceFlag' = (last_zero = 0)
       /\ id_bit_number' = 0 /\ address' = address /\ attached' = attached /\ scanning' = scanning
       /\ addrs' = IF Known(address) THEN Append(addrs, address) ELSE addrs
  BY <1>8 DEF SearchEnds
<1> QED BY <1>2, <1>4, <1>5, <1>8, <1>9, <1>10

LEMMA QuietBit ==
    ASSUME NEW bits \in SUBSET {0, 1}, BitTaken(bits), Quiet'
    PROVE  Quiet /\ bits = Sent
BY DEF BitTaken, Quiet

LEMMA TreeStep == ASSUME OType, Searching, Tree, [ONext]_ovars
                  PROVE  Tree'
<1> SUFFICES ASSUME Quiet', scanning'
             PROVE  /\ id_bit_number' # 0 => Walking'
                    /\ ~Fresh' /\ id_bit_number' <= LastDiscrepancy' => Between'
                    /\ id_bit_number' = 0 /\ Fresh' => addrs' = <<>>
                    /\ id_bit_number' > LastDiscrepancy' =>
                           ToSet(addrs') = {d \in attached' : Known(d) /\ Passed(d, address', id_bit_number')}
  BY DEF Tree
<1>1. CASE ScanBegins
  <2>1. id_bit_number' = 0 /\ LastDiscrepancy' = 0 /\ LastDeviceFlag' = FALSE /\ addrs' = <<>>
    BY <1>1 DEF ScanBegins, onewire_search_reset, walk, Searching
  <2> QED BY <2>1 DEF Fresh
<1>2. CASE ScanFull
  BY <1>2 DEF ScanFull
<1>3. CASE SearchBegins
  <2>1. /\ ~(LastDeviceFlag \/ attached = {} \/ noisy = "short")
        /\ id_bit_number' = 1 /\ last_zero' = 0 /\ talking' = attached
        /\ UNCHANGED <<LastDiscrepancy, LastDeviceFlag, addrs, address, attached>>
        /\ scanning /\ id_bit_number = 0 /\ Quiet
    BY <1>3 DEF SearchBegins, NotFound, Quiet
  <2>2. Walking' /\ \A d : ~Passed(d, address', id_bit_number')
    BY <2>1, FreshWalk
  <2>3. CASE Fresh
    <3>1. addrs' = <<>> /\ Fresh'
      BY <2>1, <2>3 DEF Tree, Fresh
    <3> QED BY <2>1, <2>2, <3>1, SlotsEmpty
  <2>4. CASE ~Fresh
    <3>1. LastDiscrepancy # 0
      BY <2>1, <2>4 DEF Fresh
    <3>2. id_bit_number <= LastDiscrepancy /\ ~(1 > LastDiscrepancy)
      BY <2>1, <3>1 DEF OType, Places
    <3>3. Between'
      BY <2>1, <2>4, <3>2 DEF Tree, Between
    <3> QED BY <2>1, <2>2, <3>2, <3>3
  <2> QED BY <2>3, <2>4
<1>4. CASE SearchBit
  <2>1. PICK bits \in SUBSET {0, 1} : BitTaken(bits)
    BY <1>4, SearchBitCases DEF NotFound
  <2>2. Quiet /\ bits = Sent
    BY <2>1, QuietBit
  <2>3. /\ id_bit_number' = id_bit_number + 1
        /\ UNCHANGED <<LastDiscrepancy, LastDeviceFlag, scanning, addrs, attached>>
    BY <2>1 DEF BitTaken
  <2>4. id_bit_number \in Nat /\ id_bit_number # 0 /\ id_bit_number + 1 # 0 /\ LastDiscrepancy \in Nat
    BY <2>1, BitTakenType, BitsType DEF OType, Places
  <2>5. Walking /\ scanning /\ ~LastDeviceFlag
    BY <2>2, <2>4 DEF Tree, Searching
  <2>6. Walking'
    BY <2>1, <2>2, <2>5, WalkStep
  <2>7. ASSUME ~Fresh', id_bit_number + 1 <= LastDiscrepancy PROVE Between'
    <3>1. id_bit_number < LastDiscrepancy /\ id_bit_number <= LastDiscrepancy /\ ~Fresh
      BY <2>3, <2>4, <2>7 DEF Fresh
    <3>2. Between
      BY <2>2, <2>5, <3>1 DEF Tree
    <3>3. address' = address
      BY <2>1, <2>2, <2>5, <3>1, <3>2, SameWay
    <3> QED BY <2>3, <3>2, <3>3 DEF Between
  <2>8. ASSUME id_bit_number + 1 > LastDiscrepancy
        PROVE  ToSet(addrs) = {d \in attached : Known(d) /\ Passed(d, address', id_bit_number + 1)}
    <3>1. CASE id_bit_number = LastDiscrepancy
      <4>1. ~Fresh /\ id_bit_number <= LastDiscrepancy
        BY <2>4, <3>1 DEF Fresh
      <4>2. Between
        BY <2>2, <2>5, <4>1 DEF Tree
      <4>3. \A d \in attached : Reached(d, address) <=> Passed(d, address', id_bit_number + 1)
        BY <2>1, <2>2, <2>5, <3>1, <4>2, TurnsHere
      <4> QED BY <4>2, <4>3 DEF Between
    <3>2. CASE id_bit_number > LastDiscrepancy
      <4>1. \A d \in attached : Passed(d, address', id_bit_number + 1) <=> Passed(d, address, id_bit_number)
        BY <2>1, <2>2, <2>5, <3>2, PassesNobody
      <4> QED BY <2>2, <2>5, <3>2, <4>1 DEF Tree
    <3> QED BY <2>4, <2>8, <3>1, <3>2
  <2> QED BY <2>3, <2>4, <2>6, <2>7, <2>8
<1>5. CASE SearchEnds
  <2>0. Quiet
    BY <1>5 DEF SearchEnds, Quiet
  <2>1. /\ address \in attached
        /\ \A d \in attached : Reached(d, address) \/ TurnsOff(d, address, last_zero)
        /\ last_zero > 0 => \E d \in attached : Under(address, d, last_zero)
        /\ ToSet(addrs) = {d \in attached : Known(d) /\ Passed(d, address, Bits + 1)}
        /\ LastDiscrepancy' = last_zero /\ LastDeviceFlag' = (last_zero = 0)
        /\ id_bit_number' = 0 /\ address' = address /\ attached' = attached
        /\ addrs' = IF Known(address) THEN Append(addrs, address) ELSE addrs
    BY <1>5, <2>0, SearchEnded
  <2>2. ToSet(addrs') = {d \in attached : Known(d) /\ Reached(d, address)}
    <3>1. CASE Known(address)
      <4>1. ToSet(Append(addrs, address)) = ToSet(addrs) \cup {address}
        <5>1. addrs \in Seq(Devices) /\ address \in Devices
          BY <3>1 DEF OType, Slots, Known
        <5> QED BY <5>1, SlotsAppend
      <4> QED BY <2>1, <3>1, <4>1 DEF Reached
    <3>2. CASE ~Known(address)
      BY <2>1, <3>2 DEF Reached
    <3> QED BY <3>1, <3>2
  <2>3. Between'
    BY <2>1, <2>2 DEF Between
  <2>4. ~Fresh'
    BY <2>1 DEF Fresh
  <2>5. ~(0 > last_zero)
    BY BitsType DEF OType, Places
  <2> QED BY <2>1, <2>3, <2>4, <2>5
<1>6. CASE \E d \in Devices : BusChange(d)
  BY <1>6 DEF BusChange, Quiet
<1>7. CASE UNCHANGED ovars
  BY <1>7 DEF ovars, search, walk, Tree, Quiet, Walking, Fresh, Between
<1> QED BY <1>1, <1>2, <1>3, <1>4, <1>5, <1>6, <1>7 DEF ONext, ScanStep

LEMMA SortedStep == ASSUME OType, Searching, Tree, Sorted, [ONext]_ovars
                    PROVE  Sorted'
<1> SUFFICES ASSUME Quiet' PROVE \A i, j \in 1 .. Len(addrs') : i < j => Before(addrs'[i], addrs'[j])
  BY DEF Sorted
<1>0. ASSUME addrs' = addrs, Quiet
      PROVE  \A i, j \in 1 .. Len(addrs') : i < j => Before(addrs'[i], addrs'[j])
  BY <1>0 DEF Sorted
<1>1. CASE ScanBegins
  <2>1. addrs' = <<>>
    BY <1>1 DEF ScanBegins
  <2>2. 1 .. Len(<<>>) = {}
    OBVIOUS
  <2> QED BY <2>1, <2>2
<1>2. CASE ScanFull
  BY <1>0, <1>2 DEF ScanFull, Quiet
<1>3. CASE SearchBegins
  BY <1>0, <1>3 DEF SearchBegins, NotFound, Quiet
<1>4. CASE SearchBit
  <2>1. CASE NotFound /\ UNCHANGED <<address, attached, steady>> /\ (noisy' = "" => noisy = "")
    <3>1. addrs' = addrs /\ Quiet
      BY <2>1 DEF NotFound, Quiet
    <3> QED BY <1>0, <3>1
  <2>2. CASE \E bits \in SUBSET {0, 1} : BitTaken(bits)
    BY <1>0, <2>2, QuietBit DEF BitTaken
  <2> QED BY <1>4, <2>1, <2>2, SearchBitCases
<1>5. CASE SearchEnds
  <2>0. Quiet
    BY <1>5 DEF SearchEnds, Quiet
  <2>1. /\ address \in attached
        /\ ToSet(addrs) = {d \in attached : Known(d) /\ Passed(d, address, Bits + 1)}
        /\ addrs' = IF Known(address) THEN Append(addrs, address) ELSE addrs
    BY <1>5, <2>0, SearchEnded
  <2>2. CASE ~Known(address)
    BY <1>0, <2>0, <2>1, <2>2
  <2>3. CASE Known(address)
    <3>1. /\ addrs \in Seq(Devices) /\ address \in Devices /\ Len(addrs) \in Nat
          /\ DOMAIN addrs = 1 .. Len(addrs)
      BY <2>3 DEF OType, Slots, Known
    <3>2. /\ Len(addrs') = Len(addrs) + 1
          /\ \A i \in 1 .. Len(addrs) : addrs'[i] = addrs[i]
          /\ addrs'[Len(addrs) + 1] = address
      BY <2>1, <2>3, <3>1
    <3>3. ASSUME NEW i \in 1 .. Len(addrs) PROVE Before(addrs[i], address)
      <4>1. addrs[i] \in ToSet(addrs)
        BY <3>1 DEF ToSet
      <4>2. addrs[i] \in attached /\ Passed(addrs[i], address, Bits + 1)
        BY <2>1, <4>1
      <4>3. PICK m \in 1 .. (Bits + 1) - 1 : Under(addrs[i], address, m)
        BY <4>2 DEF Passed
      <4>4. m \in 1 .. Bits
        BY BitsType
      <4>5. addrs[i] \in Address /\ address \in Address
        BY <4>2, DeviceType DEF OType, Wires
      <4> QED BY <4>3, <4>4, <4>5, UnderBefore
    <3>4. ASSUME NEW i \in 1 .. Len(addrs) + 1, NEW j \in 1 .. Len(addrs) + 1, i < j
          PROVE  Before(addrs'[i], addrs'[j])
      <4>1. i \in 1 .. Len(addrs) /\ (j \in 1 .. Len(addrs) \/ j = Len(addrs) + 1)
        BY <3>1, <3>4
      <4>2. CASE j \in 1 .. Len(addrs)
        BY <2>0, <3>2, <3>4, <4>1, <4>2 DEF Sorted
      <4>3. CASE j = Len(addrs) + 1
        BY <3>2, <3>3, <4>1, <4>3
      <4> QED BY <4>1, <4>2, <4>3
    <3> QED BY <3>2, <3>4
  <2> QED BY <2>2, <2>3
<1>6. CASE \E d \in Devices : BusChange(d)
  BY <1>6 DEF BusChange, Quiet
<1>7. CASE UNCHANGED ovars
  BY <1>0, <1>7 DEF ovars, Quiet
<1> QED BY <1>1, <1>2, <1>3, <1>4, <1>5, <1>6, <1>7 DEF ONext, ScanStep

(* The known devices; and the slots, when the last one or the last device  *)
(* has been found.                                                         *)
Wanted == {d \in attached : Known(d)}

LEMMA AllFound ==
    ASSUME OType, Tree, Sorted, Quiet, scanning, id_bit_number = 0,
           Len(addrs) = MAX_SENSORS \/ LastDeviceFlag \/ attached = {}
    PROVE  FirstOf(addrs, Wanted, MAX_SENSORS)
<1>1. IsFiniteSet(Wanted)
  BY FS_Subset DEF Wanted, OType, Wires
<1>2. addrs \in Seq(Devices) /\ Len(addrs) <= MAX_SENSORS
  BY DEF OType, Slots
<1>3. \A i, j \in 1 .. Len(addrs) : i < j => Before(addrs[i], addrs[j])
  BY DEF Sorted
<1>4. CASE Fresh
  <2>1. addrs = <<>>
    BY <1>4 DEF Tree
  <2>2. Len(addrs) # MAX_SENSORS
    <3>1. Len(<<>>) = 0
      OBVIOUS
    <3> QED BY <2>1, <3>1, BitsType
  <2>3. attached = {}
    BY <1>4, <2>2 DEF Fresh
  <2>4. ToSet(addrs) = {} /\ Wanted = {}
    BY <2>1, <2>3, SlotsEmpty DEF Wanted
  <2> QED BY <1>1, <1>2, <1>3, <2>4, ScanDone
<1>5. CASE ~Fresh
  <2>1. 0 <= LastDiscrepancy /\ LastDiscrepancy \in 0 .. Bits
    BY BitsType DEF OType, Places
  <2>2. Between
    BY <1>5, <2>1 DEF Tree
  <2>3. ToSet(addrs) = {d \in attached : Known(d) /\ Reached(d, address)}
    BY <2>2 DEF Between
  <2>4. ToSet(addrs) \subseteq Wanted
    BY <2>3 DEF Wanted
  <2>5. \A d \in attached : Reached(d, address) \/ TurnsOff(d, address, LastDiscrepancy)
    BY <2>2 DEF Between
  <2>6. LastDeviceFlag => ToSet(addrs) = Wanted
    <3>1. LastDeviceFlag => LastDiscrepancy = 0
      BY <2>2 DEF Between
    <3>2. \A d : ~TurnsOff(d, address, 0)
      BY DEF TurnsOff
    <3> QED BY <2>3, <2>5, <3>1, <3>2 DEF Wanted
  <2>7. attached # {}
    BY <2>2 DEF Between
  <2>8. ASSUME NEW d \in Wanted \ ToSet(addrs), NEW e \in ToSet(addrs) PROVE Before(e, d)
    <3>1. Reached(e, address) /\ e \in attached /\ d \in attached /\ TurnsOff(d, address, LastDiscrepancy)
      BY <2>3, <2>5 DEF Wanted
    <3>2. address \in Address /\ e \in Address /\ d \in Address
      BY <3>1, DeviceType DEF OType, Wires
    <3> QED BY <2>1, <3>1, <3>2, ReachedBefore
  <2>9. ToSet(addrs) = Wanted \/ Len(addrs) = MAX_SENSORS
    BY <2>6, <2>7
  <2> QED BY <1>1, <1>2, <1>3, <2>4, <2>8, <2>9, ScanDone
<1> QED BY <1>4, <1>5

LEMMA CompleteStep == ASSUME OType, Searching, Tree, Sorted, ScanComplete, [ONext]_ovars
                      PROVE  ScanComplete'
<1> SUFFICES ASSUME Quiet', ~scanning' PROVE FirstOf(addrs', Wanted', MAX_SENSORS)
  BY DEF ScanComplete, Quiet, Wanted
<1>1. CASE ScanBegins
  BY <1>1 DEF ScanBegins
<1>2. CASE ScanFull
  <2>1. /\ Quiet /\ scanning /\ id_bit_number = 0 /\ Len(addrs) = MAX_SENSORS
        /\ addrs' = addrs /\ attached' = attached
    BY <1>2 DEF ScanFull, Quiet
  <2>2. FirstOf(addrs, Wanted, MAX_SENSORS)
    BY <2>1, AllFound
  <2> QED BY <2>1, <2>2 DEF Wanted
<1>3. CASE SearchBegins
  <2>1. /\ Quiet /\ scanning /\ id_bit_number = 0 /\ (LastDeviceFlag \/ attached = {})
        /\ addrs' = addrs /\ attached' = attached
    BY <1>3 DEF SearchBegins, NotFound, Quiet
  <2>2. FirstOf(addrs, Wanted, MAX_SENSORS)
    BY <2>1, AllFound
  <2> QED BY <2>1, <2>2 DEF Wanted
<1>4. CASE SearchBit
  <2>1. id_bit_number # 0
    BY <1>4, BitsType DEF SearchBit
  <2>2. scanning
    BY <2>1 DEF Searching
  <2>3. CASE NotFound
    <3>1. Quiet /\ talking = {}
      <4>1. ~(\E bits \in SUBSET {0, 1} : BitTaken(bits))
        BY <2>2, <2>3 DEF NotFound, BitTaken
      <4> QED BY <1>4, <4>1, SearchBitCases DEF SearchBit, Quiet
    <3>2. Walking
      BY <2>1, <2>2, <3>1 DEF Tree
    <3> QED BY <3>1, <3>2 DEF Walking, Quiet
  <2>4. CASE ~NotFound
    BY <1>4, <2>2, <2>4 DEF SearchBit
  <2> QED BY <2>3, <2>4
<1>5. CASE SearchEnds
  <2>1. Quiet
    BY <1>5 DEF SearchEnds, Quiet
  <2> QED BY <1>5, <2>1, SearchEnded
<1>6. CASE \E d \in Devices : BusChange(d)
  BY <1>6 DEF BusChange, Quiet
<1>7. CASE UNCHANGED ovars
  BY <1>7 DEF ovars, Quiet, ScanComplete, Wanted
<1> QED BY <1>1, <1>2, <1>3, <1>4, <1>5, <1>6, <1>7 DEF ONext, ScanStep

LEMMA SearchAlways == OSpec => []OInv
<1>1. OInit => OInv
  <2> SUFFICES ASSUME OInit PROVE OInv
    OBVIOUS
  <2>1. Places
    BY NoPlace DEF OInit, Places
  <2>2. Wires
    <3>1. Zero \in Address
      BY DEF Zero, Address
    <3> QED BY <3>1, FS_EmptySet DEF OInit, Wires
  <2>3. Slots
    <3>1. <<>> \in Seq(Devices) /\ Len(<<>>) <= MAX_SENSORS
      BY BitsType
    <3> QED BY <3>1, Zenon DEF OInit, Slots
  <2>4. Searching /\ Heard /\ Tree /\ Sorted /\ ScanComplete /\ OnlyThere
    BY DEF OInit, Searching, Heard, Tree, Sorted, Quiet, ScanComplete, OnlyThere
  <2> QED BY <2>1, <2>2, <2>3, <2>4 DEF OInv, OType
<1>2. OInv /\ [ONext]_ovars => OInv'
  BY TypeStep, HeardStep, OnlyThereStep, TreeStep, SortedStep, CompleteStep DEF OInv
<1> QED BY <1>1, <1>2, PTL DEF OSpec

-------------------------------------------------------------------------------
(* onewire_search(), called until it returns FALSE or the slots are full,  *)
(* finds the devices of a bus that is left alone, each once and in order:  *)
(* no address is skipped where two of them part, and none comes twice.     *)
THEOREM ScanCorrect == OSpec => []ScanComplete
<1>1. OInv => ScanComplete
  BY DEF OInv
<1> QED BY <1>1, SearchAlways, PTL

(* A bit misread in each search does not fill a slot with the address of a *)
(* device that is not there: the CRC of ds18b20_scan() rejects it.         *)
THEOREM OnlyThereCorrect == OSpec => []OnlyThere
<1>1. OInv => OnlyThere
  BY DEF OInv
<1> QED BY <1>1, SearchAlways, PTL
===============================================================================
