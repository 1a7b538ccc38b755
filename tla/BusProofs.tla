------------------------------- MODULE BusProofs -------------------------------
(***************************************************************************)
(* Theorems about I2c and OneWireSlots, for bytes of any width: what the   *)
(* drivers do to the lines is understood at the other end of them.         *)
(***************************************************************************)
EXTENDS I2c, OneWireSlots, WellFoundedInduction, SequenceTheorems, TLAPS

-------------------------------------------------------------------------------
(* Induction on a set of numbers. *)

LEMMA LessNat == IsWellFoundedOn({p \in Nat \X Nat : p[1] < p[2]}, Nat)
BY NatLessThanWellFounded DEF OpToRel

LEMMA SmallestOf ==
    ASSUME NEW T, T \subseteq Nat, T # {}
    PROVE  \E n \in T : \A m \in T : n <= m
<1> DEFINE R == {p \in Nat \X Nat : p[1] < p[2]}
<1>1. PICK x \in T : \A y \in T : ~(<<y, x>> \in R)
  BY LessNat, WFMin
<1>2. ASSUME NEW y \in T PROVE x <= y
  <2>1. ~(<<y, x>> \in R) /\ x \in Nat /\ y \in Nat
    BY <1>1
  <2>2. ~(y < x)
    BY <2>1, Zenon
  <2> QED BY <2>1, <2>2
<1> QED BY <1>2

LEMMA CountUp ==
    ASSUME NEW T, T \subseteq Nat, 1 \in T, \A n \in T : n + 1 \in T, 0 \notin T
    PROVE  T = Nat \ {0}
<1>1. SUFFICES ASSUME (Nat \ {0}) \ T # {} PROVE FALSE
  OBVIOUS
<1>2. PICK n \in (Nat \ {0}) \ T : \A m \in (Nat \ {0}) \ T : n <= m
  BY <1>1, SmallestOf
<1>3. n # 1 /\ n - 1 \in Nat \ {0} /\ n - 1 \in T
  BY <1>2
<1> QED BY <1>2, <1>3

-------------------------------------------------------------------------------
(* The programs of the drivers, as sequences. *)

(* What is left of a program s after its first k operations. *)
Rest(s, k) == [j \in 1 .. Len(s) - k |-> s[k + j]]

LEMMA RestOf ==
    ASSUME NEW S, NEW s \in Seq(S), NEW k \in 0 .. Len(s)
    PROVE  /\ Rest(s, k) \in Seq(S)
           /\ Rest(s, k) = <<>> <=> k = Len(s)
           /\ k < Len(s) => /\ Rest(s, k) # <<>>
                            /\ Head(Rest(s, k)) = s[k + 1]
                            /\ Tail(Rest(s, k)) = Rest(s, k + 1)
<1>1. Rest(s, k) \in Seq(S) /\ Len(Rest(s, k)) = Len(s) - k
  BY DEF Rest
<1>2. Rest(s, k) = <<>> <=> k = Len(s)
  BY <1>1, EmptySeq
<1>3. ASSUME k < Len(s)
      PROVE  Head(Rest(s, k)) = s[k + 1] /\ Tail(Rest(s, k)) = Rest(s, k + 1)
  <2>1. Rest(s, k + 1) \in Seq(S) /\ Len(Rest(s, k + 1)) = Len(s) - k - 1
    BY <1>3 DEF Rest
  <2>2. Head(Rest(s, k)) = Rest(s, k)[1] /\ Rest(s, k)[1] = s[k + 1]
    BY <1>1, <1>3 DEF Rest
  <2>3. Tail(Rest(s, k)) \in Seq(S) /\ Len(Tail(Rest(s, k))) = Len(s) - k - 1
    BY <1>1, <1>2, <1>3, HeadTailProperties
  <2>4. \A j \in 1 .. Len(s) - k - 1 : Tail(Rest(s, k))[j] = Rest(s, k)[j + 1]
    BY <1>1, <1>2, <1>3, HeadTailProperties
  <2>5. \A j \in 1 .. Len(s) - k - 1 : Rest(s, k)[j + 1] = Rest(s, k + 1)[j]
    BY <1>3 DEF Rest
  <2> QED BY <2>1, <2>2, <2>3, <2>4, <2>5, SeqEqual
<1> QED BY <1>1, <1>2, <1>3

LEMMA RestAll ==
    ASSUME NEW S, NEW s \in Seq(S)
    PROVE  Rest(s, 0) = s
BY SeqEqual DEF Rest

(* Place k of pieces of length w is place ((k - 1) % w) + 1 of piece       *)
(* (k - 1) \div w + 1.                                                     *)
LEMMA Piece ==
    ASSUME NEW w \in {3, 4, 6}, NEW i \in Nat \ {0}
    PROVE  /\ w * i \in Nat /\ w * (i - 1) \in Nat /\ w * i = w * (i - 1) + w
           /\ \A j \in 1 .. w : /\ w * (i - 1) + j \in 1 .. w * i
                                /\ (w * (i - 1) + j - 1) \div w + 1 = i
                                /\ ((w * (i - 1) + j - 1) % w) + 1 = j
           /\ \A k \in 1 .. w * i : (k - 1) \div w + 1 \in 1 .. i /\ ((k - 1) % w) + 1 \in 1 .. w
<1>1. CASE w = 3
  BY <1>1
<1>2. CASE w = 4
  BY <1>2
<1>3. CASE w = 6
  BY <1>3
<1> QED BY <1>1, <1>2, <1>3

IsPlace(k, w, i, m, j) ==
    k \in 1 .. w * i /\ (k - 1) \div w + 1 = m /\ ((k - 1) % w) + 1 = j

LEMMA PieceOf ==
    ASSUME NEW w \in {3, 4, 6}, NEW i \in Nat \ {0}, NEW m \in 1 .. i, NEW j \in 1 .. w
    PROVE  IsPlace(w * (m - 1) + j, w, i, m, j)
<1>1. m \in Nat \ {0}
  OBVIOUS
<1>2. w * m <= w * i /\ w * m \in Nat /\ w * i \in Nat
  <2>1. CASE w = 3
    BY <2>1
  <2>2. CASE w = 4
    BY <2>2
  <2>3. CASE w = 6
    BY <2>3
  <2> QED BY <2>1, <2>2, <2>3
<1>3. w * (m - 1) + j \in 1 .. w * m
  <2>1. CASE w = 3
    BY <2>1
  <2>2. CASE w = 4
    BY <2>2
  <2>3. CASE w = 6
    BY <2>3
  <2> QED BY <2>1, <2>2, <2>3
<1>4. w * (m - 1) + j \in 1 .. w * i
  <2> DEFINE k == w * (m - 1) + j
             p == w * m
             q == w * i
  <2>1. k \in 1 .. p /\ p <= q /\ p \in Nat /\ q \in Nat
    BY <1>2, <1>3
  <2> HIDE DEF k, p, q
  <2>2. k \in 1 .. q
    BY <2>1
  <2> QED BY <2>2 DEF k, q
<1>5. (w * (m - 1) + j - 1) \div w + 1 = m /\ ((w * (m - 1) + j - 1) % w) + 1 = j
  <2>1. CASE w = 3
    BY <1>1, <2>1
  <2>2. CASE w = 4
    BY <1>1, <2>2
  <2>3. CASE w = 6
    BY <1>1, <2>3
  <2> QED BY <2>1, <2>2, <2>3
<1> QED BY <1>4, <1>5 DEF IsPlace

LEMMA AsSeq ==
    ASSUME NEW S, NEW m \in Nat, NEW f \in [1 .. m -> S]
    PROVE  f \in Seq(S) /\ Len(f) = m
OBVIOUS

Joined(seqs, w, i) == [k \in 1 .. w * i |-> seqs[(k - 1) \div w + 1][((k - 1) % w) + 1]]

(* The pieces of a flattened sequence, all of one length: FlattenSeq() is  *)
(* a recursive function of the number of pieces, so this is an induction   *)
(* over them.                                                              *)
Pieces(w, n, S) == [1 .. n -> [1 .. w -> S]]
IsFlat(s, seqs, w, n, S) ==
    /\ s \in Seq(S) /\ Len(s) = w * n
    /\ \A i \in 1 .. n : \A j \in 1 .. w : s[w * (i - 1) + j] = seqs[i][j]

LEMMA Flattened ==
    ASSUME NEW S, NEW w, w \in {3, 4, 6}, NEW n, n \in Nat \ {0},
           NEW seqs, seqs \in Pieces(w, n, S)
    PROVE  IsFlat(FlattenSeq(seqs), seqs, w, n, S)
<1> USE DEF Pieces
<1>0. \A i \in 1 .. n : seqs[i] \in Seq(S) /\ Len(seqs[i]) = w
  <2> SUFFICES ASSUME NEW i \in 1 .. n PROVE seqs[i] \in Seq(S) /\ Len(seqs[i]) = w
    OBVIOUS
  <2>1. seqs[i] \in [1 .. w -> S] /\ w \in Nat
    OBVIOUS
  <2> QED BY <2>1, AsSeq, Zenon
(* Joined is what the recursion gives. *)
<1>1. ASSUME NEW i \in 1 .. n
      PROVE  /\ Joined(seqs, w, i) \in Seq(S) /\ Len(Joined(seqs, w, i)) = w * i
             /\ \A m \in 1 .. i : \A j \in 1 .. w : Joined(seqs, w, i)[w * (m - 1) + j] = seqs[m][j]
  <2>1. w * i \in Nat
    BY Piece
  <2>2. ASSUME NEW k \in 1 .. w * i
        PROVE  seqs[(k - 1) \div w + 1][((k - 1) % w) + 1] \in S
    <3>1. (k - 1) \div w + 1 \in 1 .. n /\ ((k - 1) % w) + 1 \in 1 .. w
      BY Piece
    <3> QED BY <3>1
  <2>3. Joined(seqs, w, i) \in [1 .. w * i -> S]
    BY <2>2 DEF Joined
  <2>4. ASSUME NEW m \in 1 .. i, NEW j \in 1 .. w
        PROVE  Joined(seqs, w, i)[w * (m - 1) + j] = seqs[m][j]
    <3> DEFINE k == w * (m - 1) + j
    <3>1. i \in Nat \ {0}
      OBVIOUS
    <3> HIDE DEF k
    <3>2. k \in 1 .. w * i /\ (k - 1) \div w + 1 = m /\ ((k - 1) % w) + 1 = j
      <4>1. IsPlace(k, w, i, m, j)
        BY <3>1, PieceOf, Zenon DEF k
      <4> QED BY <4>1, Zenon DEF IsPlace
    <3>3. Joined(seqs, w, i)[k] = seqs[(k - 1) \div w + 1][((k - 1) % w) + 1]
      BY <3>2 DEF Joined
    <3> QED BY <3>2, <3>3 DEF k
  <2>5. Joined(seqs, w, i) \in Seq(S) /\ Len(Joined(seqs, w, i)) = w * i
    BY <2>1, <2>3, AsSeq, Zenon
  <2> QED BY <2>4, <2>5, Zenon
<1>2. ASSUME NEW i \in 1 .. n
      PROVE  Joined(seqs, w, i) = IF i = 1 THEN seqs[i] ELSE Joined(seqs, w, i - 1) \o seqs[i]
  <2>0. /\ Joined(seqs, w, i) \in Seq(S) /\ Len(Joined(seqs, w, i)) = w * i
        /\ \A m \in 1 .. i : \A j \in 1 .. w : Joined(seqs, w, i)[w * (m - 1) + j] = seqs[m][j]
    BY <1>1
  <2>1. \A j \in 1 .. w : Joined(seqs, w, i)[w * (i - 1) + j] = seqs[i][j]
    <3>1. i \in 1 .. i
      OBVIOUS
    <3> QED BY <2>0, <3>1, Zenon
  <2>2. CASE i = 1
    <3>1. \A j \in 1 .. w : w * (i - 1) + j = j
      BY <2>2
    <3>2. w * i = w
      BY <2>2
    <3> QED BY <1>0, <2>0, <2>1, <2>2, <3>1, <3>2, SeqEqual
  <2>3. CASE i # 1
    <3> DEFINE a == Joined(seqs, w, i - 1)
               c == a \o seqs[i]
               v == w * (i - 1)
    <3>1. i - 1 \in 1 .. n /\ v \in Nat /\ w * i = v + w
      BY <2>3, Piece
    <3>2. a \in Seq(S) /\ Len(a) = v
      BY <1>1, <3>1
    <3> HIDE DEF a
    <3>3. /\ c \in Seq(S) /\ Len(c) = v + w
          /\ \A k \in 1 .. v + w : c[k] = IF k <= v THEN a[k] ELSE seqs[i][k - v]
      <4> HIDE DEF v
      <4> QED BY <1>0, <3>1, <3>2, ConcatProperties
    <3>4. ASSUME NEW k \in 1 .. v + w PROVE c[k] = Joined(seqs, w, i)[k]
      <4>1. CASE k <= v
        <5>1. k \in 1 .. w * (i - 1) /\ k \in 1 .. w * i
          BY <3>1, <4>1
        <5>2. a[k] = Joined(seqs, w, i)[k]
          BY <5>1 DEF a, Joined
        <5> QED BY <3>3, <4>1, <5>2
      <4>2. CASE k > v
        <5>1. k - v \in 1 .. w
          BY <3>1, <4>2
        <5>2. Joined(seqs, w, i)[v + (k - v)] = seqs[i][k - v]
          BY <2>1, <5>1, Zenon
        <5> HIDE DEF v, c
        <5>3. c[k] = seqs[i][k - v] /\ v + (k - v) = k
          BY <3>1, <3>3, <4>2
        <5> QED BY <5>2, <5>3
      <4> HIDE DEF v, c
      <4> QED BY <3>1, <4>1, <4>2
    <3> HIDE DEF c, v
    <3>5. c = Joined(seqs, w, i)
      BY <2>0, <3>1, <3>3, <3>4, SeqEqual
    <3> QED BY <2>3, <3>5 DEF c, a
  <2> QED BY <2>2, <2>3
<1> DEFINE Equation(f) == f = [i \in 1 .. n |-> IF i = 1 THEN seqs[i] ELSE f[i - 1] \o seqs[i]]
           flatten == CHOOSE f : Equation(f)
<1>3. Equation([i \in 1 .. n |-> Joined(seqs, w, i)])
  <2> DEFINE f == [i \in 1 .. n |-> Joined(seqs, w, i)]
  <2>1. ASSUME NEW i \in 1 .. n PROVE f[i] = IF i = 1 THEN seqs[i] ELSE f[i - 1] \o seqs[i]
    <3>1. f[i] = Joined(seqs, w, i)
      OBVIOUS
    <3>2. i # 1 => f[i - 1] = Joined(seqs, w, i - 1)
      OBVIOUS
    <3> HIDE DEF f
    <3> QED BY <1>2, <3>1, <3>2, Zenon
  <2> QED BY <2>1
<1>4. Equation(flatten)
  BY <1>3
<1> HIDE DEF flatten
<1>5. \A i \in 1 .. n : flatten[i] = IF i = 1 THEN seqs[i] ELSE flatten[i - 1] \o seqs[i]
  BY <1>4
<1>6. flatten[n] = Joined(seqs, w, n)
  <2> DEFINE T == {m \in Nat \ {0} : m <= n => flatten[m] = Joined(seqs, w, m)}
  <2>1. 1 \in T
    <3>1. 1 \in 1 .. n
      OBVIOUS
    <3>2. flatten[1] = seqs[1] /\ Joined(seqs, w, 1) = seqs[1]
      BY <1>2, <1>5, <3>1, Zenon
    <3> QED BY <3>2
  <2>2. ASSUME NEW m \in T PROVE m + 1 \in T
    <3>1. CASE m + 1 <= n
      <4>1. m \in 1 .. n /\ m + 1 \in 1 .. n /\ m + 1 # 1 /\ (m + 1) - 1 = m
        BY <3>1
      <4>2. flatten[m + 1] = flatten[m] \o seqs[m + 1]
        BY <1>5, <4>1
      <4>3. Joined(seqs, w, m + 1) = Joined(seqs, w, (m + 1) - 1) \o seqs[m + 1]
        BY <1>2, <4>1, Zenon
      <4>4. flatten[m] = Joined(seqs, w, m)
        BY <4>1
      <4>5. flatten[m + 1] = Joined(seqs, w, m + 1)
        BY <4>1, <4>2, <4>3, <4>4, Zenon
      <4> QED BY <4>1, <4>5
    <3>2. CASE ~(m + 1 <= n)
      BY <3>2
    <3> HIDE DEF T
    <3> QED BY <3>1, <3>2
  <2>3. T = Nat \ {0}
    <3>1. T \subseteq Nat /\ 0 \notin T
      OBVIOUS
    <3> HIDE DEF T
    <3> QED BY <2>1, <2>2, <3>1, CountUp
  <2> QED BY <2>3
<1>7. FlattenSeq(seqs) = Joined(seqs, w, n)
  <2>1. Len(seqs) = n /\ n # 0
    OBVIOUS
  <2>2. FlattenSeq(seqs) = flatten[n]
    BY <2>1 DEF FlattenSeq, flatten
  <2> QED BY <1>6, <2>2
<1>8. n \in 1 .. n
  OBVIOUS
<1>9. /\ Joined(seqs, w, n) \in Seq(S) /\ Len(Joined(seqs, w, n)) = w * n
      /\ \A i \in 1 .. n : \A j \in 1 .. w : Joined(seqs, w, n)[w * (i - 1) + j] = seqs[i][j]
  BY <1>1, <1>8
<1> QED BY <1>7, <1>9 DEF IsFlat

-------------------------------------------------------------------------------
(* I2c: the programs. *)

Concatenates(c, a, b, S) ==
    /\ c \in Seq(S) /\ Len(c) = Len(a) + Len(b)
    /\ \A k \in 1 .. Len(a) : c[k] = a[k]
    /\ \A k \in 1 .. Len(b) : c[Len(a) + k] = b[k]

LEMMA Concat ==
    ASSUME NEW S, NEW a, a \in Seq(S), NEW b, b \in Seq(S)
    PROVE  Concatenates(a \o b, a, b, S)
BY ConcatProperties DEF Concatenates

Bit == {0, 1}
LineOp == [line : {"sda", "sck", "read"}, level : Bit]

Prefix(byte, n) == [j \in 1 .. n |-> byte[j]]

LEMMA LineOps ==
    /\ \A l \in Bit : Sda(l) \in LineOp /\ Sck(l) \in LineOp
    /\ ReadSda \in LineOp
BY DEF Sda, Sck, ReadSda, LineOp, Bit

LEMMA PrefixGrows ==
    ASSUME NEW byte \in ByteOnBus
    PROVE  /\ Prefix(byte, 0) = <<>> /\ Prefix(byte, ByteWidth) = byte
           /\ \A n \in 0 .. ByteWidth : Prefix(byte, n) \in Seq(Bit) /\ Len(Prefix(byte, n)) = n
           /\ \A n \in 1 .. ByteWidth : Append(Prefix(byte, n - 1), byte[n]) = Prefix(byte, n)
<1>1. ByteWidth \in Nat \ {0} /\ byte \in [1 .. ByteWidth -> Bit]
  BY ByteAssumption DEF ByteOnBus, Bit
<1>2. ASSUME NEW n \in 0 .. ByteWidth PROVE Prefix(byte, n) \in Seq(Bit) /\ Len(Prefix(byte, n)) = n
  <2>1. Prefix(byte, n) \in [1 .. n -> Bit] /\ n \in Nat
    BY <1>1 DEF Prefix
  <2> QED BY <2>1, AsSeq, Zenon
<1>3. ASSUME NEW n \in 1 .. ByteWidth PROVE Append(Prefix(byte, n - 1), byte[n]) = Prefix(byte, n)
  <2>1. byte[n] \in Bit /\ n - 1 \in 0 .. ByteWidth /\ n \in 0 .. ByteWidth
    BY <1>1
  <2>2. Prefix(byte, n - 1) \in Seq(Bit) /\ Len(Prefix(byte, n - 1)) = n - 1
    BY <1>2, <2>1
  <2>3. /\ Append(Prefix(byte, n - 1), byte[n]) \in Seq(Bit)
        /\ Len(Append(Prefix(byte, n - 1), byte[n])) = n
        /\ \A j \in 1 .. n - 1 : Append(Prefix(byte, n - 1), byte[n])[j] = Prefix(byte, n - 1)[j]
        /\ Append(Prefix(byte, n - 1), byte[n])[n] = byte[n]
    BY <2>1, <2>2, AppendProperties
  <2>4. \A j \in 1 .. n : Append(Prefix(byte, n - 1), byte[n])[j] = Prefix(byte, n)[j]
    BY <2>3 DEF Prefix
  <2>5. Prefix(byte, n) \in Seq(Bit) /\ Len(Prefix(byte, n)) = n
    BY <1>2, <2>1
  <2> QED BY <2>3, <2>4, <2>5, SeqEqual
<1>4. Prefix(byte, 0) = <<>>
  BY DEF Prefix
<1>5. Prefix(byte, ByteWidth) = byte
  BY <1>1 DEF Prefix
<1> QED BY <1>2, <1>3, <1>4, <1>5

(* The operations by which a byte is sent, one by one. *)
LEMMA SendProgram ==
    ASSUME NEW byte \in ByteOnBus
    PROVE  /\ Send(byte) \in Seq(LineOp) /\ Len(Send(byte)) = 3 * ByteWidth + 6
           /\ \A i \in 1 .. ByteWidth : /\ Send(byte)[3 * (i - 1) + 1] = Sda(byte[i])
                                        /\ Send(byte)[3 * (i - 1) + 2] = Sck(1)
                                        /\ Send(byte)[3 * (i - 1) + 3] = Sck(0)
           /\ Send(byte)[3 * ByteWidth + 1] = Sda(1)
           /\ Send(byte)[3 * ByteWidth + 2] = Sck(0)
           /\ Send(byte)[3 * ByteWidth + 3] = Sck(1)
           /\ Send(byte)[3 * ByteWidth + 4] = ReadSda
           /\ Send(byte)[3 * ByteWidth + 5] = Sck(0)
           /\ Send(byte)[3 * ByteWidth + 6] = Sda(0)
<1>1. ByteWidth \in Nat \ {0} /\ \A i \in 1 .. ByteWidth : byte[i] \in Bit
  BY ByteAssumption DEF ByteOnBus, Bit
<1> DEFINE piece(i) == <<Sda(byte[i]), Sck(1), Sck(0)>>
           pieces == [i \in 1 .. ByteWidth |-> piece(i)]
           data == i2c_writeByte(byte)
<1>2. /\ data \in Seq(LineOp) /\ Len(data) = 3 * ByteWidth
      /\ \A i \in 1 .. ByteWidth : \A j \in 1 .. 3 : data[3 * (i - 1) + j] = piece(i)[j]
  <2>1. \A i \in 1 .. ByteWidth : piece(i) \in [1 .. 3 -> LineOp]
    <3> SUFFICES ASSUME NEW i \in 1 .. ByteWidth PROVE piece(i) \in [1 .. 3 -> LineOp]
      OBVIOUS
    <3>1. Sda(byte[i]) \in LineOp /\ Sck(1) \in LineOp /\ Sck(0) \in LineOp
      BY <1>1, LineOps DEF Bit
    <3> QED BY <3>1
  <2>2. pieces \in Pieces(3, ByteWidth, LineOp)
    BY <2>1 DEF Pieces
  <2>3. \A i \in 1 .. ByteWidth : pieces[i] = piece(i)
    OBVIOUS
  <2>4. data = FlattenSeq(pieces)
    BY DEF i2c_writeByte
  <2> HIDE DEF pieces, piece, data
  <2>5. 3 \in {3, 4, 6}
    OBVIOUS
  <2>6. IsFlat(FlattenSeq(pieces), pieces, 3, ByteWidth, LineOp)
    BY <1>1, <2>2, <2>5, Flattened, Zenon
  <2> QED BY <1>1, <2>3, <2>4, <2>6 DEF IsFlat
<1>3. i2c_check_ack \in Seq(LineOp) /\ Len(i2c_check_ack) = 6
  BY LineOps DEF i2c_check_ack, Bit
<1>4. Send(byte) = data \o i2c_check_ack
  BY DEF Send
<1> HIDE DEF data
<1>5. /\ Send(byte) \in Seq(LineOp) /\ Len(Send(byte)) = 3 * ByteWidth + 6
      /\ \A k \in 1 .. 3 * ByteWidth : Send(byte)[k] = data[k]
      /\ \A k \in 1 .. 6 : Send(byte)[3 * ByteWidth + k] = i2c_check_ack[k]
  <2>1. Concatenates(data \o i2c_check_ack, data, i2c_check_ack, LineOp)
    BY <1>2, <1>3, Concat, Zenon
  <2> QED BY <1>1, <1>2, <1>3, <1>4, <2>1 DEF Concatenates
<1>6. ASSUME NEW i \in 1 .. ByteWidth, NEW j \in 1 .. 3
      PROVE  Send(byte)[3 * (i - 1) + j] = piece(i)[j]
  <2>1. 3 * (i - 1) + j \in 1 .. 3 * ByteWidth
    BY <1>1
  <2> HIDE DEF piece
  <2> QED BY <1>2, <1>5, <2>1
<1>7. ASSUME NEW i \in 1 .. ByteWidth
      PROVE  /\ Send(byte)[3 * (i - 1) + 1] = Sda(byte[i])
             /\ Send(byte)[3 * (i - 1) + 2] = Sck(1)
             /\ Send(byte)[3 * (i - 1) + 3] = Sck(0)
  <2>1. /\ Send(byte)[3 * (i - 1) + 1] = piece(i)[1]
        /\ Send(byte)[3 * (i - 1) + 2] = piece(i)[2]
        /\ Send(byte)[3 * (i - 1) + 3] = piece(i)[3]
    BY <1>6
  <2> QED BY <2>1
<1>8. /\ i2c_check_ack[1] = Sda(1) /\ i2c_check_ack[2] = Sck(0) /\ i2c_check_ack[3] = Sck(1)
      /\ i2c_check_ack[4] = ReadSda /\ i2c_check_ack[5] = Sck(0) /\ i2c_check_ack[6] = Sda(0)
  BY DEF i2c_check_ack
<1> QED BY <1>5, <1>7, <1>8

(* A write begins with a START and goes on with its first byte. *)
LEMMA StartProgram ==
    ASSUME NEW byte \in ByteOnBus
    PROVE  LET program == i2c_start \o Send(byte)
           IN  /\ program \in Seq(LineOp) /\ Len(program) > 4
               /\ program[1] = Sda(1) /\ program[2] = Sck(1) /\ program[3] = Sda(0) /\ program[4] = Sck(0)
               /\ Rest(program, 4) = Rest(Send(byte), 0)
<1> DEFINE program == i2c_start \o Send(byte)
<1>1. i2c_start \in Seq(LineOp) /\ Len(i2c_start) = 4
  BY LineOps DEF i2c_start, Bit
<1>2. Send(byte) \in Seq(LineOp) /\ Len(Send(byte)) > 0
  BY SendProgram, ByteAssumption
<1>3. /\ program \in Seq(LineOp) /\ Len(program) = Len(i2c_start) + Len(Send(byte))
      /\ \A k \in 1 .. Len(i2c_start) : program[k] = i2c_start[k]
      /\ \A k \in 1 .. Len(Send(byte)) : program[Len(i2c_start) + k] = Send(byte)[k]
  <2>1. Concatenates(i2c_start \o Send(byte), i2c_start, Send(byte), LineOp)
    BY <1>1, <1>2, Concat, Zenon
  <2> QED BY <2>1 DEF Concatenates
<1> HIDE DEF program
<1>4. program[1] = i2c_start[1] /\ program[2] = i2c_start[2] /\ program[3] = i2c_start[3] /\ program[4] = i2c_start[4]
  BY <1>1, <1>2, <1>3
<1>5. Rest(program, 4) = Rest(Send(byte), 0)
  BY <1>1, <1>2, <1>3 DEF Rest
<1>6. i2c_start[1] = Sda(1) /\ i2c_start[2] = Sck(1) /\ i2c_start[3] = Sda(0) /\ i2c_start[4] = Sck(0)
  BY DEF i2c_start
<1> QED BY <1>1, <1>2, <1>3, <1>4, <1>5, <1>6 DEF program

-------------------------------------------------------------------------------
(* I2c: the panel. *)

Panel == [phase : {"off", "idle", "address", "register", "value"}, bits : Seq(Bit),
          pull : BOOLEAN, reg : Seq(Bit)]
PanelOK(p) ==
    /\ p \in Panel
    /\ p.phase = "off" => p = Deaf
    /\ p.phase = "idle" => p = Idle_panel
    /\ p.pull => p.phase \in {"register", "value"} /\ p.bits = <<>>

Started == [Idle_panel EXCEPT !.phase = "address"]

LEMMA IdlePanels ==
    /\ Deaf.phase = "off" /\ Deaf.bits = <<>> /\ Deaf.pull = FALSE /\ Deaf.reg = <<>>
    /\ Idle_panel.phase = "idle" /\ Idle_panel.bits = <<>> /\ Idle_panel.pull = FALSE /\ Idle_panel.reg = <<>>
    /\ Started.phase = "address" /\ Started.bits = <<>> /\ Started.pull = FALSE /\ Started.reg = <<>>
    /\ PanelOK(Deaf) /\ PanelOK(Idle_panel) /\ PanelOK(Started)
<1>1. <<>> \in Seq(Bit)
  OBVIOUS
<1>2. Deaf.phase = "off" /\ Deaf.bits = <<>> /\ Deaf.pull = FALSE /\ Deaf.reg = <<>> /\ Deaf \in Panel
  BY <1>1 DEF Deaf, Panel
<1>3. /\ Idle_panel.phase = "idle" /\ Idle_panel.bits = <<>> /\ Idle_panel.pull = FALSE /\ Idle_panel.reg = <<>>
      /\ Idle_panel \in Panel
  BY <1>2 DEF Idle_panel, Panel
<1>4. /\ Started.phase = "address" /\ Started.bits = <<>> /\ Started.pull = FALSE /\ Started.reg = <<>>
      /\ Started \in Panel
  BY <1>3 DEF Started, Panel
<1> QED BY <1>2, <1>3, <1>4 DEF PanelOK

LEMMA HeardOK ==
    ASSUME NEW p, PanelOK(p), p.phase \in {"address", "register", "value"}, ~p.pull
    PROVE  PanelOK(Heard(p))
<1>1. p = [phase |-> p.phase, bits |-> p.bits, pull |-> FALSE, reg |-> p.reg] /\ p.bits \in Seq(Bit) /\ p.reg \in Seq(Bit)
  BY DEF PanelOK, Panel
<1>2. <<>> \in Seq(Bit)
  OBVIOUS
<1>3. CASE p.phase = "address"
  <2>1. Heard(p) = IF p.bits = OLED_ADDRESS THEN [p EXCEPT !.phase = "register", !.pull = TRUE, !.bits = <<>>] ELSE Idle_panel
    BY <1>3 DEF Heard
  <2> QED BY <1>1, <1>2, <2>1, IdlePanels DEF PanelOK, Panel
<1>4. CASE p.phase = "register"
  <2>1. Heard(p) = [p EXCEPT !.phase = "value", !.reg = p.bits, !.pull = TRUE, !.bits = <<>>]
    BY <1>4 DEF Heard
  <2> QED BY <1>1, <1>2, <2>1 DEF PanelOK, Panel
<1>5. CASE p.phase = "value"
  <2>1. Heard(p) = [p EXCEPT !.pull = TRUE, !.bits = <<>>]
    BY <1>5 DEF Heard
  <2> QED BY <1>1, <1>2, <1>5, <2>1 DEF PanelOK, Panel
<1> QED BY <1>3, <1>4, <1>5

(* What a change of the lines does to the panel. *)
LEMMA Listening ==
    ASSUME NEW p, PanelOK(p), NEW s0 \in Bit, NEW c0 \in Bit, NEW s1 \in Bit, NEW c1 \in Bit
    PROVE  /\ p.phase = "off" => Listens(p, s0, c0, s1, c1) = p
           /\ s0 = s1 /\ c0 = c1 => Listens(p, s0, c0, s1, c1) = p
           /\ c0 = 0 /\ c1 = 0 => Listens(p, s0, c0, s1, c1) = p
           /\ c0 # c1 /\ p.phase \in {"off", "idle"} => Listens(p, s0, c0, s1, c1) = p
           /\ p.phase # "off" /\ c0 = 1 /\ c1 = 1 /\ s0 = 1 /\ s1 = 0 =>
                Listens(p, s0, c0, s1, c1) = Started
           /\ p.phase # "off" /\ c0 = 1 /\ c1 = 1 /\ s0 = 0 /\ s1 = 1 => Listens(p, s0, c0, s1, c1) = Idle_panel
           /\ p.phase \notin {"off", "idle"} /\ c0 = 0 /\ c1 = 1 /\ p.pull => Listens(p, s0, c0, s1, c1) = p
           /\ p.phase \notin {"off", "idle"} /\ c0 = 0 /\ c1 = 1 /\ ~p.pull =>
                Listens(p, s0, c0, s1, c1) = [p EXCEPT !.bits = Append(p.bits, s1)]
           /\ p.phase \notin {"off", "idle"} /\ c0 = 1 /\ c1 = 0 /\ p.pull =>
                Listens(p, s0, c0, s1, c1) = [p EXCEPT !.pull = FALSE]
           /\ p.phase \notin {"off", "idle"} /\ c0 = 1 /\ c1 = 0 /\ ~p.pull =>
                Listens(p, s0, c0, s1, c1) = IF Len(p.bits) = ByteWidth THEN Heard(p) ELSE p
<1>1. p.pull \in BOOLEAN /\ p.phase \in {"off", "idle", "address", "register", "value"}
  BY DEF PanelOK, Panel
<1>2. [Idle_panel EXCEPT !.phase = "address"] = Started
  BY DEF Started
<1>3. p.phase = "off" => Listens(p, s0, c0, s1, c1) = p
  BY DEF Listens
<1>4. ASSUME p.phase # "off"
      PROVE  /\ c0 = 1 /\ c1 = 1 /\ s0 > s1 => Listens(p, s0, c0, s1, c1) = [Idle_panel EXCEPT !.phase = "address"]
             /\ c0 = 1 /\ c1 = 1 /\ s0 < s1 => Listens(p, s0, c0, s1, c1) = Idle_panel
             /\ ~(c0 = 1 /\ c1 = 1) /\ p.phase = "idle" => Listens(p, s0, c0, s1, c1) = p
             /\ s0 = s1 /\ c0 = c1 => Listens(p, s0, c0, s1, c1) = p
             /\ c0 = 0 /\ c1 = 0 => Listens(p, s0, c0, s1, c1) = p
  BY <1>1, <1>4 DEF Listens, Bit, ByteComplete
<1>5. ASSUME p.phase \notin {"off", "idle"}, c0 # c1
      PROVE  Listens(p, s0, c0, s1, c1) =
               IF c0 < c1 THEN IF p.pull THEN p ELSE [p EXCEPT !.bits = Append(p.bits, s1)]
               ELSE IF p.pull THEN [p EXCEPT !.pull = FALSE]
               ELSE IF Len(p.bits) = ByteWidth THEN Heard(p) ELSE p
  <2>1. p.phase # "off" /\ ((c0 = 0 /\ c1 = 1) \/ (c0 = 1 /\ c1 = 0)) /\ ~(c0 = 1 /\ c1 = 1)
    BY <1>5 DEF Bit
  <2>2. CASE c0 < c1
    <3>1. c0 = 0 /\ c1 = 1
      BY <2>1, <2>2
    <3>2. Listens(p, s0, c0, s1, c1) = IF p.pull THEN p ELSE [p EXCEPT !.bits = Append(@, s1)]
      BY <1>5, <2>1, <3>1 DEF Listens, ByteComplete
    <3> QED BY <2>2, <3>2
  <2>3. CASE c0 > c1 /\ p.pull
    BY <1>5, <2>1, <2>3 DEF Listens, ByteComplete
  <2>4. CASE c0 > c1 /\ ~p.pull
    BY <1>1, <1>5, <2>1, <2>4 DEF Listens, ByteComplete
  <2> QED BY <2>1, <2>2, <2>3, <2>4
<1>6. p.phase \notin {"off", "idle"} => p.phase # "off"
  OBVIOUS
<1> QED BY <1>1, <1>2, <1>3, <1>4, <1>5 DEF Bit

LEMMA Rising ==
    ASSUME NEW p, PanelOK(p), p.phase \notin {"off", "idle"}, ~p.pull, NEW w, w \in Bit
    PROVE  Listens(p, w, 0, w, 1) = [p EXCEPT !.bits = Append(p.bits, w)]
BY Listening DEF Bit

LEMMA PanelStaysOK ==
    ASSUME NEW p, PanelOK(p), NEW s0 \in Bit, NEW c0 \in Bit, NEW s1 \in Bit, NEW c1 \in Bit
    PROVE  PanelOK(Listens(p, s0, c0, s1, c1))
<1>1. p = [phase |-> p.phase, bits |-> p.bits, pull |-> p.pull, reg |-> p.reg] /\ p.bits \in Seq(Bit) /\ p.reg \in Seq(Bit)
      /\ p.pull \in BOOLEAN /\ p.phase \in {"off", "idle", "address", "register", "value"}
  BY DEF PanelOK, Panel
<1>3. p.phase \notin {"off", "idle"} /\ ~p.pull => PanelOK([p EXCEPT !.bits = Append(p.bits, s1)])
  <2>1. Append(p.bits, s1) \in Seq(Bit)
    BY <1>1
  <2> QED BY <1>1, <2>1 DEF PanelOK, Panel
<1>4. p.phase \notin {"off", "idle"} => PanelOK([p EXCEPT !.pull = FALSE])
  BY <1>1 DEF PanelOK, Panel
<1>5. p.phase \notin {"off", "idle"} /\ ~p.pull => PanelOK(Heard(p))
  BY <1>1, HeardOK
<1>6. \/ Listens(p, s0, c0, s1, c1) \in {p, Idle_panel, Started}
      \/ p.phase \notin {"off", "idle"} /\ ~p.pull /\ Listens(p, s0, c0, s1, c1) \in {[p EXCEPT !.bits = Append(p.bits, s1)], Heard(p)}
      \/ p.phase \notin {"off", "idle"} /\ Listens(p, s0, c0, s1, c1) = [p EXCEPT !.pull = FALSE]
  <2>1. c0 \in {0, 1} /\ c1 \in {0, 1} /\ s0 \in {0, 1} /\ s1 \in {0, 1}
    BY DEF Bit
  <2> QED BY <1>1, <2>1, Listening
<1> QED BY <1>3, <1>4, <1>5, <1>6, IdlePanels


-------------------------------------------------------------------------------
(* I2c: where a call stands, what is on the lines and what the panel has   *)
(* understood so far.                                                      *)

Away == panel \in {Deaf, Idle_panel}
(* The panel follows the byte that is sent and has n of its bits.  In the  *)
(* first call after a reset it may take it for another byte of a write.    *)
Follows(n) ==
    /\ panel.phase \in {"address", "register", "value"} /\ ~panel.pull
    /\ panel.bits = Prefix(message[index], n)
    /\ calls = 2 => /\ panel.phase = (CASE index = 1 -> "address" [] index = 2 -> "register" [] OTHER -> "value")
                    /\ index = 3 => panel.reg = message[2]
(* The panel acknowledges the byte, or has done so. *)
Acknowledges ==
    /\ panel.phase \in {"register", "value"} /\ panel.bits = <<>>
    /\ calls = 2 => /\ panel.phase = (IF index = 1 THEN "register" ELSE "value")
                    /\ index # 1 => panel.reg = message[2]

(* Nothing has been executed, or what was sent if the last byte is through.*)
Done(through) ==
    /\ executed \in {<<>>, <<<<message[2], message[3]>>>>}
    /\ ~through => executed = <<>>
    /\ through /\ ~Away => executed # <<>>

(* In i2c_init() the panel may be anywhere, in the middle of a byte too.   *)
InInit ==
    /\ index = 0 /\ calls = 0
    /\ \E d, c \in Bit, k \in 0 .. 4 :
        /\ lineops = Rest(i2c_init(d, c), k)
        /\ k = 3 => sda = 1
        /\ k = 4 => sda = 1 /\ sck = 1

InStart(k) ==
    /\ index = 1 /\ lineops = Rest(i2c_start \o Send(OLED_ADDRESS), k)
    /\ sck = 1 /\ sda = (IF k = 3 THEN 0 ELSE 1)
    /\ calls = 2 => executed = <<>>
    /\ k < 3 /\ calls = 2 => Away /\ (present => panel.phase # "off")
    /\ k = 3 => \/ Away /\ (calls = 2 => ~present)
                \/ panel.phase = "address" /\ panel.bits = <<>> /\ ~panel.pull
                \/ panel.pull /\ calls = 1

InBit(i, s) ==
    /\ index \in 1 .. 3 /\ lineops = Rest(Send(message[index]), 3 * (i - 1) + s)
    /\ sck = (IF s = 2 THEN 1 ELSE 0)
    /\ s # 0 => sda = message[index][i]
    /\ Away \/ Follows(IF s = 2 THEN i ELSE i - 1)
    /\ calls = 2 => (present => ~Away) /\ executed = <<>>

InAck(s) ==
    /\ index \in 1 .. 3 /\ lineops = Rest(Send(message[index]), 3 * ByteWidth + s)
    /\ sck = (IF s \in {3, 4} THEN 1 ELSE 0)
    /\ s \in 1 .. 5 => sda = 1
    /\ s = 6 => sda = 0
    /\ Away \/ Acknowledges
    /\ ~Away => (panel.pull <=> s < 5)
    /\ calls = 2 => /\ present => ~Away
                    /\ Done(index = 3)
                    /\ s >= 4 /\ present => ack
                    /\ s >= 4 /\ ack /\ index = 3 => executed # <<>>

(* What the call will return is what has been executed. *)
Settled ==
    /\ executed \in {<<>>, <<<<message[2], message[3]>>>>}
    /\ present => ack
    /\ ack => executed # <<>>

InStop(k) ==
    /\ index = 4 /\ lineops = Rest(i2c_stop, k)
    /\ sck = (IF k = 0 THEN 0 ELSE 1) /\ sda = (IF k = 2 THEN 1 ELSE 0)
    /\ ~panel.pull
    /\ k = 0 => Away \/ panel.bits = <<>>
    /\ k = 2 => Away
    /\ calls = 2 => Settled

Between ==
    /\ index = 0 /\ calls # 0 /\ lineops = <<>>
    /\ sda = 1 /\ sck = 1 /\ Away
    /\ WrittenAsSent

ITypeOK ==
    /\ sda \in Bit /\ sck \in Bit /\ lineops \in Seq(LineOp)
    /\ ack \in BOOLEAN /\ oledstat \in BOOLEAN /\ present \in BOOLEAN
    /\ calls \in 0 .. 2 /\ index \in 0 .. 4
    /\ index # 0 => returned = "none" /\ calls # 0
    /\ index # 0 => \E reg \in Registers, val \in Values : message = <<OLED_ADDRESS, reg, val>>
    /\ PanelOK(panel) /\ executed \in Seq(Seq(Seq(Bit)))

IInv ==
    /\ ITypeOK
    /\ \/ InInit
       \/ \E k \in 0 .. 3 : InStart(k)
       \/ \E i \in 1 .. ByteWidth, s \in 0 .. 2 : InBit(i, s)
       \/ \E s \in 0 .. 6 : InAck(s)
       \/ \E k \in 0 .. 2 : InStop(k)
       \/ Between

(* What an operation does to the lines, and by them to the panel. *)
LEMMA OpSda ==
    ASSUME ITypeOK, LineWrite, NEW l \in Bit, Head(lineops) = Sda(l)
    PROVE  /\ sda' = l /\ sck' = sck /\ executed' = executed
           /\ panel' = Listens(panel, OnWire(sda, panel), sck, OnWire(l, panel), sck)
<1>1. Head(lineops).line = "sda" /\ Head(lineops).level = l
  BY DEF Sda
<1>2. sda' = l /\ sck' = sck
  BY <1>1 DEF LineWrite
<1>3. Executes(panel, sck, sck) = <<>>
  BY DEF Executes, ByteComplete
<1>4. executed \o <<>> = executed
  BY DEF ITypeOK
<1> QED BY <1>2, <1>3, <1>4 DEF LineWrite

LEMMA OpSck ==
    ASSUME ITypeOK, LineWrite, NEW l \in Bit, Head(lineops) = Sck(l)
    PROVE  /\ sda' = sda /\ sck' = l
           /\ executed' = executed \o Executes(panel, sck, l)
           /\ ~(panel.phase = "value" /\ ByteComplete(panel, sck, l)) => executed' = executed
           /\ panel' = Listens(panel, OnWire(sda, panel), sck, OnWire(sda, panel), l)
<1>1. Head(lineops).line = "sck" /\ Head(lineops).level = l
  BY DEF Sck
<1>2. sda' = sda /\ sck' = l
  BY <1>1 DEF LineWrite
<1>3. ~(panel.phase = "value" /\ ByteComplete(panel, sck, l)) => Executes(panel, sck, l) = <<>>
  BY DEF Executes
<1>4. executed \o <<>> = executed
  BY DEF ITypeOK
<1> QED BY <1>2, <1>3, <1>4 DEF LineWrite

LEMMA WireLevel ==
    ASSUME ITypeOK, NEW l \in Bit
    PROVE  OnWire(l, panel) \in Bit /\ (~panel.pull => OnWire(l, panel) = l) /\ (panel.pull => OnWire(l, panel) = 0)
BY DEF OnWire, Bit

(* The type of every variable is kept. *)
LEMMA LineWriteType ==
    ASSUME ITypeOK, LineWrite, \E l \in Bit : Head(lineops) \in {Sda(l), Sck(l)}, lineops' \in Seq(LineOp)
    PROVE  ITypeOK'
<1>1. PICK l \in Bit : Head(lineops) = Sda(l) \/ Head(lineops) = Sck(l)
  OBVIOUS
<1>2. /\ sda \in Bit /\ sck \in Bit /\ PanelOK(panel) /\ OnWire(sda, panel) \in Bit
      /\ OnWire(l, panel) \in Bit
  BY WireLevel DEF ITypeOK
<1>3. executed \o Executes(panel, sck, l) \in Seq(Seq(Seq(Bit)))
  <2>1. panel.reg \in Seq(Bit) /\ panel.bits \in Seq(Bit)
    BY <1>2 DEF PanelOK, Panel
  <2>2. <<panel.reg, panel.bits>> \in Seq(Seq(Bit))
    BY <2>1
  <2>3. Executes(panel, sck, l) \in Seq(Seq(Seq(Bit)))
    BY <2>2 DEF Executes
  <2> QED BY <2>3 DEF ITypeOK
<1>4. sda' \in Bit /\ sck' \in Bit /\ PanelOK(panel') /\ executed' \in Seq(Seq(Seq(Bit)))
  <2>1. CASE Head(lineops) = Sda(l)
    BY <1>2, <2>1, OpSda, PanelStaysOK DEF ITypeOK
  <2>2. CASE Head(lineops) = Sck(l)
    <3>1. /\ sda' = sda /\ sck' = l /\ executed' = executed \o Executes(panel, sck, l)
          /\ panel' = Listens(panel, OnWire(sda, panel), sck, OnWire(sda, panel), l)
      BY <2>2, OpSck
    <3>2. PanelOK(Listens(panel, OnWire(sda, panel), sck, OnWire(sda, panel), l))
      BY <1>2, PanelStaysOK
    <3> QED BY <1>2, <1>3, <3>1, <3>2
  <2> QED BY <1>1, <2>1, <2>2
<1> QED BY <1>4 DEF ITypeOK, LineWrite

LEMMA AwayPanels ==
    ASSUME Away
    PROVE  panel.phase \in {"off", "idle"} /\ panel.pull = FALSE
BY IdlePanels DEF Away

(* Where the next operation of a program leads. *)
LEMMA NextOp ==
    ASSUME NEW program \in Seq(LineOp), NEW k \in 0 .. Len(program) - 1,
           lineops = Rest(program, k)
    PROVE  /\ lineops # <<>> /\ Head(lineops) = program[k + 1]
           /\ LineWrite => lineops' = Rest(program, k + 1) /\ lineops' \in Seq(LineOp)
           /\ LineRead => lineops' = Rest(program, k + 1) /\ lineops' \in Seq(LineOp)
<1>1. k \in 0 .. Len(program) /\ k + 1 \in 0 .. Len(program) /\ k < Len(program)
  OBVIOUS
<1>2. lineops # <<>> /\ Head(lineops) = program[k + 1] /\ Tail(lineops) = Rest(program, k + 1)
  BY <1>1, RestOf
<1>3. Rest(program, k + 1) \in Seq(LineOp)
  BY <1>1, RestOf
<1> QED BY <1>2, <1>3 DEF LineWrite, LineRead

LEMMA InitProgram ==
    ASSUME NEW d \in Bit, NEW c \in Bit
    PROVE  /\ i2c_init(d, c) \in Seq(LineOp) /\ Len(i2c_init(d, c)) = 4
           /\ i2c_init(d, c)[1] = Sda(d) /\ i2c_init(d, c)[2] = Sck(c)
           /\ i2c_init(d, c)[3] = Sda(1) /\ i2c_init(d, c)[4] = Sck(1)
BY LineOps DEF i2c_init, Bit

LEMMA StopProgram ==
    /\ i2c_stop \in Seq(LineOp) /\ Len(i2c_stop) = 2
    /\ i2c_stop[1] = Sck(1) /\ i2c_stop[2] = Sda(1)
BY LineOps DEF i2c_stop, Bit

LEMMA InitWrite ==
    ASSUME ITypeOK, InInit, LineWrite
    PROVE  ITypeOK' /\ InInit'
<1>1. PICK d \in Bit, c \in Bit, k \in 0 .. 4 :
        lineops = Rest(i2c_init(d, c), k) /\ (k = 3 => sda = 1) /\ (k = 4 => sda = 1 /\ sck = 1)
  BY DEF InInit
<1>2. k # 4
  <2>1. i2c_init(d, c) \in Seq(LineOp) /\ Len(i2c_init(d, c)) = 4
    BY InitProgram
  <2>2. Rest(i2c_init(d, c), Len(i2c_init(d, c))) = <<>>
    <3>1. Len(i2c_init(d, c)) \in 0 .. Len(i2c_init(d, c))
      BY <2>1
    <3> QED BY <2>1, <3>1, RestOf, Zenon
  <2> QED BY <1>1, <2>1, <2>2 DEF LineWrite
<1>3. /\ Head(lineops) = i2c_init(d, c)[k + 1]
      /\ lineops' = Rest(i2c_init(d, c), k + 1) /\ lineops' \in Seq(LineOp)
  BY <1>1, <1>2, InitProgram, NextOp
<1>4. /\ k = 0 => Head(lineops) = Sda(d)
      /\ k = 1 => Head(lineops) = Sck(c)
      /\ k = 2 => Head(lineops) = Sda(1)
      /\ k = 3 => Head(lineops) = Sck(1)
  BY <1>3, InitProgram
<1>5. ITypeOK'
  <2>1. 1 \in Bit
    BY DEF Bit
  <2> QED BY <1>2, <1>3, <1>4, <2>1, LineWriteType
<1>6. /\ k + 1 = 3 => sda' = 1
      /\ k + 1 = 4 => sda' = 1 /\ sck' = 1
  <2>1. 1 \in Bit
    BY DEF Bit
  <2> QED BY <1>1, <1>4, <2>1, OpSda, OpSck
<1>7. k + 1 \in 0 .. 4 /\ index' = 0 /\ calls' = 0
  BY <1>2 DEF LineWrite, InInit
<1> QED BY <1>3, <1>5, <1>6, <1>7 DEF InInit

LEMMA StartWrite ==
    ASSUME ITypeOK, NEW k \in 0 .. 3, InStart(k), LineWrite
    PROVE  /\ ITypeOK'
           /\ k < 3 => InStart(k + 1)'
           /\ k = 3 => InBit(1, 0)'
<1> DEFINE program == i2c_start \o Send(OLED_ADDRESS)
<1>1. 0 \in Bit /\ 1 \in Bit /\ OLED_ADDRESS \in ByteOnBus /\ ByteWidth \in Nat \ {0}
  BY ByteAssumption DEF Bit
<1>2. /\ program \in Seq(LineOp) /\ Len(program) > 4
      /\ program[1] = Sda(1) /\ program[2] = Sck(1) /\ program[3] = Sda(0) /\ program[4] = Sck(0)
      /\ Rest(program, 4) = Rest(Send(OLED_ADDRESS), 0)
  BY <1>1, StartProgram
<1>3. lineops = Rest(program, k)
  BY DEF InStart
<1> HIDE DEF program
<1>4. Head(lineops) = program[k + 1] /\ lineops' = Rest(program, k + 1) /\ lineops' \in Seq(LineOp)
  <2>1. k \in 0 .. Len(program) - 1
    BY <1>2
  <2> QED BY <1>2, <1>3, <2>1, NextOp
<1>5. /\ k = 0 => Head(lineops) = Sda(1)
      /\ k = 1 => Head(lineops) = Sck(1)
      /\ k = 2 => Head(lineops) = Sda(0)
      /\ k = 3 => Head(lineops) = Sck(0)
  BY <1>2, <1>4
<1>6. ITypeOK'
  BY <1>1, <1>4, <1>5, LineWriteType
<1>7. /\ index = 1 /\ sck = 1 /\ sda = (IF k = 3 THEN 0 ELSE 1) /\ (calls = 2 => executed = <<>>)
      /\ k < 3 /\ calls = 2 => Away /\ (present => panel.phase # "off")
      /\ k = 3 => \/ Away /\ (calls = 2 => ~present)
                  \/ panel.phase = "address" /\ panel.bits = <<>> /\ ~panel.pull
                  \/ panel.pull /\ calls = 1
  BY DEF InStart
<1>8. index' = index /\ message' = message /\ calls' = calls /\ present' = present
  BY DEF LineWrite
<1>9. /\ PanelOK(panel) /\ calls \in 1 .. 2 /\ OnWire(sda, panel) \in Bit
      /\ ~panel.pull => OnWire(sda, panel) = sda
      /\ sda \in Bit
  BY <1>1, <1>7, WireLevel DEF ITypeOK
<1>10. CASE k \in {0, 1}
  <2>1. sda' = 1 /\ sck' = 1 /\ executed' = executed /\ panel' = panel
    <3>1. CASE k = 0
      <4>1. sda' = 1 /\ sck' = sck /\ executed' = executed
            /\ panel' = Listens(panel, OnWire(sda, panel), sck, OnWire(1, panel), sck)
        BY <1>1, <1>5, <3>1, OpSda
      <4> QED BY <1>1, <1>7, <1>9, <3>1, <4>1, Listening
    <3>2. CASE k = 1
      <4>1. /\ sda' = sda /\ sck' = 1
            /\ ~(panel.phase = "value" /\ ByteComplete(panel, sck, 1)) => executed' = executed
            /\ panel' = Listens(panel, OnWire(sda, panel), sck, OnWire(sda, panel), 1)
        BY <1>1, <1>5, <3>2, OpSck
      <4>2. ~ByteComplete(panel, sck, 1)
        BY DEF ByteComplete
      <4> QED BY <1>1, <1>7, <1>9, <3>2, <4>1, <4>2, Listening
    <3> QED BY <1>10, <3>1, <3>2
  <2> QED BY <1>2, <1>4, <1>6, <1>7, <1>8, <1>10, <2>1 DEF InStart, Away, program
<1>11. CASE k = 2
  <2>1. sda' = 0 /\ sck' = 1 /\ executed' = executed
        /\ panel' = Listens(panel, OnWire(1, panel), 1, OnWire(0, panel), 1)
    BY <1>1, <1>5, <1>7, <1>11, OpSda
  <2>2. /\ OnWire(0, panel) = 0 /\ (~panel.pull => OnWire(1, panel) = 1)
    BY <1>1, WireLevel
  <2>3. CASE panel.pull
    <3>1. calls = 1
      BY <1>7, <1>9, <1>11, <2>3, AwayPanels
    <3>2. OnWire(1, panel) = 0
      BY <1>1, <2>3, WireLevel
    <3>3. panel' = panel
      BY <1>1, <1>9, <2>1, <2>2, <3>2, Listening
    <3> QED BY <1>4, <1>6, <1>7, <1>8, <1>11, <2>1, <2>3, <3>1, <3>3 DEF InStart, program
  <2>4. CASE ~panel.pull /\ panel.phase = "off"
    <3>1. panel' = panel /\ panel = Deaf
      BY <1>1, <1>9, <2>1, <2>2, <2>4, Listening DEF PanelOK
    <3>2. Away' /\ (calls = 2 => ~present)
      BY <1>7, <1>11, <2>4, <3>1 DEF Away
    <3> QED BY <1>4, <1>6, <1>7, <1>8, <1>11, <2>1, <3>2 DEF InStart, program
  <2>5. CASE ~panel.pull /\ panel.phase # "off"
    <3>1. panel' = Started
      BY <1>1, <1>9, <2>1, <2>2, <2>5, Listening
    <3>2. panel'.phase = "address" /\ panel'.bits = <<>> /\ ~panel'.pull
      BY <3>1, IdlePanels
    <3> QED BY <1>4, <1>6, <1>7, <1>8, <1>11, <2>1, <3>2 DEF InStart, program
  <2> QED BY <2>3, <2>4, <2>5
<1>12. CASE k = 3
  <2>1. /\ sda' = sda /\ sck' = 0
        /\ ~(panel.phase = "value" /\ ByteComplete(panel, sck, 0)) => executed' = executed
        /\ panel' = Listens(panel, OnWire(sda, panel), sck, OnWire(sda, panel), 0)
    BY <1>1, <1>5, <1>12, OpSck
  <2>2. sck = 1 /\ sda = 0
    BY <1>7, <1>12
  <2>3. OLED_ADDRESS = message[1] /\ Prefix(OLED_ADDRESS, 0) = <<>> /\ Len(<<>>) # ByteWidth
    BY <1>1, <1>7, PrefixGrows DEF ITypeOK
  <2>4. lineops' = Rest(Send(message'[index']), 3 * (1 - 1) + 0)
    BY <1>2, <1>4, <1>7, <1>8, <1>12, <2>3
  <2>5. CASE Away
    <3>1. panel' = panel /\ executed' = executed
      BY <1>1, <1>9, <2>1, <2>2, <2>5, AwayPanels, Listening
    <3>2. Away' /\ (calls = 2 => ~present)
      BY <1>7, <1>12, <2>5, <3>1, AwayPanels DEF Away
    <3> QED BY <1>6, <1>7, <1>8, <1>12, <2>1, <2>4, <3>1, <3>2 DEF InBit
  <2>6. CASE panel.phase = "address" /\ panel.bits = <<>> /\ ~panel.pull
    <3>1. panel' = panel /\ executed' = executed
      BY <1>1, <1>9, <2>1, <2>2, <2>3, <2>6, Listening
    <3>2. Follows(0)'
      BY <1>7, <1>8, <2>3, <2>6, <3>1 DEF Follows
    <3>3. ~Away'
      BY <2>6, <3>1, IdlePanels DEF Away
    <3> QED BY <1>6, <1>7, <1>8, <1>12, <2>1, <2>4, <3>1, <3>2, <3>3 DEF InBit
  <2>7. CASE panel.pull /\ calls = 1
    <3>1. panel.phase \in {"register", "value"} /\ panel.bits = <<>> /\ panel \in Panel
      BY <1>9, <2>7 DEF PanelOK
    <3>2. panel' = [panel EXCEPT !.pull = FALSE]
      BY <1>1, <1>9, <2>1, <2>2, <2>7, <3>1, Listening
    <3>3. panel'.phase \in {"register", "value"} /\ panel'.bits = <<>> /\ ~panel'.pull
      BY <3>1, <3>2 DEF Panel
    <3>4. Follows(0)'
      BY <1>7, <1>8, <2>3, <2>7, <3>3 DEF Follows
    <3> QED BY <1>6, <1>7, <1>8, <1>12, <2>1, <2>4, <2>7, <3>4 DEF InBit
  <2> QED BY <1>7, <1>12, <2>5, <2>6, <2>7
<1> QED BY <1>10, <1>11, <1>12

LEMMA Messages ==
    ASSUME ITypeOK, index \in 1 .. 3
    PROVE  message[index] \in ByteOnBus /\ message[1] = OLED_ADDRESS /\ calls \in 1 .. 2
<1>1. PICK reg \in Registers, val \in Values : message = <<OLED_ADDRESS, reg, val>>
  BY DEF ITypeOK
<1>2. OLED_ADDRESS \in ByteOnBus /\ reg \in ByteOnBus /\ val \in ByteOnBus
  BY ByteAssumption
<1> QED BY <1>1, <1>2 DEF ITypeOK

LEMMA BitWrite ==
    ASSUME ITypeOK, NEW i \in 1 .. ByteWidth, NEW s \in 0 .. 2, InBit(i, s), LineWrite
    PROVE  /\ ITypeOK'
           /\ s < 2 => InBit(i, s + 1)'
           /\ s = 2 /\ i < ByteWidth => InBit(i + 1, 0)'
           /\ s = 2 /\ i = ByteWidth => InAck(0)'
<1> DEFINE byte == message[index]
           k == 3 * (i - 1) + s
<1>1. /\ index \in 1 .. 3 /\ lineops = Rest(Send(byte), k)
      /\ sck = (IF s = 2 THEN 1 ELSE 0) /\ (s # 0 => sda = byte[i])
      /\ Away \/ Follows(IF s = 2 THEN i ELSE i - 1)
      /\ calls = 2 => (present => ~Away) /\ executed = <<>>
  BY DEF InBit
<1>2. byte \in ByteOnBus /\ message[1] = OLED_ADDRESS /\ calls \in 1 .. 2
  BY <1>1, Messages
<1>3. ByteWidth \in Nat \ {0} /\ byte[i] \in Bit /\ 0 \in Bit /\ 1 \in Bit
  BY <1>2, ByteAssumption DEF ByteOnBus, Bit
<1>4. index' = index /\ message' = message /\ calls' = calls /\ present' = present
  BY DEF LineWrite
<1> HIDE DEF byte
<1>5. /\ Send(byte) \in Seq(LineOp) /\ k \in 0 .. Len(Send(byte)) - 1
      /\ s = 0 => Send(byte)[k + 1] = Sda(byte[i])
      /\ s = 1 => Send(byte)[k + 1] = Sck(1)
      /\ s = 2 => Send(byte)[k + 1] = Sck(0)
  <2>1. /\ Send(byte) \in Seq(LineOp) /\ Len(Send(byte)) = 3 * ByteWidth + 6
        /\ Send(byte)[3 * (i - 1) + 1] = Sda(byte[i])
        /\ Send(byte)[3 * (i - 1) + 2] = Sck(1)
        /\ Send(byte)[3 * (i - 1) + 3] = Sck(0)
    BY <1>2, SendProgram
  <2>2. k \in 0 .. 3 * ByteWidth + 6 - 1
    BY <1>3
  <2>3. /\ s = 0 => k + 1 = 3 * (i - 1) + 1
        /\ s = 1 => k + 1 = 3 * (i - 1) + 2
        /\ s = 2 => k + 1 = 3 * (i - 1) + 3
    OBVIOUS
  <2> HIDE DEF k
  <2>4. /\ s = 0 => Send(byte)[k + 1] = Sda(byte[i])
        /\ s = 1 => Send(byte)[k + 1] = Sck(1)
        /\ s = 2 => Send(byte)[k + 1] = Sck(0)
    BY <2>1, <2>3, Zenon
  <2>5. k \in 0 .. Len(Send(byte)) - 1
    BY <1>3, <2>1, <2>2
  <2> QED BY <2>1, <2>4, <2>5, Zenon
<1>6. /\ Head(lineops) = Send(byte)[k + 1]
      /\ lineops' = Rest(Send(byte), k + 1) /\ lineops' \in Seq(LineOp)
  <2> HIDE DEF k
  <2> QED BY <1>1, <1>5, NextOp
<1>7. /\ s = 0 => Head(lineops) = Sda(byte[i])
      /\ s = 1 => Head(lineops) = Sck(1)
      /\ s = 2 => Head(lineops) = Sck(0)
  BY <1>5, <1>6
<1>8. ITypeOK'
  BY <1>3, <1>6, <1>7, LineWriteType
<1>9. PanelOK(panel) /\ OnWire(sda, panel) \in Bit /\ OnWire(byte[i], panel) \in Bit /\ sck \in Bit
  BY <1>3, WireLevel DEF ITypeOK
<1>10. byte' = byte
  BY <1>4 DEF byte
<1>11. CASE s = 0
  <2>1. /\ sda' = byte[i] /\ sck' = sck /\ executed' = executed
        /\ panel' = Listens(panel, OnWire(sda, panel), sck, OnWire(byte[i], panel), sck)
    BY <1>3, <1>7, <1>11, OpSda
  <2>2. panel' = panel
    BY <1>1, <1>9, <1>11, <2>1, Listening
  <2>3. Away' <=> Away
    BY <2>2 DEF Away
  <2>4. Follows(i - 1) => Follows(i - 1)'
    BY <1>4, <2>2 DEF Follows
  <2>5. k + 1 = 3 * (i - 1) + 1
    BY <1>11
  <2>6. InBit(i, 1)'
    BY <1>1, <1>4, <1>6, <1>10, <1>11, <2>1, <2>3, <2>4, <2>5 DEF InBit, byte
  <2> QED BY <1>8, <1>11, <2>6
<1>12. CASE s = 1
  <2>1. /\ sda' = sda /\ sck' = 1
        /\ ~(panel.phase = "value" /\ ByteComplete(panel, sck, 1)) => executed' = executed
        /\ panel' = Listens(panel, OnWire(sda, panel), sck, OnWire(sda, panel), 1)
    BY <1>3, <1>7, <1>12, OpSck
  <2>2. executed' = executed /\ sck = 0 /\ sda = byte[i]
    BY <1>1, <1>12, <2>1 DEF ByteComplete
  <2>3. CASE Away
    <3>1. panel' = panel
      BY <1>3, <1>9, <2>1, <2>2, <2>3, AwayPanels, Listening
    <3>2. Away'
      BY <2>3, <3>1 DEF Away
    <3>3. k + 1 = 3 * (i - 1) + 2
      BY <1>12
    <3>4. InBit(i, 2)'
      BY <1>1, <1>4, <1>6, <1>10, <1>12, <2>1, <2>2, <2>3, <3>2, <3>3 DEF InBit, byte
    <3> QED BY <1>8, <1>12, <3>4
  <2>4. CASE Follows(i - 1)
    <3>1. /\ panel.phase \notin {"off", "idle"} /\ ~panel.pull /\ panel.bits = Prefix(byte, i - 1)
          /\ OnWire(sda, panel) = byte[i] /\ panel \in Panel
      BY <1>3, <1>9, <2>2, <2>4, WireLevel DEF Follows, byte, PanelOK
    <3>2. panel' = [panel EXCEPT !.bits = Append(panel.bits, byte[i])]
      <4>1. panel' = Listens(panel, OnWire(sda, panel), 0, OnWire(sda, panel), 1)
        BY <2>1, <2>2
      <4>2. panel' = [panel EXCEPT !.bits = Append(panel.bits, OnWire(sda, panel))]
        BY <1>9, <3>1, <4>1, Rising, Zenon
      <4> QED BY <3>1, <4>2
    <3>3. Append(panel.bits, byte[i]) = Prefix(byte, i)
      BY <1>2, <3>1, PrefixGrows
    <3>4. /\ panel'.bits = Prefix(byte, i) /\ panel'.phase = panel.phase
          /\ panel'.pull = panel.pull /\ panel'.reg = panel.reg
      BY <3>1, <3>2, <3>3 DEF Panel
    <3>5. Follows(i)'
      BY <1>4, <1>10, <2>4, <3>4 DEF Follows, byte
    <3>6. ~Away'
      BY <3>1, <3>4, IdlePanels DEF Away
    <3>7. k + 1 = 3 * (i - 1) + 2
      BY <1>12
    <3>8. InBit(i, 2)'
      BY <1>1, <1>4, <1>6, <1>10, <1>12, <2>1, <2>2, <3>5, <3>6, <3>7 DEF InBit, byte
    <3> QED BY <1>8, <1>12, <3>8
  <2> QED BY <1>1, <1>12, <2>3, <2>4
<1>13. CASE s = 2
  <2>1. /\ sda' = sda /\ sck' = 0
        /\ executed' = executed \o Executes(panel, sck, 0)
        /\ ~(panel.phase = "value" /\ ByteComplete(panel, sck, 0)) => executed' = executed
        /\ panel' = Listens(panel, OnWire(sda, panel), sck, OnWire(sda, panel), 0)
    BY <1>3, <1>7, <1>13, OpSck
  <2>2. sck = 1 /\ k + 1 = 3 * i
    BY <1>1, <1>13
  <2>3. CASE Away
    <3>1. panel' = panel /\ executed' = executed
      BY <1>3, <1>9, <2>1, <2>2, <2>3, AwayPanels, Listening
    <3>2. Away'
      BY <2>3, <3>1 DEF Away
    <3>3. i < ByteWidth => InBit(i + 1, 0)'
      <4>1. k + 1 = 3 * ((i + 1) - 1) + 0
        BY <2>2
      <4> QED BY <1>1, <1>4, <1>6, <1>10, <1>13, <2>1, <2>3, <3>1, <3>2, <4>1 DEF InBit, byte
    <3>4. i = ByteWidth => InAck(0)'
      <4>1. i = ByteWidth => k + 1 = 3 * ByteWidth + 0
        BY <2>2
      <4> QED BY <1>1, <1>4, <1>6, <1>10, <1>13, <2>1, <2>3, <3>1, <3>2, <4>1 DEF InAck, Done, byte
    <3> QED BY <1>8, <1>13, <3>3, <3>4
  <2>4. CASE Follows(i)
    <3>1. /\ panel.phase \in {"address", "register", "value"} /\ panel.pull = FALSE /\ panel.bits = Prefix(byte, i)
          /\ Len(panel.bits) = i /\ panel \in Panel
      BY <1>2, <1>3, <1>9, <2>4, PrefixGrows DEF Follows, byte, PanelOK, Panel
    <3>2. panel' = IF i = ByteWidth THEN Heard(panel) ELSE panel
      BY <1>3, <1>9, <2>1, <2>2, <3>1, Listening
    <3>3. ASSUME i < ByteWidth PROVE InBit(i + 1, 0)'
      <4>1. k + 1 = 3 * ((i + 1) - 1) + 0 /\ (i + 1) - 1 = i
        BY <2>2
      <4>2. panel' = panel /\ executed' = executed
        BY <1>3, <2>1, <3>1, <3>2, <3>3 DEF ByteComplete
      <4>3. Follows((i + 1) - 1)' /\ (Away' <=> Away)
        BY <1>4, <1>10, <2>4, <4>1, <4>2 DEF Follows, Away, byte
      <4> QED BY <1>1, <1>4, <1>6, <1>10, <1>13, <2>1, <4>1, <4>2, <4>3 DEF InBit, byte
    <3>4. ASSUME i = ByteWidth PROVE InAck(0)'
      <4>1. k + 1 = 3 * ByteWidth + 0
        BY <2>2, <3>4
      <4>2. panel' = Heard(panel) /\ panel.bits = byte
        BY <1>2, <3>1, <3>2, <3>4, PrefixGrows
      <4>3. ByteComplete(panel, sck, 0)
        BY <2>2, <3>1, <3>4 DEF ByteComplete
      <4>4. CASE calls # 2
        <5>1. Away' \/ (Acknowledges /\ panel.pull)'
          <6>1. CASE panel.phase = "address" /\ panel.bits # OLED_ADDRESS
            BY <4>2, <6>1 DEF Heard, Away
          <6>2. CASE panel.phase = "address" /\ panel.bits = OLED_ADDRESS
            <7>1. panel' = [panel EXCEPT !.phase = "register", !.pull = TRUE, !.bits = <<>>]
              BY <4>2, <6>2 DEF Heard
            <7> QED BY <1>4, <3>1, <4>4, <7>1 DEF Acknowledges, Panel
          <6>3. CASE panel.phase = "register"
            <7>1. panel' = [panel EXCEPT !.phase = "value", !.reg = panel.bits, !.pull = TRUE, !.bits = <<>>]
              BY <4>2, <6>3 DEF Heard
            <7> QED BY <1>4, <3>1, <4>4, <7>1 DEF Acknowledges, Panel
          <6>4. CASE panel.phase = "value"
            <7>1. panel' = [panel EXCEPT !.pull = TRUE, !.bits = <<>>]
              BY <4>2, <6>4 DEF Heard
            <7> QED BY <1>4, <3>1, <4>4, <6>4, <7>1 DEF Acknowledges, Panel
          <6> QED BY <3>1, <6>1, <6>2, <6>3, <6>4
        <5>2. calls' # 2 /\ sck' = 0 /\ index' \in 1 .. 3
          BY <1>1, <1>4, <2>1, <4>4
        <5>3. lineops' = Rest(Send(message'[index']), 3 * ByteWidth + 0)
          BY <1>4, <1>6, <4>1 DEF byte
        <5> QED BY <5>1, <5>2, <5>3 DEF InAck
      <4>5. CASE calls = 2
        <5>1. /\ panel.phase = (CASE index = 1 -> "address" [] index = 2 -> "register" [] OTHER -> "value")
              /\ index = 3 => panel.reg = message[2]
              /\ executed = <<>>
          BY <1>1, <2>4, <4>5 DEF Follows
        <5>2. /\ panel'.pull = TRUE /\ panel'.bits = <<>>
              /\ panel'.phase = (IF index = 1 THEN "register" ELSE "value")
              /\ index # 1 => panel'.reg = message[2]
          <6>1. CASE index = 1
            <7>1. panel' = [panel EXCEPT !.phase = "register", !.pull = TRUE, !.bits = <<>>]
              BY <1>2, <4>2, <5>1, <6>1 DEF Heard, byte
            <7> QED BY <3>1, <6>1, <7>1 DEF Panel
          <6>2. CASE index = 2
            <7>1. panel' = [panel EXCEPT !.phase = "value", !.reg = panel.bits, !.pull = TRUE, !.bits = <<>>]
              BY <4>2, <5>1, <6>2 DEF Heard
            <7>2. panel.bits = message[2]
              BY <4>2, <6>2 DEF byte
            <7> QED BY <3>1, <6>2, <7>1, <7>2 DEF Panel
          <6>3. CASE index = 3
            <7>1. panel' = [panel EXCEPT !.pull = TRUE, !.bits = <<>>]
              BY <4>2, <5>1, <6>3 DEF Heard
            <7>2. panel.phase = "value" /\ panel.reg = message[2]
              BY <5>1, <6>3
            <7>3. panel'.pull = TRUE /\ panel'.bits = <<>> /\ panel'.phase = panel.phase /\ panel'.reg = panel.reg
              BY <3>1, <7>1 DEF Panel
            <7> QED BY <6>3, <7>2, <7>3
          <6>4. index = 1 \/ index = 2 \/ index = 3
            BY <1>1
          <6> QED BY <6>1, <6>2, <6>3, <6>4, Zenon
        <5>3. (Acknowledges /\ panel.pull)' /\ ~Away'
          BY <1>1, <1>4, <5>2, IdlePanels DEF Acknowledges, Away
        <5>4. Done(index = 3)'
          <6>1. CASE index = 3
            <7>1. Executes(panel, sck, 0) = <<<<message[2], message[3]>>>>
              BY <4>2, <4>3, <5>1, <6>1 DEF Executes, byte
            <7>2. executed' = <<<<message[2], message[3]>>>>
              BY <2>1, <5>1, <7>1
            <7>3. executed' # <<>>
              BY <7>2
            <7> QED BY <1>4, <6>1, <7>2, <7>3 DEF Done
          <6>2. CASE index # 3
            <7>1. panel.phase # "value"
              BY <1>1, <5>1, <6>2
            <7>2. executed' = <<>>
              BY <2>1, <5>1, <7>1
            <7> QED BY <1>4, <6>2, <7>2 DEF Done
          <6> QED BY <6>1, <6>2
        <5>5. sck' = 0 /\ index' \in 1 .. 3
          BY <1>1, <1>4, <2>1
        <5>6. lineops' = Rest(Send(message'[index']), 3 * ByteWidth + 0)
          BY <1>4, <1>6, <4>1 DEF byte
        <5> QED BY <5>3, <5>4, <5>5, <5>6 DEF InAck
      <4> QED BY <4>4, <4>5
    <3> QED BY <1>8, <1>13, <3>3, <3>4
  <2> QED BY <1>1, <1>13, <2>3, <2>4
<1> QED BY <1>11, <1>12, <1>13

LEMMA AckProgram ==
    ASSUME ITypeOK, NEW s \in 0 .. 5, InAck(s)
    PROVE  /\ Head(lineops) = (CASE s = 0 -> Sda(1) [] s = 1 -> Sck(0) [] s = 2 -> Sck(1)
                                 [] s = 3 -> ReadSda [] s = 4 -> Sck(0) [] s = 5 -> Sda(0))
           /\ lineops # <<>>
           /\ LineWrite \/ LineRead => /\ lineops' \in Seq(LineOp) /\ index' \in 1 .. 3
                                       /\ lineops' = Rest(Send(message'[index']), 3 * ByteWidth + (s + 1))
<1> DEFINE byte == message[index]
           k == 3 * ByteWidth + s
<1>1. index \in 1 .. 3 /\ lineops = Rest(Send(byte), k) /\ byte \in ByteOnBus
  BY Messages DEF InAck
<1> HIDE DEF byte
<1>2. /\ Send(byte) \in Seq(LineOp) /\ Len(Send(byte)) = 3 * ByteWidth + 6
      /\ Send(byte)[3 * ByteWidth + 1] = Sda(1)
      /\ Send(byte)[3 * ByteWidth + 2] = Sck(0)
      /\ Send(byte)[3 * ByteWidth + 3] = Sck(1)
      /\ Send(byte)[3 * ByteWidth + 4] = ReadSda
      /\ Send(byte)[3 * ByteWidth + 5] = Sck(0)
      /\ Send(byte)[3 * ByteWidth + 6] = Sda(0)
  BY <1>1, SendProgram
<1>3. /\ k \in 0 .. Len(Send(byte)) - 1 /\ k + 1 = 3 * ByteWidth + (s + 1)
  BY <1>2, ByteAssumption
<1>4. /\ lineops # <<>> /\ Head(lineops) = Send(byte)[k + 1]
      /\ LineWrite \/ LineRead => lineops' = Rest(Send(byte), k + 1) /\ lineops' \in Seq(LineOp)
  <2> HIDE DEF k
  <2> QED BY <1>1, <1>2, <1>3, NextOp
<1>5. Head(lineops) = (CASE s = 0 -> Sda(1) [] s = 1 -> Sck(0) [] s = 2 -> Sck(1)
                         [] s = 3 -> ReadSda [] s = 4 -> Sck(0) [] s = 5 -> Sda(0))
  <2>1. Head(lineops) = Send(byte)[3 * ByteWidth + (s + 1)]
    BY <1>3, <1>4
  <2>2. s = 0 \/ s = 1 \/ s = 2 \/ s = 3 \/ s = 4 \/ s = 5
    OBVIOUS
  <2> QED BY <1>2, <2>1, <2>2
<1>6. LineWrite \/ LineRead => message' = message /\ index' = index
  BY DEF LineWrite, LineRead
<1> QED BY <1>1, <1>3, <1>4, <1>5, <1>6 DEF byte

LEMMA AckWrite ==
    ASSUME ITypeOK, NEW s \in 0 .. 5, InAck(s), LineWrite
    PROVE  ITypeOK' /\ InAck(s + 1)'
<1>1. /\ sck = (IF s \in {3, 4} THEN 1 ELSE 0) /\ index \in 1 .. 3
      /\ s \in 1 .. 5 => sda = 1
      /\ Away \/ Acknowledges
      /\ ~Away => (panel.pull <=> s < 5)
      /\ calls = 2 => /\ present => ~Away
                      /\ Done(index = 3)
                      /\ s >= 4 /\ present => ack
                      /\ s >= 4 /\ ack /\ index = 3 => executed # <<>>
  BY DEF InAck
<1>2. /\ Head(lineops) = (CASE s = 0 -> Sda(1) [] s = 1 -> Sck(0) [] s = 2 -> Sck(1)
                            [] s = 3 -> ReadSda [] s = 4 -> Sck(0) [] s = 5 -> Sda(0))
      /\ lineops' \in Seq(LineOp) /\ index' \in 1 .. 3
      /\ lineops' = Rest(Send(message'[index']), 3 * ByteWidth + (s + 1))
  BY AckProgram
<1>3. s # 3
  BY <1>2 DEF LineWrite, ReadSda
<1>4. /\ 0 \in Bit /\ 1 \in Bit /\ PanelOK(panel) /\ panel \in Panel /\ sck \in Bit
      /\ OnWire(sda, panel) \in Bit /\ OnWire(0, panel) \in Bit /\ OnWire(1, panel) \in Bit
  BY WireLevel DEF ITypeOK, PanelOK, Bit
<1>5. ITypeOK'
  <2>1. Head(lineops) \in {Sda(0), Sda(1), Sck(0), Sck(1)}
    BY <1>2, <1>3
  <2> QED BY <1>2, <1>4, <2>1, LineWriteType
<1>6. index' = index /\ message' = message /\ calls' = calls /\ present' = present /\ ack' = ack
  BY DEF LineWrite
<1>7. Away => panel.phase \in {"off", "idle"} /\ panel.pull = FALSE
  BY AwayPanels
<1>8. Acknowledges => panel.phase \in {"register", "value"} /\ panel.phase \notin {"off", "idle"} /\ ~Away
  BY IdlePanels DEF Acknowledges, Away
<1>9. /\ sda' = (IF s = 0 THEN 1 ELSE IF s = 5 THEN 0 ELSE sda)
      /\ sck' = (IF s = 2 THEN 1 ELSE 0)
      /\ executed' = executed
      /\ s # 4 => panel' = panel
      /\ s = 4 => panel' = IF Away THEN panel ELSE [panel EXCEPT !.pull = FALSE]
  <2>1. CASE s = 0 \/ s = 5
    <3> DEFINE l == IF s = 0 THEN 1 ELSE 0
    <3>1. l \in Bit /\ Head(lineops) = Sda(l) /\ OnWire(l, panel) \in Bit
      BY <1>2, <1>4, <2>1
    <3> HIDE DEF l
    <3>2. /\ sda' = l /\ sck' = sck /\ executed' = executed
          /\ panel' = Listens(panel, OnWire(sda, panel), sck, OnWire(l, panel), sck)
      BY <3>1, OpSda
    <3>3. sck = 0
      BY <1>1, <2>1
    <3>4. panel' = panel
      BY <1>4, <3>1, <3>2, <3>3, Listening
    <3> QED BY <2>1, <3>2, <3>3, <3>4 DEF l
  <2>2. CASE s = 1
    <3>1. /\ sda' = sda /\ sck' = 0
          /\ ~(panel.phase = "value" /\ ByteComplete(panel, sck, 0)) => executed' = executed
          /\ panel' = Listens(panel, OnWire(sda, panel), sck, OnWire(sda, panel), 0)
      BY <1>2, <1>4, <2>2, OpSck
    <3>2. sck = 0 /\ ~ByteComplete(panel, sck, 0)
      BY <1>1, <2>2 DEF ByteComplete
    <3>3. panel' = panel
      BY <1>4, <3>1, <3>2, Listening
    <3> QED BY <2>2, <3>1, <3>2, <3>3
  <2>3. CASE s = 2
    <3>1. /\ sda' = sda /\ sck' = 1
          /\ ~(panel.phase = "value" /\ ByteComplete(panel, sck, 1)) => executed' = executed
          /\ panel' = Listens(panel, OnWire(sda, panel), sck, OnWire(sda, panel), 1)
      BY <1>2, <1>4, <2>3, OpSck
    <3>2. sck = 0 /\ ~ByteComplete(panel, sck, 1)
      BY <1>1, <2>3 DEF ByteComplete
    <3>3. panel' = panel
      <4>1. CASE Away
        BY <1>4, <1>7, <3>1, <3>2, <4>1, Listening
      <4>2. CASE ~Away
        <5>1. panel.phase \notin {"off", "idle"} /\ panel.pull
          BY <1>1, <1>8, <2>3, <4>2
        <5> QED BY <1>4, <3>1, <3>2, <5>1, Listening
      <4> QED BY <4>1, <4>2
    <3> QED BY <2>3, <3>1, <3>2, <3>3
  <2>4. CASE s = 4
    <3>1. /\ sda' = sda /\ sck' = 0
          /\ ~(panel.phase = "value" /\ ByteComplete(panel, sck, 0)) => executed' = executed
          /\ panel' = Listens(panel, OnWire(sda, panel), sck, OnWire(sda, panel), 0)
      BY <1>2, <1>4, <2>4, OpSck
    <3>2. sck = 1
      BY <1>1, <2>4
    <3>3. CASE Away
      BY <1>4, <1>7, <2>4, <3>1, <3>2, <3>3, Listening
    <3>4. CASE ~Away
      <4>1. panel.phase \notin {"off", "idle"} /\ panel.pull
        BY <1>1, <1>8, <2>4, <3>4
      <4>2. ~ByteComplete(panel, sck, 0)
        BY <4>1 DEF ByteComplete
      <4>3. panel' = [panel EXCEPT !.pull = FALSE]
        BY <1>4, <3>1, <3>2, <4>1, Listening
      <4> QED BY <2>4, <3>1, <3>4, <4>2, <4>3
    <3> QED BY <3>3, <3>4
  <2> QED BY <1>3, <2>1, <2>2, <2>3, <2>4
<1>10. /\ Away' <=> Away
       /\ Acknowledges => Acknowledges'
       /\ ~Away => (panel'.pull <=> s + 1 < 5)
  <2>1. CASE s # 4
    <3>1. panel' = panel
      BY <1>9, <2>1
    <3>2. s < 5 <=> s + 1 < 5
      BY <2>1
    <3> QED BY <1>1, <1>6, <3>1, <3>2 DEF Away, Acknowledges
  <2>2. CASE s = 4 /\ Away
    <3>1. panel' = panel
      BY <1>9, <2>2
    <3> QED BY <1>6, <2>2, <3>1 DEF Away, Acknowledges
  <2>3. CASE s = 4 /\ ~Away
    <3>1. panel' = [panel EXCEPT !.pull = FALSE]
      BY <1>9, <2>3
    <3>2. /\ panel'.pull = FALSE /\ panel'.phase = panel.phase /\ panel'.bits = panel.bits
          /\ panel'.reg = panel.reg
      BY <1>4, <3>1 DEF Panel
    <3>3. Acknowledges'
      BY <1>1, <1>6, <2>3, <3>2 DEF Acknowledges
    <3>4. ~Away'
      BY <1>1, <1>8, <2>3, <3>2, IdlePanels DEF Away
    <3> QED BY <2>3, <3>2, <3>3, <3>4
  <2> QED BY <2>1, <2>2, <2>3
<1>11. Done(index = 3) => Done(index = 3)'
  BY <1>6, <1>9, <1>10 DEF Done
<1>12. /\ sck' = (IF s + 1 \in {3, 4} THEN 1 ELSE 0)
       /\ s + 1 \in 1 .. 5 => sda' = 1
       /\ s + 1 = 6 => sda' = 0
  BY <1>1, <1>3, <1>9
<1>13. s + 1 >= 4 => s >= 4
  BY <1>3
<1> QED BY <1>1, <1>2, <1>5, <1>6, <1>9, <1>10, <1>11, <1>12, <1>13 DEF InAck

LEMMA AckRead ==
    ASSUME ITypeOK, NEW s \in 0 .. 5, InAck(s), LineRead
    PROVE  ITypeOK' /\ InAck(s + 1)'
<1>1. /\ sck = (IF s \in {3, 4} THEN 1 ELSE 0) /\ index \in 1 .. 3
      /\ s \in 1 .. 5 => sda = 1
      /\ Away \/ Acknowledges
      /\ ~Away => (panel.pull <=> s < 5)
      /\ calls = 2 => (present => ~Away) /\ Done(index = 3)
  BY DEF InAck
<1>2. /\ Head(lineops) = (CASE s = 0 -> Sda(1) [] s = 1 -> Sck(0) [] s = 2 -> Sck(1)
                            [] s = 3 -> ReadSda [] s = 4 -> Sck(0) [] s = 5 -> Sda(0))
      /\ lineops' \in Seq(LineOp) /\ index' \in 1 .. 3
      /\ lineops' = Rest(Send(message'[index']), 3 * ByteWidth + (s + 1))
  BY AckProgram
<1>3. s = 3
  <2>1. Head(lineops).line = "read"
    BY DEF LineRead
  <2>2. \A l \in {0, 1} : Sda(l).line = "sda" /\ Sck(l).line = "sck"
    BY DEF Sda, Sck
  <2> QED BY <1>2, <2>1, <2>2
<1>4. /\ sda' = sda /\ sck' = sck /\ index' = index /\ message' = message /\ calls' = calls
      /\ present' = present /\ panel' = panel /\ executed' = executed
      /\ ack' = (OnWire(sda, panel) = 0)
  BY DEF LineRead
<1>5. ITypeOK'
  <2>1. ack' \in BOOLEAN
    BY <1>4
  <2> QED BY <1>2, <2>1 DEF ITypeOK, LineRead
<1>6. (Away' <=> Away) /\ (Acknowledges' <=> Acknowledges) /\ (Done(index = 3) => Done(index = 3)')
  BY <1>4 DEF Away, Acknowledges, Done
<1>7. Away <=> ~ack'
  <2>1. 1 \in Bit /\ sda = 1
    BY <1>1, <1>3 DEF Bit
  <2>2. CASE Away
    <3>1. OnWire(sda, panel) = 1
      BY <2>1, <2>2, AwayPanels, WireLevel
    <3>2. OnWire(sda, panel) # 0
      BY <3>1
    <3>3. ~ack'
      BY <1>4, <3>2, Zenon
    <3> QED BY <2>2, <3>3, Zenon
  <2>3. CASE ~Away
    <3>1. OnWire(sda, panel) = 0
      BY <1>1, <1>3, <2>1, <2>3, WireLevel
    <3> QED BY <1>4, <2>3, <3>1
  <2> QED BY <2>2, <2>3
<1>8. calls = 2 /\ ~Away /\ index = 3 => executed # <<>>
  BY <1>1 DEF Done
<1>9. s + 1 = 4
  BY <1>3
<1>10. ~Away' => panel'.pull
  BY <1>1, <1>3, <1>4, <1>6
<1> QED BY <1>1, <1>2, <1>3, <1>4, <1>5, <1>6, <1>7, <1>8, <1>9, <1>10 DEF InAck

LEMMA StopWrite ==
    ASSUME ITypeOK, NEW k \in 0 .. 1, InStop(k), LineWrite
    PROVE  ITypeOK' /\ InStop(k + 1)'
<1>1. /\ index = 4 /\ lineops = Rest(i2c_stop, k)
      /\ sck = (IF k = 0 THEN 0 ELSE 1) /\ sda = 0
      /\ ~panel.pull
      /\ calls = 2 => Settled
  BY DEF InStop
<1>2. /\ Head(lineops) = i2c_stop[k + 1]
      /\ lineops' = Rest(i2c_stop, k + 1) /\ lineops' \in Seq(LineOp)
  <2>1. k \in 0 .. Len(i2c_stop) - 1
    BY StopProgram
  <2> QED BY <1>1, <2>1, StopProgram, NextOp
<1>3. (k = 0 => Head(lineops) = Sck(1)) /\ (k = 1 => Head(lineops) = Sda(1))
  BY <1>2, StopProgram
<1>4. /\ 0 \in Bit /\ 1 \in Bit /\ PanelOK(panel) /\ panel \in Panel /\ sck \in Bit
      /\ OnWire(0, panel) = 0 /\ OnWire(1, panel) = 1 /\ panel.pull = FALSE
  BY <1>1, WireLevel DEF ITypeOK, PanelOK, Bit, Panel
<1>5. ITypeOK'
  BY <1>2, <1>3, <1>4, LineWriteType
<1>6. /\ index' = index /\ message' = message /\ calls' = calls /\ present' = present /\ ack' = ack
      /\ returned' = returned
  BY DEF LineWrite
<1>7. CASE k = 0
  <2>1. /\ sda' = sda /\ sck' = 1
        /\ ~(panel.phase = "value" /\ ByteComplete(panel, sck, 1)) => executed' = executed
        /\ panel' = Listens(panel, OnWire(sda, panel), sck, OnWire(sda, panel), 1)
    BY <1>3, <1>4, <1>7, OpSck
  <2>2. executed' = executed /\ sck = 0 /\ panel' = Listens(panel, 0, 0, 0, 1)
    BY <1>1, <1>4, <1>7, <2>1 DEF ByteComplete
  <2>3. panel'.pull = FALSE
    <3>1. CASE panel.phase \in {"off", "idle"}
      BY <1>4, <2>2, <3>1, Listening
    <3>2. CASE panel.phase \notin {"off", "idle"}
      <4>1. panel' = [panel EXCEPT !.bits = Append(panel.bits, 0)]
        BY <1>1, <1>4, <2>2, <3>2, Rising, Zenon
      <4> QED BY <1>4, <4>1 DEF Panel
    <3> QED BY <3>1, <3>2
  <2>5. calls' = 2 => Settled'
    BY <1>1, <1>6, <2>2 DEF Settled
  <2> QED BY <1>1, <1>2, <1>5, <1>6, <1>7, <2>1, <2>3, <2>5 DEF InStop
<1>8. CASE k = 1
  <2>1. /\ sda' = 1 /\ sck' = sck /\ executed' = executed
        /\ panel' = Listens(panel, OnWire(sda, panel), sck, OnWire(1, panel), sck)
    BY <1>3, <1>4, <1>8, OpSda
  <2>2. sck = 1 /\ panel' = Listens(panel, 0, 1, 1, 1)
    BY <1>1, <1>4, <1>8, <2>1
  <2>3. panel' \in {Deaf, Idle_panel}
    <3>1. CASE panel.phase = "off"
      BY <1>4, <2>2, <3>1, Listening DEF PanelOK
    <3>2. CASE panel.phase # "off"
      BY <1>4, <2>2, <3>2, Listening
    <3> QED BY <3>1, <3>2
  <2>4. Away' /\ ~panel'.pull
    BY <2>3, IdlePanels DEF Away
  <2>5. calls' = 2 => Settled'
    BY <1>1, <1>6, <2>1 DEF Settled
  <2> QED BY <1>1, <1>2, <1>5, <1>6, <1>8, <2>1, <2>2, <2>4, <2>5 DEF InStop
<1> QED BY <1>7, <1>8

-------------------------------------------------------------------------------
(* I2c: the other actions. *)

(* Only the reading of an acknowledgement is a read, and only where a call *)
(* of i2c.c ends nothing is left to do.                                    *)
LEMMA Places ==
    ASSUME ITypeOK
    PROVE  /\ InInit => ~LineRead
           /\ InInit /\ lineops = <<>> => sda = 1 /\ sck = 1
           /\ \A k \in 0 .. 3 : InStart(k) => lineops # <<>> /\ ~LineRead
           /\ \A i \in 1 .. ByteWidth, s \in 0 .. 2 : InBit(i, s) => lineops # <<>> /\ ~LineRead
           /\ \A s \in 0 .. 5 : InAck(s) => lineops # <<>>
           /\ InAck(6) => lineops = <<>>
           /\ \A k \in 0 .. 1 : InStop(k) => lineops # <<>> /\ ~LineRead
           /\ InStop(2) => lineops = <<>>
<1>0. \A l \in Bit : Sda(l).line # "read" /\ Sck(l).line # "read"
  BY DEF Sda, Sck
<1>1. ASSUME InInit PROVE ~LineRead /\ (lineops = <<>> => sda = 1 /\ sck = 1)
  <2>1. PICK d \in Bit, c \in Bit, k \in 0 .. 4 :
          lineops = Rest(i2c_init(d, c), k) /\ (k = 4 => sda = 1 /\ sck = 1)
    BY <1>1 DEF InInit
  <2>2. /\ i2c_init(d, c) \in Seq(LineOp) /\ Len(i2c_init(d, c)) = 4
        /\ i2c_init(d, c)[1] = Sda(d) /\ i2c_init(d, c)[2] = Sck(c)
        /\ i2c_init(d, c)[3] = Sda(1) /\ i2c_init(d, c)[4] = Sck(1)
    BY InitProgram
  <2>3. CASE k = 4
    <3>1. Rest(i2c_init(d, c), Len(i2c_init(d, c))) = <<>>
      <4>1. Len(i2c_init(d, c)) \in 0 .. Len(i2c_init(d, c))
        BY <2>2
      <4> QED BY <2>2, <4>1, RestOf, Zenon
    <3> QED BY <2>1, <2>2, <2>3, <3>1 DEF LineRead
  <2>4. CASE k # 4
    <3>1. lineops # <<>> /\ Head(lineops) = i2c_init(d, c)[k + 1]
      <4>1. k \in 0 .. Len(i2c_init(d, c)) - 1
        BY <2>2, <2>4
      <4> QED BY <2>1, <2>2, <4>1, NextOp
    <3>2. 1 \in Bit
      BY DEF Bit
    <3> QED BY <1>0, <2>2, <2>4, <3>1, <3>2 DEF LineRead
  <2> QED BY <2>3, <2>4
<1>2. ASSUME NEW k \in 0 .. 3, InStart(k) PROVE lineops # <<>> /\ ~LineRead
  <2> DEFINE program == i2c_start \o Send(OLED_ADDRESS)
  <2>1. /\ program \in Seq(LineOp) /\ Len(program) > 4
        /\ program[1] = Sda(1) /\ program[2] = Sck(1) /\ program[3] = Sda(0) /\ program[4] = Sck(0)
    BY ByteAssumption, StartProgram
  <2>2. lineops = Rest(program, k)
    BY <1>2 DEF InStart
  <2> HIDE DEF program
  <2>3. lineops # <<>> /\ Head(lineops) = program[k + 1]
    <3>1. k \in 0 .. Len(program) - 1
      BY <2>1
    <3> QED BY <2>1, <2>2, <3>1, NextOp
  <2>4. 0 \in Bit /\ 1 \in Bit
    BY DEF Bit
  <2> QED BY <1>0, <2>1, <2>3, <2>4 DEF LineRead
<1>3. ASSUME NEW i \in 1 .. ByteWidth, NEW s \in 0 .. 2, InBit(i, s)
      PROVE  lineops # <<>> /\ ~LineRead
  <2> DEFINE byte == message[index]
             k == 3 * (i - 1) + s
  <2>1. byte \in ByteOnBus /\ lineops = Rest(Send(byte), k)
    BY <1>3, Messages DEF InBit
  <2>2. /\ Send(byte) \in Seq(LineOp) /\ Len(Send(byte)) = 3 * ByteWidth + 6
        /\ Send(byte)[3 * (i - 1) + 1] = Sda(byte[i])
        /\ Send(byte)[3 * (i - 1) + 2] = Sck(1)
        /\ Send(byte)[3 * (i - 1) + 3] = Sck(0)
    BY <2>1, SendProgram
  <2>3. byte[i] \in Bit /\ 0 \in Bit /\ 1 \in Bit
    BY <2>1, ByteAssumption DEF ByteOnBus, Bit
  <2> HIDE DEF byte
  <2>4. k \in 0 .. Len(Send(byte)) - 1
    BY <2>2, ByteAssumption
  <2>5. k + 1 = 3 * (i - 1) + 1 \/ k + 1 = 3 * (i - 1) + 2 \/ k + 1 = 3 * (i - 1) + 3
    OBVIOUS
  <2> HIDE DEF k
  <2>6. lineops # <<>> /\ Head(lineops) = Send(byte)[k + 1]
    BY <2>1, <2>2, <2>4, NextOp
  <2>7. Head(lineops) \in {Sda(byte[i]), Sck(1), Sck(0)}
    BY <2>2, <2>5, <2>6
  <2> QED BY <1>0, <2>3, <2>6, <2>7 DEF LineRead
<1>4. \A s \in 0 .. 5 : InAck(s) => lineops # <<>>
  BY AckProgram
<1>5. ASSUME InAck(6) PROVE lineops = <<>>
  <2>1. /\ message[index] \in ByteOnBus
        /\ lineops = Rest(Send(message[index]), 3 * ByteWidth + 6)
    BY <1>5, Messages DEF InAck
  <2>2. /\ Send(message[index]) \in Seq(LineOp) /\ Len(Send(message[index])) = 3 * ByteWidth + 6
        /\ 3 * ByteWidth + 6 \in Nat
    BY <2>1, SendProgram, ByteAssumption
  <2>3. Len(Send(message[index])) \in 0 .. Len(Send(message[index]))
    BY <2>2
  <2>4. Rest(Send(message[index]), Len(Send(message[index]))) = <<>>
    BY <2>2, <2>3, RestOf, Zenon
  <2> QED BY <2>1, <2>2, <2>4
<1>6. ASSUME NEW k \in 0 .. 1, InStop(k) PROVE lineops # <<>> /\ ~LineRead
  <2>1. lineops # <<>> /\ Head(lineops) = i2c_stop[k + 1]
    <3>1. k \in 0 .. Len(i2c_stop) - 1 /\ lineops = Rest(i2c_stop, k)
      BY <1>6, StopProgram DEF InStop
    <3> QED BY <3>1, StopProgram, NextOp
  <2>2. 1 \in Bit
    BY DEF Bit
  <2> QED BY <1>0, <2>1, <2>2, StopProgram DEF LineRead
<1>7. ASSUME InStop(2) PROVE lineops = <<>>
  <2>1. 2 \in 0 .. Len(i2c_stop) /\ lineops = Rest(i2c_stop, 2)
    BY <1>7, StopProgram DEF InStop
  <2> QED BY <2>1, StopProgram, RestOf
<1> QED BY <1>1, <1>2, <1>3, <1>4, <1>5, <1>6, <1>7

LEMMA WriteBegins ==
    ASSUME ITypeOK, InInit \/ Between, NEW reg \in Registers, NEW val \in Values, OLED_writeReg(reg, val)
    PROVE  ITypeOK' /\ InStart(0)'
<1>1. /\ index' = 1 /\ message' = <<OLED_ADDRESS, reg, val>>
      /\ lineops' = i2c_start \o Send(OLED_ADDRESS)
      /\ calls' = (IF calls < 2 THEN calls + 1 ELSE calls)
      /\ returned' = "none" /\ executed' = <<>> /\ present' = (panel.phase # "off")
      /\ sda' = sda /\ sck' = sck /\ ack' = ack /\ oledstat' = oledstat /\ panel' = panel
      /\ lineops = <<>>
  BY DEF OLED_writeReg
<1>2. sda = 1 /\ sck = 1
  BY <1>1, Places DEF Between
<1>3. /\ i2c_start \o Send(OLED_ADDRESS) \in Seq(LineOp)
      /\ Rest(i2c_start \o Send(OLED_ADDRESS), 0) = i2c_start \o Send(OLED_ADDRESS)
  <2>1. i2c_start \o Send(OLED_ADDRESS) \in Seq(LineOp)
    BY ByteAssumption, StartProgram
  <2> QED BY <2>1, RestAll
<1>4. calls' = 2 => Away
  BY <1>1 DEF InInit, Between, ITypeOK
<1>5. calls' \in 1 .. 2
  BY <1>1 DEF ITypeOK
<1>6. ITypeOK'
  <2>1. executed' \in Seq(Seq(Seq(Bit)))
    BY <1>1
  <2>2. \E r \in Registers, v \in Values : message' = <<OLED_ADDRESS, r, v>>
    BY <1>1
  <2> QED BY <1>1, <1>3, <1>5, <2>1, <2>2 DEF ITypeOK
<1>7. Away' <=> Away
  BY <1>1 DEF Away
<1>8. InStart(0)'
  <2>1. sda' = 1 /\ sck' = 1 /\ index' = 1 /\ executed' = <<>>
    BY <1>1, <1>2
  <2>2. lineops' = Rest(i2c_start \o Send(OLED_ADDRESS), 0)
    BY <1>1, <1>3
  <2>3. present' => panel'.phase # "off"
    BY <1>1
  <2> QED BY <1>4, <1>7, <2>1, <2>2, <2>3 DEF InStart
<1> QED BY <1>6, <1>8

LEMMA ByteEnds ==
    ASSUME ITypeOK, InAck(6), ByteDone
    PROVE  ITypeOK' /\ (InBit(1, 0)' \/ InStop(0)')
<1>1. /\ sda' = sda /\ sck' = sck /\ message' = message /\ ack' = ack /\ oledstat' = oledstat
      /\ panel' = panel /\ calls' = calls /\ returned' = returned /\ executed' = executed
      /\ present' = present /\ index \in 1 .. 3
  BY DEF ByteDone
<1>2. /\ sck = 0 /\ sda = 0 /\ (Away \/ Acknowledges)
      /\ ~Away => ~panel.pull
      /\ calls = 2 => /\ present => ~Away
                      /\ Done(index = 3)
                      /\ present => ack
                      /\ ack /\ index = 3 => executed # <<>>
  BY DEF InAck
<1>3. ~panel.pull
  BY <1>2, AwayPanels
<1>4. Away' <=> Away
  BY <1>1 DEF Away
<1>5. CASE ack /\ index < 3
  <2>1. index' = index + 1 /\ lineops' = Send(message[index + 1])
    BY <1>5 DEF ByteDone
  <2>2. index' \in 2 .. 3 /\ (index' = 2 \/ index' = 3)
    BY <1>1, <1>5, <2>1
  <2>3. message'[index'] \in ByteOnBus
    <3>1. PICK reg \in Registers, val \in Values : message = <<OLED_ADDRESS, reg, val>>
      BY <1>1 DEF ITypeOK
    <3>2. reg \in ByteOnBus /\ val \in ByteOnBus
      BY ByteAssumption
    <3> QED BY <1>1, <2>2, <3>1, <3>2
  <2>4. Send(message'[index']) \in Seq(LineOp) /\ lineops' = Send(message'[index'])
    BY <1>1, <2>1, <2>3, SendProgram
  <2>5. lineops' = Rest(Send(message'[index']), 3 * (1 - 1) + 0)
    BY <2>4, RestAll
  <2>6. ITypeOK'
    BY <1>1, <2>2, <2>4 DEF ITypeOK
  <2>7. Away' \/ Follows(0)'
    <3>1. CASE Away
      BY <1>4, <3>1
    <3>2. CASE Acknowledges
      <4>1. Prefix(message'[index'], 0) = <<>>
        BY <2>3, PrefixGrows
      <4>2. panel.phase \in {"register", "value"} /\ panel.bits = <<>>
        BY <3>2 DEF Acknowledges
      <4>3. calls = 2 => /\ panel.phase = (IF index = 1 THEN "register" ELSE "value")
                         /\ index # 1 => panel.reg = message[2]
        BY <3>2 DEF Acknowledges
      <4>4. calls' = 2 => /\ panel'.phase = (CASE index' = 1 -> "address" [] index' = 2 -> "register" [] OTHER -> "value")
                          /\ index' = 3 => panel'.reg = message'[2]
        <5>1. CASE index' = 2
          BY <1>1, <2>1, <4>3, <5>1
        <5>2. CASE index' = 3
          BY <1>1, <2>1, <4>3, <5>2
        <5> QED BY <2>2, <5>1, <5>2
      <4>5. panel'.phase \in {"address", "register", "value"} /\ ~panel'.pull
            /\ panel'.bits = Prefix(message'[index'], 0)
        BY <1>1, <1>3, <4>1, <4>2
      <4> QED BY <4>4, <4>5 DEF Follows
    <3> QED BY <1>2, <3>1, <3>2
  <2>8. calls' = 2 => (present' => ~Away') /\ executed' = <<>>
    BY <1>1, <1>2, <1>4, <1>5 DEF Done
  <2>9. InBit(1, 0)'
    <3>1. sck' = 0 /\ index' \in 1 .. 3
      BY <1>1, <1>2, <2>2
    <3> QED BY <2>5, <2>7, <2>8, <3>1 DEF InBit
  <2> QED BY <2>6, <2>9
<1>6. CASE ~(ack /\ index < 3)
  <2>1. index' = 4 /\ lineops' = i2c_stop
    BY <1>6 DEF ByteDone
  <2>2. i2c_stop \in Seq(LineOp) /\ lineops' = Rest(i2c_stop, 0)
    BY <2>1, StopProgram, RestAll
  <2>3. ITypeOK'
    BY <1>1, <2>1, <2>2 DEF ITypeOK
  <2>4. Away' \/ panel'.bits = <<>>
    BY <1>1, <1>2, <1>4 DEF Acknowledges
  <2>5. calls = 2 => Settled
    BY <1>1, <1>2, <1>6 DEF Settled, Done
  <2>6. Settled => Settled'
    BY <1>1 DEF Settled
  <2>7. InStop(0)'
    <3>1. sck' = 0 /\ sda' = 0 /\ ~panel'.pull /\ calls' = calls
      BY <1>1, <1>2, <1>3
    <3> QED BY <2>1, <2>2, <2>4, <2>5, <2>6, <3>1 DEF InStop
  <2> QED BY <2>3, <2>7
<1> QED BY <1>5, <1>6

LEMMA WriteReturns ==
    ASSUME ITypeOK, InStop(2), Returns
    PROVE  ITypeOK' /\ Between'
<1>1. /\ sda' = sda /\ sck' = sck /\ lineops' = lineops /\ message' = message /\ ack' = ack
      /\ panel' = panel /\ calls' = calls /\ executed' = executed /\ present' = present
      /\ index' = 0 /\ returned' = (IF ack THEN "ok" ELSE "failed")
      /\ oledstat' = (oledstat \/ (ack /\ message[2] = COMMAND)) /\ lineops = <<>> /\ index = 4
  BY DEF Returns
<1>2. sck = 1 /\ sda = 1 /\ Away /\ (calls = 2 => Settled)
  BY DEF InStop
<1>3. ITypeOK'
  <2>1. oledstat' \in BOOLEAN
    BY <1>1
  <2> QED BY <1>1, <2>1 DEF ITypeOK
<1>4. WrittenAsSent'
  BY <1>1, <1>2 DEF WrittenAsSent, Settled
<1>5. Away' /\ calls' # 0
  BY <1>1, <1>2 DEF Away, ITypeOK
<1> QED BY <1>1, <1>2, <1>3, <1>4, <1>5 DEF Between

LEMMA ResetBegins ==
    ASSUME ITypeOK, ChipReset
    PROVE  ITypeOK' /\ InInit'
<1>1. /\ sda' = 1 /\ sck' = 1 /\ index' = 0 /\ oledstat' = FALSE /\ message' = <<>> /\ ack' = FALSE
      /\ calls' = 0 /\ returned' = "none" /\ executed' = <<>> /\ present' = (panel.phase # "off")
  BY DEF ChipReset
<1>2. PICK d \in Bit, c \in Bit : lineops' = i2c_init(d, c)
  BY DEF ChipReset, Bit
<1>3. i2c_init(d, c) \in Seq(LineOp) /\ Rest(i2c_init(d, c), 0) = i2c_init(d, c)
  BY InitProgram, RestAll
<1>4. PanelOK(panel')
  <2>1. PICK s \in Bit, b \in Bit :
          LET between == Listens(panel, OnWire(sda, panel), sck, OnWire(s, panel), b)
          IN  panel' = Listens(between, OnWire(s, between), b, OnWire(1, between), 1)
    BY DEF ChipReset, Bit
  <2> DEFINE between == Listens(panel, OnWire(sda, panel), sck, OnWire(s, panel), b)
  <2>2. PanelOK(between)
    <3>1. OnWire(sda, panel) \in Bit /\ OnWire(s, panel) \in Bit /\ PanelOK(panel) /\ sck \in Bit
      BY WireLevel DEF ITypeOK
    <3> QED BY <3>1, PanelStaysOK
  <2>3. panel' = Listens(between, OnWire(s, between), b, OnWire(1, between), 1)
    BY <2>1
  <2> HIDE DEF between
  <2>4. OnWire(s, between) \in Bit /\ OnWire(1, between) \in Bit /\ 1 \in Bit
    BY DEF OnWire, Bit
  <2> QED BY <2>2, <2>3, <2>4, PanelStaysOK
<1>5. ITypeOK'
  <2>1. executed' \in Seq(Seq(Seq(Bit))) /\ sda' \in Bit /\ sck' \in Bit
    BY <1>1 DEF Bit
  <2>2. present' \in BOOLEAN /\ ack' \in BOOLEAN /\ oledstat' \in BOOLEAN
    BY <1>1
  <2>3. lineops' \in Seq(LineOp)
    BY <1>2, <1>3
  <2> QED BY <1>1, <1>4, <2>1, <2>2, <2>3 DEF ITypeOK
<1>6. InInit'
  <2>1. 0 \in 0 .. 4 /\ lineops' = Rest(i2c_init(d, c), 0)
    BY <1>2, <1>3
  <2> QED BY <1>1, <2>1 DEF InInit
<1> QED BY <1>5, <1>6

(* A panel that is plugged in or out in between has heard nothing.         *)
LEMMA PowerKeeps ==
    ASSUME IInv, PanelPower
    PROVE  IInv'
<1>1. /\ sda' = sda /\ sck' = sck /\ lineops' = lineops /\ message' = message /\ index' = index
      /\ ack' = ack /\ oledstat' = oledstat /\ calls' = calls /\ returned' = returned
      /\ executed' = executed /\ present' = FALSE
      /\ panel' \in {Deaf, Idle_panel}
  BY DEF PanelPower
<1>2. Away' /\ PanelOK(panel') /\ panel'.pull = FALSE
  BY <1>1, IdlePanels DEF Away
<1>3. ITypeOK'
  BY <1>1, <1>2 DEF ITypeOK, IInv
<1>4. InInit => InInit'
  BY <1>1 DEF InInit
<1>5. \A k \in 0 .. 3 : InStart(k) => InStart(k)'
  BY <1>1, <1>2 DEF InStart
<1>6. \A i \in 1 .. ByteWidth, s \in 0 .. 2 : InBit(i, s) => InBit(i, s)'
  BY <1>1, <1>2 DEF InBit
<1>7. \A s \in 0 .. 6 : InAck(s) => InAck(s)'
  <2>1. Done(index = 3) => Done(index = 3)'
    BY <1>1, <1>2 DEF Done
  <2> QED BY <1>1, <1>2, <2>1 DEF InAck
<1>8. \A k \in 0 .. 2 : InStop(k) => InStop(k)'
  <2>1. Settled => Settled'
    BY <1>1 DEF Settled
  <2> QED BY <1>1, <1>2, <2>1 DEF InStop
<1>9. Between => Between'
  BY <1>1, <1>2 DEF Between, WrittenAsSent
<1> QED BY <1>3, <1>4, <1>5, <1>6, <1>7, <1>8, <1>9 DEF IInv

-------------------------------------------------------------------------------
(* I2c: the theorems. *)

LEMMA IInvInit == IInit => IInv
<1> SUFFICES ASSUME IInit PROVE IInv
  OBVIOUS
<1>1. PICK d \in Bit, c \in Bit : lineops = i2c_init(d, c)
  BY DEF IInit, Bit
<1>2. i2c_init(d, c) \in Seq(LineOp) /\ Rest(i2c_init(d, c), 0) = i2c_init(d, c)
  BY InitProgram, RestAll
<1>3. ITypeOK
  <2>1. PanelOK(panel) /\ executed \in Seq(Seq(Seq(Bit)))
    BY IdlePanels DEF IInit
  <2>2. lineops \in Seq(LineOp)
    BY <1>1, <1>2
  <2>3. /\ sda \in Bit /\ sck \in Bit /\ calls \in 0 .. 2 /\ index \in 0 .. 4 /\ index = 0
    BY DEF IInit, Bit
  <2>4. ack \in BOOLEAN /\ oledstat \in BOOLEAN /\ present \in BOOLEAN
    BY DEF IInit
  <2> QED BY <2>1, <2>2, <2>3, <2>4 DEF ITypeOK
<1>4. InInit
  <2>1. 0 \in 0 .. 4 /\ lineops = Rest(i2c_init(d, c), 0)
    BY <1>1, <1>2
  <2> QED BY <2>1 DEF InInit, IInit
<1> QED BY <1>3, <1>4 DEF IInv

LEMMA IInvNext == IInv /\ [INext]_ivars => IInv'
<1> SUFFICES ASSUME IInv, [INext]_ivars PROVE IInv'
  OBVIOUS
<1>1. ITypeOK
  BY DEF IInv
<1>2. ByteWidth \in Nat \ {0} /\ 1 \in 1 .. ByteWidth
  BY ByteAssumption
<1>3. ASSUME NEW reg \in Registers, NEW val \in Values, OLED_writeReg(reg, val)
      PROVE  IInv'
  <2>1. index = 0
    BY <1>3 DEF OLED_writeReg
  <2>2. InInit \/ Between
    BY <2>1 DEF IInv, InStart, InBit, InAck, InStop
  <2>3. ITypeOK' /\ InStart(0)'
    BY <1>1, <1>3, <2>2, WriteBegins
  <2> QED BY <2>3 DEF IInv
<1>4. CASE LineWrite
  <2>0. lineops # <<>>
    BY <1>4 DEF LineWrite
  <2>1. CASE InInit
    BY <1>1, <1>4, <2>1, InitWrite DEF IInv
  <2>2. ASSUME NEW k \in 0 .. 3, InStart(k) PROVE IInv'
    <3>1. ITypeOK' /\ (k < 3 => InStart(k + 1)') /\ (k = 3 => InBit(1, 0)')
      BY <1>1, <1>4, <2>2, StartWrite
    <3>2. CASE k < 3
      <4>1. k + 1 \in 0 .. 3
        BY <3>2
      <4> QED BY <3>1, <3>2, <4>1 DEF IInv
    <3>3. CASE k = 3
      BY <1>2, <3>1, <3>3 DEF IInv
    <3> QED BY <3>2, <3>3
  <2>3. ASSUME NEW i \in 1 .. ByteWidth, NEW s \in 0 .. 2, InBit(i, s) PROVE IInv'
    <3>1. /\ ITypeOK'
          /\ s < 2 => InBit(i, s + 1)'
          /\ s = 2 /\ i < ByteWidth => InBit(i + 1, 0)'
          /\ s = 2 /\ i = ByteWidth => InAck(0)'
      BY <1>1, <1>4, <2>3, BitWrite
    <3>2. CASE s < 2
      <4>1. s + 1 \in 0 .. 2
        BY <3>2
      <4> QED BY <3>1, <3>2, <4>1 DEF IInv
    <3>3. CASE s = 2 /\ i < ByteWidth
      <4>1. i + 1 \in 1 .. ByteWidth
        BY <1>2, <3>3
      <4> QED BY <3>1, <3>3, <4>1 DEF IInv
    <3>4. CASE s = 2 /\ i = ByteWidth
      BY <3>1, <3>4 DEF IInv
    <3> QED BY <1>2, <3>2, <3>3, <3>4
  <2>4. ASSUME NEW s \in 0 .. 6, InAck(s) PROVE IInv'
    <3>1. s \in 0 .. 5
      BY <1>1, <2>0, <2>4, Places
    <3>2. ITypeOK' /\ InAck(s + 1)'
      BY <1>1, <1>4, <2>4, <3>1, AckWrite
    <3>3. s + 1 \in 0 .. 6
      BY <3>1
    <3> QED BY <3>2, <3>3 DEF IInv
  <2>5. ASSUME NEW k \in 0 .. 2, InStop(k) PROVE IInv'
    <3>1. k \in 0 .. 1
      BY <1>1, <2>0, <2>5, Places
    <3>2. ITypeOK' /\ InStop(k + 1)'
      BY <1>1, <1>4, <2>5, <3>1, StopWrite
    <3>3. k + 1 \in 0 .. 2
      BY <3>1
    <3> QED BY <3>2, <3>3 DEF IInv
  <2>6. CASE Between
    BY <2>0, <2>6 DEF Between
  <2> QED BY <2>1, <2>2, <2>3, <2>4, <2>5, <2>6 DEF IInv
<1>5. CASE LineRead
  <2>0. lineops # <<>>
    BY <1>5 DEF LineRead
  <2>1. ~Between
    BY <2>0 DEF Between
  <2>2. \A k \in 0 .. 2 : ~InStop(k)
    <3> SUFFICES ASSUME NEW k \in 0 .. 2, InStop(k) PROVE FALSE
      OBVIOUS
    <3>1. k \in 0 .. 1 \/ k = 2
      OBVIOUS
    <3> QED BY <1>1, <1>5, <2>0, <3>1, Places
  <2>3. PICK s \in 0 .. 6 : InAck(s)
    BY <1>1, <1>5, <2>1, <2>2, Places DEF IInv
  <2>4. s \in 0 .. 5
    BY <1>1, <2>0, <2>3, Places
  <2>5. ITypeOK' /\ InAck(s + 1)'
    BY <1>1, <1>5, <2>3, <2>4, AckRead
  <2>6. s + 1 \in 0 .. 6
    BY <2>4
  <2> QED BY <2>5, <2>6 DEF IInv
<1>6. CASE ByteDone
  <2>1. index \in 1 .. 3 /\ lineops = <<>>
    BY <1>6 DEF ByteDone
  <2>2. PICK s \in 0 .. 6 : InAck(s)
    BY <1>1, <2>1, Places DEF IInv, InInit, Between, InStop
  <2>3. s = 6
    BY <1>1, <2>1, <2>2, Places
  <2>4. ITypeOK' /\ (InBit(1, 0)' \/ InStop(0)')
    BY <1>1, <1>6, <2>2, <2>3, ByteEnds
  <2> QED BY <1>2, <2>4 DEF IInv
<1>7. CASE Returns
  <2>1. index = 4 /\ lineops = <<>>
    BY <1>7 DEF Returns
  <2>2. PICK k \in 0 .. 2 : InStop(k)
    BY <1>1, <2>1 DEF IInv, InInit, Between, InStart, InBit, InAck
  <2>3. k = 2
    BY <1>1, <2>1, <2>2, Places
  <2>4. ITypeOK' /\ Between'
    BY <1>1, <1>7, <2>2, <2>3, WriteReturns
  <2> QED BY <2>4 DEF IInv
<1>8. CASE ChipReset
  BY <1>1, <1>8, ResetBegins DEF IInv
<1>9. CASE PanelPower
  BY <1>9, PowerKeeps
<1>10. CASE UNCHANGED ivars
  BY <1>10 DEF ivars, IInv, ITypeOK, InInit, InStart, InBit, InAck, InStop, Between, Away, Follows,
               Acknowledges, Done, Settled, WrittenAsSent
<1> QED BY <1>3, <1>4, <1>5, <1>6, <1>7, <1>8, <1>9, <1>10 DEF INext

(* Where a call of OLED_writeReg() stands tells what is on the two lines,  *)
(* what the panel has understood of it and what it has executed.           *)
THEOREM I2cInvariant == ISpec => []IInv
BY IInvInit, IInvNext, PTL DEF ISpec

(* For bytes of any width: the panel executes what OLED_writeReg() was     *)
(* given, once, or nothing; the call says 1 only if it did, and does if    *)
(* the panel was there from the start, over resets and its plug.           *)
THEOREM WrittenAsSentAlways == ISpec => []WrittenAsSent
<1>1. IInv => WrittenAsSent
  <2> SUFFICES ASSUME IInv, calls = 2
               PROVE  /\ executed \in {<<>>, <<<<message[2], message[3]>>>>}
                      /\ returned = "ok" => executed # <<>>
                      /\ returned # "none" /\ present => returned = "ok"
    BY DEF WrittenAsSent
  <2>1. CASE Between
    BY <2>1 DEF Between, WrittenAsSent
  <2>2. CASE ~Between
    <3>1. index # 0
      BY <2>2 DEF IInv, InInit, InStart, InBit, InAck, InStop
    <3>2. returned = "none"
      BY <3>1 DEF IInv, ITypeOK
    <3>3. executed \in {<<>>, <<<<message[2], message[3]>>>>}
      BY <2>2 DEF IInv, InInit, InStart, InBit, InAck, InStop, Done, Settled
    <3> QED BY <3>2, <3>3
  <2> QED BY <2>1, <2>2
<1> QED BY <1>1, I2cInvariant, PTL

(* Between its calls both lines are up and the panel waits for a START,    *)
(* also after a call that nobody has acknowledged or understood.           *)
THEOREM BusReleasedAlways == ISpec => []BusReleased
<1>1. IInv => BusReleased
  <2> SUFFICES ASSUME IInv, index = 0, calls > 0
               PROVE  sda = 1 /\ sck = 1 /\ ~panel.pull /\ panel.phase \in {"off", "idle"}
    BY DEF BusReleased
  <2>1. Between
    BY DEF IInv, ITypeOK, InInit, InStart, InBit, InAck, InStop
  <2> QED BY <2>1, AwayPanels DEF Between
<1> QED BY <1>1, I2cInvariant, PTL

-------------------------------------------------------------------------------
(* OneWireSlots: where the chip and the device stand at each statement.    *)

Statement == [do : {"low", "high", "free", "wait", "read", "high?"}, us : Nat]
DeviceTimes == [sample : SampleTimes, hold : HoldTimes, delay : PresenceDelays, presence : PresenceTimes]
Device == [there : BOOLEAN, shorted : BOOLEAN, on : BOOLEAN, times : DeviceTimes,
           in : Seq(Bit), out : Seq(Bit), last : Seq(Bit), answer : Seq(Bit),
           sampleAt : Nat, from : Nat, until : Nat]

WTypeOK ==
    /\ drives \in {"low", "high", "free"} /\ statements \in Seq(Statement) /\ retries \in Nat
    /\ wire_call \in [name : {"none", "reset", "write", "read", "search", "direction"}, byte : Seq(Bit)]
    /\ bits \in Seq(Bit) /\ age \in Nat /\ late \in 0 .. Late /\ disturbed \in BOOLEAN
    /\ device \in Device /\ ~(device.there /\ device.shorted)
    /\ ~device.on => device.sampleAt = 0 /\ device.until = 0

(* It neither holds the line nor is going to look at it. *)
Rests == device.sampleAt = 0 /\ device.until <= age

(* What holds of a device that is there at statement k of a reset.  It     *)
(* lets go of the line before the chip gives up, its pulse begins before   *)
(* the chip looks for it, and is over when the reset is.                   *)
AnswersReset(k) ==
    /\ k = 0 /\ drives = "high" => device.until <= age
    /\ k = 0 /\ drives = "low" => age < ResetTime
    /\ k \in {0, 1} => device.until <= age + 2 * (retries - 1)
    /\ k = 2 => device.until <= age + 2 * (retries - 2)
    /\ k = 3 => ~HeldBy(device, age)
    /\ k = 5 => age >= ResetTime
    /\ k >= 6 => device.on /\ device.in = <<>> /\ device.out = <<>> /\ device.sampleAt = 0
    /\ k = 6 => /\ device.from = age + device.times.delay
                /\ device.until = device.from + device.times.presence
    /\ k = 7 => HeldBy(device, age)
    /\ k \in {7, 8} => device.until <= age + 490
    /\ k = 9 => device.until <= age

InReset(k) ==
    /\ wire_call.name = "reset" /\ statements = Rest(onewire_reset, k)
    /\ k \notin {0, 4, 5} => drives = "free"
    /\ k \in {4, 5} => drives = "low"
    /\ k = 4 => age = 0
    /\ k < 8 => bits = <<>>
    /\ k >= 8 => bits = <<IF device.there THEN 0 ELSE 1>>
    /\ k >= 3 => ~device.shorted
    /\ device.there => AnswersReset(k)
GivenUp == wire_call.name = "reset" /\ statements = <<>> /\ bits = <<1>> /\ ~device.there

(* A slot in which the chip writes v, after s statements of write_bit().   *)
Sampled(v, s) == s = 4 \/ (v = 0 /\ s \in {2, 3})
WriteSlot(v, s) ==
    /\ device.until = 0
    /\ drives = (IF s \in {1, 2} THEN "low" ELSE "high")
    /\ s = 1 => age = late
    /\ s \in {2, 3} => age = late + (IF v = 1 THEN 10 ELSE 65)
    /\ device.sampleAt = (IF Sampled(v, s) THEN 0 ELSE device.times.sample)

(* The device has the first n bits of the byte. *)
Got(byte, n) ==
    /\ device.on
    /\ n < BitsPerByte => device.in = Prefix(byte, n) /\ device.out = <<>>
    /\ n = BitsPerByte => /\ device.in = <<>> /\ device.last = byte
                          /\ device.answer = device.out /\ device.out \in Answers(byte)

Commands == {SEARCHROM, READ_SCRATCHPAD}
Writing == wire_call.name = "write" /\ wire_call.byte \in WireBytes
InWrite(i, s) ==
    /\ Writing
    /\ \E power \in BOOLEAN : /\ power => wire_call.byte \notin Commands
                              /\ statements = Rest(onewire_write(wire_call.byte, power), 4 * (i - 1) + s)
    /\ s = 0 /\ i = 1 => (drives = "free" /\ Rests) \/ WriteSlot(wire_call.byte[1], 1)
    /\ s = 0 /\ i # 1 => WriteSlot(wire_call.byte[i - 1], 4)
    /\ s # 0 => WriteSlot(wire_call.byte[i], s)
    /\ Got(wire_call.byte, IF Sampled(wire_call.byte[i], s) THEN i ELSE i - 1)

(* All bits are through, and t statements of the end without power.        *)
HoldTime(v) == IF v = 0 THEN device.times.hold ELSE 0
NextSlot ==
    /\ drives = "low" /\ age = late
    /\ device.on /\ device.in = <<>> /\ device.last = wire_call.byte /\ device.answer \in Answers(wire_call.byte)
    /\ IF device.answer = <<>>
       THEN device.out = <<>> /\ device.sampleAt = device.times.sample /\ device.until = 0
       ELSE /\ device.out = Rest(device.answer, 1) /\ device.sampleAt = 0
            /\ device.from = 0 /\ device.until = HoldTime(device.answer[1])
InTail(t) ==
    /\ Writing
    /\ statements = Rest(onewire_write(wire_call.byte, FALSE), 4 * BitsPerByte + t)
    /\ t < 2 => /\ Got(wire_call.byte, BitsPerByte) /\ device.sampleAt = 0 /\ device.until = 0
                /\ drives = (IF t = 0 THEN "high" ELSE "free")
    /\ t >= 2 => NextSlot
Powered ==
    /\ Writing /\ wire_call.byte \notin Commands /\ statements = <<>> /\ drives = "high"
    /\ Got(wire_call.byte, BitsPerByte) /\ device.sampleAt = 0 /\ device.until = 0

(* A read of the answer, or of an address bit and its complement.          *)
Reading == IF wire_call.name = "read" THEN onewire_read ELSE read_bit \o read_bit
Answering ==
    /\ wire_call.name \in {"read", "search"}
    /\ wire_call.name = "read" => device.answer \in WireByte
    /\ wire_call.name = "search" => device.answer \in {<<0, 1>>, <<1, 0>>}
    /\ device.on /\ device.in = <<>> /\ device.sampleAt = 0
(* A slot in which the device sends v, after s statements of read_bit().   *)
Since(s) == CASE s \in {0, 1} -> 0 [] s \in {2, 3} -> 3 [] s \in {4, 5} -> 13
ReadSlot(v, s) ==
    /\ device.from = 0 /\ device.until = HoldTime(v)
    /\ drives = (IF s < 3 THEN "low" ELSE "free")
    /\ age = late + Since(s)
InRead(i, s) ==
    /\ Answering /\ i \in 1 .. Len(device.answer)
    /\ statements = Rest(Reading, 6 * (i - 1) + s)
    /\ bits = Prefix(device.answer, IF s = 5 THEN i ELSE i - 1)
    /\ s = 0 /\ i # 1 => drives = "free" /\ device.until <= age /\ device.out = Rest(device.answer, i - 1)
    /\ s # 0 \/ i = 1 => device.out = Rest(device.answer, i) /\ ReadSlot(device.answer[i], s)
ReadDone ==
    /\ Answering /\ statements = <<>> /\ bits = device.answer
    /\ drives = "free" /\ Rests /\ device.out = <<>>

InDirection(s) ==
    /\ wire_call.name = "direction" /\ wire_call.byte \in {<<0, 1>>, <<1, 0>>}
    /\ statements = Rest(write_bit(wire_call.byte[1]), s)
    /\ device.on
    /\ s = 0 => drives = "free" /\ Rests
    /\ s # 0 => WriteSlot(wire_call.byte[1], s)
    /\ ~Sampled(wire_call.byte[1], s) => device.in = <<>> /\ device.out = <<>>
    /\ Sampled(wire_call.byte[1], s) => device.last = <<wire_call.byte[1]>>

NotCalled == wire_call.name = "none" /\ statements = <<>> /\ drives = "free" /\ Rests

WInv ==
    /\ WTypeOK /\ late <= Margin
    /\ \/ ~device.there /\ wire_call.name # "reset"
       \/ \E k \in 0 .. 9 : InReset(k)
       \/ GivenUp
       \/ device.there /\ \/ NotCalled \/ Powered \/ ReadDone
                          \/ \E i \in 1 .. BitsPerByte, s \in 0 .. 3 : InWrite(i, s)
                          \/ \E t \in 0 .. 3 : InTail(t)
                          \/ \E i \in 1 .. Len(device.answer), s \in 0 .. 5 : InRead(i, s)
                          \/ \E s \in 0 .. 4 : InDirection(s)

LEMMA StatementTypes ==
    /\ \A l \in Bit : Drive(l) \in Statement
    /\ \A us \in Nat : os_delay_us(us) \in Statement
    /\ Release \in Statement /\ ReadPin \in Statement /\ WaitHigh \in Statement
BY DEF Drive, os_delay_us, Release, ReadPin, WaitHigh, Statement, Bit

LEMMA WriteBitProgram ==
    ASSUME NEW v \in Bit
    PROVE  /\ write_bit(v) \in Seq(Statement) /\ Len(write_bit(v)) = 4
           /\ write_bit(v) \in [1 .. 4 -> Statement]
           /\ write_bit(v)[1] = Drive(0) /\ write_bit(v)[2] = os_delay_us(IF v = 1 THEN 10 ELSE 65)
           /\ write_bit(v)[3] = Drive(1) /\ write_bit(v)[4] = os_delay_us(IF v = 1 THEN 55 ELSE 5)
<1>1. 0 \in Bit /\ 1 \in Bit /\ 5 \in Nat /\ 10 \in Nat /\ 55 \in Nat /\ 65 \in Nat
  BY DEF Bit
<1> DEFINE long == <<os_delay_us(10), Drive(1), os_delay_us(55)>>
           short == <<os_delay_us(65), Drive(1), os_delay_us(5)>>
           rest == IF v = 1 THEN long ELSE short
<1>2. /\ rest \in Seq(Statement) /\ Len(rest) = 3
      /\ rest[1] = os_delay_us(IF v = 1 THEN 10 ELSE 65)
      /\ rest[2] = Drive(1) /\ rest[3] = os_delay_us(IF v = 1 THEN 55 ELSE 5)
  BY <1>1, StatementTypes
<1>3. <<Drive(0)>> \in Seq(Statement) /\ Len(<<Drive(0)>>) = 1 /\ <<Drive(0)>>[1] = Drive(0)
  BY <1>1, StatementTypes
<1>4. write_bit(v) = <<Drive(0)>> \o rest
  BY DEF write_bit
<1> HIDE DEF rest
<1>5. Concatenates(<<Drive(0)>> \o rest, <<Drive(0)>>, rest, Statement)
  BY <1>2, <1>3, Concat
<1>6. /\ write_bit(v) \in Seq(Statement) /\ Len(write_bit(v)) = 4
      /\ write_bit(v)[1] = Drive(0) /\ write_bit(v)[1 + 1] = rest[1]
      /\ write_bit(v)[1 + 2] = rest[2] /\ write_bit(v)[1 + 3] = rest[3]
  <2>1. 1 \in 1 .. 1 /\ 1 \in 1 .. 3 /\ 2 \in 1 .. 3 /\ 3 \in 1 .. 3
    OBVIOUS
  <2> QED BY <1>2, <1>3, <1>4, <1>5, <2>1 DEF Concatenates
<1>7. write_bit(v) \in [1 .. 4 -> Statement]
  BY <1>6, LenProperties
<1> QED BY <1>2, <1>6, <1>7

LEMMA ReadBitProgram ==
    /\ read_bit \in Seq(Statement) /\ Len(read_bit) = 6 /\ read_bit \in [1 .. 6 -> Statement]
    /\ read_bit[1] = Drive(0) /\ read_bit[2] = os_delay_us(3) /\ read_bit[3] = Release
    /\ read_bit[4] = os_delay_us(10) /\ read_bit[5] = ReadPin /\ read_bit[6] = os_delay_us(53)
<1>1. 0 \in Bit /\ 3 \in Nat /\ 10 \in Nat /\ 53 \in Nat
  BY DEF Bit
<1>2. /\ Drive(0) \in Statement /\ os_delay_us(3) \in Statement /\ Release \in Statement
      /\ os_delay_us(10) \in Statement /\ ReadPin \in Statement /\ os_delay_us(53) \in Statement
  BY <1>1, StatementTypes
<1> QED BY <1>2 DEF read_bit

LEMMA ResetProgram ==
    /\ onewire_reset \in Seq(Statement) /\ Len(onewire_reset) = 9
    /\ onewire_reset[1] = Release /\ onewire_reset[2] = os_delay_us(2) /\ onewire_reset[3] = WaitHigh
    /\ onewire_reset[4] = Drive(0) /\ onewire_reset[5] = os_delay_us(500) /\ onewire_reset[6] = Release
    /\ onewire_reset[7] = os_delay_us(65) /\ onewire_reset[8] = ReadPin /\ onewire_reset[9] = os_delay_us(490)
<1>1. 0 \in Bit /\ 2 \in Nat /\ 65 \in Nat /\ 490 \in Nat /\ 500 \in Nat
  BY DEF Bit
<1>2. /\ Release \in Statement /\ os_delay_us(2) \in Statement /\ WaitHigh \in Statement /\ Drive(0) \in Statement
      /\ os_delay_us(500) \in Statement /\ os_delay_us(65) \in Statement /\ ReadPin \in Statement
      /\ os_delay_us(490) \in Statement
  BY <1>1, StatementTypes
<1> QED BY <1>2 DEF onewire_reset

(* What is left of onewire_write() when its bits are through. *)
WriteEnd(power) == IF power THEN <<>> ELSE <<Release, Drive(0), os_delay_us(0)>>

IsWriteProgram(program, byte, power) ==
    /\ program \in Seq(Statement) /\ Len(program) = 4 * BitsPerByte + (IF power THEN 0 ELSE 3)
    /\ \A i \in 1 .. BitsPerByte : \A j \in 1 .. 4 : program[4 * (i - 1) + j] = write_bit(byte[i])[j]
    /\ ~power => /\ program[4 * BitsPerByte + 1] = Release
                 /\ program[4 * BitsPerByte + 2] = Drive(0)
                 /\ program[4 * BitsPerByte + 3] = os_delay_us(0)

LEMMA WriteProgram ==
    ASSUME NEW byte, byte \in WireByte, NEW power, power \in BOOLEAN
    PROVE  IsWriteProgram(onewire_write(byte, power), byte, power)
<1> DEFINE n == BitsPerByte
           seqs == [i \in 1 .. n |-> write_bit(byte[i])]
           flat == FlattenSeq(seqs)
           end == WriteEnd(power)
<1>1. n \in Nat \ {0}
  BY SlotsAssumption
<1>2. seqs \in Pieces(4, n, Statement)
  <2>1. \A i \in 1 .. n : byte[i] \in Bit
    BY DEF WireByte, Bit
  <2>2. \A i \in 1 .. n : write_bit(byte[i]) \in [1 .. 4 -> Statement]
    BY <2>1, WriteBitProgram
  <2> QED BY <2>2 DEF Pieces
<1>3. IsFlat(flat, seqs, 4, n, Statement)
  <2> HIDE DEF seqs, n
  <2> QED BY <1>1, <1>2, Flattened
<1>4. onewire_write(byte, power) = flat \o end
  BY DEF onewire_write, WriteEnd
<1>5. /\ end \in Seq(Statement) /\ Len(end) = (IF power THEN 0 ELSE 3)
      /\ ~power => end[1] = Release /\ end[2] = Drive(0) /\ end[3] = os_delay_us(0)
  <2>1. 0 \in Bit /\ 0 \in Nat
    BY DEF Bit
  <2>2. Release \in Statement /\ Drive(0) \in Statement /\ os_delay_us(0) \in Statement
    BY <2>1, StatementTypes
  <2> QED BY <2>2 DEF WriteEnd
<1>6. /\ flat \in Seq(Statement) /\ Len(flat) = 4 * n
      /\ \A i \in 1 .. n : \A j \in 1 .. 4 : flat[4 * (i - 1) + j] = write_bit(byte[i])[j]
  <2>1. \A i \in 1 .. n : seqs[i] = write_bit(byte[i])
    OBVIOUS
  <2> HIDE DEF seqs, flat
  <2> QED BY <1>3, <2>1 DEF IsFlat
<1> HIDE DEF flat, end, seqs
<1>7. Concatenates(flat \o end, flat, end, Statement)
  BY <1>5, <1>6, Concat
<1>8. /\ flat \o end \in Seq(Statement) /\ Len(flat \o end) = 4 * n + (IF power THEN 0 ELSE 3)
      /\ \A k \in 1 .. 4 * n : (flat \o end)[k] = flat[k]
      /\ \A k \in 1 .. Len(end) : (flat \o end)[4 * n + k] = end[k]
  BY <1>5, <1>6, <1>7 DEF Concatenates
<1>9. \A i \in 1 .. n : \A j \in 1 .. 4 : (flat \o end)[4 * (i - 1) + j] = write_bit(byte[i])[j]
  <2> SUFFICES ASSUME NEW i \in 1 .. n, NEW j \in 1 .. 4
               PROVE  (flat \o end)[4 * (i - 1) + j] = write_bit(byte[i])[j]
    OBVIOUS
  <2>1. 4 * (i - 1) + j \in 1 .. 4 * n
    BY <1>1
  <2> QED BY <1>6, <1>8, <2>1
<1>10. ~power => /\ (flat \o end)[4 * n + 1] = Release /\ (flat \o end)[4 * n + 2] = Drive(0)
                 /\ (flat \o end)[4 * n + 3] = os_delay_us(0)
  <2>1. ~power => 1 \in 1 .. Len(end) /\ 2 \in 1 .. Len(end) /\ 3 \in 1 .. Len(end)
    BY <1>5
  <2> QED BY <1>5, <1>8, <2>1
<1> QED BY <1>4, <1>8, <1>9, <1>10 DEF IsWriteProgram

Read_bits == IF wire_call.name = "read" THEN BitsPerByte ELSE 2

LEMMA ReadingProgram ==
    /\ Reading \in Seq(Statement) /\ Len(Reading) = 6 * Read_bits
    /\ \A i \in 1 .. Read_bits : \A j \in 1 .. 6 : Reading[6 * (i - 1) + j] = read_bit[j]
<1>1. CASE wire_call.name = "read"
  <2> DEFINE n == BitsPerByte
             seqs == [i \in 1 .. n |-> read_bit]
  <2>1. n \in Nat \ {0} /\ seqs \in Pieces(6, n, Statement)
    BY SlotsAssumption, ReadBitProgram DEF Pieces
  <2>2. Reading = FlattenSeq(seqs) /\ Read_bits = n /\ \A i \in 1 .. n : seqs[i] = read_bit
    BY <1>1 DEF Reading, onewire_read, Read_bits
  <2> HIDE DEF seqs, n
  <2>3. IsFlat(FlattenSeq(seqs), seqs, 6, n, Statement)
    BY <2>1, Flattened
  <2> QED BY <2>2, <2>3 DEF IsFlat
<1>2. CASE wire_call.name # "read"
  <2>1. Reading = read_bit \o read_bit /\ Read_bits = 2
    BY <1>2 DEF Reading, Read_bits
  <2>2. Concatenates(read_bit \o read_bit, read_bit, read_bit, Statement)
    BY ReadBitProgram, Concat
  <2>3. /\ Reading \in Seq(Statement) /\ Len(Reading) = 12
        /\ \A j \in 1 .. 6 : Reading[j] = read_bit[j] /\ Reading[6 + j] = read_bit[j]
    BY <2>1, <2>2, ReadBitProgram DEF Concatenates
  <2>4. \A i \in 1 .. 2 : \A j \in 1 .. 6 : Reading[6 * (i - 1) + j] = read_bit[j]
    <3> SUFFICES ASSUME NEW i \in 1 .. 2, NEW j \in 1 .. 6 PROVE Reading[6 * (i - 1) + j] = read_bit[j]
      OBVIOUS
    <3>1. i = 1 => 6 * (i - 1) + j = j
      OBVIOUS
    <3>2. i = 2 => 6 * (i - 1) + j = 6 + j
      OBVIOUS
    <3> QED BY <2>3, <3>1, <3>2
  <2> QED BY <2>1, <2>3, <2>4
<1> QED BY <1>1, <1>2

LEMMA NextInProgram ==
    ASSUME NEW program, program \in Seq(Statement), NEW k, k \in 0 .. Len(program) - 1,
           statements = Rest(program, k)
    PROVE  /\ statements # <<>> /\ Next_statement = program[k + 1]
           /\ Tail(statements) = Rest(program, k + 1) /\ Tail(statements) \in Seq(Statement)
<1>1. k \in 0 .. Len(program) /\ k + 1 \in 0 .. Len(program) /\ k < Len(program)
  OBVIOUS
<1>2. statements # <<>> /\ Head(statements) = program[k + 1] /\ Tail(statements) = Rest(program, k + 1)
  BY <1>1, RestOf
<1>3. Rest(program, k + 1) \in Seq(Statement)
  BY <1>1, RestOf
<1> QED BY <1>2, <1>3 DEF Next_statement

(* The device keeps its type, and what it is. *)
SameDevice(d, e) ==
    /\ e \in Device /\ e.there = d.there /\ e.shorted = d.shorted /\ e.times = d.times
    /\ ~e.on => e.sampleAt = 0 /\ e.until = 0

LEMMA AnswersAre ==
    ASSUME NEW byte
    PROVE  /\ Answers(byte) \subseteq Seq(Bit)
           /\ byte = READ_SCRATCHPAD => Answers(byte) = WireBytes
           /\ byte = SEARCHROM => Answers(byte) = {<<0, 1>>, <<1, 0>>}
           /\ byte \notin Commands => Answers(byte) = {<<>>}
<1>1. /\ byte = READ_SCRATCHPAD => Answers(byte) = WireBytes
      /\ byte = SEARCHROM => Answers(byte) = {<<0, 1>>, <<1, 0>>}
      /\ byte \notin Commands => Answers(byte) = {<<>>}
  BY TimesAssumption DEF Answers, Commands
<1>2. WireBytes \subseteq Seq(Bit)
  <2>1. \A b \in WireByte : b \in Seq(Bit)
    BY SlotsAssumption, AsSeq DEF WireByte, Bit
  <2> QED BY <2>1, SlotsAssumption
<1>3. <<0, 1>> \in Seq(Bit) /\ <<1, 0>> \in Seq(Bit) /\ <<>> \in Seq(Bit)
  BY DEF Bit
<1> QED BY <1>1, <1>2, <1>3 DEF Commands

LEMMA TimesAre ==
    ASSUME NEW d, d \in Device
    PROVE  /\ d.times.sample \in 15 .. 60 /\ d.times.hold \in 15 .. 60
           /\ d.times.delay \in 15 .. 60 /\ d.times.presence \in 60 .. 240
<1>1. d.times \in DeviceTimes
  BY DEF Device
<1>2. /\ d.times.sample \in SampleTimes /\ d.times.hold \in HoldTimes
      /\ d.times.delay \in PresenceDelays /\ d.times.presence \in PresenceTimes
  BY <1>1 DEF DeviceTimes
<1>3. /\ SampleTimes \subseteq 15 .. 60 /\ HoldTimes \subseteq 15 .. 60
      /\ PresenceDelays \subseteq 15 .. 60 /\ PresenceTimes \subseteq 60 .. 240
  BY TimesAssumption, Zenon
<1>4. d.times.sample \in 15 .. 60
  BY <1>2, <1>3
<1>5. d.times.hold \in 15 .. 60
  BY <1>2, <1>3
<1>6. d.times.delay \in 15 .. 60
  BY <1>2, <1>3
<1>7. d.times.presence \in 60 .. 240
  BY <1>2, <1>3
<1> QED BY <1>4, <1>5, <1>6, <1>7

LEMMA SlotBeginsType ==
    ASSUME NEW d, d \in Device, ~d.on => d.sampleAt = 0 /\ d.until = 0
    PROVE  SameDevice(d, SlotBegins(d))
<1>0. SUFFICES ASSUME NEW e, e = SlotBegins(d) PROVE SameDevice(d, e)
  OBVIOUS
<1>1. CASE ~d.there \/ ~d.on
  BY <1>0, <1>1 DEF SlotBegins, SameDevice
<1>2. CASE d.there /\ d.on /\ d.out # <<>>
  <2> DEFINE u == IF Head(d.out) = 0 THEN d.times.hold ELSE 0
             t == Tail(d.out)
  <2>1. e = [d EXCEPT !.out = t, !.from = 0, !.until = u]
    BY <1>0, <1>2 DEF SlotBegins
  <2>2. t \in Seq(Bit)
    <3>1. d.out \in Seq(Bit)
      BY DEF Device
    <3> QED BY <1>2, <3>1
  <2>3. u \in Nat
    <3>1. d.times.hold \in Nat
      BY TimesAre
    <3> QED BY <3>1
  <2> HIDE DEF u, t
  <2>4. e \in Device /\ e.on = d.on
        /\ e.there = d.there /\ e.shorted = d.shorted /\ e.times = d.times
    BY <2>1, <2>2, <2>3 DEF Device
  <2> QED BY <1>2, <2>4 DEF SameDevice
<1>3. CASE d.there /\ d.on /\ d.out = <<>>
  <2> DEFINE m == d.times.sample
  <2>1. e = [d EXCEPT !.sampleAt = m, !.from = 0, !.until = 0]
    BY <1>0, <1>3 DEF SlotBegins
  <2>2. m \in Nat
    BY TimesAre
  <2> HIDE DEF m
  <2>3. e \in Device /\ e.on = d.on
        /\ e.there = d.there /\ e.shorted = d.shorted /\ e.times = d.times
    BY <2>1, <2>2 DEF Device
  <2> QED BY <1>3, <2>3 DEF SameDevice
<1> QED BY <1>1, <1>2, <1>3

LEMMA LineRisesType ==
    ASSUME NEW d, d \in Device, ~d.on => d.sampleAt = 0 /\ d.until = 0, NEW a, a \in Nat
    PROVE  SameDevice(d, LineRises(d, a))
<1>0. SUFFICES ASSUME NEW e, e = LineRises(d, a) PROVE SameDevice(d, e)
  OBVIOUS
<1>1. CASE ~d.there \/ a < ResetTime
  BY <1>0, <1>1 DEF LineRises, SameDevice
<1>2. CASE ~(~d.there \/ a < ResetTime)
  <2>1. d.times.delay \in Nat /\ d.times.presence \in Nat
    BY TimesAre
  <2> DEFINE f == a + d.times.delay
             u == a + d.times.delay + d.times.presence
  <2>2. f \in Nat /\ u \in Nat /\ <<>> \in Seq(Bit)
    BY <2>1
  <2>3. e = [d EXCEPT !.on = TRUE, !.in = <<>>, !.out = <<>>, !.sampleAt = 0, !.last = <<>>,
                                    !.from = f, !.until = u]
    BY <1>0, <1>2 DEF LineRises
  <2> HIDE DEF f, u
  <2>4. e \in Device /\ e.on = TRUE
        /\ e.there = d.there /\ e.shorted = d.shorted
        /\ e.times = d.times
    BY <2>2, <2>3 DEF Device
  <2> QED BY <2>4 DEF SameDevice
<1> QED BY <1>1, <1>2

(* The device after it has sampled v. *)
SampledAs(d, e, v) ==
    /\ SameDevice(d, e) /\ e.sampleAt = 0 /\ e.on = d.on /\ e.from = d.from /\ e.until = d.until
    /\ e.last = Append(d.in, v)
    /\ Len(Append(d.in, v)) < BitsPerByte => e.in = Append(d.in, v) /\ e.out = d.out
    /\ Len(Append(d.in, v)) >= BitsPerByte =>
            e.in = <<>> /\ e.out \in Answers(Append(d.in, v)) /\ e.answer = e.out

LEMMA SlotSampledAs ==
    ASSUME NEW d, d \in Device, ~d.on => d.sampleAt = 0 /\ d.until = 0, NEW v, v \in Bit,
           NEW e, e \in SlotSampled(d, v)
    PROVE  SampledAs(d, e, v)
<1> DEFINE in == Append(d.in, v)
<1>1. in \in Seq(Bit) /\ Len(in) \in Nat /\ BitsPerByte \in Nat
  BY SlotsAssumption DEF Device
<1>2. CASE Len(in) < BitsPerByte
  <2>1. e = [d EXCEPT !.in = in, !.sampleAt = 0, !.last = in]
    BY <1>2 DEF SlotSampled
  <2> HIDE DEF in
  <2>2. e \in Device /\ e.sampleAt = 0 /\ e.in = in /\ e.last = in /\ e.out = d.out
        /\ e.there = d.there /\ e.shorted = d.shorted /\ e.times = d.times /\ e.on = d.on
        /\ e.from = d.from /\ e.until = d.until
    BY <1>1, <2>1 DEF Device
  <2>3. SameDevice(d, e)
    BY <2>2 DEF SameDevice
  <2> QED BY <1>1, <1>2, <2>2, <2>3 DEF SampledAs, in
<1>3. CASE ~(Len(in) < BitsPerByte)
  <2>1. PICK o \in Answers(in) : e = [d EXCEPT !.in = <<>>, !.sampleAt = 0, !.last = in, !.out = o, !.answer = o]
    BY <1>3 DEF SlotSampled
  <2> HIDE DEF in
  <2>2. o \in Seq(Bit) /\ <<>> \in Seq(Bit)
    BY AnswersAre
  <2>3. e \in Device /\ e.sampleAt = 0 /\ e.in = <<>> /\ e.last = in /\ e.out = o /\ e.answer = o
        /\ e.there = d.there /\ e.shorted = d.shorted /\ e.times = d.times /\ e.on = d.on
        /\ e.from = d.from /\ e.until = d.until
    BY <1>1, <2>1, <2>2 DEF Device
  <2>4. SameDevice(d, e)
    BY <2>3 DEF SameDevice
  <2> QED BY <1>1, <1>3, <2>1, <2>3, <2>4 DEF SampledAs, in
<1> QED BY <1>2, <1>3

(* What a statement does to the line and by it to the device. *)
LEMMA DriveStep ==
    ASSUME WTypeOK, Drives, Tail(statements) \in Seq(Statement)
    PROVE  /\ WTypeOK' /\ SameDevice(device, device')
           /\ drives' = Next_statement.do /\ statements' = Tail(statements)
           /\ wire_call' = wire_call /\ bits' = bits /\ retries' = retries
           /\ High(drives, device, age) /\ drives' = "low" =>
                age' = 0 /\ late' = 0 /\ device' = SlotBegins(device)
           /\ ~(High(drives, device, age) /\ drives' = "low") => age' = age /\ late' = late
           /\ drives = "low" /\ drives' # "low" => device' = LineRises(device, age)
           /\ (drives = "low") = (drives' = "low") /\ ~(High(drives, device, age) /\ drives' = "low") =>
                device' = device
<1> DEFINE fell == High(drives, device, age) /\ drives' = "low"
           rose == drives = "low" /\ drives' # "low"
<1>1. /\ drives' = Next_statement.do /\ statements' = Tail(statements)
      /\ wire_call' = wire_call /\ bits' = bits /\ retries' = retries
      /\ age' = (IF fell THEN 0 ELSE age) /\ late' = (IF fell THEN 0 ELSE late)
      /\ device' = (IF fell THEN SlotBegins(device) ELSE IF rose THEN LineRises(device, age) ELSE device)
      /\ drives' \in {"low", "high", "free"}
  BY DEF Drives
<1>2. fell => drives # "low"
  BY DEF High
<1> HIDE DEF fell, rose
<1>3. /\ device \in Device /\ (~device.on => device.sampleAt = 0 /\ device.until = 0)
      /\ age \in Nat /\ late \in 0 .. Late /\ Late \in Nat
  BY SlotsAssumption DEF WTypeOK
<1>4. SameDevice(device, device')
  <2>1. SameDevice(device, device)
    BY <1>3 DEF SameDevice
  <2>2. SameDevice(device, SlotBegins(device))
    BY <1>3, SlotBeginsType
  <2>3. SameDevice(device, LineRises(device, age))
    BY <1>3, LineRisesType
  <2> QED BY <1>1, <2>1, <2>2, <2>3
<1>5. age' \in Nat /\ late' \in 0 .. Late
  BY <1>1, <1>3
<1>8. disturbed' \in BOOLEAN
  BY Zenon DEF Drives
<1>6. WTypeOK'
  BY <1>1, <1>4, <1>5, <1>8 DEF WTypeOK, SameDevice
<1>7. rose = (drives = "low" /\ drives' # "low") /\ fell = (High(drives, device, age) /\ drives' = "low")
  BY DEF rose, fell
<1> QED BY <1>1, <1>2, <1>4, <1>6, <1>7

LEMMA WaitStep ==
    ASSUME WTypeOK, Waits, Tail(statements) \in Seq(Statement), Next_statement.us \in Nat
    PROVE  /\ WTypeOK' /\ SameDevice(device, device')
           /\ drives' = drives /\ statements' = Tail(statements)
           /\ wire_call' = wire_call /\ bits' = bits /\ retries' = retries
           /\ ~device.shorted => /\ age' - late' = age - late + Next_statement.us /\ late' >= late
                                 /\ age' \in Nat /\ late' \in 0 .. Late
           /\ ~Passes(device, age, age') => device' = device
           /\ Passes(device, age, age') =>
                SampledAs(device, device', IF High(drives, device, device.sampleAt) THEN 1 ELSE 0)
<1> DEFINE v == IF High(drives, device, device.sampleAt) THEN 1 ELSE 0
<1>1. /\ drives' = drives /\ statements' = Tail(statements)
      /\ wire_call' = wire_call /\ bits' = bits /\ retries' = retries
      /\ device' \in (IF Passes(device, age, age') THEN SlotSampled(device, v) ELSE {device})
  BY DEF Waits
<1>2. PICK j \in 0 .. Late - late : /\ late' = (IF device.shorted THEN 0 ELSE late + j)
                                    /\ age' = (IF device.shorted THEN 0 ELSE age + Next_statement.us + j)
  BY DEF Waits
<1>3. /\ device \in Device /\ (~device.on => device.sampleAt = 0 /\ device.until = 0)
      /\ age \in Nat /\ late \in 0 .. Late /\ Late \in Nat
  BY SlotsAssumption DEF WTypeOK
<1>4. v \in Bit
  BY DEF Bit
<1> HIDE DEF v
<1>5. /\ ~Passes(device, age, age') => device' = device
      /\ Passes(device, age, age') => SampledAs(device, device', v)
  BY <1>1, <1>3, <1>4, SlotSampledAs
<1>6. SameDevice(device, device')
  <2>1. SameDevice(device, device)
    BY <1>3 DEF SameDevice
  <2> QED BY <1>5, <2>1 DEF SampledAs
<1>7. /\ age' \in Nat /\ late' \in 0 .. Late
      /\ ~device.shorted => age' - late' = age - late + Next_statement.us /\ late' >= late
  <2>1. CASE device.shorted
    BY <1>2, <1>3, <2>1
  <2>2. CASE ~device.shorted
    BY <1>2, <1>3, <2>2
  <2> QED BY <2>1, <2>2
<1>9. disturbed' \in BOOLEAN
  BY Zenon DEF Waits
<1>8. WTypeOK'
  BY <1>1, <1>6, <1>7, <1>9 DEF WTypeOK, SameDevice
<1> QED BY <1>1, <1>5, <1>6, <1>7, <1>8 DEF v

LEMMA ReadStep ==
    ASSUME WTypeOK, Reads, Tail(statements) \in Seq(Statement)
    PROVE  /\ WTypeOK' /\ device' = device /\ SameDevice(device, device')
           /\ drives' = drives /\ statements' = Tail(statements)
           /\ wire_call' = wire_call /\ retries' = retries /\ age' = age /\ late' = late
           /\ bits' = Append(bits, IF High(drives, device, age) THEN 1 ELSE 0)
<1>1. /\ device' = device /\ drives' = drives /\ statements' = Tail(statements)
      /\ wire_call' = wire_call /\ retries' = retries /\ age' = age /\ late' = late
      /\ bits' = Append(bits, IF High(drives, device, age) THEN 1 ELSE 0)
  BY DEF Reads
<1>2. bits' \in Seq(Bit)
  <2>1. (IF High(drives, device, age) THEN 1 ELSE 0) \in Bit
    BY DEF Bit
  <2> QED BY <1>1, <2>1 DEF WTypeOK
<1>4. disturbed' \in BOOLEAN
  BY Zenon DEF Reads, WTypeOK
<1>3. WTypeOK'
  BY <1>1, <1>2, <1>4 DEF WTypeOK
<1> QED BY <1>1, <1>3 DEF WTypeOK, SameDevice

LEMMA HighStep ==
    ASSUME WTypeOK, WaitsHigh, Tail(statements) \in Seq(Statement)
    PROVE  /\ WTypeOK' /\ device' = device /\ SameDevice(device, device')
           /\ drives' = drives /\ wire_call' = wire_call /\ age' = age /\ late' = late
<1>1. /\ device' = device /\ drives' = drives /\ wire_call' = wire_call /\ age' = age /\ late' = late
  BY DEF WaitsHigh
<1>2. statements' \in Seq(Statement) /\ retries' \in Nat /\ bits' \in Seq(Bit)
  <2>1. CASE High(drives, device, age)
    <3>1. statements' = Tail(statements) /\ retries' = retries /\ bits' = bits
      BY <2>1 DEF WaitsHigh
    <3> QED BY <3>1 DEF WTypeOK
  <2>2. CASE ~High(drives, device, age) /\ retries > 2
    <3>1. <<os_delay_us(2)>> \in Seq(Statement)
      BY StatementTypes
    <3>2. statements' = <<os_delay_us(2)>> \o statements /\ retries' = retries - 1 /\ bits' = bits
      BY <2>2 DEF WaitsHigh
    <3>3. statements' \in Seq(Statement)
      <4> DEFINE w == <<os_delay_us(2)>>
      <4> HIDE DEF w
      <4>1. statements \in Seq(Statement)
        BY DEF WTypeOK
      <4>2. w \in Seq(Statement) /\ statements' = w \o statements
        BY <3>1, <3>2 DEF w
      <4> QED BY <4>1, <4>2, ConcatProperties
    <3>4. retries' \in Nat /\ bits' \in Seq(Bit)
      BY <2>2, <3>2 DEF WTypeOK
    <3> QED BY <3>3, <3>4
  <2>3. CASE ~High(drives, device, age) /\ ~(retries > 2)
    <3>1. statements' = <<>> /\ retries' = retries /\ bits' = <<1>>
      BY <2>3 DEF WaitsHigh
    <3>2. <<1>> \in Seq(Bit) /\ <<>> \in Seq(Statement)
      BY DEF Bit
    <3> QED BY <3>1, <3>2 DEF WTypeOK
  <2> QED BY <2>1, <2>2, <2>3
<1>4. disturbed' \in BOOLEAN
  BY Zenon DEF WaitsHigh, WTypeOK
<1>3. WTypeOK'
  BY <1>1, <1>2, <1>4 DEF WTypeOK
<1> QED BY <1>1, <1>3 DEF WTypeOK, SameDevice

LEMMA BeginStep ==
    ASSUME WTypeOK, NEW name, name \in {"reset", "write", "read", "search", "direction"},
           NEW byte, byte \in Seq(Bit), NEW body, body \in Seq(Statement), Begin(name, byte, body)
    PROVE  /\ WTypeOK' /\ device' = device
           /\ drives' = drives /\ wire_call' = [name |-> name, byte |-> byte] /\ age' = age /\ late' = late
           /\ statements' = body /\ bits' = <<>> /\ retries' = Retries
<1>1. /\ device' = device /\ drives' = drives /\ wire_call' = [name |-> name, byte |-> byte]
      /\ age' = age /\ late' = late /\ statements' = body /\ bits' = <<>> /\ retries' = Retries
  BY DEF Begin
<1>2. retries' \in Nat /\ bits' \in Seq(Bit)
  BY <1>1, SlotsAssumption
<1>3. disturbed' \in BOOLEAN
  BY Zenon DEF Begin, WTypeOK
<1> QED BY <1>1, <1>2, <1>3 DEF WTypeOK

LEMMA Kinds ==
    /\ Drive(0).do = "low" /\ Drive(1).do = "high" /\ Release.do = "free"
    /\ ReadPin.do = "read" /\ WaitHigh.do = "high?"
    /\ \A us : os_delay_us(us).do = "wait" /\ os_delay_us(us).us = us
BY DEF Drive, Release, ReadPin, WaitHigh, os_delay_us

Step == Drives \/ Waits \/ Reads \/ WaitsHigh

LEMMA StepOf ==
    ASSUME Step
    PROVE  /\ statements # <<>>
           /\ Next_statement.do \in {"low", "high", "free"} => Drives
           /\ Next_statement.do = "wait" => Waits
           /\ Next_statement.do = "read" => Reads
           /\ Next_statement.do = "high?" => WaitsHigh
BY DEF Step, Drives, Waits, Reads, WaitsHigh

LEMMA ResetDrives ==
    ASSUME WTypeOK, NEW k, k \in {0, 3, 5}, InReset(k), Step
    PROVE  WTypeOK' /\ InReset(k + 1)'
<1>1. /\ statements = Rest(onewire_reset, k) /\ k \in 0 .. Len(onewire_reset) - 1
      /\ onewire_reset \in Seq(Statement)
  BY ResetProgram DEF InReset
<1>2. /\ Next_statement = onewire_reset[k + 1] /\ Tail(statements) = Rest(onewire_reset, k + 1)
      /\ Tail(statements) \in Seq(Statement)
  BY <1>1, NextInProgram
<1>3. Next_statement = (IF k = 3 THEN Drive(0) ELSE Release)
  BY <1>2, ResetProgram
<1>4. Drives /\ Next_statement.do = (IF k = 3 THEN "low" ELSE "free")
  BY <1>3, StepOf, Kinds
<1>5. /\ WTypeOK' /\ SameDevice(device, device')
      /\ drives' = Next_statement.do /\ statements' = Tail(statements)
      /\ wire_call' = wire_call /\ bits' = bits /\ retries' = retries
      /\ High(drives, device, age) /\ drives' = "low" =>
           age' = 0 /\ late' = 0 /\ device' = SlotBegins(device)
      /\ ~(High(drives, device, age) /\ drives' = "low") => age' = age /\ late' = late
      /\ drives = "low" /\ drives' # "low" => device' = LineRises(device, age)
      /\ (drives = "low") = (drives' = "low") /\ ~(High(drives, device, age) /\ drives' = "low") =>
           device' = device
  BY <1>2, <1>4, DriveStep
<1>6. device'.there = device.there /\ device'.shorted = device.shorted /\ device'.times = device.times
  BY <1>5 DEF SameDevice
<1>7. device \in Device /\ age \in Nat /\ retries \in Nat
  BY DEF WTypeOK
<1>8. statements' = Rest(onewire_reset, k + 1) /\ wire_call'.name = "reset" /\ bits' = <<>>
  BY <1>2, <1>5 DEF InReset
<1>9. CASE k = 0
  <2>1. drives' = "free" /\ age' = age /\ (drives = "low" => device' = LineRises(device, age))
        /\ (drives # "low" => device' = device)
    BY <1>4, <1>5, <1>9
  <2>2. device.there => AnswersReset(0)
    BY <1>9 DEF InReset
  <2>3. device.there /\ drives = "low" => device' = device
    BY <2>1, <2>2 DEF AnswersReset, LineRises
  <2>4. device.there => AnswersReset(1)'
    BY <1>5, <2>1, <2>2, <2>3 DEF AnswersReset
  <2>5. InReset(1)'
    BY <1>6, <1>8, <1>9, <2>1, <2>4 DEF InReset
  <2> QED BY <1>5, <1>9, <2>5
<1>10. CASE k = 3
  <2>1. drives' = "low" /\ drives = "free" /\ ~device.shorted
    BY <1>4, <1>5, <1>10 DEF InReset
  <2>2. High(drives, device, age)
    <3>1. device.there => ~HeldBy(device, age)
      BY <1>10 DEF InReset, AnswersReset
    <3> QED BY <2>1, <3>1 DEF High, Pulls, HeldBy
  <2>3. age' = 0
    BY <1>5, <2>1, <2>2
  <2>4. AnswersReset(4)'
    BY DEF AnswersReset
  <2>5. InReset(4)'
    BY <1>6, <1>8, <1>10, <2>1, <2>3, <2>4 DEF InReset
  <2> QED BY <1>5, <1>10, <2>5
<1>11. CASE k = 5
  <2>1. drives' = "free" /\ drives = "low" /\ ~device.shorted /\ age' = age /\ device' = LineRises(device, age)
    BY <1>4, <1>5, <1>11 DEF InReset
  <2>2. device.there => AnswersReset(6)'
    <3> SUFFICES ASSUME device.there PROVE AnswersReset(6)'
      OBVIOUS
    <3>1. age >= ResetTime
      BY <1>11 DEF InReset, AnswersReset
    <3> DEFINE f == age + device.times.delay
               u == age + device.times.delay + device.times.presence
    <3>2. device' = [device EXCEPT !.on = TRUE, !.in = <<>>, !.out = <<>>, !.sampleAt = 0, !.last = <<>>,
                                   !.from = f, !.until = u]
      BY <1>7, <2>1, <3>1, TimesAssumption DEF LineRises
    <3> HIDE DEF f, u
    <3>3. /\ device'.on = TRUE /\ device'.in = <<>> /\ device'.out = <<>> /\ device'.sampleAt = 0
          /\ device'.from = f /\ device'.until = u
      BY <1>7, <3>2 DEF Device
    <3>4. device'.from = age' + device'.times.delay /\ device'.until = device'.from + device'.times.presence
      BY <1>6, <2>1, <3>3 DEF f, u
    <3> QED BY <3>3, <3>4 DEF AnswersReset
  <2>3. InReset(6)'
    BY <1>6, <1>8, <1>11, <2>1, <2>2 DEF InReset
  <2> QED BY <1>5, <1>11, <2>3
<1> QED BY <1>9, <1>10, <1>11

LEMMA ResetWaits ==
    ASSUME WTypeOK, late' <= Margin, NEW k, k \in {1, 4, 6, 8}, InReset(k), Step
    PROVE  WTypeOK' /\ InReset(k + 1)'
<1>1. /\ statements = Rest(onewire_reset, k) /\ k \in 0 .. Len(onewire_reset) - 1
      /\ onewire_reset \in Seq(Statement)
  BY ResetProgram DEF InReset
<1>2. /\ Next_statement = onewire_reset[k + 1] /\ Tail(statements) = Rest(onewire_reset, k + 1)
      /\ Tail(statements) \in Seq(Statement)
  BY <1>1, NextInProgram
<1> DEFINE us == CASE k = 1 -> 2 [] k = 4 -> 500 [] k = 6 -> 65 [] k = 8 -> 490
<1>3. Next_statement = os_delay_us(us)
  BY <1>2, ResetProgram
<1>4. Waits /\ Next_statement.us = us /\ us \in Nat
  BY <1>3, StepOf, Kinds
<1> HIDE DEF us
<1>5. /\ WTypeOK' /\ SameDevice(device, device')
      /\ drives' = drives /\ statements' = Tail(statements)
      /\ wire_call' = wire_call /\ bits' = bits /\ retries' = retries
      /\ ~device.shorted => /\ age' - late' = age - late + us /\ late' >= late
                            /\ age' \in Nat /\ late' \in 0 .. Late
      /\ ~Passes(device, age, age') => device' = device
      /\ Passes(device, age, age') =>
           SampledAs(device, device', IF High(drives, device, device.sampleAt) THEN 1 ELSE 0)
  BY <1>2, <1>4, WaitStep
<1>6. /\ device'.there = device.there /\ device'.shorted = device.shorted /\ device'.times = device.times
      /\ device'.until = device.until /\ device'.from = device.from
  BY <1>5 DEF SameDevice, SampledAs
<1>7. /\ device \in Device /\ age \in Nat /\ late \in 0 .. Late /\ retries \in Nat
      /\ Late \in Nat /\ late' <= 1 /\ ~(device.there /\ device.shorted)
      /\ device.until \in Nat /\ device.from \in Nat
  BY SlotsAssumption DEF WTypeOK, Device, Margin
<1>8. statements' = Rest(onewire_reset, k + 1) /\ wire_call'.name = "reset" /\ bits' = bits
  BY <1>2, <1>5 DEF InReset
<1>9. device.there => /\ age' >= age + us /\ age' <= age + us + 1 /\ age' \in Nat
  BY <1>4, <1>5, <1>7
<1>10. CASE k = 1
  <2>1. us = 2 /\ drives' = "free" /\ bits' = <<>>
    BY <1>5, <1>10 DEF us, InReset
  <2>2. device.there => AnswersReset(2)'
    <3> SUFFICES ASSUME device.there PROVE AnswersReset(2)'
      OBVIOUS
    <3>1. device.until <= age + 2 * (retries - 1)
      BY <1>10 DEF InReset, AnswersReset
    <3>2. device'.until <= age' + 2 * (retries' - 2)
      BY <1>5, <1>6, <1>7, <1>9, <2>1, <3>1
    <3> QED BY <3>2 DEF AnswersReset
  <2>3. InReset(2)'
    BY <1>6, <1>8, <1>10, <2>1, <2>2 DEF InReset
  <2> QED BY <1>5, <1>10, <2>3
<1>11. CASE k = 4
  <2>1. us = 500 /\ drives' = "low" /\ bits' = <<>> /\ ~device.shorted /\ age = 0
    BY <1>5, <1>11 DEF us, InReset
  <2>2. device.there => AnswersReset(5)'
    <3> SUFFICES ASSUME device.there PROVE AnswersReset(5)'
      OBVIOUS
    <3>1. age' >= ResetTime
      BY <1>9, <2>1, TimesAssumption
    <3> QED BY <3>1 DEF AnswersReset
  <2>3. InReset(5)'
    BY <1>6, <1>8, <1>11, <2>1, <2>2 DEF InReset
  <2> QED BY <1>5, <1>11, <2>3
<1>12. CASE k = 6
  <2>1. us = 65 /\ drives' = "free" /\ bits' = <<>> /\ ~device.shorted
    BY <1>5, <1>12 DEF us, InReset
  <2>2. device.there => AnswersReset(7)'
    <3> SUFFICES ASSUME device.there PROVE AnswersReset(7)'
      OBVIOUS
    <3>1. /\ device.on /\ device.in = <<>> /\ device.out = <<>> /\ device.sampleAt = 0
          /\ device.from = age + device.times.delay
          /\ device.until = device.from + device.times.presence
      BY <1>12 DEF InReset, AnswersReset
    <3>2. device' = device
      BY <1>5, <3>1 DEF Passes
    <3>3. device.times.delay \in 15 .. 60 /\ device.times.presence \in 60 .. 240
      BY <1>7, TimesAre
    <3> DEFINE t == device.times.delay
               p == device.times.presence
    <3>4. device.from <= age' /\ age' < device.until /\ device.until <= age' + 490
      <4>1. t \in 15 .. 60 /\ p \in 60 .. 240 /\ device.from = age + t /\ device.until = age + t + p
        BY <3>1, <3>3
      <4> HIDE DEF t, p
      <4> QED BY <1>7, <1>9, <2>1, <4>1
    <3>5. HeldBy(device, age')
      BY <3>4 DEF HeldBy
    <3> QED BY <3>1, <3>2, <3>4, <3>5 DEF AnswersReset
  <2>3. InReset(7)'
    BY <1>6, <1>8, <1>12, <2>1, <2>2 DEF InReset
  <2> QED BY <1>5, <1>12, <2>3
<1>13. CASE k = 8
  <2>1. us = 490 /\ drives' = "free" /\ bits' = <<IF device'.there THEN 0 ELSE 1>> /\ ~device.shorted
    BY <1>5, <1>6, <1>13 DEF us, InReset
  <2>2. device.there => AnswersReset(9)'
    <3> SUFFICES ASSUME device.there PROVE AnswersReset(9)'
      OBVIOUS
    <3>1. /\ device.on /\ device.in = <<>> /\ device.out = <<>> /\ device.sampleAt = 0
          /\ device.until <= age + 490
      BY <1>13 DEF InReset, AnswersReset
    <3>2. device' = device
      BY <1>5, <3>1 DEF Passes
    <3>3. device.until <= age'
      BY <1>7, <1>9, <2>1, <3>1
    <3> QED BY <3>1, <3>2, <3>3 DEF AnswersReset
  <2>3. InReset(9)'
    BY <1>6, <1>8, <1>13, <2>1, <2>2 DEF InReset
  <2> QED BY <1>5, <1>13, <2>3
<1> QED BY <1>10, <1>11, <1>12, <1>13

(* The wait in front of the loop's condition is put back. *)
LEMMA WaitAgain ==
    <<os_delay_us(2)>> \o Rest(onewire_reset, 2) = Rest(onewire_reset, 1)
<1> DEFINE w == <<os_delay_us(2)>>
           r == Rest(onewire_reset, 2)
           q == Rest(onewire_reset, 1)
<1>1. onewire_reset \in Seq(Statement) /\ Len(onewire_reset) = 9
  BY ResetProgram
<1>2. r \in Seq(Statement) /\ q \in Seq(Statement)
  <2>1. 1 \in 0 .. Len(onewire_reset) /\ 2 \in 0 .. Len(onewire_reset)
    BY <1>1
  <2> QED BY <1>1, <2>1, RestOf
<1>3. Len(r) = 7 /\ Len(q) = 8 /\ (\A j \in 1 .. 7 : r[j] = onewire_reset[2 + j])
      /\ (\A j \in 1 .. 8 : q[j] = onewire_reset[1 + j])
  BY <1>1 DEF Rest
<1>4. w \in Seq(Statement) /\ Len(w) = 1 /\ w[1] = onewire_reset[2]
  BY StatementTypes, ResetProgram
<1> HIDE DEF w, r, q
<1>5. Concatenates(w \o r, w, r, Statement)
  BY <1>2, <1>4, Concat
<1>6. w \o r \in Seq(Statement) /\ Len(w \o r) = 8 /\ (w \o r)[1] = w[1]
      /\ \A j \in 1 .. 7 : (w \o r)[1 + j] = r[j]
  BY <1>3, <1>4, <1>5 DEF Concatenates
<1>7. ASSUME NEW j \in 1 .. 8 PROVE (w \o r)[j] = q[j]
  <2>1. CASE j = 1
    BY <1>3, <1>4, <1>6, <2>1
  <2>2. CASE j # 1
    <3>1. j - 1 \in 1 .. 7 /\ 1 + (j - 1) = j /\ 2 + (j - 1) = 1 + j
      BY <2>2
    <3> QED BY <1>3, <1>6, <3>1
  <2> QED BY <2>1, <2>2
<1>8. w \o r = q
  BY <1>2, <1>3, <1>6, <1>7, SeqEqual
<1> QED BY <1>8 DEF w, r, q

LEMMA ResetLooks ==
    ASSUME WTypeOK, InReset(2), Step
    PROVE  WTypeOK' /\ (InReset(3)' \/ InReset(1)' \/ GivenUp')
<1>1. /\ statements = Rest(onewire_reset, 2) /\ 2 \in 0 .. Len(onewire_reset) - 1
      /\ onewire_reset \in Seq(Statement) /\ wire_call.name = "reset" /\ drives = "free" /\ bits = <<>>
  BY ResetProgram DEF InReset
<1>2. /\ Next_statement = onewire_reset[2 + 1] /\ Tail(statements) = Rest(onewire_reset, 2 + 1)
      /\ Tail(statements) \in Seq(Statement)
  BY <1>1, NextInProgram
<1>3. WaitsHigh
  BY <1>2, StepOf, Kinds, ResetProgram
<1>4. WTypeOK' /\ device' = device /\ drives' = drives /\ wire_call' = wire_call /\ age' = age
  BY <1>2, <1>3, HighStep
<1>5. /\ device \in Device /\ age \in Nat /\ retries \in Nat /\ device.until \in Nat
      /\ ~(device.there /\ device.shorted)
  BY DEF WTypeOK, Device
<1>6. device.there => device.until <= age + 2 * (retries - 2)
  BY DEF InReset, AnswersReset
<1>7. CASE High(drives, device, age)
  <2>1. statements' = Rest(onewire_reset, 3) /\ bits' = <<>>
    BY <1>1, <1>2, <1>3, <1>7 DEF WaitsHigh
  <2>2. ~device.shorted /\ ~HeldBy(device, age)
    BY <1>7 DEF High, Pulls
  <2>3. AnswersReset(3)'
    BY <1>4, <2>2 DEF AnswersReset
  <2>4. InReset(3)'
    BY <1>1, <1>4, <2>1, <2>2, <2>3 DEF InReset
  <2> QED BY <1>4, <2>4
<1>8. CASE ~High(drives, device, age) /\ retries > 2
  <2>1. statements' = <<os_delay_us(2)>> \o statements /\ retries' = retries - 1 /\ bits' = <<>>
    BY <1>1, <1>3, <1>8 DEF WaitsHigh
  <2>2. statements' = Rest(onewire_reset, 1)
    BY <1>1, <2>1, WaitAgain
  <2>3. device.there => device'.until <= age' + 2 * (retries' - 1)
    BY <1>4, <1>5, <1>6, <2>1
  <2>4. device.there => AnswersReset(1)'
    BY <2>3 DEF AnswersReset
  <2>5. InReset(1)'
    BY <1>1, <1>4, <2>1, <2>2, <2>4 DEF InReset
  <2> QED BY <1>4, <2>5
<1>9. CASE ~High(drives, device, age) /\ ~(retries > 2)
  <2>1. statements' = <<>> /\ bits' = <<1>>
    BY <1>3, <1>9 DEF WaitsHigh
  <2>2. ~device.there
    BY <1>1, <1>5, <1>6, <1>9 DEF High, Pulls, HeldBy
  <2> QED BY <1>1, <1>4, <2>1, <2>2 DEF GivenUp
<1> QED BY <1>7, <1>8, <1>9

LEMMA ResetReads ==
    ASSUME WTypeOK, InReset(7), Step
    PROVE  WTypeOK' /\ InReset(8)'
<1>1. /\ statements = Rest(onewire_reset, 7) /\ 7 \in 0 .. Len(onewire_reset) - 1
      /\ onewire_reset \in Seq(Statement) /\ wire_call.name = "reset" /\ drives = "free" /\ bits = <<>>
      /\ ~device.shorted /\ (device.there => AnswersReset(7))
  BY ResetProgram DEF InReset
<1>2. /\ Next_statement = onewire_reset[7 + 1] /\ Tail(statements) = Rest(onewire_reset, 7 + 1)
      /\ Tail(statements) \in Seq(Statement)
  BY <1>1, NextInProgram
<1>3. Reads
  BY <1>2, StepOf, Kinds, ResetProgram
<1>4. /\ WTypeOK' /\ device' = device /\ drives' = drives /\ wire_call' = wire_call /\ age' = age
      /\ statements' = Tail(statements)
      /\ bits' = Append(bits, IF High(drives, device, age) THEN 1 ELSE 0)
  BY <1>2, <1>3, ReadStep
<1>5. High(drives, device, age) = ~device.there
  <2>1. device.there => HeldBy(device, age)
    BY <1>1 DEF AnswersReset
  <2> QED BY <1>1, <2>1 DEF High, Pulls, HeldBy
<1>6. bits' = <<IF device'.there THEN 0 ELSE 1>>
  <2>1. device \in Device /\ device.there \in BOOLEAN
    BY DEF WTypeOK, Device
  <2>2. bits' = Append(<<>>, IF device.there THEN 0 ELSE 1)
    BY <1>1, <1>4, <1>5, <2>1
  <2>3. bits' = <<IF device.there THEN 0 ELSE 1>>
    BY <2>2
  <2> QED BY <1>4, <2>3
<1>7. device.there => AnswersReset(8)'
  BY <1>1, <1>4 DEF AnswersReset
<1>8. statements' = Rest(onewire_reset, 8)
  BY <1>2, <1>4
<1>9. InReset(8)'
  BY <1>1, <1>4, <1>6, <1>7, <1>8 DEF InReset
<1> QED BY <1>4, <1>9

LEMMA ResetStep ==
    ASSUME WTypeOK, late' <= Margin, NEW k \in 0 .. 9, InReset(k), Step
    PROVE  WTypeOK' /\ ((\E m \in 0 .. 9 : InReset(m)') \/ GivenUp')
<1>1. k # 9
  <2>1. onewire_reset \in Seq(Statement) /\ Len(onewire_reset) = 9 /\ 9 \in 0 .. Len(onewire_reset)
    BY ResetProgram
  <2>2. Rest(onewire_reset, 9) = <<>>
    BY <2>1, RestOf
  <2> QED BY <2>2, StepOf DEF InReset
<1>2. CASE k \in {0, 3, 5}
  <2>1. k + 1 \in 0 .. 9
    BY <1>2
  <2> QED BY <1>2, <2>1, ResetDrives
<1>3. CASE k \in {1, 4, 6, 8}
  <2>1. k + 1 \in 0 .. 9
    BY <1>1
  <2> QED BY <1>3, <2>1, ResetWaits
<1>4. CASE k = 2
  <2>1. InReset(2)
    BY <1>4
  <2>2. WTypeOK' /\ (InReset(3)' \/ InReset(1)' \/ GivenUp')
    BY <2>1, ResetLooks
  <2> QED BY <2>2
<1>5. CASE k = 7
  <2>1. InReset(7)
    BY <1>5
  <2> QED BY <2>1, ResetReads
<1> QED BY <1>1, <1>2, <1>3, <1>4, <1>5

LEMMA PrefixOf ==
    ASSUME NEW w, w \in Nat, NEW f, f \in [1 .. w -> Bit]
    PROVE  /\ f \in Seq(Bit) /\ Len(f) = w
           /\ Prefix(f, 0) = <<>> /\ Prefix(f, w) = f
           /\ \A n \in 1 .. w : /\ Append(Prefix(f, n - 1), f[n]) = Prefix(f, n)
                                /\ Len(Prefix(f, n)) = n /\ f[n] \in Bit
<1>1. f \in Seq(Bit) /\ Len(f) = w
  BY AsSeq
<1>2. \A n \in 0 .. w : Prefix(f, n) \in Seq(Bit) /\ Len(Prefix(f, n)) = n
  <2> SUFFICES ASSUME NEW n \in 0 .. w PROVE Prefix(f, n) \in Seq(Bit) /\ Len(Prefix(f, n)) = n
    OBVIOUS
  <2>1. n \in Nat /\ Prefix(f, n) \in [1 .. n -> Bit]
    BY DEF Prefix
  <2> QED BY <2>1, AsSeq
<1>3. Prefix(f, 0) = <<>>
  BY <1>2, EmptySeq
<1>4. Prefix(f, w) = f
  BY DEF Prefix
<1>5. ASSUME NEW n \in 1 .. w
      PROVE  Append(Prefix(f, n - 1), f[n]) = Prefix(f, n)
  <2> DEFINE a == Prefix(f, n - 1)
             c == Append(a, f[n])
  <2>1. n - 1 \in 0 .. w /\ n \in 0 .. w /\ f[n] \in Bit
    OBVIOUS
  <2>2. a \in Seq(Bit) /\ Len(a) = n - 1 /\ Prefix(f, n) \in Seq(Bit) /\ Len(Prefix(f, n)) = n
    BY <1>2, <2>1
  <2>3. c \in Seq(Bit) /\ Len(c) = n /\ c[n] = f[n] /\ \A k \in 1 .. n - 1 : c[k] = a[k]
    <3> HIDE DEF a
    <3> QED BY <2>1, <2>2, AppendProperties
  <2>4. \A k \in 1 .. n : c[k] = Prefix(f, n)[k]
    <3> SUFFICES ASSUME NEW k \in 1 .. n PROVE c[k] = Prefix(f, n)[k]
      OBVIOUS
    <3>1. Prefix(f, n)[k] = f[k]
      BY DEF Prefix
    <3>2. k # n => a[k] = f[k]
      BY DEF Prefix
    <3> HIDE DEF a, c
    <3> QED BY <2>3, <3>1, <3>2
  <2> HIDE DEF a, c
  <2>5. c = Prefix(f, n)
    BY <2>2, <2>3, <2>4, SeqEqual
  <2> QED BY <2>5 DEF c, a
<1>6. \A n \in 1 .. w : Len(Prefix(f, n)) = n /\ f[n] \in Bit
  BY <1>2
<1> QED BY <1>1, <1>3, <1>4, <1>5, <1>6

(* What interrupts add to a wait. *)
LEMMA Clock ==
    ASSUME NEW a, a \in Nat, NEW l, l \in Nat, l <= 1, NEW us, us \in Nat, a = l + us,
           NEW m, m \in 15 .. 60
    PROVE  (us <= 13 => a < m) /\ (us >= 60 => m <= a)
OBVIOUS

(* A slot begins in which the device is going to look at the line. *)
Ready == (drives # "low" /\ Rests) \/ WriteSlot(0, 1)
SameBits(d, e) == e.in = d.in /\ e.out = d.out /\ e.last = d.last /\ e.answer = d.answer /\ e.on = d.on

LEMMA WriteSlotBegins ==
    ASSUME WTypeOK, device.there, device.on, device.out = <<>>, Ready,
           Step, Next_statement = Drive(0), Tail(statements) \in Seq(Statement), NEW v, v \in Bit
    PROVE  /\ WTypeOK' /\ SameDevice(device, device') /\ SameBits(device, device')
           /\ statements' = Tail(statements) /\ wire_call' = wire_call
           /\ WriteSlot(v, 1)'
<1>1. Drives /\ Next_statement.do = "low"
  BY StepOf, Kinds
<1>2. /\ WTypeOK' /\ SameDevice(device, device')
      /\ drives' = "low" /\ statements' = Tail(statements) /\ wire_call' = wire_call
      /\ High(drives, device, age) => age' = 0 /\ late' = 0 /\ device' = SlotBegins(device)
      /\ ~High(drives, device, age) => age' = age /\ late' = late
      /\ drives = "low" /\ ~High(drives, device, age) => device' = device
  BY <1>1, DriveStep
<1>3. device \in Device /\ ~device.shorted /\ age \in Nat /\ device.until \in Nat
  BY DEF WTypeOK, Device
<1>4. CASE drives # "low" /\ Rests
  <2>1. High(drives, device, age)
    BY <1>3, <1>4 DEF High, Pulls, HeldBy, Rests
  <2>2. device' = [device EXCEPT !.sampleAt = device.times.sample, !.from = 0, !.until = 0]
    BY <1>2, <2>1 DEF SlotBegins
  <2> DEFINE m == device.times.sample
  <2>3. device' = [device EXCEPT !.sampleAt = m, !.from = 0, !.until = 0]
    BY <2>2
  <2> HIDE DEF m
  <2>4. /\ device'.sampleAt = m /\ device'.until = 0 /\ SameBits(device, device')
        /\ device'.times = device.times
    BY <1>3, <2>3 DEF Device, SameBits
  <2>5. device'.sampleAt = device'.times.sample
    BY <2>4 DEF m
  <2>6. drives' = "low" /\ age' = late'
    BY <1>2, <2>1
  <2>7. WriteSlot(v, 1)'
    BY <2>4, <2>5, <2>6 DEF WriteSlot, Sampled
  <2> QED BY <1>2, <2>4, <2>7, Zenon
<1>5. CASE WriteSlot(0, 1)
  <2>1. drives = "low" /\ ~High(drives, device, age)
    BY <1>5 DEF WriteSlot, High
  <2>2. device' = device /\ age' = age /\ late' = late
    BY <1>2, <2>1
  <2>3. WriteSlot(v, 1)
    BY <1>5 DEF WriteSlot, Sampled
  <2>4. WriteSlot(v, 1)'
    BY <1>2, <2>2, <2>3 DEF WriteSlot
  <2>5. SameBits(device, device')
    BY <2>2 DEF SameBits
  <2> QED BY <1>2, <2>4, <2>5
<1> QED BY <1>4, <1>5 DEF Ready

(* The other statements of write_bit(): the device samples v in one of     *)
(* them.                                                                   *)
LEMMA WriteGoesOn ==
    ASSUME WTypeOK, late <= Margin, late' <= Margin, device.there,
           NEW v, v \in Bit, NEW s, s \in 1 .. 3, WriteSlot(v, s),
           Step, Next_statement = write_bit(v)[s + 1], Tail(statements) \in Seq(Statement)
    PROVE  /\ WTypeOK' /\ SameDevice(device, device')
           /\ statements' = Tail(statements) /\ wire_call' = wire_call
           /\ WriteSlot(v, s + 1)'
           /\ Sampled(v, s) = Sampled(v, s + 1) => device' = device
           /\ Sampled(v, s) # Sampled(v, s + 1) => SampledAs(device, device', v)
<1>1. /\ device \in Device /\ ~device.shorted /\ age \in Nat /\ device.until \in Nat
      /\ late \in 0 .. Late /\ Late \in Nat /\ late <= 1 /\ late' <= 1 /\ device.until = 0
  BY SlotsAssumption DEF WTypeOK, Device, WriteSlot, Margin
<1>2. device.times.sample \in 15 .. 60
  BY <1>1, TimesAre
<1>3. CASE s = 2
  <2>1. Next_statement = Drive(1) /\ drives = "low"
    BY <1>3, WriteBitProgram DEF WriteSlot
  <2>2. Drives /\ Next_statement.do = "high"
    BY <2>1, StepOf, Kinds
  <2>3. /\ WTypeOK' /\ SameDevice(device, device')
        /\ drives' = "high" /\ statements' = Tail(statements) /\ wire_call' = wire_call
        /\ age' = age /\ late' = late /\ device' = LineRises(device, age)
    BY <2>1, <2>2, DriveStep
  <2>4. age < ResetTime
    BY <1>1, <1>3, TimesAssumption DEF WriteSlot, Bit
  <2>5. device' = device
    BY <2>3, <2>4 DEF LineRises
  <2>6. WriteSlot(v, 3)'
    BY <1>3, <2>3, <2>5 DEF WriteSlot, Sampled
  <2>7. Sampled(v, 2) = Sampled(v, 3)
    BY DEF Sampled
  <2> QED BY <1>3, <2>3, <2>5, <2>6, <2>7
<1>4. CASE s \in {1, 3}
  <2> DEFINE us == IF s = 1 THEN IF v = 1 THEN 10 ELSE 65 ELSE IF v = 1 THEN 55 ELSE 5
  <2>1. Next_statement = os_delay_us(us) /\ us \in Nat
    BY <1>4, WriteBitProgram
  <2>2. Waits /\ Next_statement.us = us
    BY <2>1, StepOf, Kinds
  <2> HIDE DEF us
  <2>3. /\ WTypeOK' /\ SameDevice(device, device')
        /\ drives' = drives /\ statements' = Tail(statements) /\ wire_call' = wire_call
        /\ age' - late' = age - late + us /\ late' >= late
        /\ age' \in Nat /\ late' \in 0 .. Late
        /\ ~Passes(device, age, age') => device' = device
        /\ Passes(device, age, age') =>
             SampledAs(device, device', IF High(drives, device, device.sampleAt) THEN 1 ELSE 0)
    BY <1>1, <2>1, <2>2, WaitStep
  <2>4. device'.until = 0 /\ device'.times = device.times
    BY <1>1, <2>3 DEF SampledAs, SameDevice
  <2> DEFINE m == device.times.sample
  <2>5. CASE s = 1
    <3>1. us = (IF v = 1 THEN 10 ELSE 65) /\ age = late /\ drives = "low" /\ device.sampleAt = m
      BY <2>5 DEF us, WriteSlot, Sampled
    <3>2. age' = late' + us
      BY <1>1, <2>3, <3>1, <2>1
    <3>3. Passes(device, age, age') <=> v = 0
      <4> HIDE DEF m
      <4>1. m \in 15 .. 60
        BY <1>2 DEF m
      <4>2. age' \in Nat /\ late' \in Nat /\ late' <= 1
        BY <1>1, <2>3
      <4>3. (us <= 13 => age' < m) /\ (us >= 60 => m <= age')
        BY <2>1, <3>2, <4>1, <4>2, Clock, Zenon
      <4>4. age <= 1
        BY <1>1, <3>1
      <4>5. CASE v = 1
        <5>1. age' < m
          BY <3>1, <4>3, <4>5
        <5> QED BY <3>1, <4>1, <4>2, <4>5, <5>1 DEF Passes
      <4>6. CASE v = 0
        <5>1. m <= age'
          BY <3>1, <4>3, <4>6
        <5> QED BY <1>1, <3>1, <4>1, <4>4, <4>6, <5>1 DEF Passes
      <4> QED BY <4>5, <4>6 DEF Bit
    <3>4. ~High(drives, device, device.sampleAt)
      BY <3>1 DEF High
    <3>5. CASE v = 1
      <4>1. device' = device /\ age' = late' + 10
        BY <2>3, <3>1, <3>2, <3>3, <3>5
      <4>2. WriteSlot(v, 2)' /\ Sampled(v, 1) = Sampled(v, 2)
        BY <1>1, <2>3, <3>1, <3>5, <4>1 DEF WriteSlot, Sampled
      <4> QED BY <2>3, <2>5, <4>1, <4>2
    <3>6. CASE v = 0
      <4>1. SampledAs(device, device', v) /\ age' = late' + 65
        BY <2>3, <3>1, <3>2, <3>3, <3>4, <3>6
      <4>2. device'.sampleAt = 0
        BY <4>1 DEF SampledAs
      <4>3. WriteSlot(v, 2)' /\ Sampled(v, 1) # Sampled(v, 2)
        BY <2>3, <2>4, <3>1, <3>6, <4>1, <4>2 DEF WriteSlot, Sampled
      <4> QED BY <2>3, <2>5, <4>1, <4>3
    <3> QED BY <3>5, <3>6 DEF Bit
  <2>6. CASE s = 3
    <3>1. us = (IF v = 1 THEN 55 ELSE 5) /\ age = late + (IF v = 1 THEN 10 ELSE 65) /\ drives = "high"
          /\ device.sampleAt = (IF v = 0 THEN 0 ELSE m)
      BY <2>6 DEF us, WriteSlot, Sampled, Bit
    <3>2. Passes(device, age, age') <=> v = 1
      <4> HIDE DEF m
      <4>1. m \in 15 .. 60
        BY <1>2 DEF m
      <4>2. CASE v = 1
        <5>1. us = 55 /\ age = late + 10 /\ age <= 11
          BY <1>1, <3>1, <4>2
        <5>2. age' - late' = age - late + us /\ age - late = 10 /\ 10 + us = 65
          <6>1. age' - late' = age - late + us
            BY <2>3
          <6>2. age - late = 10 /\ 10 + us = 65
            BY <1>1, <5>1
          <6> QED BY <6>1, <6>2, Zenon
        <5>3. age' = late' + (10 + us) /\ 10 + us \in Nat /\ 10 + us >= 60
          BY <1>1, <2>3, <5>2
        <5>4. age' \in Nat /\ late' \in Nat /\ late' <= 1
          BY <1>1, <2>3
        <5>5. m <= age'
          BY <4>1, <5>3, <5>4, Clock, Zenon
        <5> QED BY <1>1, <3>1, <4>1, <4>2, <5>1, <5>5 DEF Passes
      <4>3. CASE v = 0
        BY <3>1, <4>3 DEF Passes
      <4> QED BY <4>2, <4>3 DEF Bit
    <3>3. High(drives, device, device.sampleAt)
      <4>1. device.sampleAt \in Nat
        BY <1>1 DEF Device
      <4> QED BY <1>1, <3>1, <4>1 DEF High, Pulls, HeldBy
    <3>4. CASE v = 0
      <4>1. device' = device
        BY <2>3, <3>2, <3>4
      <4>2. WriteSlot(v, 4)' /\ Sampled(v, 3) = Sampled(v, 4)
        BY <1>1, <2>3, <3>1, <3>4, <4>1 DEF WriteSlot, Sampled
      <4> QED BY <2>3, <2>6, <4>1, <4>2
    <3>5. CASE v = 1
      <4>1. SampledAs(device, device', v)
        BY <2>3, <3>2, <3>3, <3>5
      <4>2. device'.sampleAt = 0
        BY <4>1 DEF SampledAs
      <4>3. WriteSlot(v, 4)' /\ Sampled(v, 3) # Sampled(v, 4)
        BY <2>3, <2>4, <3>1, <3>5, <4>1, <4>2 DEF WriteSlot, Sampled
      <4> QED BY <2>3, <2>6, <4>1, <4>3
    <3> QED BY <3>4, <3>5 DEF Bit
  <2> QED BY <1>4, <2>5, <2>6
<1> QED BY <1>3, <1>4

LEMMA GotMore ==
    ASSUME NEW byte, byte \in WireByte, NEW n, n \in 1 .. BitsPerByte,
           Got(byte, n - 1), SampledAs(device, device', byte[n])
    PROVE  Got(byte, n)'
<1>1. BitsPerByte \in Nat \ {0} /\ byte \in [1 .. BitsPerByte -> Bit]
  BY SlotsAssumption DEF WireByte, Bit
<1>2. n - 1 < BitsPerByte /\ n <= BitsPerByte
  BY <1>1
<1>3. device.on /\ device.in = Prefix(byte, n - 1) /\ device.out = <<>>
  BY <1>2 DEF Got
<1>4. Append(device.in, byte[n]) = Prefix(byte, n) /\ Len(Prefix(byte, n)) = n
  BY <1>1, <1>3, PrefixOf
<1>5. /\ device'.on /\ device'.last = Prefix(byte, n)
      /\ n < BitsPerByte => device'.in = Prefix(byte, n) /\ device'.out = <<>>
      /\ n >= BitsPerByte => device'.in = <<>> /\ device'.out \in Answers(Prefix(byte, n))
                             /\ device'.answer = device'.out
  BY <1>3, <1>4 DEF SampledAs
<1>6. Prefix(byte, BitsPerByte) = byte
  BY <1>1, PrefixOf
<1>7. n = BitsPerByte => device'.in = <<>> /\ device'.last = byte /\ device'.answer = device'.out
                         /\ device'.out \in Answers(byte)
  BY <1>1, <1>5, <1>6
<1> QED BY <1>5, <1>7 DEF Got

LEMMA GotSame ==
    ASSUME NEW byte, NEW n, Got(byte, n), SameBits(device, device')
    PROVE  Got(byte, n)'
BY DEF Got, SameBits

(* The place of statement s of bit i of a byte. *)
LEMMA BitPlace ==
    ASSUME NEW n, n \in Nat \ {0}, NEW i, i \in 1 .. n, NEW w, w \in {4, 6}, NEW s, s \in 0 .. w - 1,
           NEW l, l \in Nat, l >= w * n
    PROVE  /\ w * (i - 1) + s \in 0 .. l - 1
           /\ (w * (i - 1) + s) + 1 = w * (i - 1) + (s + 1) /\ s + 1 \in 1 .. w
           /\ s = w - 1 => (w * (i - 1) + s) + 1 = w * ((i + 1) - 1) + 0
           /\ s = w - 1 /\ i = n => (w * (i - 1) + s) + 1 = w * n + 0
<1>1. CASE w = 4
  BY <1>1
<1>2. CASE w = 6
  BY <1>2
<1> QED BY <1>1, <1>2

LEMMA WriteStep ==
    ASSUME WTypeOK, late <= Margin, late' <= Margin, device.there,
           NEW i, i \in 1 .. BitsPerByte, NEW s, s \in 0 .. 3, InWrite(i, s), Step
    PROVE  /\ WTypeOK' /\ SameDevice(device, device')
           /\ s # 3 => InWrite(i, s + 1)'
           /\ s = 3 /\ i # BitsPerByte => InWrite(i + 1, 0)'
           /\ s = 3 /\ i = BitsPerByte => InTail(0)' \/ Powered'
<1>1. PICK power \in BOOLEAN : /\ power => wire_call.byte \notin Commands
                               /\ statements = Rest(onewire_write(wire_call.byte, power), 4 * (i - 1) + s)
  BY DEF InWrite
<1>a. PICK byte \in WireBytes : byte = wire_call.byte
  BY DEF InWrite, Writing
<1>2. /\ BitsPerByte \in Nat \ {0} /\ byte \in WireByte /\ Writing
      /\ byte \in [1 .. BitsPerByte -> Bit]
  BY SlotsAssumption DEF InWrite, WireByte, Bit
<1>3. PICK v \in Bit : v = byte[i]
  BY <1>2
<1> DEFINE program == onewire_write(byte, power)
           k == 4 * (i - 1) + s
<1>4. /\ program \in Seq(Statement) /\ Len(program) = 4 * BitsPerByte + (IF power THEN 0 ELSE 3)
      /\ \A j \in 1 .. 4 : program[4 * (i - 1) + j] = write_bit(v)[j]
  <2>1. /\ program \in Seq(Statement) /\ Len(program) = 4 * BitsPerByte + (IF power THEN 0 ELSE 3)
        /\ \A m \in 1 .. BitsPerByte : \A j \in 1 .. 4 : program[4 * (m - 1) + j] = write_bit(byte[m])[j]
    <3>1. IsWriteProgram(program, byte, power)
      BY <1>2, WriteProgram
    <3> HIDE DEF program
    <3> QED BY <3>1 DEF IsWriteProgram
  <2> HIDE DEF program
  <2> QED BY <1>3, <2>1
<1>5. /\ k \in 0 .. Len(program) - 1 /\ k + 1 = 4 * (i - 1) + (s + 1) /\ s + 1 \in 1 .. 4
      /\ s = 3 => k + 1 = 4 * ((i + 1) - 1) + 0
      /\ s = 3 /\ i = BitsPerByte => k + 1 = 4 * BitsPerByte + 0
  <2>1. Len(program) \in Nat /\ Len(program) >= 4 * BitsPerByte
    <3> HIDE DEF program
    <3> QED BY <1>2, <1>4
  <2> HIDE DEF program
  <2> QED BY <1>2, <2>1, BitPlace
<1> HIDE DEF k
<1>6. /\ Next_statement = write_bit(v)[s + 1]
      /\ Tail(statements) = Rest(program, k + 1) /\ Tail(statements) \in Seq(Statement)
  <2>1. statements = Rest(program, k)
    BY <1>1, <1>a DEF k
  <2> HIDE DEF program
  <2>2. Next_statement = program[k + 1] /\ Tail(statements) = Rest(program, k + 1)
        /\ Tail(statements) \in Seq(Statement)
    BY <1>4, <1>5, <2>1, NextInProgram
  <2>3. program[4 * (i - 1) + (s + 1)] = write_bit(v)[s + 1]
    BY <1>4, <1>5, Zenon
  <2>4. program[k + 1] = program[4 * (i - 1) + (s + 1)]
    BY <1>5, Zenon
  <2> QED BY <2>2, <2>3, <2>4, Zenon
<1>7. Got(byte, IF Sampled(v, s) THEN i ELSE i - 1)
  BY <1>3, <1>a DEF InWrite
<1>8. CASE s = 0
  <2>1. Got(byte, i - 1)
    BY <1>7, <1>8 DEF Sampled
  <2>2. device.on /\ device.out = <<>>
    BY <1>2, <2>1 DEF Got
  <2>3. Ready
    <3>1. i = 1 => (drives = "free" /\ Rests) \/ WriteSlot(byte[1], 1)
      BY <1>8, <1>a DEF InWrite
    <3>2. i # 1 => WriteSlot(byte[i - 1], 4)
      BY <1>8, <1>a DEF InWrite
    <3>3. age \in Nat
      BY DEF WTypeOK
    <3> QED BY <3>1, <3>2, <3>3 DEF Ready, WriteSlot, Sampled, Rests
  <2>4. Next_statement = Drive(0)
    BY <1>3, <1>6, <1>8, WriteBitProgram
  <2>5. /\ WTypeOK' /\ SameDevice(device, device') /\ SameBits(device, device')
        /\ statements' = Tail(statements) /\ wire_call' = wire_call /\ WriteSlot(v, 1)'
    BY <1>3, <1>6, <2>2, <2>3, <2>4, WriteSlotBegins
  <2>6. Got(byte, i - 1)'
    BY <2>1, <2>5, GotSame
  <2>7. statements' = Rest(onewire_write(byte, power), 4 * (i - 1) + 1)
    BY <1>5, <1>6, <1>8, <2>5
  <2>8. Writing' /\ wire_call'.byte = byte
    BY <1>2, <1>a, <2>5 DEF Writing
  <2>9. InWrite(i, 1)'
    <3>1. wire_call'.byte[i] = v
      BY <1>3, <2>8
    <3>2. Got(wire_call.byte, IF Sampled(wire_call.byte[i], 1) THEN i ELSE i - 1)'
      BY <2>6, <2>8 DEF Sampled
    <3>3. WriteSlot(wire_call.byte[i], 1)'
      BY <2>5, <3>1
    <3> QED BY <1>1, <1>a, <2>7, <2>8, <3>2, <3>3 DEF InWrite
  <2> QED BY <1>8, <2>5, <2>9
<1>9. CASE s # 0
  <2>1. s \in 1 .. 3 /\ WriteSlot(v, s)
    BY <1>3, <1>9, <1>a DEF InWrite
  <2>2. /\ WTypeOK' /\ SameDevice(device, device')
        /\ statements' = Tail(statements) /\ wire_call' = wire_call
        /\ WriteSlot(v, s + 1)'
        /\ Sampled(v, s) = Sampled(v, s + 1) => device' = device
        /\ Sampled(v, s) # Sampled(v, s + 1) => SampledAs(device, device', v)
    BY <1>3, <1>6, <2>1, WriteGoesOn
  <2>3. Sampled(v, s) => Sampled(v, s + 1)
    BY <2>1 DEF Sampled
  <2>4. Got(byte, IF Sampled(v, s + 1) THEN i ELSE i - 1)'
    <3>1. CASE Sampled(v, s) = Sampled(v, s + 1)
      <4>1. SameBits(device, device')
        BY <2>2, <3>1 DEF SameBits
      <4>2. Got(byte, IF Sampled(v, s + 1) THEN i ELSE i - 1)
        BY <1>7, <3>1
      <4> QED BY <4>1, <4>2, GotSame
    <3>2. CASE Sampled(v, s) # Sampled(v, s + 1)
      <4>1. Sampled(v, s + 1) /\ Got(byte, i - 1)
        BY <1>7, <2>3, <3>2 DEF Sampled
      <4>2. SampledAs(device, device', byte[i])
        BY <1>3, <2>2, <3>2
      <4>3. Got(byte, i)'
        BY <1>2, <4>1, <4>2, GotMore
      <4> QED BY <4>1, <4>3
    <3> QED BY <3>1, <3>2
  <2>5. Writing' /\ wire_call'.byte = byte
    BY <1>2, <1>a, <2>2 DEF Writing
  <2>6. statements' = Rest(onewire_write(byte, power), k + 1)
    BY <1>6, <2>2
  <2>7. CASE s # 3
    <3>1. wire_call'.byte[i] = v
      BY <1>3, <2>5
    <3>2. Got(wire_call.byte, IF Sampled(wire_call.byte[i], s + 1) THEN i ELSE i - 1)'
      BY <2>4, <2>5, <3>1
    <3>3. WriteSlot(wire_call.byte[i], s + 1)'
      BY <2>2, <3>1
    <3>4. statements' = Rest(onewire_write(byte, power), 4 * (i - 1) + (s + 1)) /\ s + 1 # 0
      BY <1>5, <2>1, <2>6
    <3>5. InWrite(i, s + 1)'
      BY <1>1, <1>a, <2>5, <3>2, <3>3, <3>4 DEF InWrite
    <3> QED BY <2>2, <2>7, <3>5
  <2>8. CASE s = 3
    <3>1. Got(byte, i)' /\ WriteSlot(v, 4)'
      BY <2>2, <2>4, <2>8 DEF Sampled
    <3>2. CASE i # BitsPerByte
      <4>1. i + 1 # 1 /\ (i + 1) - 1 = i /\ i + 1 \in 1 .. BitsPerByte
        BY <1>2, <3>2
      <4>2. statements' = Rest(onewire_write(byte, power), 4 * ((i + 1) - 1) + 0)
        BY <1>5, <2>6, <2>8
      <4>3. Got(wire_call.byte, IF Sampled(wire_call.byte[i + 1], 0) THEN i + 1 ELSE (i + 1) - 1)'
        BY <2>5, <3>1, <4>1 DEF Sampled
      <4>4. WriteSlot(wire_call.byte[(i + 1) - 1], 4)'
        BY <1>3, <2>5, <3>1, <4>1
      <4>5. InWrite(i + 1, 0)'
        BY <1>1, <1>a, <2>5, <4>1, <4>2, <4>3, <4>4 DEF InWrite
      <4> QED BY <2>2, <2>8, <3>2, <4>5
    <3>3. CASE i = BitsPerByte
      <4>1. Got(wire_call.byte, BitsPerByte)'
        BY <2>5, <3>1, <3>3
      <4>2. device'.sampleAt = 0 /\ device'.until = 0 /\ drives' = "high"
        BY <3>1 DEF WriteSlot, Sampled
      <4>3. statements' = Rest(program, 4 * BitsPerByte + 0)
        BY <1>5, <2>6, <2>8, <3>3
      <4>4. CASE power
        <5>1. Len(program) = 4 * BitsPerByte + 0 /\ Len(program) \in 0 .. Len(program)
          <6> HIDE DEF program
          <6> QED BY <1>2, <1>4, <4>4
        <5>2. statements' = <<>>
          <6> HIDE DEF program
          <6> QED BY <1>4, <4>3, <5>1, RestOf
        <5>3. Powered'
          BY <1>1, <1>a, <2>5, <4>1, <4>2, <4>4, <5>2 DEF Powered
        <5> QED BY <2>2, <2>8, <3>3, <5>3
      <4>5. CASE ~power
        <5>1. power = FALSE
          BY <4>5
        <5>2. statements' = Rest(onewire_write(wire_call.byte, FALSE), 4 * BitsPerByte + 0)'
          BY <2>5, <4>3, <5>1
        <5>3. InTail(0)'
          BY <2>5, <4>1, <4>2, <5>2 DEF InTail
        <5> QED BY <2>2, <2>8, <3>3, <5>3
      <4> QED BY <4>4, <4>5
    <3> QED BY <3>2, <3>3
  <2> QED BY <2>7, <2>8
<1> QED BY <1>8, <1>9

LEMMA RestOne ==
    ASSUME NEW S, NEW s, s \in Seq(S), s # <<>>
    PROVE  Head(s) = s[1] /\ Tail(s) = Rest(s, 1) /\ Len(s) \in Nat /\ Len(s) > 0
<1>1. Len(s) \in Nat /\ Len(s) > 0 /\ 0 \in 0 .. Len(s)
  BY EmptySeq
<1>2. Rest(s, 0) = s
  BY RestAll
<1>3. Head(Rest(s, 0)) = s[0 + 1] /\ Tail(Rest(s, 0)) = Rest(s, 0 + 1)
  BY <1>1, RestOf
<1> QED BY <1>1, <1>2, <1>3

LEMMA AtOnce ==
    ASSUME NEW a, a \in Nat, NEW l, l \in Nat, a = l,
           NEW b, b \in Nat, NEW m, m \in 0 .. Late, m <= Margin, b - m = a - l + 0
    PROVE  b = m /\ \A x \in 15 .. 60 : b < x
<1>1. m \in Nat /\ m <= 1 /\ a - l = 0
  BY SlotsAssumption DEF Margin
<1> QED BY <1>1

(* The slot that a write without power begins for the next call. *)
LEMMA TailStep ==
    ASSUME WTypeOK, late' <= Margin, device.there, NEW t, t \in 0 .. 2, InTail(t), Step
    PROVE  WTypeOK' /\ SameDevice(device, device') /\ InTail(t + 1)'
<1>1. PICK byte \in WireBytes : byte = wire_call.byte
  BY DEF InTail, Writing
<1>2. BitsPerByte \in Nat \ {0} /\ byte \in WireByte
  BY SlotsAssumption
<1> DEFINE program == onewire_write(byte, FALSE)
           k == 4 * BitsPerByte + t
<1>3. /\ program \in Seq(Statement) /\ Len(program) = 4 * BitsPerByte + 3
      /\ program[4 * BitsPerByte + 1] = Release
      /\ program[4 * BitsPerByte + 2] = Drive(0)
      /\ program[4 * BitsPerByte + 3] = os_delay_us(0)
  <2>1. IsWriteProgram(program, byte, FALSE)
    BY <1>2, WriteProgram
  <2> HIDE DEF program
  <2> QED BY <2>1 DEF IsWriteProgram
<1>4. statements = Rest(program, k) /\ Writing
  BY <1>1 DEF InTail
<1>5. /\ k \in 0 .. Len(program) - 1 /\ k + 1 = 4 * BitsPerByte + (t + 1)
  <2> HIDE DEF program
  <2> QED BY <1>2, <1>3
<1>6. /\ Next_statement = (CASE t = 0 -> Release [] t = 1 -> Drive(0) [] t = 2 -> os_delay_us(0))
      /\ Tail(statements) = Rest(program, 4 * BitsPerByte + (t + 1)) /\ Tail(statements) \in Seq(Statement)
  <2> HIDE DEF program, k
  <2>1. Next_statement = program[k + 1] /\ Tail(statements) = Rest(program, k + 1)
        /\ Tail(statements) \in Seq(Statement)
    BY <1>3, <1>4, <1>5, NextInProgram
  <2>2. program[k + 1] = (CASE t = 0 -> Release [] t = 1 -> Drive(0) [] t = 2 -> os_delay_us(0))
    BY <1>3, <1>5
  <2> QED BY <1>5, <2>1, <2>2, Zenon
<1>a. ASSUME wire_call' = wire_call, statements' = Tail(statements)
      PROVE  /\ Writing' /\ wire_call'.byte = byte
             /\ statements' = Rest(onewire_write(wire_call.byte, FALSE), 4 * BitsPerByte + (t + 1))'
  <2>1. Writing' /\ wire_call'.byte = byte
    BY <1>1, <1>4, <1>a DEF Writing
  <2>2. statements' = Rest(onewire_write(byte, FALSE), 4 * BitsPerByte + (t + 1))
    BY <1>6, <1>a, Zenon
  <2> QED BY <2>1, <2>2, Zenon
<1>7. /\ device \in Device /\ ~device.shorted /\ age \in Nat /\ late \in 0 .. Late /\ Late \in Nat
      /\ device.times.sample \in 15 .. 60
  BY SlotsAssumption, TimesAre DEF WTypeOK, Device
<1>8. CASE t = 0
  <2>1. Got(byte, BitsPerByte) /\ device.sampleAt = 0 /\ device.until = 0 /\ drives = "high"
    BY <1>1, <1>8 DEF InTail
  <2>2. Drives /\ Next_statement.do = "free"
    BY <1>6, <1>8, StepOf, Kinds
  <2>3. /\ WTypeOK' /\ SameDevice(device, device')
        /\ drives' = "free" /\ statements' = Tail(statements) /\ wire_call' = wire_call
        /\ device' = device
    BY <1>6, <2>1, <2>2, DriveStep
  <2>4. Got(byte, BitsPerByte)'
    BY <2>1, <2>3 DEF Got
  <2>5. Writing' /\ wire_call'.byte = byte
        /\ statements' = Rest(onewire_write(wire_call.byte, FALSE), 4 * BitsPerByte + 1)'
    <3>1. t + 1 = 1
      BY <1>8
    <3> QED BY <1>a, <2>3, <3>1, Zenon
  <2>6. Got(wire_call.byte, BitsPerByte)' /\ device'.sampleAt = 0 /\ device'.until = 0
    BY <2>1, <2>3, <2>4, <2>5
  <2>7. InTail(1)'
    <3>1. drives' = (IF 1 = 0 THEN "high" ELSE "free") /\ ~(1 >= 2)
      BY <2>3
    <3> QED BY <2>5, <2>6, <3>1, Zenon DEF InTail
  <2> QED BY <1>8, <2>3, <2>7
<1>9. CASE t = 1
  <2>1. Got(byte, BitsPerByte) /\ device.sampleAt = 0 /\ device.until = 0 /\ drives = "free"
    BY <1>1, <1>9 DEF InTail
  <2>2. Drives /\ Next_statement.do = "low"
    BY <1>6, <1>9, StepOf, Kinds
  <2>3. High(drives, device, age)
    BY <1>7, <2>1 DEF High, Pulls, HeldBy
  <2>4. /\ WTypeOK' /\ SameDevice(device, device')
        /\ drives' = "low" /\ statements' = Tail(statements) /\ wire_call' = wire_call
        /\ age' = 0 /\ late' = 0 /\ device' = SlotBegins(device)
    BY <1>6, <2>2, <2>3, DriveStep
  <2>5. /\ device.on /\ device.in = <<>> /\ device.last = byte /\ device.answer = device.out
        /\ device.out \in Answers(byte)
    BY <2>1 DEF Got
  <2>8. Writing' /\ wire_call'.byte = byte
        /\ statements' = Rest(onewire_write(wire_call.byte, FALSE), 4 * BitsPerByte + 2)'
    <3>1. t + 1 = 2
      BY <1>9
    <3> QED BY <1>a, <2>4, <3>1, Zenon
  <2>9. NextSlot' => InTail(2)'
    BY <2>8 DEF InTail
  <2>6. CASE device.answer = <<>>
    <3> DEFINE m == device.times.sample
    <3>1. device' = [device EXCEPT !.sampleAt = m, !.from = 0, !.until = 0]
      BY <2>4, <2>5, <2>6 DEF SlotBegins
    <3> HIDE DEF m
    <3>2. /\ device'.sampleAt = m /\ device'.until = 0 /\ device'.times = device.times
          /\ device'.on /\ device'.in = <<>> /\ device'.last = byte /\ device'.answer = <<>> /\ device'.out = <<>>
      BY <1>7, <2>5, <2>6, <3>1 DEF Device
    <3>3. device'.sampleAt = device'.times.sample /\ <<>> \in Answers(byte)
      BY <2>5, <2>6, <3>2 DEF m
    <3>4. NextSlot'
      BY <2>4, <2>8, <3>2, <3>3 DEF NextSlot
    <3> QED BY <1>9, <2>4, <2>9, <3>4
  <2>7. CASE device.answer # <<>>
    <3> DEFINE r == Tail(device.out)
               u == IF Head(device.out) = 0 THEN device.times.hold ELSE 0
    <3>1. device' = [device EXCEPT !.out = r, !.from = 0, !.until = u]
      BY <2>4, <2>5, <2>7 DEF SlotBegins
    <3>2. device.out \in Seq(Bit) /\ device.out # <<>>
      BY <2>5, <2>7, AnswersAre
    <3>a. Head(device.out) = device.out[1] /\ Tail(device.out) = Rest(device.out, 1)
      BY <3>2, RestOne
    <3>3. r = Rest(device.answer, 1) /\ u = HoldTime(device.answer[1])
      BY <2>5, <3>a DEF HoldTime
    <3> HIDE DEF r, u
    <3>4. /\ device'.sampleAt = 0 /\ device'.from = 0 /\ device'.until = u /\ device'.times = device.times
          /\ device'.on /\ device'.in = <<>> /\ device'.last = byte /\ device'.answer = device.answer
          /\ device'.out = r
      BY <1>7, <2>1, <2>5, <3>1 DEF Device
    <3>5. device'.until = HoldTime(device.answer[1])'
      BY <3>3, <3>4 DEF HoldTime
    <3>6. device'.out = Rest(device'.answer, 1)
      BY <3>3, <3>4
    <3>7. device'.answer \in Answers(byte) /\ device'.answer # <<>>
      BY <2>5, <2>7, <3>4
    <3>8. NextSlot'
      BY <2>4, <2>8, <3>4, <3>5, <3>6, <3>7 DEF NextSlot
    <3> QED BY <1>9, <2>4, <2>9, <3>8
  <2> QED BY <2>6, <2>7
<1>10. CASE t = 2
  <2>1. NextSlot
    BY <1>10 DEF InTail
  <2>2. Waits /\ Next_statement.us = 0
    BY <1>6, <1>10, StepOf, Kinds
  <2>3. /\ WTypeOK' /\ SameDevice(device, device')
        /\ drives' = drives /\ statements' = Tail(statements) /\ wire_call' = wire_call
        /\ age' - late' = age - late + Next_statement.us /\ age' \in Nat /\ late' \in 0 .. Late
        /\ ~Passes(device, age, age') => device' = device
    BY <1>6, <1>7, <2>2, WaitStep
  <2>4. age' = late' /\ \A x \in 15 .. 60 : age' < x
    <3>1. late \in Nat /\ age \in Nat /\ age = late
      BY <1>7, <2>1 DEF NextSlot
    <3>2. age' - late' = age - late + 0
      BY <2>2, <2>3, Zenon
    <3>3. age' \in Nat /\ late' \in 0 .. Late /\ late' <= Margin
      BY <2>3
    <3> QED BY <3>1, <3>2, <3>3, AtOnce, Zenon
  <2>5. ~Passes(device, age, age')
    <3>1. device.sampleAt = 0 \/ device.sampleAt \in 15 .. 60
      BY <1>7, <2>1 DEF NextSlot
    <3>2. device.sampleAt # 0 => age' < device.sampleAt
      BY <2>4, <3>1, Zenon
    <3>3. device.sampleAt \in Nat
      BY <1>7 DEF Device
    <3> DEFINE m == device.sampleAt
    <3>4. m # 0 => ~(m <= age')
      <4> HIDE DEF m
      <4>1. ASSUME NEW a, a \in Nat, NEW x, x \in Nat, a < x PROVE ~(x <= a)
        BY <4>1
      <4> QED BY <2>3, <3>2, <3>3, <4>1, Zenon DEF m
    <3> QED BY <3>4, Zenon DEF Passes
  <2>6. NextSlot'
    BY <2>1, <2>3, <2>4, <2>5 DEF NextSlot, HoldTime
  <2>7. Writing'
        /\ statements' = Rest(onewire_write(wire_call.byte, FALSE), 4 * BitsPerByte + 3)'
    <3>1. t + 1 = 3
      BY <1>10
    <3> QED BY <1>a, <2>3, <3>1, Zenon
  <2>8. InTail(3)'
    BY <2>6, <2>7 DEF InTail
  <2> QED BY <1>10, <2>3, <2>8
<1> QED BY <1>8, <1>9, <1>10

LEMMA DirectionStep ==
    ASSUME WTypeOK, late <= Margin, late' <= Margin, device.there, NEW s, s \in 0 .. 3, InDirection(s), Step
    PROVE  WTypeOK' /\ SameDevice(device, device') /\ InDirection(s + 1)'
<1>1. PICK v \in Bit : v = wire_call.byte[1]
  <2>1. wire_call.byte \in {<<0, 1>>, <<1, 0>>}
    BY DEF InDirection
  <2> QED BY <2>1 DEF Bit
<1> DEFINE program == write_bit(v)
<1>2. program \in Seq(Statement) /\ Len(program) = 4
  BY WriteBitProgram
<1>3. /\ statements = Rest(program, s) /\ device.on
      /\ wire_call.name = "direction" /\ wire_call.byte \in {<<0, 1>>, <<1, 0>>}
      /\ s = 0 => drives = "free" /\ Rests
      /\ s # 0 => WriteSlot(v, s)
      /\ ~Sampled(v, s) => device.in = <<>> /\ device.out = <<>>
      /\ Sampled(v, s) => device.last = <<v>>
  BY <1>1 DEF InDirection
<1> HIDE DEF program
<1>4. s \in 0 .. Len(program) - 1
  BY <1>2
<1>5. /\ Next_statement = program[s + 1] /\ Tail(statements) = Rest(program, s + 1)
      /\ Tail(statements) \in Seq(Statement)
  BY <1>2, <1>3, <1>4, NextInProgram
<1>6. CASE s = 0
  <2>1. device.out = <<>> /\ device.in = <<>> /\ Ready
    BY <1>3, <1>6 DEF Sampled, Ready
  <2>2. Next_statement = Drive(0)
    BY <1>5, <1>6, WriteBitProgram DEF program
  <2>3. /\ WTypeOK' /\ SameDevice(device, device') /\ SameBits(device, device')
        /\ statements' = Tail(statements) /\ wire_call' = wire_call /\ WriteSlot(v, 1)'
    BY <1>3, <1>5, <2>1, <2>2, WriteSlotBegins
  <2>4. device'.in = <<>> /\ device'.out = <<>> /\ device'.on /\ ~Sampled(v, 1)
    BY <1>3, <2>1, <2>3 DEF SameBits, Sampled
  <2>5. statements' = Rest(write_bit(v), 1) /\ wire_call'.byte[1] = v
    BY <1>1, <1>5, <1>6, <2>3 DEF program
  <2>6. InDirection(1)'
    BY <1>3, <2>3, <2>4, <2>5 DEF InDirection
  <2> QED BY <1>6, <2>3, <2>6
<1>7. CASE s # 0
  <2>1. s \in 1 .. 3 /\ WriteSlot(v, s) /\ Next_statement = write_bit(v)[s + 1]
    BY <1>3, <1>5, <1>7 DEF program
  <2>2. /\ WTypeOK' /\ SameDevice(device, device')
        /\ statements' = Tail(statements) /\ wire_call' = wire_call
        /\ WriteSlot(v, s + 1)'
        /\ Sampled(v, s) = Sampled(v, s + 1) => device' = device
        /\ Sampled(v, s) # Sampled(v, s + 1) => SampledAs(device, device', v)
    BY <1>5, <2>1, WriteGoesOn
  <2>3. Sampled(v, s) => Sampled(v, s + 1)
    BY <2>1 DEF Sampled
  <2>4. /\ device'.on
        /\ ~Sampled(v, s + 1) => device'.in = <<>> /\ device'.out = <<>>
        /\ Sampled(v, s + 1) => device'.last = <<v>>
    <3>1. CASE Sampled(v, s) = Sampled(v, s + 1)
      BY <1>3, <2>2, <3>1
    <3>2. CASE Sampled(v, s) # Sampled(v, s + 1)
      <4>1. Sampled(v, s + 1) /\ device.in = <<>>
        BY <1>3, <2>3, <3>2 DEF Sampled
      <4>2. device'.last = Append(device.in, v) /\ device'.on
        BY <1>3, <2>2, <3>2 DEF SampledAs
      <4> QED BY <4>1, <4>2
    <3> QED BY <3>1, <3>2
  <2>5. statements' = Rest(write_bit(v), s + 1) /\ wire_call'.byte[1] = v /\ s + 1 # 0
    BY <1>1, <1>5, <2>1, <2>2 DEF program
  <2>6. InDirection(s + 1)'
    BY <1>3, <2>2, <2>4, <2>5 DEF InDirection
  <2> QED BY <2>2, <2>6
<1> QED BY <1>6, <1>7

LEMMA SinceIs ==
    Since(0) = 0 /\ Since(1) = 0 /\ Since(2) = 3 /\ Since(3) = 3 /\ Since(4) = 13 /\ Since(5) = 13
BY DEF Since

LEMMA ReadBegins ==
    ASSUME WTypeOK, device.there, device.on, device.sampleAt = 0, device.out # <<>>,
           drives = "free", device.until <= age,
           Step, Next_statement = Drive(0), Tail(statements) \in Seq(Statement),
           NEW v, v = Head(device.out)
    PROVE  /\ WTypeOK' /\ SameDevice(device, device')
           /\ statements' = Tail(statements) /\ wire_call' = wire_call /\ bits' = bits
           /\ device'.on /\ device'.sampleAt = 0 /\ device'.in = device.in /\ device'.answer = device.answer
           /\ device'.out = Tail(device.out) /\ ReadSlot(v, 1)'
<1>1. Drives /\ Next_statement.do = "low"
  BY StepOf, Kinds
<1>2. /\ device \in Device /\ ~device.shorted /\ age \in Nat /\ device.until \in Nat
      /\ device.out \in Seq(Bit)
  BY DEF WTypeOK, Device
<1>3. High(drives, device, age)
  BY <1>2 DEF High, Pulls, HeldBy
<1>4. /\ WTypeOK' /\ SameDevice(device, device')
      /\ drives' = "low" /\ statements' = Tail(statements) /\ wire_call' = wire_call /\ bits' = bits
      /\ age' = 0 /\ late' = 0 /\ device' = SlotBegins(device)
  BY <1>1, <1>3, DriveStep
<1> DEFINE r == Tail(device.out)
           u == IF v = 0 THEN device.times.hold ELSE 0
<1>6. device' = [device EXCEPT !.out = r, !.from = 0, !.until = u]
  BY <1>4 DEF SlotBegins
<1> HIDE DEF r, u
<1>7. /\ device'.sampleAt = 0 /\ device'.from = 0 /\ device'.until = u /\ device'.times = device.times
      /\ device'.on /\ device'.in = device.in /\ device'.answer = device.answer /\ device'.out = r
  BY <1>2, <1>6 DEF Device
<1>8. device'.until = HoldTime(v)'
  BY <1>7 DEF HoldTime, u
<1>9. drives' = (IF 1 < 3 THEN "low" ELSE "free") /\ 0 + Since(1) = 0
  BY <1>4, SinceIs
<1>10. age' = late' + Since(1)
  BY <1>4, <1>9, Zenon
<1>11. ReadSlot(v, 1)'
  BY <1>7, <1>8, <1>9, <1>10, Zenon DEF ReadSlot
<1>12. device'.out = Tail(device.out)
  BY <1>7 DEF r
<1> QED BY <1>4, <1>7, <1>11, <1>12

(* The chip looks at the line while the device holds it for a 0, and       *)
(* drives it again when it no longer does.                                 *)
LEMMA ReadGoesOn ==
    ASSUME WTypeOK, late <= Margin, late' <= Margin, device.there, device.sampleAt = 0,
           NEW v, v \in Bit, NEW s, s \in 0 .. 5, ReadSlot(v, s),
           Step, Next_statement = read_bit[s + 1], Tail(statements) \in Seq(Statement)
    PROVE  /\ WTypeOK' /\ device' = device
           /\ statements' = Tail(statements) /\ wire_call' = wire_call
           /\ bits' = (IF s = 4 THEN Append(bits, v) ELSE bits)
           /\ s # 5 => ReadSlot(v, s + 1)'
           /\ s = 5 => drives' = "free" /\ device'.until <= age'
<1>1. /\ device \in Device /\ ~device.shorted /\ age \in Nat /\ device.until \in Nat
      /\ late \in 0 .. Late /\ late \in Nat /\ late <= 1
      /\ device.times.hold \in 15 .. 60 /\ (v = 0 => device.until = device.times.hold)
      /\ (v = 1 => device.until = 0) /\ device.from = 0
  BY SlotsAssumption, TimesAre DEF WTypeOK, Device, ReadSlot, HoldTime, Margin
<1>a. PICK h \in 15 .. 60 : v = 0 => device.until = h
  BY <1>1
<1>2. drives = (IF s < 3 THEN "low" ELSE "free") /\ age = late + Since(s)
  BY DEF ReadSlot
<1>3. device' = device => device'.from = 0 /\ device'.until = HoldTime(v)'
  BY DEF ReadSlot, HoldTime
<1>4. CASE s \in {0, 2}
  <2>1. Next_statement.do = (IF s = 0 THEN "low" ELSE "free") /\ drives = "low"
    BY <1>2, <1>4, Kinds, ReadBitProgram
  <2>2. Drives
    BY <2>1, StepOf
  <2>3. /\ WTypeOK' /\ drives' = Next_statement.do /\ statements' = Tail(statements) /\ wire_call' = wire_call
        /\ bits' = bits /\ age' = age /\ late' = late
        /\ s = 0 => device' = device
        /\ s = 2 => device' = LineRises(device, age)
    <3>1. ~High(drives, device, age)
      BY <2>1 DEF High
    <3> QED BY <2>1, <2>2, <3>1, DriveStep
  <2>4. device' = device
    <3>1. s = 2 => age < ResetTime
      <4>1. ResetTime \in Nat /\ ResetTime >= 70
        BY TimesAssumption
      <4>2. s = 2 => age = late + 3
        BY <1>2, SinceIs
      <4> QED BY <1>1, <4>1, <4>2
    <3> QED BY <1>4, <2>3, <3>1 DEF LineRises
  <2>5. Since(s + 1) = Since(s) /\ (IF s + 1 < 3 THEN "low" ELSE "free") = (IF s = 0 THEN "low" ELSE "free")
    BY <1>4, SinceIs
  <2>6. ReadSlot(v, s + 1)'
    <3>1. age' = late' + Since(s + 1)
      BY <1>2, <2>3, <2>5, Zenon
    <3>2. drives' = (IF s + 1 < 3 THEN "low" ELSE "free")
      BY <2>1, <2>3, <2>5, Zenon
    <3> QED BY <1>3, <2>4, <3>1, <3>2, Zenon DEF ReadSlot
  <2>7. s # 4 /\ s # 5
    BY <1>4
  <2> QED BY <2>3, <2>4, <2>6, <2>7
<1>5. CASE s \in {1, 3, 5}
  <2> DEFINE us == IF s = 1 THEN 3 ELSE IF s = 3 THEN 10 ELSE 53
  <2>1. Next_statement = os_delay_us(us) /\ us \in Nat
    BY <1>5, ReadBitProgram
  <2>2. Waits /\ Next_statement.us = us
    BY <2>1, StepOf, Kinds
  <2>3. ~Passes(device, age, age')
    BY DEF Passes
  <2>4. Since(s) \in Nat /\ (s # 5 => Since(s) + us = Since(s + 1)) /\ (s = 5 => Since(s) + us = 66)
        /\ (s # 5 => (IF s + 1 < 3 THEN "low" ELSE "free") = (IF s < 3 THEN "low" ELSE "free"))
    BY <1>5, SinceIs
  <2> HIDE DEF us
  <2>5. /\ WTypeOK' /\ drives' = drives /\ statements' = Tail(statements) /\ wire_call' = wire_call
        /\ bits' = bits /\ device' = device
        /\ age' - late' = age - late + Next_statement.us
        /\ age' \in Nat /\ late' \in 0 .. Late
    BY <1>1, <2>1, <2>2, <2>3, WaitStep
  <2>6. late' \in Nat /\ late' <= 1 /\ age' = late' + (Since(s) + us)
    <3>1. age' - late' = age - late + us
      BY <2>2, <2>5, Zenon
    <3>2. age \in Nat /\ late \in Nat /\ age = late + Since(s) /\ Since(s) \in Nat /\ us \in Nat
      BY <1>1, <1>2, <2>1, <2>4
    <3>3. age' \in Nat /\ late' \in 0 .. Late /\ late' <= 1
      BY <2>5 DEF Margin
    <3>4. \A b \in Nat, m \in 0 .. Late :
             m <= 1 /\ b - m = age - late + us => m \in Nat /\ m <= 1 /\ b = m + (Since(s) + us)
      <4> SUFFICES ASSUME NEW b \in Nat, NEW m \in 0 .. Late, m <= 1, b - m = age - late + us
                   PROVE  m \in Nat /\ m <= 1 /\ b = m + (Since(s) + us)
        OBVIOUS
      <4>1. m \in Nat /\ m <= 1
        BY SlotsAssumption
      <4>2. PICK w \in Nat : w = Since(s)
        BY <3>2
      <4>3. age - late = w
        BY <3>2, <4>2
      <4>4. b = m + (w + us)
        BY <3>2, <4>1, <4>3
      <4> QED BY <4>1, <4>2, <4>4
    <3> QED BY <3>1, <3>3, <3>4, Zenon
  <2>7. s # 5 => ReadSlot(v, s + 1)'
    <3> SUFFICES ASSUME s # 5 PROVE ReadSlot(v, s + 1)'
      OBVIOUS
    <3>1. age' = late' + Since(s + 1)
      BY <2>4, <2>6, Zenon
    <3>2. drives' = (IF s + 1 < 3 THEN "low" ELSE "free")
      BY <1>2, <2>4, <2>5, Zenon
    <3> QED BY <1>3, <2>5, <3>1, <3>2, Zenon DEF ReadSlot
  <2>8. s = 5 => drives' = "free" /\ device'.until <= age'
    <3> SUFFICES ASSUME s = 5 PROVE drives' = "free" /\ device'.until <= age'
      OBVIOUS
    <3>1. age' = late' + 66
      BY <2>4, <2>6, Zenon
    <3>2. device.until <= 60
      BY <1>1, <1>a DEF Bit
    <3>3. ASSUME NEW a, a \in Nat, NEW l, l \in Nat, a = l + 66, NEW x, x \in Nat, x <= 60 PROVE x <= a
      BY <3>3
    <3>4. device.until <= age'
      BY <1>1, <2>5, <2>6, <3>1, <3>2, <3>3, Zenon
    <3>5. drives = "free"
      BY <1>2
    <3> QED BY <2>5, <3>4, <3>5
  <2>9. s # 4
    BY <1>5
  <2> QED BY <2>5, <2>7, <2>8, <2>9
<1>6. CASE s = 4
  <2>1. Next_statement = ReadPin /\ drives = "free" /\ age = late + 13
    BY <1>2, <1>6, ReadBitProgram, SinceIs
  <2>2. Reads
    BY <2>1, StepOf, Kinds
  <2>3. /\ WTypeOK' /\ device' = device /\ drives' = drives /\ statements' = Tail(statements)
        /\ wire_call' = wire_call /\ age' = age /\ late' = late
        /\ bits' = Append(bits, IF High(drives, device, age) THEN 1 ELSE 0)
    BY <2>2, ReadStep
  <2>4. (IF High(drives, device, age) THEN 1 ELSE 0) = v
    <3>1. CASE v = 0
      <4>1. device.until = h /\ device.from = 0 /\ 0 <= age /\ age < h
        BY <1>1, <1>a, <2>1, <3>1
      <4>2. HeldBy(device, age)
        BY <4>1 DEF HeldBy
      <4> QED BY <3>1, <4>2 DEF High, Pulls
    <3>2. CASE v = 1
      <4>1. ~HeldBy(device, age)
        BY <1>1, <3>2 DEF HeldBy
      <4> QED BY <1>1, <2>1, <3>2, <4>1 DEF High, Pulls
    <3> QED BY <3>1, <3>2 DEF Bit
  <2>5. Since(5) = Since(s) /\ (IF 5 < 3 THEN "low" ELSE "free") = "free" /\ s + 1 = 5 /\ s # 5
    BY <1>6, SinceIs
  <2>6. ReadSlot(v, 5)'
    <3>1. age' = late' + Since(5) /\ drives' = (IF 5 < 3 THEN "low" ELSE "free")
      BY <1>2, <2>1, <2>3, <2>5, Zenon
    <3> QED BY <1>3, <2>3, <3>1, Zenon DEF ReadSlot
  <2>7. bits' = Append(bits, v)
    BY <2>3, <2>4, Zenon
  <2> QED BY <1>6, <2>3, <2>5, <2>6, <2>7
<1> QED BY <1>4, <1>5, <1>6

LEMMA AnswerBits ==
    ASSUME Answering, NEW a, a = device.answer
    PROVE  /\ a \in Seq(Bit) /\ Len(a) = Read_bits /\ a \in [1 .. Read_bits -> Bit]
           /\ Read_bits \in Nat \ {0}
<1>1. CASE wire_call.name = "read"
  <2>1. Read_bits = BitsPerByte /\ a \in [1 .. BitsPerByte -> Bit] /\ BitsPerByte \in Nat \ {0}
    BY <1>1, SlotsAssumption DEF Answering, Read_bits, WireByte, Bit
  <2> QED BY <2>1, AsSeq
<1>2. CASE wire_call.name # "read"
  <2>1. Read_bits = 2 /\ a \in {<<0, 1>>, <<1, 0>>}
    BY <1>2 DEF Answering, Read_bits
  <2>2. ASSUME NEW x \in Bit, NEW y \in Bit
        PROVE  <<x, y>> \in Seq(Bit) /\ Len(<<x, y>>) = 2 /\ <<x, y>> \in [1 .. 2 -> Bit]
    OBVIOUS
  <2>3. 0 \in Bit /\ 1 \in Bit
    BY DEF Bit
  <2>4. a \in Seq(Bit) /\ Len(a) = 2 /\ a \in [1 .. 2 -> Bit]
    BY <2>1, <2>2, <2>3, Zenon
  <2>5. Read_bits = 2
    BY <2>1
  <2> QED BY <2>4, <2>5
<1> QED BY <1>1, <1>2

LEMMA ReadingStep ==
    ASSUME WTypeOK, late <= Margin, late' <= Margin, device.there,
           NEW i, NEW s, s \in 0 .. 5, InRead(i, s), Step
    PROVE  /\ WTypeOK' /\ SameDevice(device, device')
           /\ (s # 5 /\ InRead(i, s + 1)') \/ InRead(i + 1, 0)' \/ ReadDone'
<1>1. PICK a \in Seq(Bit) : a = device.answer
  BY DEF WTypeOK, Device
<1>2. Answering /\ statements = Rest(Reading, 6 * (i - 1) + s) /\ bits = Prefix(a, IF s = 5 THEN i ELSE i - 1)
  BY <1>1 DEF InRead
<1>3. PICK n \in Nat \ {0} : n = Read_bits /\ n = Len(a) /\ a \in [1 .. n -> Bit]
  BY <1>1, <1>2, AnswerBits
<1>4. i \in 1 .. n
  BY <1>1, <1>3 DEF InRead
<1>5. PICK program \in Seq(Statement) : program = Reading
  BY ReadingProgram
<1>6. Len(program) = 6 * n /\ \A j \in 1 .. 6 : program[6 * (i - 1) + j] = read_bit[j]
  BY <1>3, <1>4, <1>5, ReadingProgram
<1> DEFINE k == 6 * (i - 1) + s
<1>7. /\ k \in 0 .. Len(program) - 1 /\ k + 1 = 6 * (i - 1) + (s + 1) /\ s + 1 \in 1 .. 6
      /\ s = 5 => k + 1 = 6 * ((i + 1) - 1) + 0
      /\ s = 5 /\ i = n => k + 1 = 6 * n + 0
  <2> HIDE DEF k
  <2>2. /\ 6 * (i - 1) + s \in 0 .. 6 * n - 1
        /\ (6 * (i - 1) + s) + 1 = 6 * (i - 1) + (s + 1) /\ s + 1 \in 1 .. 6
        /\ s = 6 - 1 => (6 * (i - 1) + s) + 1 = 6 * ((i + 1) - 1) + 0
        /\ s = 6 - 1 /\ i = n => (6 * (i - 1) + s) + 1 = 6 * n + 0
    BY <1>4
  <2>3. 6 - 1 = 5
    OBVIOUS
  <2> QED BY <1>6, <2>2, <2>3, Zenon DEF k
<1>8. /\ Next_statement = read_bit[s + 1]
      /\ Tail(statements) = Rest(program, k + 1) /\ Tail(statements) \in Seq(Statement)
  <2>1. statements = Rest(program, k)
    BY <1>2, <1>5
  <2> HIDE DEF k
  <2>2. Next_statement = program[k + 1] /\ Tail(statements) = Rest(program, k + 1)
        /\ Tail(statements) \in Seq(Statement)
    BY <1>7, <2>1, NextInProgram
  <2>3. program[6 * (i - 1) + (s + 1)] = read_bit[s + 1]
    BY <1>6, <1>7, Zenon
  <2>4. program[k + 1] = program[6 * (i - 1) + (s + 1)]
    BY <1>7, Zenon
  <2> QED BY <2>2, <2>3, <2>4, Zenon
<1> HIDE DEF k
<1>9. PICK v \in Bit : v = a[i]
  BY <1>3, <1>4
<1>10. Append(Prefix(a, i - 1), v) = Prefix(a, i) /\ Prefix(a, n) = a
  <2>1. n \in Nat
    OBVIOUS
  <2>2. (\A m \in 1 .. n : Append(Prefix(a, m - 1), a[m]) = Prefix(a, m)) /\ Prefix(a, n) = a
    BY <1>3, <2>1, PrefixOf
  <2> QED BY <1>4, <1>9, <2>2, Zenon
<1>11. ASSUME wire_call' = wire_call, device'.answer = a,
              device'.on, device'.in = <<>>, device'.sampleAt = 0
       PROVE  Answering' /\ Reading' = program
  BY <1>1, <1>2, <1>5, <1>11 DEF Answering, Reading
<1>12. device.on /\ device.in = <<>> /\ device.sampleAt = 0
  BY <1>2 DEF Answering
<1>13. CASE s = 0 /\ i # 1
  <2>1. drives = "free" /\ device.until <= age /\ device.out = Rest(a, i - 1)
    BY <1>1, <1>13 DEF InRead
  <2>2. device.out # <<>> /\ Head(device.out) = v /\ Tail(device.out) = Rest(a, i)
    <3>1. i - 1 \in 0 .. Len(a) /\ i - 1 < Len(a) /\ (i - 1) + 1 = i
      BY <1>3, <1>4
    <3>2. /\ Rest(a, i - 1) # <<>> /\ Head(Rest(a, i - 1)) = a[(i - 1) + 1]
          /\ Tail(Rest(a, i - 1)) = Rest(a, (i - 1) + 1)
      BY <3>1, RestOf
    <3> QED BY <1>9, <2>1, <3>1, <3>2
  <2>3. Next_statement = Drive(0)
    BY <1>8, <1>13, ReadBitProgram
  <2>4. /\ WTypeOK' /\ SameDevice(device, device')
        /\ statements' = Tail(statements) /\ wire_call' = wire_call /\ bits' = bits
        /\ device'.on /\ device'.sampleAt = 0 /\ device'.in = device.in /\ device'.answer = device.answer
        /\ device'.out = Tail(device.out) /\ ReadSlot(v, 1)'
    BY <1>8, <1>12, <2>1, <2>2, <2>3, ReadBegins
  <2>5. Answering' /\ Reading' = program /\ device'.answer = a /\ device'.out = Rest(a, i)
    BY <1>1, <1>11, <1>12, <2>2, <2>4, Zenon
  <2>6. statements' = Rest(program, 6 * (i - 1) + 1)
    BY <1>7, <1>8, <1>13, <2>4
  <2>7. bits' = Prefix(a, i - 1)
    BY <1>2, <1>13, <2>4
  <2>8. ReadSlot(device.answer[i], 1)' /\ (i \in 1 .. Len(device.answer))'
    BY <1>3, <1>4, <1>9, <2>4, <2>5
  <2>9. InRead(i, 1)'
    BY <2>5, <2>6, <2>7, <2>8 DEF InRead
  <2> QED BY <1>13, <2>4, <2>9
<1>14. CASE ~(s = 0 /\ i # 1)
  <2>1. device.out = Rest(a, i) /\ ReadSlot(v, s)
    BY <1>1, <1>9, <1>14 DEF InRead
  <2>2. /\ WTypeOK' /\ device' = device
        /\ statements' = Tail(statements) /\ wire_call' = wire_call
        /\ bits' = (IF s = 4 THEN Append(bits, v) ELSE bits)
        /\ s # 5 => ReadSlot(v, s + 1)'
        /\ s = 5 => drives' = "free" /\ device'.until <= age'
    BY <1>8, <1>9, <1>12, <2>1, ReadGoesOn
  <2>3. Answering' /\ Reading' = program /\ device'.answer = a
        /\ device'.out = Rest(a, i) /\ SameDevice(device, device')
    BY <1>1, <1>11, <1>12, <2>1, <2>2 DEF WTypeOK, SameDevice
  <2>4. statements' = Rest(program, k + 1)
    BY <1>8, <2>2
  <2>5. CASE s # 5
    <3>1. bits' = Prefix(a, IF s + 1 = 5 THEN i ELSE i - 1)
      <4>1. CASE s = 4
        <5>1. bits = Prefix(a, i - 1) /\ s + 1 = 5
          BY <1>2, <4>1
        <5>2. bits' = Append(bits, v)
          BY <2>2, <4>1
        <5> QED BY <1>10, <5>1, <5>2, Zenon
      <4>2. CASE s # 4
        <5>1. bits = Prefix(a, i - 1) /\ s + 1 # 5
          BY <1>2, <2>5, <4>2
        <5>2. bits' = bits
          BY <2>2, <4>2
        <5> QED BY <5>1, <5>2, Zenon
      <4> QED BY <4>1, <4>2
    <3>2. statements' = Rest(program, 6 * (i - 1) + (s + 1)) /\ s + 1 # 0
      BY <1>7, <2>4
    <3>3. ReadSlot(device.answer[i], s + 1)' /\ (i \in 1 .. Len(device.answer))'
      BY <1>3, <1>4, <1>9, <2>2, <2>3, <2>5
    <3>4. InRead(i, s + 1)'
      BY <2>3, <3>1, <3>2, <3>3 DEF InRead
    <3> QED BY <2>2, <2>3, <2>5, <3>4
  <2>6. CASE s = 5 /\ i # n
    <3>1. i + 1 \in 1 .. n /\ (i + 1) - 1 = i /\ i + 1 # 1 /\ i \in 1 .. n
      BY <1>4, <2>6
    <3>2. bits' = Prefix(a, (i + 1) - 1) /\ device'.out = Rest(a, (i + 1) - 1)
      BY <1>2, <2>2, <2>3, <2>6, <3>1
    <3>3. statements' = Rest(program, 6 * ((i + 1) - 1) + 0)
      BY <1>7, <2>4, <2>6
    <3>4. (i + 1 \in 1 .. Len(device.answer))' /\ drives' = "free" /\ device'.until <= age'
      BY <1>3, <2>2, <2>3, <2>6, <3>1
    <3>5. InRead(i + 1, 0)'
      BY <2>3, <3>1, <3>2, <3>3, <3>4 DEF InRead
    <3> QED BY <2>2, <2>3, <3>5
  <2>7. CASE s = 5 /\ i = n
    <3>1. bits' = device'.answer
      BY <1>2, <1>10, <2>2, <2>3, <2>7
    <3>2. Len(a) \in 0 .. Len(a) /\ Len(program) \in 0 .. Len(program) /\ k + 1 = Len(program)
      BY <1>3, <1>6, <1>7, <2>7
    <3>3. statements' = <<>> /\ device'.out = <<>>
      <4>1. Rest(program, Len(program)) = <<>>
        BY <3>2, RestOf
      <4>2. Rest(a, Len(a)) = <<>>
        BY <3>2, RestOf
      <4> QED BY <1>3, <2>3, <2>4, <2>7, <3>2, <4>1, <4>2
    <3>4. drives' = "free" /\ Rests'
      BY <1>12, <2>2, <2>7 DEF Rests
    <3>5. ReadDone'
      BY <2>3, <3>1, <3>3, <3>4 DEF ReadDone
    <3> QED BY <2>2, <2>3, <3>5
  <2> QED BY <2>5, <2>6, <2>7
<1> QED BY <1>13, <1>14

LEMMA NoneLeft ==
    ASSUME NEW program, program \in Seq(Statement), NEW k, k \in 0 .. Len(program),
           statements = Rest(program, k), statements = <<>>
    PROVE  k = Len(program)
BY RestOf

(* Where the calls have returned. *)
CallsReturned ==
    \/ ~device.there
    \/ device.there /\ (InReset(9) \/ NotCalled \/ Powered \/ ReadDone \/ InTail(3) \/ InDirection(4))

LEMMA WhenReturned ==
    ASSUME WInv, statements = <<>>
    PROVE  /\ CallsReturned
           /\ wire_call.name = "reset" => InReset(9) \/ GivenUp
<1>1. BitsPerByte \in Nat \ {0}
  BY SlotsAssumption
<1>2. ASSUME NEW k \in 0 .. 9, InReset(k) PROVE k = 9
  <2>1. onewire_reset \in Seq(Statement) /\ Len(onewire_reset) = 9 /\ k \in 0 .. Len(onewire_reset)
    BY ResetProgram
  <2>2. statements = Rest(onewire_reset, k)
    BY <1>2 DEF InReset
  <2> QED BY <2>1, <2>2, NoneLeft
<1>3. ASSUME NEW i \in 1 .. BitsPerByte, NEW s \in 0 .. 3, InWrite(i, s) PROVE FALSE
  <2>1. PICK power \in BOOLEAN : statements = Rest(onewire_write(wire_call.byte, power), 4 * (i - 1) + s)
    BY <1>3 DEF InWrite
  <2>2. wire_call.byte \in WireByte
    BY <1>3, SlotsAssumption DEF InWrite, Writing
  <2>3. PICK program \in Seq(Statement) : /\ program = onewire_write(wire_call.byte, power)
                                          /\ Len(program) = 4 * BitsPerByte + (IF power THEN 0 ELSE 3)
    BY <2>2, WriteProgram DEF IsWriteProgram
  <2>4. 4 * (i - 1) + s \in 0 .. Len(program) /\ 4 * (i - 1) + s # Len(program)
    BY <1>1, <2>3
  <2> QED BY <2>1, <2>3, <2>4, NoneLeft
<1>4. ASSUME NEW t \in 0 .. 3, InTail(t) PROVE t = 3
  <2>1. wire_call.byte \in WireByte
    BY <1>4, SlotsAssumption DEF InTail, Writing
  <2>2. PICK program : program = onewire_write(wire_call.byte, FALSE)
    OBVIOUS
  <2>3. program \in Seq(Statement) /\ Len(program) = 4 * BitsPerByte + 3
    BY <2>1, <2>2, WriteProgram DEF IsWriteProgram
  <2>4. statements = Rest(program, 4 * BitsPerByte + t)
    BY <1>4, <2>2, Zenon DEF InTail
  <2>5. 4 * BitsPerByte + t \in 0 .. Len(program)
    BY <1>1, <2>3
  <2>6. 4 * BitsPerByte + t = Len(program)
    BY <2>3, <2>4, <2>5, NoneLeft
  <2> QED BY <1>1, <2>3, <2>6
<1>5. ASSUME NEW i \in 1 .. Len(device.answer), NEW s \in 0 .. 5, InRead(i, s) PROVE FALSE
  <2>1. Answering /\ statements = Rest(Reading, 6 * (i - 1) + s)
    BY <1>5 DEF InRead
  <2>2. PICK n \in Nat \ {0} : n = Len(device.answer) /\ n = Read_bits
    BY <2>1, AnswerBits
  <2>3. PICK program \in Seq(Statement) : program = Reading /\ Len(program) = 6 * n
    BY <2>2, ReadingProgram
  <2>4. 6 * (i - 1) + s \in 0 .. Len(program) /\ 6 * (i - 1) + s # Len(program)
    BY <2>2, <2>3
  <2> QED BY <2>1, <2>3, <2>4, NoneLeft
<1>6. ASSUME NEW s \in 0 .. 4, InDirection(s) PROVE s = 4
  <2>1. wire_call.byte[1] \in Bit
    BY <1>6 DEF InDirection, Bit
  <2>2. write_bit(wire_call.byte[1]) \in Seq(Statement) /\ Len(write_bit(wire_call.byte[1])) = 4
    BY <2>1, WriteBitProgram
  <2> QED BY <1>6, <2>2, NoneLeft DEF InDirection
<1>7. \A name : wire_call.name = name /\ name # "reset" =>
                    ~GivenUp /\ \A k \in 0 .. 9 : ~InReset(k)
  BY DEF GivenUp, InReset
<1>8. wire_call.name = "reset" =>
        /\ ~NotCalled /\ ~Powered /\ ~ReadDone
        /\ \A i \in 1 .. BitsPerByte, s \in 0 .. 3 : ~InWrite(i, s)
        /\ \A t \in 0 .. 3 : ~InTail(t)
        /\ \A i \in 1 .. Len(device.answer), s \in 0 .. 5 : ~InRead(i, s)
        /\ \A s \in 0 .. 4 : ~InDirection(s)
  BY DEF NotCalled, Powered, Writing, ReadDone, Answering, InWrite, InTail, InRead, InDirection
<1>9. \/ ~device.there /\ wire_call.name # "reset"
      \/ InReset(9) \/ GivenUp
      \/ device.there /\ (NotCalled \/ Powered \/ ReadDone \/ InTail(3) \/ InDirection(4))
  BY <1>2, <1>3, <1>4, <1>5, <1>6 DEF WInv
<1>10. GivenUp => ~device.there
  BY DEF GivenUp
<1>11. CallsReturned
  BY <1>9, <1>10, Zenon DEF CallsReturned
<1>12. wire_call.name = "reset" => InReset(9) \/ GivenUp
  <2>1. 3 \in 0 .. 3 /\ 4 \in 0 .. 4
    OBVIOUS
  <2> QED BY <1>8, <1>9, <2>1, Zenon
<1> QED BY <1>11, <1>12

LEMMA ResetCalled ==
    ASSUME WInv, CallReset
    PROVE  WTypeOK' /\ InReset(0)'
<1>1. statements = <<>> /\ Begin("reset", <<>>, onewire_reset)
  BY DEF CallReset, Begin
<1>2. /\ WTypeOK' /\ device' = device /\ drives' = drives /\ age' = age
      /\ wire_call'.name = "reset" /\ statements' = onewire_reset /\ bits' = <<>> /\ retries' = Retries
  <2>1. WTypeOK /\ onewire_reset \in Seq(Statement) /\ <<>> \in Seq(Bit)
    BY ResetProgram DEF WInv
  <2>2. "reset" \in {"reset", "write", "read", "search", "direction"}
    OBVIOUS
  <2>3. /\ WTypeOK' /\ device' = device /\ drives' = drives /\ age' = age
        /\ wire_call' = [name |-> "reset", byte |-> <<>>]
        /\ statements' = onewire_reset /\ bits' = <<>> /\ retries' = Retries
    BY <1>1, <2>1, <2>2, BeginStep, Zenon
  <2>4. wire_call'.name = "reset"
    BY <2>3
  <2> QED BY <2>3, <2>4
<1>3. statements' = Rest(onewire_reset, 0)
  BY <1>2, ResetProgram, RestAll
<1>4. /\ device \in Device /\ age \in Nat /\ device.until \in Nat /\ late <= 1 /\ late \in Nat
      /\ Retries \in Nat /\ Retries > 30 /\ ResetTime > 69 /\ ResetTime \in Nat
  BY SlotsAssumption, TimesAssumption DEF WInv, WTypeOK, Device, Margin
<1>5. device.there => /\ device.until <= age + 60
                      /\ drives = "high" => device.until <= age
                      /\ drives = "low" => age < ResetTime
  <2> SUFFICES ASSUME device.there
               PROVE  /\ device.until <= age + 60
                      /\ drives = "high" => device.until <= age
                      /\ drives = "low" => age < ResetTime
    OBVIOUS
  <2>1. CASE (drives = "free" /\ device.until <= age) \/ (drives = "high" /\ device.until = 0)
    BY <1>4, <2>1
  <2>2. CASE InTail(3)
    <3>1. NextSlot
      BY <2>2 DEF InTail
    <3>2. PICK h \in 15 .. 60 : h = device.times.hold
      BY <1>4, TimesAre
    <3>3. drives = "low" /\ age = late /\ (device.until = 0 \/ device.until = h)
      BY <3>1, <3>2 DEF NextSlot, HoldTime
    <3> QED BY <1>4, <3>3
  <2>3. CallsReturned
    BY <1>1, WhenReturned
  <2>4. InReset(9) => drives = "free" /\ device.until <= age
    BY DEF InReset, AnswersReset
  <2>5. NotCalled \/ ReadDone => drives = "free" /\ device.until <= age
    BY DEF NotCalled, ReadDone, Rests
  <2>6. Powered => drives = "high" /\ device.until = 0
    BY DEF Powered
  <2>7. InDirection(4) => drives = "high" /\ device.until = 0
    BY DEF InDirection, WriteSlot
  <2> QED BY <2>1, <2>2, <2>3, <2>4, <2>5, <2>6, <2>7 DEF CallsReturned
<1>6. device.there => AnswersReset(0)'
  <2> SUFFICES ASSUME device.there PROVE AnswersReset(0)'
    OBVIOUS
  <2>1. /\ drives' = "high" => device'.until <= age'
        /\ drives' = "low" => age' < ResetTime
    BY <1>2, <1>5
  <2>2. device'.until <= age' + 2 * (retries' - 1)
    <3>1. device.until <= age + 2 * (Retries - 1)
      BY <1>4, <1>5
    <3> QED BY <1>2, <3>1
  <2> QED BY <2>1, <2>2 DEF AnswersReset
<1>7. InReset(0)'
  BY <1>2, <1>3, <1>6 DEF InReset
<1> QED BY <1>2, <1>7

LEMMA WriteCalled ==
    ASSUME WInv, NEW byte, byte \in WireBytes, NEW power, power \in BOOLEAN, CallWrite(byte, power)
    PROVE  /\ WTypeOK' /\ device' = device
           /\ wire_call'.name = "write" /\ (device.there => InWrite(1, 0)')
<1>1. /\ statements = <<>> /\ Begin("write", byte, onewire_write(byte, power))
      /\ wire_call.name = "reset" \/ (wire_call.name = "write" /\ ~Sending /\ drives # "high")
      /\ ~(power /\ byte \in Commands)
  BY DEF CallWrite, Begin, Commands
<1>2. /\ byte \in WireByte /\ byte \in Seq(Bit) /\ byte \in [1 .. BitsPerByte -> Bit]
      /\ BitsPerByte \in Nat \ {0}
  <2>1. byte \in [1 .. BitsPerByte -> Bit] /\ BitsPerByte \in Nat \ {0} /\ byte \in WireByte
    BY SlotsAssumption DEF WireByte, Bit
  <2> QED BY <2>1, AsSeq
<1>3. onewire_write(byte, power) \in Seq(Statement)
  BY <1>2, WriteProgram DEF IsWriteProgram
<1>4. /\ WTypeOK' /\ device' = device /\ drives' = drives /\ age' = age /\ late' = late
      /\ wire_call' = [name |-> "write", byte |-> byte] /\ statements' = onewire_write(byte, power)
  <2>1. WTypeOK
    BY DEF WInv
  <2> QED BY <1>1, <1>2, <1>3, <2>1, BeginStep
<1>5. wire_call'.name = "write" /\ wire_call'.byte = byte /\ Writing'
  BY <1>4 DEF Writing
<1>6. ASSUME device.there PROVE InWrite(1, 0)'
  <2>1. CallsReturned /\ (wire_call.name = "reset" => InReset(9) \/ GivenUp)
    BY <1>1, WhenReturned
  <2>2. /\ device.on /\ device.in = <<>> /\ device.out = <<>>
        /\ (drives = "free" /\ Rests) \/ WriteSlot(byte[1], 1)
    <3>1. CASE wire_call.name = "reset"
      <4>1. InReset(9)
        BY <1>6, <2>1, <3>1 DEF GivenUp
      <4> QED BY <1>6, <4>1 DEF InReset, AnswersReset, Rests
    <3>2. CASE wire_call.name = "write" /\ ~Sending /\ drives # "high"
      <4>1. InTail(3)
        BY <1>6, <2>1, <3>2 DEF CallsReturned, InReset, NotCalled, Powered, ReadDone, Answering, InDirection
      <4>2. NextSlot /\ wire_call.byte \notin Commands
        BY <3>2, <4>1 DEF InTail, Sending, Commands
      <4>3. device.answer = <<>>
        BY <4>2, AnswersAre DEF NextSlot
      <4> QED BY <4>2, <4>3 DEF NextSlot, WriteSlot, Sampled
    <3> QED BY <1>1, <3>1, <3>2
  <2>3. (drives' = "free" /\ Rests') \/ WriteSlot(byte[1], 1)'
    <3>1. Rests => Rests'
      BY <1>4 DEF Rests
    <3>2. WriteSlot(byte[1], 1) => WriteSlot(byte[1], 1)'
      BY <1>4 DEF WriteSlot
    <3> QED BY <1>4, <2>2, <3>1, <3>2
  <2>4. Got(byte, 0)'
    <3>1. Prefix(byte, 0) = <<>> /\ 0 < BitsPerByte /\ 0 # BitsPerByte
      BY <1>2, PrefixOf
    <3> QED BY <1>4, <2>2, <3>1 DEF Got
  <2>5. statements' = Rest(onewire_write(byte, power), 4 * (1 - 1) + 0)
    <3>1. Rest(onewire_write(byte, power), 0) = onewire_write(byte, power)
      BY <1>3, RestAll
    <3>2. 4 * (1 - 1) + 0 = 0
      OBVIOUS
    <3> QED BY <1>4, <3>1, <3>2, Zenon
  <2>6. \E p \in BOOLEAN : /\ p => wire_call'.byte \notin Commands
                           /\ statements' = Rest(onewire_write(wire_call'.byte, p), 4 * (1 - 1) + 0)
    <3>1. power => byte \notin Commands
      BY <1>1
    <3> QED BY <1>5, <2>5, <3>1, Zenon
  <2>7. Got(wire_call.byte, IF Sampled(wire_call.byte[1], 0) THEN 1 ELSE 1 - 1)'
    <3>1. ~Sampled(byte[1], 0) /\ 1 - 1 = 0
      BY DEF Sampled
    <3>2. (IF Sampled(byte[1], 0) THEN 1 ELSE 1 - 1) = 0
      BY <3>1
    <3> QED BY <1>5, <2>4, <3>2, Zenon
  <2>8. (drives = "free" /\ Rests)' \/ WriteSlot(wire_call.byte[1], 1)'
    BY <1>5, <2>3, Zenon
  <2> QED BY <1>5, <2>6, <2>7, <2>8 DEF InWrite
<1> QED BY <1>4, <1>5, <1>6

LEMMA ReadPrograms ==
    onewire_read \in Seq(Statement) /\ read_bit \o read_bit \in Seq(Statement)
<1> DEFINE seqs == [i \in 1 .. BitsPerByte |-> read_bit]
<1>1. BitsPerByte \in Nat \ {0} /\ seqs \in Pieces(6, BitsPerByte, Statement)
  BY SlotsAssumption, ReadBitProgram DEF Pieces
<1>2. onewire_read = FlattenSeq(seqs)
  BY DEF onewire_read
<1> HIDE DEF seqs
<1>3. IsFlat(FlattenSeq(seqs), seqs, 6, BitsPerByte, Statement)
  BY <1>1, Flattened
<1>4. read_bit \o read_bit \in Seq(Statement)
  BY ReadBitProgram, Concat DEF Concatenates
<1> QED BY <1>2, <1>3, <1>4 DEF IsFlat

LEMMA ReadCalled ==
    ASSUME WInv, CallRead \/ CallSearch
    PROVE  /\ WTypeOK' /\ device' = device
           /\ wire_call'.name \in {"read", "search"} /\ (device.there => InRead(1, 0)')
<1>1. PICK name \in {"read", "search"} :
        /\ statements = <<>> /\ wire_call.name = "write"
        /\ wire_call.byte = (IF name = "read" THEN READ_SCRATCHPAD ELSE SEARCHROM)
        /\ Begin(name, <<>>, IF name = "read" THEN onewire_read ELSE read_bit \o read_bit)
  <2>1. CASE CallRead
    BY <2>1 DEF CallRead, Begin
  <2>2. CASE CallSearch
    BY <2>2 DEF CallSearch, Begin
  <2> QED BY <2>1, <2>2
<1> DEFINE body == IF name = "read" THEN onewire_read ELSE read_bit \o read_bit
<1>2. body \in Seq(Statement)
  BY ReadPrograms
<1>3. Begin(name, <<>>, body)
  BY <1>1
<1>4. body = (IF name = "read" THEN onewire_read ELSE read_bit \o read_bit)
  OBVIOUS
<1> HIDE DEF body
<1>5. /\ WTypeOK' /\ device' = device /\ drives' = drives /\ age' = age /\ late' = late
      /\ wire_call' = [name |-> name, byte |-> <<>>] /\ statements' = body /\ bits' = <<>>
  <2>1. WTypeOK /\ <<>> \in Seq(Bit)
    BY DEF WInv
  <2>2. name \in {"reset", "write", "read", "search", "direction"}
    OBVIOUS
  <2> QED BY <1>2, <1>3, <2>1, <2>2, BeginStep, Zenon
<1>6. wire_call'.name = name
  BY <1>5
<1>7. ASSUME device.there PROVE InRead(1, 0)'
  <2>1. CallsReturned /\ wire_call.byte \in Commands
    BY <1>1, WhenReturned DEF Commands
  <2>2. InTail(3)
    BY <1>1, <1>7, <2>1 DEF CallsReturned, InReset, NotCalled, Powered, ReadDone, Answering, InDirection
  <2>3. NextSlot
    BY <2>2 DEF InTail
  <2>4. PICK a : a = device.answer
    OBVIOUS
  <2>5. /\ name = "read" => a \in WireByte
        /\ name = "search" => a \in {<<0, 1>>, <<1, 0>>}
    <3>1. a \in Answers(wire_call.byte)
      BY <2>3, <2>4 DEF NextSlot
    <3>2. name = "read" => Answers(wire_call.byte) = WireBytes
      BY <1>1, AnswersAre
    <3>3. name = "search" => Answers(wire_call.byte) = {<<0, 1>>, <<1, 0>>}
      BY <1>1, AnswersAre
    <3> QED BY <3>1, <3>2, <3>3, SlotsAssumption
  <2>6. a # <<>> /\ Len(a) \in Nat /\ 1 \in 1 .. Len(a) /\ Prefix(a, 0) = <<>>
    <3>1. CASE name = "read"
      <4>1. a \in [1 .. BitsPerByte -> Bit] /\ BitsPerByte \in Nat \ {0}
        BY <2>5, <3>1, SlotsAssumption DEF WireByte, Bit
      <4>2. a \in Seq(Bit) /\ Len(a) = BitsPerByte /\ Prefix(a, 0) = <<>>
        BY <4>1, PrefixOf
      <4> QED BY <4>1, <4>2
    <3>2. CASE name # "read"
      <4>1. a \in {<<0, 1>>, <<1, 0>>}
        BY <2>5, <3>2
      <4>2. a # <<>> /\ Len(a) = 2
        BY <4>1
      <4>3. Prefix(a, 0) = <<>>
        BY DEF Prefix
      <4> QED BY <4>2, <4>3
    <3> QED BY <3>1, <3>2
  <2>7. /\ drives = "low" /\ age = late /\ device.on /\ device.in = <<>> /\ device.sampleAt = 0
        /\ device.out = Rest(a, 1) /\ device.from = 0 /\ device.until = HoldTime(a[1])
    BY <2>3, <2>4, <2>6 DEF NextSlot
  <2>8. ReadSlot(a[1], 0)
    <3>1. age = late + 0
      BY <2>7 DEF WInv, WTypeOK
    <3> QED BY <2>7, <3>1, SinceIs DEF ReadSlot
  <2>9. ReadSlot(a[1], 0)'
    BY <1>5, <2>8 DEF ReadSlot, HoldTime
  <2>10. Answering'
    <3>1. name # "read" => name = "search"
      OBVIOUS
    <3> QED BY <1>5, <1>6, <2>4, <2>5, <2>7, <3>1 DEF Answering
  <2>11. statements' = Rest(Reading', 6 * (1 - 1) + 0)
    <3>1. Reading' = body
      BY <1>4, <1>6 DEF Reading
    <3>2. Rest(body, 0) = body
      BY <1>2, RestAll
    <3>3. 6 * (1 - 1) + 0 = 0
      OBVIOUS
    <3> QED BY <1>5, <3>1, <3>2, <3>3, Zenon
  <2>12. bits' = Prefix(a, IF 0 = 5 THEN 1 ELSE 1 - 1)
    <3>1. (IF 0 = 5 THEN 1 ELSE 1 - 1) = 0
      OBVIOUS
    <3> QED BY <1>5, <2>6, <3>1, Zenon
  <2>13. device'.answer = a /\ device'.out = Rest(a, 1) /\ (1 \in 1 .. Len(device.answer))'
    BY <1>5, <2>4, <2>6, <2>7
  <2> QED BY <2>9, <2>10, <2>11, <2>12, <2>13 DEF InRead
<1> QED BY <1>5, <1>6, <1>7

LEMMA AnyWriteBit ==
    ASSUME NEW v
    PROVE  write_bit(v) \in Seq(Statement)
<1>1. 0 \in Bit /\ 1 \in Bit
  BY DEF Bit
<1>2. write_bit(0) \in Seq(Statement) /\ write_bit(1) \in Seq(Statement)
  BY <1>1, WriteBitProgram
<1>3. v # 1 => write_bit(v) = write_bit(0)
  BY DEF write_bit
<1> QED BY <1>2, <1>3

LEMMA DirectionCalled ==
    ASSUME WInv, CallDirection
    PROVE  /\ WTypeOK' /\ device' = device
           /\ wire_call'.name = "direction" /\ (device.there => InDirection(0)')
<1> DEFINE v == IF bits[1] # bits[2] THEN bits[1] ELSE 0
<1>1. statements = <<>> /\ wire_call.name = "search" /\ Begin("direction", bits, write_bit(v))
  BY DEF CallDirection, Begin
<1>2. v = (IF bits[1] # bits[2] THEN bits[1] ELSE 0)
  OBVIOUS
<1> HIDE DEF v
<1>3. /\ WTypeOK' /\ device' = device /\ drives' = drives /\ age' = age /\ late' = late
      /\ wire_call' = [name |-> "direction", byte |-> bits] /\ statements' = write_bit(v)
  <2>1. WTypeOK /\ bits \in Seq(Bit) /\ write_bit(v) \in Seq(Statement)
    BY AnyWriteBit DEF WInv, WTypeOK
  <2>2. "direction" \in {"reset", "write", "read", "search", "direction"}
    OBVIOUS
  <2> QED BY <1>1, <2>1, <2>2, BeginStep, Zenon
<1>4. wire_call'.name = "direction" /\ wire_call'.byte = bits
  BY <1>3
<1>5. ASSUME device.there PROVE InDirection(0)'
  <2>1. CallsReturned
    BY <1>1, WhenReturned
  <2>2. ReadDone
    BY <1>1, <1>5, <2>1 DEF CallsReturned, InReset, NotCalled, Powered, InTail, Writing, InDirection
  <2>3. /\ bits \in {<<0, 1>>, <<1, 0>>} /\ device.on /\ device.in = <<>> /\ device.out = <<>>
        /\ drives = "free" /\ Rests
    BY <1>1, <2>2 DEF ReadDone, Answering
  <2>4. v = bits[1]
    BY <1>2, <2>3
  <2>5. statements' = Rest(write_bit(wire_call.byte[1]), 0)'
    <3>1. Rest(write_bit(v), 0) = write_bit(v)
      BY AnyWriteBit, RestAll
    <3> QED BY <1>3, <1>4, <2>4, <3>1, Zenon
  <2>6. Rests'
    BY <1>3, <2>3 DEF Rests
  <2>7. ~Sampled(bits[1], 0)
    BY DEF Sampled
  <2> QED BY <1>3, <1>4, <2>3, <2>5, <2>6, <2>7 DEF InDirection
<1> QED BY <1>3, <1>4, <1>5

LEMMA WInitial == WInit => WInv
<1> SUFFICES ASSUME WInit PROVE WInv
  OBVIOUS
<1>1. device \in Device /\ ~device.on /\ device.sampleAt = 0 /\ device.until = 0
      /\ ~(device.there /\ device.shorted)
  <2>1. /\ device \in [there : BOOLEAN, shorted : BOOLEAN, on : {FALSE}, times : DeviceTimes,
                       in : {<<>>}, out : {<<>>}, last : {<<>>}, answer : {<<>>},
                       sampleAt : {0}, from : {0}, until : {0}]
        /\ ~(device.there /\ device.shorted)
    BY Zenon DEF WInit, DeviceTimes
  <2>2. <<>> \in Seq(Bit)
    OBVIOUS
  <2>3. device.on = FALSE /\ device.sampleAt = 0 /\ device.until = 0
    BY <2>1
  <2>4. device \in Device
    <3> DEFINE none == <<>>
    <3>1. /\ device \in [there : BOOLEAN, shorted : BOOLEAN, on : {FALSE}, times : DeviceTimes,
                         in : {none}, out : {none}, last : {none}, answer : {none},
                         sampleAt : {0}, from : {0}, until : {0}]
      BY <2>1, Zenon
    <3>2. none \in Seq(Bit)
      BY <2>2
    <3> HIDE DEF none
    <3>3. device = [there |-> device.there, shorted |-> device.shorted, on |-> device.on, times |-> device.times,
                    in |-> device.in, out |-> device.out, last |-> device.last, answer |-> device.answer,
                    sampleAt |-> device.sampleAt, from |-> device.from, until |-> device.until]
      BY <3>1
    <3>4. /\ device.there \in BOOLEAN /\ device.shorted \in BOOLEAN /\ device.on \in BOOLEAN
          /\ device.times \in DeviceTimes
      BY <3>1
    <3>5. /\ device.in \in Seq(Bit) /\ device.out \in Seq(Bit) /\ device.last \in Seq(Bit)
          /\ device.answer \in Seq(Bit)
      BY <3>1, <3>2
    <3>6. device.sampleAt \in Nat /\ device.from \in Nat /\ device.until \in Nat
      BY <3>1
    <3> QED BY <3>3, <3>4, <3>5, <3>6, Zenon DEF Device
  <2> QED BY <2>1, <2>3, <2>4
<1>a. disturbed \in BOOLEAN
  BY Zenon DEF WInit
<1>2. WTypeOK
  BY <1>1, <1>a, SlotsAssumption DEF WInit, WTypeOK, Bit
<1>3. wire_call.name = "none" /\ NotCalled /\ late = 0
  BY <1>1 DEF WInit, NotCalled, Rests
<1> QED BY <1>2, <1>3 DEF WInv, Margin

(* A statement keeps the types, whatever the device takes it for.          *)
LEMMA TypedStep ==
    ASSUME WTypeOK, Step
    PROVE  WTypeOK' /\ SameDevice(device, device') /\ wire_call' = wire_call
<1>1. statements # <<>>
  BY StepOf
<1>2. Tail(statements) \in Seq(Statement) /\ Next_statement \in Statement /\ Next_statement.us \in Nat
  <2>1. statements \in Seq(Statement)
    BY DEF WTypeOK
  <2>2. Tail(statements) \in Seq(Statement) /\ Next_statement \in Statement
    BY <1>1, <2>1 DEF Next_statement
  <2> QED BY <2>2 DEF Statement
<1>3. CASE Drives
  BY <1>2, <1>3, DriveStep
<1>4. CASE Waits
  BY <1>2, <1>4, WaitStep
<1>5. CASE Reads
  BY <1>2, <1>5, ReadStep
<1>6. CASE WaitsHigh
  BY <1>2, <1>6, HighStep
<1> QED BY <1>3, <1>4, <1>5, <1>6 DEF Step

LEMMA StatementKeeps ==
    ASSUME WInv, Step, late' <= Margin
    PROVE  WInv'
<1>1. WTypeOK /\ late <= Margin
  BY DEF WInv
<1>2. CASE ~device.there /\ wire_call.name # "reset"
  BY <1>1, <1>2, TypedStep DEF WInv, SameDevice
<1>3. CASE \E k \in 0 .. 9 : InReset(k)
  <2>1. WTypeOK' /\ ((\E m \in 0 .. 9 : InReset(m)') \/ GivenUp')
    BY <1>1, <1>3, ResetStep
  <2> QED BY <2>1 DEF WInv
<1>4. ~GivenUp /\ ~NotCalled /\ ~Powered /\ ~ReadDone
  BY StepOf DEF GivenUp, NotCalled, Powered, ReadDone
<1>5. CASE device.there /\ \E i \in 1 .. BitsPerByte, s \in 0 .. 3 : InWrite(i, s)
  <2>1. PICK i \in 1 .. BitsPerByte, s \in 0 .. 3 : InWrite(i, s)
    BY <1>5
  <2>2. /\ WTypeOK' /\ SameDevice(device, device')
        /\ s # 3 => InWrite(i, s + 1)'
        /\ s = 3 /\ i # BitsPerByte => InWrite(i + 1, 0)'
        /\ s = 3 /\ i = BitsPerByte => InTail(0)' \/ Powered'
    BY <1>1, <1>5, <2>1, WriteStep
  <2>3. device'.there
    BY <1>5, <2>2 DEF SameDevice
  <2>4. (\E j \in 1 .. BitsPerByte, m \in 0 .. 3 : InWrite(j, m)') \/ InTail(0)' \/ Powered'
    <3>1. CASE s # 3
      <4>1. s + 1 \in 0 .. 3
        BY <3>1
      <4> QED BY <2>2, <3>1, <4>1
    <3>2. CASE s = 3 /\ i # BitsPerByte
      <4>1. i + 1 \in 1 .. BitsPerByte /\ 0 \in 0 .. 3
        BY <3>2, SlotsAssumption
      <4> QED BY <2>2, <3>2, <4>1
    <3> QED BY <2>2, <3>1, <3>2
  <2>5. 0 \in 0 .. 3
    OBVIOUS
  <2> QED BY <2>2, <2>3, <2>4, <2>5 DEF WInv
<1>6. CASE device.there /\ \E t \in 0 .. 3 : InTail(t)
  <2>1. PICK t \in 0 .. 3 : InTail(t)
    BY <1>6
  <2>2. t \in 0 .. 2
    <3>1. t # 3
      <4>1. ASSUME t = 3 PROVE statements = <<>>
        <5>1. wire_call.byte \in WireByte
          BY <2>1, SlotsAssumption DEF InTail, Writing
        <5>2. PICK program : program = onewire_write(wire_call.byte, FALSE)
          OBVIOUS
        <5>3. program \in Seq(Statement) /\ Len(program) = 4 * BitsPerByte + 3
          BY <5>1, <5>2, WriteProgram DEF IsWriteProgram
        <5>4. statements = Rest(program, 4 * BitsPerByte + 3)
          BY <2>1, <4>1, <5>2, Zenon DEF InTail
        <5>5. Len(program) \in 0 .. Len(program)
          BY <5>3, SlotsAssumption
        <5> QED BY <5>3, <5>4, <5>5, RestOf
      <4> QED BY <4>1, StepOf
    <3> QED BY <3>1
  <2>3. WTypeOK' /\ SameDevice(device, device') /\ InTail(t + 1)'
    BY <1>1, <1>6, <2>1, <2>2, TailStep
  <2>4. t + 1 \in 0 .. 3 /\ device'.there
    BY <1>6, <2>2, <2>3 DEF SameDevice
  <2> QED BY <2>3, <2>4 DEF WInv
<1>7. CASE device.there /\ \E i \in 1 .. Len(device.answer), s \in 0 .. 5 : InRead(i, s)
  <2>1. PICK i \in 1 .. Len(device.answer), s \in 0 .. 5 : InRead(i, s)
    BY <1>7
  <2>2. /\ WTypeOK' /\ SameDevice(device, device')
        /\ (s # 5 /\ InRead(i, s + 1)') \/ InRead(i + 1, 0)' \/ ReadDone'
    BY <1>1, <1>7, <2>1, ReadingStep
  <2>3. device'.there /\ 0 \in 0 .. 5 /\ (s # 5 => s + 1 \in 0 .. 5)
    BY <1>7, <2>2 DEF SameDevice
  <2>4. \A j, m : InRead(j, m)' => (j \in 1 .. Len(device.answer))'
    BY DEF InRead
  <2>5. (\E j \in 1 .. Len(device.answer), m \in 0 .. 5 : InRead(j, m))' \/ ReadDone'
    BY <2>2, <2>3, <2>4, Zenon
  <2> QED BY <2>2, <2>3, <2>5, Zenon DEF WInv
<1>8. CASE device.there /\ \E s \in 0 .. 4 : InDirection(s)
  <2>1. PICK s \in 0 .. 4 : InDirection(s)
    BY <1>8
  <2>2. s \in 0 .. 3
    <3>1. s # 4
      <4>1. ASSUME s = 4 PROVE statements = <<>>
        <5>1. wire_call.byte[1] \in Bit
          BY <2>1 DEF InDirection, Bit
        <5>2. write_bit(wire_call.byte[1]) \in Seq(Statement) /\ Len(write_bit(wire_call.byte[1])) = 4
          BY <5>1, WriteBitProgram
        <5>3. statements = Rest(write_bit(wire_call.byte[1]), 4)
          BY <2>1, <4>1 DEF InDirection
        <5>4. 4 \in 0 .. Len(write_bit(wire_call.byte[1]))
          BY <5>2
        <5> QED BY <5>2, <5>3, <5>4, RestOf
      <4> QED BY <4>1, StepOf
    <3> QED BY <3>1
  <2>3. WTypeOK' /\ SameDevice(device, device') /\ InDirection(s + 1)'
    BY <1>1, <1>8, <2>1, <2>2, DirectionStep
  <2>4. s + 1 \in 0 .. 4 /\ device'.there
    BY <1>8, <2>2, <2>3 DEF SameDevice
  <2> QED BY <2>3, <2>4 DEF WInv
<1> QED BY <1>2, <1>3, <1>4, <1>5, <1>6, <1>7, <1>8, Zenon DEF WInv

LEMMA WInductive ==
    ASSUME WInv, [WNext]_wvars, late' <= Margin
    PROVE  WInv'
<1>1. CASE CallReset
  <2>1. WTypeOK' /\ InReset(0)' /\ 0 \in 0 .. 9
    BY <1>1, ResetCalled
  <2> QED BY <2>1, Zenon DEF WInv
<1>2. CASE CallRead \/ CallSearch
  <2>1. /\ WTypeOK' /\ device' = device
        /\ wire_call'.name \in {"read", "search"} /\ (device.there => InRead(1, 0)')
    BY <1>2, ReadCalled
  <2>2. CASE device.there
    <3>1. (1 \in 1 .. Len(device.answer))' /\ 0 \in 0 .. 5
      BY <2>1, <2>2 DEF InRead
    <3> QED BY <2>1, <2>2, <3>1, Zenon DEF WInv
  <2>3. CASE ~device.there
    BY <2>1, <2>3 DEF WInv
  <2> QED BY <2>2, <2>3
<1>3. CASE CallDirection
  <2>1. /\ WTypeOK' /\ device' = device /\ wire_call'.name = "direction" /\ (device.there => InDirection(0)')
        /\ 0 \in 0 .. 4
    BY <1>3, DirectionCalled
  <2>2. wire_call'.name # "reset"
    BY <2>1
  <2> QED BY <2>1, <2>2, Zenon DEF WInv
<1>4. CASE \E byte \in WireBytes, power \in BOOLEAN : CallWrite(byte, power)
  <2>1. PICK byte \in WireBytes, power \in BOOLEAN : CallWrite(byte, power)
    BY <1>4
  <2>2. /\ WTypeOK' /\ device' = device /\ wire_call'.name = "write" /\ (device.there => InWrite(1, 0)')
    BY <2>1, WriteCalled
  <2>3. wire_call'.name # "reset" /\ 1 \in 1 .. BitsPerByte /\ 0 \in 0 .. 3
    BY <2>2, SlotsAssumption
  <2> QED BY <2>2, <2>3, Zenon DEF WInv
<1>5. CASE Step
  BY <1>5, StatementKeeps
<1>6. CASE UNCHANGED wvars
  <2>1. /\ drives' = drives /\ statements' = statements /\ retries' = retries /\ wire_call' = wire_call
        /\ bits' = bits /\ age' = age /\ late' = late /\ disturbed' = disturbed /\ device' = device
    BY <1>6 DEF wvars
  <2>2. WInv' = WInv
    BY <2>1 DEF WInv, WTypeOK, InReset, AnswersReset, GivenUp, NotCalled, Powered, ReadDone, Answering, Rests,
                InWrite, Writing, WriteSlot, Got, InTail, NextSlot, InRead, ReadSlot, HoldTime, Reading, InDirection
  <2> QED BY <2>2
<1> QED BY <1>1, <1>2, <1>3, <1>4, <1>5, <1>6 DEF WNext, Step

LEMMA Understood ==
    ASSUME WInv
    PROVE  /\ PresenceSeen /\ BytesCarried
           /\ drives = "high" => ~HeldBy(device, age)
<1>1. PresenceSeen
  <2> SUFFICES ASSUME statements = <<>>, wire_call.name = "reset" PROVE (bits = <<0>>) = device.there
    BY DEF PresenceSeen, Returned
  <2>1. InReset(9) \/ GivenUp
    BY WhenReturned
  <2>2. device.there \in BOOLEAN
    BY DEF WInv, WTypeOK, Device
  <2>3. CASE InReset(9)
    <3>1. bits = <<IF device.there THEN 0 ELSE 1>>
      BY <2>3 DEF InReset
    <3>2. CASE device.there
      BY <3>1, <3>2, <2>2
    <3>3. CASE ~device.there
      <4>1. bits = <<1>> /\ bits # <<0>>
        BY <3>1, <3>3
      <4> QED BY <2>2, <3>3, <4>1
    <3> QED BY <3>2, <3>3
  <2>4. CASE GivenUp
    <3>1. ~device.there /\ bits = <<1>> /\ bits # <<0>>
      BY <2>4 DEF GivenUp
    <3> QED BY <2>2, <3>1
  <2> QED BY <2>1, <2>3, <2>4
<1>2. BytesCarried
  <2> SUFFICES ASSUME device.there, statements = <<>>
               PROVE  /\ wire_call.name = "write" => device.last = wire_call.byte
                      /\ wire_call.name \in {"read", "search"} => bits = device.answer
                      /\ wire_call.name = "direction" => device.last = <<wire_call.byte[1]>>
    BY DEF BytesCarried, Returned
  <2>1. InReset(9) \/ NotCalled \/ Powered \/ ReadDone \/ InTail(3) \/ InDirection(4)
    BY WhenReturned DEF CallsReturned
  <2>2. InReset(9) => wire_call.name = "reset"
    BY DEF InReset
  <2>3. NotCalled => wire_call.name = "none"
    BY DEF NotCalled
  <2>4. Powered => wire_call.name = "write" /\ device.last = wire_call.byte
    BY DEF Powered, Writing, Got
  <2>5. ReadDone => wire_call.name \in {"read", "search"} /\ bits = device.answer
    BY DEF ReadDone, Answering
  <2>6. InTail(3) => wire_call.name = "write" /\ device.last = wire_call.byte
    BY DEF InTail, Writing, NextSlot
  <2>7. InDirection(4) => wire_call.name = "direction" /\ device.last = <<wire_call.byte[1]>>
    BY DEF InDirection, Sampled
  <2> QED BY <2>1, <2>2, <2>3, <2>4, <2>5, <2>6, <2>7
<1>3. drives = "high" => ~HeldBy(device, age)
  <2> SUFFICES ASSUME drives = "high", device.there PROVE device.until <= age \/ device.until = 0
    <3>1. device.until \in Nat /\ age \in Nat
      BY DEF WInv, WTypeOK, Device
    <3> QED BY <3>1 DEF HeldBy
  <2>1. \A k \in 0 .. 9 : InReset(k) => device.until <= age
    BY DEF InReset, AnswersReset
  <2>2. \A i \in 1 .. BitsPerByte, s \in 0 .. 3 : InWrite(i, s) => device.until = 0
    BY DEF InWrite, WriteSlot
  <2>3. \A t \in 0 .. 3 : InTail(t) => device.until = 0
    BY DEF InTail, NextSlot
  <2>4. \A i \in 1 .. Len(device.answer), s \in 0 .. 5 : ~InRead(i, s)
    BY DEF InRead, ReadSlot
  <2>5. \A s \in 0 .. 4 : InDirection(s) => device.until = 0
    BY DEF InDirection, WriteSlot
  <2>6. ~NotCalled /\ ~ReadDone /\ (Powered => device.until = 0) /\ ~GivenUp
    BY DEF NotCalled, ReadDone, Powered, GivenUp
  <2> QED BY <2>1, <2>2, <2>3, <2>4, <2>5, <2>6 DEF WInv
<1> QED BY <1>1, <1>2, <1>3

(* Once a slot has taken too long only the course of a reset is known:     *)
(* when the chip pulls the line low at k = 3 the line was high.            *)
ResetRuns(k) ==
    /\ statements = Rest(onewire_reset, k)
    /\ k \in 0 .. 3 => bits = <<>>
    /\ k \in 1 .. 3 => drives = "free"
    /\ k = 3 => High(drives, device, age)
Loose == WTypeOK /\ (wire_call.name = "reset" => statements = <<>> \/ \E k \in 0 .. 9 : ResetRuns(k))

LEMMA WInvLoose == WInv => Loose
<1> SUFFICES ASSUME WInv, wire_call.name = "reset"
             PROVE  statements = <<>> \/ \E k \in 0 .. 9 : ResetRuns(k)
  BY DEF Loose, WInv
<1>1. (\E k \in 0 .. 9 : InReset(k)) \/ statements = <<>>
  BY DEF WInv, GivenUp, NotCalled, Powered, Writing, ReadDone, Answering, InWrite, InTail, InRead, InDirection
<1>2. ASSUME NEW k \in 0 .. 9, InReset(k)
      PROVE  ResetRuns(k)
  <2>1. k \in 0 .. 3 => bits = <<>>
    BY <1>2 DEF InReset
  <2>2. k \in 1 .. 3 => drives = "free"
    BY <1>2 DEF InReset
  <2>3. k = 3 => High(drives, device, age)
    <3> SUFFICES ASSUME k = 3 PROVE High(drives, device, age)
      OBVIOUS
    <3>1. drives = "free" /\ ~device.shorted /\ (device.there => ~HeldBy(device, age))
      BY <1>2 DEF InReset, AnswersReset
    <3> QED BY <3>1 DEF High, Pulls, HeldBy
  <2> QED BY <1>2, <2>1, <2>2, <2>3 DEF InReset, ResetRuns
<1> QED BY <1>1, <1>2

Calls == \/ CallReset \/ CallRead \/ CallSearch \/ CallDirection
         \/ \E byte \in WireBytes, power \in BOOLEAN : CallWrite(byte, power)

LEMMA CallTyped ==
    ASSUME WTypeOK, Calls
    PROVE  /\ WTypeOK'
           /\ wire_call'.name = "reset" => statements' = onewire_reset /\ bits' = <<>>
<1>1. ASSUME NEW name \in {"reset", "write", "read", "search", "direction"},
             NEW byte \in Seq(Bit), NEW body \in Seq(Statement), Begin(name, byte, body),
             name = "reset" => body = onewire_reset
      PROVE  /\ WTypeOK'
             /\ wire_call'.name = "reset" => statements' = onewire_reset /\ bits' = <<>>
  <2>1. WTypeOK' /\ wire_call' = [name |-> name, byte |-> byte] /\ statements' = body /\ bits' = <<>>
    BY <1>1, BeginStep
  <2>2. wire_call'.name = name
    BY <2>1
  <2> QED BY <1>1, <2>1, <2>2
<1>2. <<>> \in Seq(Bit) /\ bits \in Seq(Bit)
  BY DEF WTypeOK
<1>3. CASE CallReset
  <2>1. onewire_reset \in Seq(Statement) /\ Begin("reset", <<>>, onewire_reset)
    BY <1>3, ResetProgram DEF CallReset
  <2>2. "reset" \in {"reset", "write", "read", "search", "direction"}
    OBVIOUS
  <2> QED BY <1>1, <1>2, <2>1, <2>2, Zenon
<1>4. CASE CallRead
  <2>1. onewire_read \in Seq(Statement)
    BY ReadPrograms
  <2> QED BY <1>1, <1>2, <1>4, <2>1 DEF CallRead
<1>5. CASE CallSearch
  <2>1. read_bit \o read_bit \in Seq(Statement)
    BY ReadPrograms
  <2> QED BY <1>1, <1>2, <1>5, <2>1 DEF CallSearch
<1>6. CASE CallDirection
  BY <1>1, <1>2, <1>6, AnyWriteBit DEF CallDirection
<1>7. CASE \E byte \in WireBytes, power \in BOOLEAN : CallWrite(byte, power)
  <2>1. PICK byte \in WireBytes, power \in BOOLEAN : CallWrite(byte, power)
    BY <1>7
  <2>2. byte \in WireByte /\ byte \in Seq(Bit)
    <3>1. byte \in [1 .. BitsPerByte -> Bit] /\ BitsPerByte \in Nat /\ byte \in WireByte
      BY SlotsAssumption DEF WireByte, Bit
    <3> QED BY <3>1, AsSeq
  <2>3. onewire_write(byte, power) \in Seq(Statement)
    BY <2>2, WriteProgram DEF IsWriteProgram
  <2> QED BY <1>1, <2>1, <2>2, <2>3 DEF CallWrite
<1> QED BY <1>3, <1>4, <1>5, <1>6, <1>7, Zenon DEF Calls

(* A statement that does not take too long.                                *)
LEMMA UndisturbedStep ==
    ASSUME WInv, Step, ~disturbed, ~disturbed'
    PROVE  WInv'
<1>1. late' <= Margin
  <2>1. WTypeOK' /\ late <= Margin /\ late' \in Nat
    <3>1. WTypeOK' /\ late <= Margin
      BY TypedStep DEF WInv
    <3> QED BY <3>1, SlotsAssumption DEF WTypeOK
  <2>2. CASE Drives
    <3>1. late' = 0 \/ late' = late
      BY <2>2 DEF Drives
    <3> QED BY <2>1, <3>1 DEF Margin
  <2>3. CASE Waits
    <3>1. disturbed' = (disturbed \/ late' > Margin)
      BY <2>3, Zenon DEF Waits
    <3>2. ~(late' > Margin)
      BY <3>1, Zenon
    <3> QED BY <2>1, <3>2 DEF Margin
  <2>4. CASE Reads \/ WaitsHigh
    BY <2>1, <2>4 DEF Reads, WaitsHigh
  <2> QED BY <2>2, <2>3, <2>4 DEF Step
<1>2. [WNext]_wvars
  BY DEF WNext, Step
<1> QED BY <1>1, <1>2, WInductive

(* A statement of a reset, with a device that takes it for anything; at    *)
(* the fall of its pulse all that matters is known again.                  *)
LEMMA ResetGoesOn ==
    ASSUME WTypeOK, wire_call.name = "reset", NEW k \in 0 .. 9, ResetRuns(k), Step
    PROVE  /\ k # 9
           /\ statements' = <<>> \/ \E m \in 0 .. 9 : ResetRuns(m)'
           /\ k # 3 /\ disturbed => disturbed'
           /\ k = 3 => WInv'
<1>0. onewire_reset \in Seq(Statement) /\ Len(onewire_reset) = 9
  BY ResetProgram
<1>1. k # 9
  <2>1. 9 \in 0 .. Len(onewire_reset)
    BY <1>0
  <2>2. Rest(onewire_reset, 9) = <<>>
    BY <1>0, <2>1, RestOf
  <2> QED BY <2>2, StepOf DEF ResetRuns
<1>2. /\ Next_statement = onewire_reset[k + 1] /\ Tail(statements) = Rest(onewire_reset, k + 1)
      /\ Tail(statements) \in Seq(Statement)
  <2>1. k \in 0 .. Len(onewire_reset) - 1
    BY <1>0, <1>1
  <2> QED BY <1>0, <2>1, NextInProgram DEF ResetRuns
<1>3. k + 1 \in 0 .. 9
  BY <1>1
<1>4. CASE k \in {0, 5}
  <2>1. Drives /\ Next_statement.do = "free"
    BY <1>2, <1>4, ResetProgram, StepOf, Kinds
  <2>2. drives' = "free" /\ statements' = Tail(statements) /\ bits' = bits
    BY <1>2, <2>1, DriveStep
  <2>3. disturbed => disturbed'
    <3>1. ~(drives' = "low")
      BY <2>2
    <3> QED BY <2>1, <3>1, Zenon DEF Drives, WTypeOK
  <2>4. ResetRuns(k + 1)'
    BY <1>2, <1>4, <2>2 DEF ResetRuns
  <2> QED BY <1>1, <1>3, <1>4, <2>3, <2>4
<1>5. CASE k \in {1, 4, 6, 8}
  <2>1. Waits /\ Next_statement.us \in Nat
    <3>1. Next_statement \in {os_delay_us(2), os_delay_us(500), os_delay_us(65), os_delay_us(490)}
      BY <1>2, <1>5, ResetProgram
    <3> QED BY <3>1, StepOf, Kinds
  <2>2. drives' = drives /\ statements' = Tail(statements) /\ bits' = bits
    BY <1>2, <2>1, WaitStep
  <2>3. disturbed => disturbed'
    BY <2>1, Zenon DEF Waits, WTypeOK
  <2>4. ResetRuns(k + 1)'
    BY <1>2, <1>5, <2>2 DEF ResetRuns
  <2> QED BY <1>1, <1>3, <1>5, <2>3, <2>4
<1>6. CASE k = 7
  <2>1. Reads
    BY <1>2, <1>6, ResetProgram, StepOf, Kinds
  <2>2. statements' = Tail(statements) /\ disturbed' = disturbed
    BY <2>1 DEF Reads
  <2>3. ResetRuns(8)'
    BY <1>2, <1>6, <2>2 DEF ResetRuns
  <2> QED BY <1>1, <1>6, <2>2, <2>3
<1>7. CASE k = 2
  <2>1. WaitsHigh
    BY <1>2, <1>7, ResetProgram, StepOf, Kinds
  <2>2. drives' = drives /\ device' = device /\ age' = age /\ disturbed' = disturbed
    BY <2>1 DEF WaitsHigh
  <2>3. drives = "free" /\ bits = <<>> /\ statements = Rest(onewire_reset, 2)
    BY <1>7 DEF ResetRuns
  <2>4. CASE High(drives, device, age)
    <3>1. statements' = Tail(statements) /\ bits' = bits
      BY <2>1, <2>4 DEF WaitsHigh
    <3>2. ResetRuns(3)'
      BY <1>2, <1>7, <2>2, <2>3, <2>4, <3>1 DEF ResetRuns
    <3> QED BY <1>1, <1>7, <2>2, <3>2
  <2>5. CASE ~High(drives, device, age) /\ retries > 2
    <3>1. statements' = <<os_delay_us(2)>> \o statements /\ bits' = bits
      BY <2>1, <2>5 DEF WaitsHigh
    <3>2. statements' = Rest(onewire_reset, 1)
      BY <2>3, <3>1, WaitAgain
    <3>3. ResetRuns(1)'
      BY <2>2, <2>3, <3>1, <3>2 DEF ResetRuns
    <3> QED BY <1>1, <1>7, <2>2, <3>3
  <2>6. CASE ~High(drives, device, age) /\ ~(retries > 2)
    <3>1. statements' = <<>>
      BY <2>1, <2>6 DEF WaitsHigh
    <3> QED BY <1>1, <1>7, <2>2, <3>1
  <2> QED BY <2>4, <2>5, <2>6
<1>8. CASE k = 3
  <2>1. drives = "free" /\ bits = <<>> /\ High(drives, device, age) /\ statements = Rest(onewire_reset, 3)
    BY <1>8 DEF ResetRuns
  <2>2. ~device.shorted /\ ~HeldBy(device, age)
    BY <2>1 DEF High, Pulls
  <2>3. InReset(3)
    BY <2>1, <2>2 DEF InReset, AnswersReset
  <2>4. WTypeOK' /\ InReset(3 + 1)'
    BY <2>3, ResetDrives
  <2>5. Drives /\ Next_statement.do = "low"
    BY <1>2, <1>8, ResetProgram, StepOf, Kinds
  <2>6. late' = 0
    BY <1>2, <2>1, <2>5, DriveStep
  <2>7. WInv'
    BY <2>4, <2>6 DEF WInv, Margin
  <2>8. statements' = <<>> \/ \E m \in 0 .. 9 : ResetRuns(m)'
    <3>1. statements' = Rest(onewire_reset, 4)
      BY <2>4 DEF InReset
    <3>2. ResetRuns(4)' /\ 4 \in 0 .. 9
      BY <3>1 DEF ResetRuns
    <3> QED BY <3>2
  <2> QED BY <1>1, <1>8, <2>7, <2>8
<1> QED BY <1>1, <1>4, <1>5, <1>6, <1>7, <1>8

SlotsInv == Loose /\ (~disturbed => WInv)

LEMMA SlotsInductive ==
    ASSUME SlotsInv, [WNext]_wvars
    PROVE  SlotsInv'
<1>1. WTypeOK /\ Loose
  BY DEF SlotsInv, Loose
<1>2. Calls \/ Step \/ UNCHANGED wvars
  BY DEF WNext, Step, Calls
<1>3. CASE Calls
  <2>1. WTypeOK' /\ (wire_call'.name = "reset" => statements' = onewire_reset /\ bits' = <<>>)
    BY <1>1, <1>3, CallTyped
  <2>2. Loose'
    <3>1. Rest(onewire_reset, 0) = onewire_reset
      BY ResetProgram, RestAll
    <3>2. statements' = onewire_reset /\ bits' = <<>> => ResetRuns(0)' /\ 0 \in 0 .. 9
      BY <3>1 DEF ResetRuns
    <3> QED BY <2>1, <3>2, Zenon DEF Loose
  <2>3. disturbed' = disturbed /\ late' = late
    BY <1>3 DEF Calls, CallReset, CallRead, CallSearch, CallDirection, CallWrite, Begin
  <2>4. ~disturbed' => WInv'
    <3>1. WInv => late' <= Margin
      BY <2>3 DEF WInv
    <3> QED BY <2>3, <3>1, WInductive, Zenon DEF SlotsInv
  <2> QED BY <2>2, <2>4, Zenon DEF SlotsInv
<1>4. CASE Step
  <2>1. WTypeOK' /\ wire_call' = wire_call /\ statements # <<>>
    BY <1>1, <1>4, TypedStep, StepOf
  <2>2. CASE wire_call.name = "reset"
    <3>1. PICK k \in 0 .. 9 : ResetRuns(k)
      BY <1>1, <2>1, <2>2 DEF Loose
    <3>2. /\ statements' = <<>> \/ \E m \in 0 .. 9 : ResetRuns(m)'
          /\ k # 3 /\ disturbed => disturbed'
          /\ k = 3 => WInv'
      BY <1>1, <1>4, <2>2, <3>1, ResetGoesOn
    <3>3. Loose'
      BY <2>1, <3>2, Zenon DEF Loose
    <3> QED BY <1>4, <3>2, <3>3, UndisturbedStep, Zenon DEF SlotsInv
  <2>3. CASE wire_call.name # "reset"
    <3>1. disturbed => disturbed'
      BY <1>4, <2>3, Zenon DEF Step, Drives, Waits, Reads, WaitsHigh
    <3>2. Loose'
      BY <2>1, <2>3 DEF Loose
    <3> QED BY <1>4, <3>1, <3>2, UndisturbedStep, Zenon DEF SlotsInv
  <2> QED BY <2>2, <2>3
<1>5. CASE UNCHANGED wvars
  <2>1. WInv => WInv'
    <3>1. WInv => late' <= Margin
      BY <1>5 DEF WInv, wvars
    <3> QED BY <1>5, <3>1, WInductive
  <2>2. Loose'
    BY <1>1, <1>5 DEF Loose, WTypeOK, ResetRuns, wvars
  <2>3. disturbed' = disturbed
    BY <1>5 DEF wvars
  <2> QED BY <2>1, <2>2, <2>3, Zenon DEF SlotsInv
<1> QED BY <1>2, <1>3, <1>4, <1>5

(* Either a slot has taken more than Margin longer since the last reset    *)
(* pulse began, and then only the course of the calls is known; or the     *)
(* chip and a device on its wire are at the same statement of the same     *)
(* call, and WInv says what the line, the clock and the device are there.  *)
(* Every reset pulse leads back to the second, whatever the device took    *)
(* the slots before it for.                                                *)
THEOREM SlotsInvariant == WSpec => []SlotsInv
<1>1. WInit => SlotsInv
  BY WInitial, WInvLoose DEF SlotsInv
<1>2. SlotsInv /\ [WNext]_wvars => SlotsInv'
  BY SlotsInductive
<1> QED BY <1>1, <1>2, PTL DEF WSpec

(* Whatever the bytes and the times of the device within the data sheet:   *)
(* unless interrupts have lengthened a slot by more than Margin since the  *)
(* last reset pulse began, onewire_reset() sees a device that is there,    *)
(* and what onewire_write() and onewire_read() carry is what the other     *)
(* side sent.  Interrupts may take any time: nothing is assumed of them,   *)
(* and after one that took too long the next reset makes this true again.  *)
THEOREM SlotsAlwaysUnderstood == WSpec => []SlotsUnderstood
<1>1. SlotsInv => SlotsUnderstood
  BY Understood DEF SlotsInv, SlotsUnderstood
<1> QED BY <1>1, SlotsInvariant, PTL

(* With the same exception and the same end of it the pin is not driven    *)
(* high while the device holds the wire low, also when a call begins in    *)
(* the slot that the one before it left open.                              *)
THEOREM NoContentionUndisturbed == WSpec => []NoContention
<1>1. SlotsInv => NoContention
  BY Understood DEF SlotsInv, NoContention
<1> QED BY <1>1, SlotsInvariant, PTL
===============================================================================
