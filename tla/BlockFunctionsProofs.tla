-------------------------- MODULE BlockFunctionsProofs ------------------------
(***************************************************************************)
(* Decryption retraces encryption for Kuznyechik, GOST 28147-89 and RC2,   *)
(* for every key and every block of their sizes, every effective length of *)
(* a key of RC2 and every substitution table of GOST 28147-89.             *)
(*                                                                         *)
(* First, at full width, what the code is made of: ^ of bytes and of       *)
(* strings is a group, a word that was added to or turned can be restored. *)
(* Then each cipher, and what one round of decryption takes back. GOST     *)
(* 28147-89 is a Feistel network whose keys come in the reverse order. RC2 *)
(* takes back word by word, in the other direction, what does not depend   *)
(* on the word itself. For Kuznyechik, whose tables join substitution and  *)
(* map, the map adds up, so that a key moves behind it, and its inverse    *)
(* takes back what a row gives for one byte; those are facts about the     *)
(* tables (TablesAssumption). The inductive invariant is RetraceInv.       *)
(*                                                                         *)
(* The last part is about the product of MGM, for every two blocks: the    *)
(* remainder of a product is linear, the remainder of the next power is    *)
(* that of the power before times x, and both are what the loop computes.  *)
(***************************************************************************)
EXTENDS BlockFunctions, SequenceTheorems, FiniteSetTheorems, TLAPS

-----------------------------------------------------------------------------
(***************************************************************************)
(* Bytes and their bits.                                                   *)
(***************************************************************************)

\* A sequence is the same after Strict.
LEMMA StrictSame == ASSUME NEW S, NEW n \in Nat, NEW f \in [1 .. n -> S] PROVE Strict(f) = f
BY DEF Strict

Bit == 0 .. 1

\* The byte whose bits are c[0], ..., c[7].
FromBits(c) ==
    c[0] + 2 * c[1] + 4 * c[2] + 8 * c[3] + 16 * c[4] + 32 * c[5] + 64 * c[6] + 128 * c[7]

\* The sum of two bits.
BitSum(x, y) == (x + y) % 2

\* The powers of two that BitOf divides by and that XorBits multiplies with.
LEMMA TwoPowers ==
    /\ 2 ^ 0 = 1 /\ 2 ^ 1 = 2 /\ 2 ^ 2 = 4 /\ 2 ^ 3 = 8
    /\ 2 ^ 4 = 16 /\ 2 ^ 5 = 32 /\ 2 ^ 6 = 64 /\ 2 ^ 7 = 128
OBVIOUS

\* The places of the bits, one by one.
LEMMA Places == \A k \in 0 .. 7 : k \in {0, 1, 2, 3, 4, 5, 6, 7}
OBVIOUS

\* The bits of a number made of bits are these.
LEMMA BitsOfSum ==
    ASSUME NEW c \in [0 .. 7 -> Bit]
    PROVE  FromBits(c) \in Byte /\ \A k \in 0 .. 7 : BitOf(FromBits(c), k) = c[k]
<1> DEFINE c0 == c[0]
           c1 == c[1]
           c2 == c[2]
           c3 == c[3]
           c4 == c[4]
           c5 == c[5]
           c6 == c[6]
           c7 == c[7]
           a == FromBits(c)
<1>1. /\ c0 \in Bit /\ c1 \in Bit /\ c2 \in Bit /\ c3 \in Bit
      /\ c4 \in Bit /\ c5 \in Bit /\ c6 \in Bit /\ c7 \in Bit
  OBVIOUS
<1>2. a = c0 + 2 * c1 + 4 * c2 + 8 * c3 + 16 * c4 + 32 * c5 + 64 * c6 + 128 * c7 BY DEF FromBits
<1> HIDE DEF c0, c1, c2, c3, c4, c5, c6, c7, a
<1>3. a \in Byte BY <1>1, <1>2 DEF Byte, Bit
<1>4. BitOf(a, 0) = c0 BY <1>1, <1>2, TwoPowers DEF Bit, BitOf
<1>5. BitOf(a, 1) = c1 BY <1>1, <1>2, TwoPowers DEF Bit, BitOf
<1>6. BitOf(a, 2) = c2 BY <1>1, <1>2, TwoPowers DEF Bit, BitOf
<1>7. BitOf(a, 3) = c3 BY <1>1, <1>2, TwoPowers DEF Bit, BitOf
<1>8. BitOf(a, 4) = c4 BY <1>1, <1>2, TwoPowers DEF Bit, BitOf
<1>9. BitOf(a, 5) = c5 BY <1>1, <1>2, TwoPowers DEF Bit, BitOf
<1>10. BitOf(a, 6) = c6 BY <1>1, <1>2, TwoPowers DEF Bit, BitOf
<1>11. BitOf(a, 7) = c7 BY <1>1, <1>2, TwoPowers DEF Bit, BitOf
<1>12. \A k \in 0 .. 7 : BitOf(a, k) = c[k]
  BY <1>4, <1>5, <1>6, <1>7, <1>8, <1>9, <1>10, <1>11, Places DEF c0, c1, c2, c3, c4, c5, c6, c7
<1> QED BY <1>3, <1>12 DEF a

\* A bit of a byte is a bit.
LEMMA BitsAreBits == ASSUME NEW a \in Byte, NEW k \in 0 .. 7 PROVE BitOf(a, k) \in Bit
<1>1. /\ BitOf(a, 0) \in Bit /\ BitOf(a, 1) \in Bit /\ BitOf(a, 2) \in Bit /\ BitOf(a, 3) \in Bit
      /\ BitOf(a, 4) \in Bit /\ BitOf(a, 5) \in Bit /\ BitOf(a, 6) \in Bit /\ BitOf(a, 7) \in Bit
  BY DEF Byte, Bit, BitOf
<1> QED BY <1>1, Places

\* A byte is made of its bits.
LEMMA SumOfBits == ASSUME NEW a \in Byte PROVE a = FromBits([k \in 0 .. 7 |-> BitOf(a, k)])
<1>1. a = BitOf(a, 0) + 2 * BitOf(a, 1) + 4 * BitOf(a, 2) + 8 * BitOf(a, 3)
          + 16 * BitOf(a, 4) + 32 * BitOf(a, 5) + 64 * BitOf(a, 6) + 128 * BitOf(a, 7)
  BY TwoPowers DEF Byte, BitOf
<1> QED BY <1>1 DEF FromBits

\* The bits of a ^ b are the sums of those of a and b.
LEMMA XorBitsBits ==
    ASSUME NEW a \in Byte, NEW b \in Byte
    PROVE  /\ XorBits(a, b) \in Byte
           /\ \A k \in 0 .. 7 : BitOf(XorBits(a, b), k) = BitSum(BitOf(a, k), BitOf(b, k))
<1> DEFINE c == [k \in 0 .. 7 |-> BitSum(BitOf(a, k), BitOf(b, k))]
<1>1. c \in [0 .. 7 -> Bit]
  <2>1. \A y, z \in Bit : BitSum(y, z) \in Bit BY DEF BitSum, Bit
  <2> QED BY <2>1, BitsAreBits
<1>2. XorBits(a, b) = c[0] * 2 ^ 0 + c[1] * 2 ^ 1 + c[2] * 2 ^ 2 + c[3] * 2 ^ 3
                      + c[4] * 2 ^ 4 + c[5] * 2 ^ 5 + c[6] * 2 ^ 6 + c[7] * 2 ^ 7
  BY DEF XorBits, BitSum
<1>3. \A k \in 0 .. 7 : c[k] = BitSum(BitOf(a, k), BitOf(b, k)) OBVIOUS
<1> HIDE DEF c
<1>4. /\ c[0] \in Int /\ c[1] \in Int /\ c[2] \in Int /\ c[3] \in Int
      /\ c[4] \in Int /\ c[5] \in Int /\ c[6] \in Int /\ c[7] \in Int
  BY <1>1 DEF Bit
<1>5. XorBits(a, b) = FromBits(c) BY <1>2, <1>4 DEF FromBits
<1> QED BY <1>1, <1>3, <1>5, BitsOfSum

\* Two bytes with the same bits are the same.
LEMMA BitsDetermine ==
    ASSUME NEW a \in Byte, NEW b \in Byte, \A k \in 0 .. 7 : BitOf(a, k) = BitOf(b, k)
    PROVE  a = b
<1>1. [k \in 0 .. 7 |-> BitOf(a, k)] = [k \in 0 .. 7 |-> BitOf(b, k)] OBVIOUS
<1> QED BY <1>1, SumOfBits

\* The table has every a ^ b in its place.
LEMMA XorByteIsXorBits ==
    ASSUME NEW a \in Byte, NEW b \in Byte
    PROVE  XorByte(a, b) = XorBits(a, b)
<1> DEFINE row(x) == [y \in 1 .. 256 |-> XorBits(x - 1, y - 1)]
<1>1. \A x \in 1 .. 256 : Strict(row(x)) = row(x)
  <2> SUFFICES ASSUME NEW x \in 1 .. 256 PROVE Strict(row(x)) = row(x) OBVIOUS
  <2>1. row(x) \in [1 .. 256 -> {XorBits(x - 1, y - 1) : y \in 1 .. 256}] OBVIOUS
  <2> HIDE DEF row
  <2>2. 256 \in Nat OBVIOUS
  <2> QED BY ONLY <2>1, <2>2, StrictSame
<1> DEFINE table == [x \in 1 .. 256 |-> Strict(row(x))]
<1>2. Strict(table) = table
  <2>1. table \in [1 .. 256 -> {Strict(row(x)) : x \in 1 .. 256}] OBVIOUS
  <2> HIDE DEF table
  <2>2. 256 \in Nat OBVIOUS
  <2> QED BY ONLY <2>1, <2>2, StrictSame
<1>3. XorTable = table BY <1>2 DEF XorTable
<1>4. a + 1 \in 1 .. 256 /\ b + 1 \in 1 .. 256 /\ (a + 1) - 1 = a /\ (b + 1) - 1 = b BY DEF Byte
<1>5. table[a + 1] = row(a + 1) BY <1>1, <1>4
<1> HIDE DEF table
<1>6. row(a + 1)[b + 1] = XorBits(a, b) BY <1>4
<1> HIDE DEF row
<1> QED BY <1>3, <1>5, <1>6 DEF XorByte

\* XorByte on bytes is a byte, and its bits are sums.
LEMMA XorByteBits ==
    ASSUME NEW a \in Byte, NEW b \in Byte
    PROVE  /\ XorByte(a, b) \in Byte
           /\ \A k \in 0 .. 7 : BitOf(XorByte(a, b), k) = BitSum(BitOf(a, k), BitOf(b, k))
BY XorByteIsXorBits, XorBitsBits

\* The bytes are a group under XorByte, with 0 as neutral element, in which every
\* element is its own inverse.
LEMMA XorByteGroup ==
    /\ \A a, b \in Byte : XorByte(a, b) \in Byte
    /\ \A a, b \in Byte : XorByte(a, b) = XorByte(b, a)
    /\ \A a, b, c \in Byte : XorByte(XorByte(a, b), c) = XorByte(a, XorByte(b, c))
    /\ \A a \in Byte : XorByte(a, 0) = a
    /\ \A a \in Byte : XorByte(a, a) = 0
<1>1. \A a, b \in Byte : XorByte(a, b) \in Byte BY XorByteBits
<1>2. /\ \A x, y \in Bit : BitSum(x, y) = BitSum(y, x)
      /\ \A x, y, z \in Bit : BitSum(BitSum(x, y), z) = BitSum(x, BitSum(y, z))
      /\ \A x \in Bit : BitSum(x, 0) = x /\ BitSum(x, x) = 0
  BY DEF Bit, BitSum
<1>3. 0 \in Byte /\ \A k \in 0 .. 7 : BitOf(0, k) = 0
  <2>1. 0 \in Byte BY DEF Byte
  <2>2. /\ BitOf(0, 0) = 0 /\ BitOf(0, 1) = 0 /\ BitOf(0, 2) = 0 /\ BitOf(0, 3) = 0
        /\ BitOf(0, 4) = 0 /\ BitOf(0, 5) = 0 /\ BitOf(0, 6) = 0 /\ BitOf(0, 7) = 0
    BY TwoPowers DEF BitOf
  <2> QED BY <2>1, <2>2, Places
<1>4. \A a, b \in Byte : XorByte(a, b) = XorByte(b, a)
  <2> SUFFICES ASSUME NEW a \in Byte, NEW b \in Byte PROVE XorByte(a, b) = XorByte(b, a) OBVIOUS
  <2>1. ASSUME NEW k \in 0 .. 7 PROVE BitOf(XorByte(a, b), k) = BitOf(XorByte(b, a), k)
    <3>1. BitSum(BitOf(a, k), BitOf(b, k)) = BitSum(BitOf(b, k), BitOf(a, k)) BY <1>2, <1>3, BitsAreBits
    <3> QED BY <1>3, <3>1, XorByteBits
  <2> QED BY <1>1, <2>1, BitsDetermine
<1>5. \A a, b, c \in Byte : XorByte(XorByte(a, b), c) = XorByte(a, XorByte(b, c))
  <2> SUFFICES ASSUME NEW a \in Byte, NEW b \in Byte, NEW c \in Byte
               PROVE  XorByte(XorByte(a, b), c) = XorByte(a, XorByte(b, c))
    OBVIOUS
  <2> DEFINE p == XorByte(XorByte(a, b), c)
             q == XorByte(a, XorByte(b, c))
  <2>1. p \in Byte /\ q \in Byte BY <1>1
  <2>2. ASSUME NEW k \in 0 .. 7 PROVE BitOf(p, k) = BitOf(q, k)
    <3>1. BitOf(p, k) = BitSum(BitSum(BitOf(a, k), BitOf(b, k)), BitOf(c, k)) BY <1>1, XorByteBits
    <3>2. BitOf(q, k) = BitSum(BitOf(a, k), BitSum(BitOf(b, k), BitOf(c, k))) BY <1>1, XorByteBits
    <3>3. BitOf(a, k) \in Bit /\ BitOf(b, k) \in Bit /\ BitOf(c, k) \in Bit BY BitsAreBits
    <3> QED BY <1>2, <3>1, <3>2, <3>3
  <2> HIDE DEF p, q
  <2>3. p = q BY <2>1, <2>2, BitsDetermine
  <2> QED BY <2>3 DEF p, q
<1>6. \A a \in Byte : XorByte(a, 0) = a
  <2> SUFFICES ASSUME NEW a \in Byte PROVE XorByte(a, 0) = a OBVIOUS
  <2>1. ASSUME NEW k \in 0 .. 7 PROVE BitOf(XorByte(a, 0), k) = BitOf(a, k)
    <3>1. BitSum(BitOf(a, k), BitOf(0, k)) = BitOf(a, k) BY <1>2, <1>3, BitsAreBits
    <3> QED BY <1>3, <3>1, XorByteBits
  <2> QED BY <1>1, <1>3, <2>1, BitsDetermine
<1>7. \A a \in Byte : XorByte(a, a) = 0
  <2> SUFFICES ASSUME NEW a \in Byte PROVE XorByte(a, a) = 0 OBVIOUS
  <2>1. ASSUME NEW k \in 0 .. 7 PROVE BitOf(XorByte(a, a), k) = BitOf(0, k)
    <3>1. BitSum(BitOf(a, k), BitOf(a, k)) = 0 BY <1>2, <1>3, BitsAreBits
    <3> QED BY <1>3, <3>1, XorByteBits
  <2> QED BY <1>1, <1>3, <2>1, BitsDetermine
<1> QED BY <1>1, <1>4, <1>5, <1>6, <1>7

-----------------------------------------------------------------------------
(***************************************************************************)
(* Strings of n bytes under Xor.                                           *)
(***************************************************************************)

Bytes(n) == [1 .. n -> Byte]

\* Strings of bytes are sequences.
LEMMA BytesAreSequences ==
    ASSUME NEW n \in Nat, NEW u \in Bytes(n)
    PROVE  u \in Seq(Byte) /\ Len(u) = n
<1> USE DEF Bytes
<1>1. u \in Seq(Byte) BY SeqDef
<1> QED BY <1>1, LenProperties

\* A string of n bytes is one of n sequences.
LEMMA SequencesAreBytes ==
    ASSUME NEW u \in Seq(Byte)
    PROVE  u \in Bytes(Len(u)) /\ Len(u) \in Nat
BY LenProperties DEF Bytes

\* Two strings with the same bytes are the same.
LEMMA BytesEqual ==
    ASSUME NEW n \in Nat, NEW u \in Bytes(n), NEW v \in Bytes(n), \A i \in 1 .. n : u[i] = v[i]
    PROVE  u = v
BY DEF Bytes

\* Xor works byte by byte.
LEMMA XorEach ==
    ASSUME NEW n \in Nat, NEW u \in Bytes(n), NEW v \in Bytes(n)
    PROVE  /\ Xor(u, v) \in Bytes(n)
           /\ \A i \in 1 .. n : Xor(u, v)[i] = XorByte(u[i], v[i])
<1> DEFINE w == [i \in 1 .. n |-> XorByte(u[i], v[i])]
<1>1. w \in Bytes(n) /\ \A i \in 1 .. n : w[i] = XorByte(u[i], v[i]) BY XorByteGroup DEF Bytes
<1>2. Xor(u, v) = Strict(w) BY BytesAreSequences DEF Xor
<1> HIDE DEF w
<1>3. Strict(w) = w BY <1>1, StrictSame DEF Bytes
<1> QED BY <1>1, <1>2, <1>3

\* The neutral element.
LEMMA ZerosBytes == ASSUME NEW n \in Nat PROVE Zeros(n) \in Bytes(n)
BY DEF Zeros, Bytes, Byte

\* Xor on strings of one length is a group in which every element is its own inverse.
LEMMA XorGroup ==
    ASSUME NEW n \in Nat
    PROVE  /\ \A u, v \in Bytes(n) : Xor(u, v) \in Bytes(n)
           /\ \A u, v \in Bytes(n) : Xor(u, v) = Xor(v, u)
           /\ \A u, v, w \in Bytes(n) : Xor(Xor(u, v), w) = Xor(u, Xor(v, w))
           /\ \A u \in Bytes(n) : Xor(u, Zeros(n)) = u
           /\ \A u \in Bytes(n) : Xor(u, u) = Zeros(n)
<1>1. \A u, v \in Bytes(n) : Xor(u, v) \in Bytes(n) BY XorEach
<1>2. \A u \in Bytes(n), i \in 1 .. n : u[i] \in Byte BY DEF Bytes
<1>3. ASSUME NEW u \in Bytes(n), NEW v \in Bytes(n) PROVE Xor(u, v) = Xor(v, u)
  <2>1. ASSUME NEW i \in 1 .. n PROVE Xor(u, v)[i] = Xor(v, u)[i]
    BY <1>2, XorEach, XorByteGroup
  <2> QED BY <1>1, <2>1, BytesEqual
<1>4. ASSUME NEW u \in Bytes(n), NEW v \in Bytes(n), NEW w \in Bytes(n)
      PROVE  Xor(Xor(u, v), w) = Xor(u, Xor(v, w))
  <2> DEFINE p == Xor(u, v)
             q == Xor(v, w)
  <2>1. p \in Bytes(n) /\ q \in Bytes(n) BY <1>1
  <2>2. ASSUME NEW i \in 1 .. n PROVE Xor(p, w)[i] = Xor(u, q)[i]
    <3>1. p[i] = XorByte(u[i], v[i]) /\ q[i] = XorByte(v[i], w[i]) BY XorEach
    <3> HIDE DEF p, q
    <3>2. Xor(p, w)[i] = XorByte(p[i], w[i]) /\ Xor(u, q)[i] = XorByte(u[i], q[i])
      BY <2>1, XorEach
    <3>3. u[i] \in Byte /\ v[i] \in Byte /\ w[i] \in Byte BY <1>2
    <3> QED BY <3>1, <3>2, <3>3, XorByteGroup
  <2> HIDE DEF p, q
  <2>3. Xor(p, w) = Xor(u, q) BY <1>1, <2>1, <2>2, BytesEqual
  <2> QED BY <2>3 DEF p, q
<1>5. ASSUME NEW u \in Bytes(n) PROVE Xor(u, Zeros(n)) = u
  <2>1. ASSUME NEW i \in 1 .. n PROVE Xor(u, Zeros(n))[i] = u[i]
    <3>1. Zeros(n)[i] = 0 BY DEF Zeros
    <3> QED BY <3>1, <1>2, ZerosBytes, XorEach, XorByteGroup
  <2> QED BY <1>1, <2>1, ZerosBytes, BytesEqual
<1>6. ASSUME NEW u \in Bytes(n) PROVE Xor(u, u) = Zeros(n)
  <2>1. ASSUME NEW i \in 1 .. n PROVE Xor(u, u)[i] = Zeros(n)[i]
    <3>1. Zeros(n)[i] = 0 BY DEF Zeros
    <3> QED BY <3>1, <1>2, XorEach, XorByteGroup
  <2> QED BY <1>1, <2>1, ZerosBytes, BytesEqual
<1> QED BY <1>1, <1>3, <1>4, <1>5, <1>6

\* What is added twice is taken back.
LEMMA XorTwice ==
    ASSUME NEW n \in Nat, NEW u \in Bytes(n), NEW v \in Bytes(n)
    PROVE  Xor(Xor(u, v), v) = u
<1>1. Xor(Xor(u, v), v) = Xor(u, Xor(v, v)) BY XorGroup
<1>2. Xor(v, v) = Zeros(n) BY XorGroup
<1> QED BY <1>1, <1>2, XorGroup

\* Two sums are added one by one.
LEMMA XorExchange ==
    ASSUME NEW n \in Nat,
           NEW p \in Bytes(n), NEW q \in Bytes(n), NEW r \in Bytes(n), NEW s \in Bytes(n)
    PROVE  Xor(Xor(p, q), Xor(r, s)) = Xor(Xor(p, r), Xor(q, s))
<1>1. \A u, v \in Bytes(n) : Xor(u, v) \in Bytes(n) BY XorGroup
<1>2. Xor(Xor(p, q), Xor(r, s)) = Xor(p, Xor(q, Xor(r, s))) BY <1>1, XorGroup
<1>3. Xor(q, Xor(r, s)) = Xor(Xor(q, r), s) BY XorGroup
<1>4. Xor(q, r) = Xor(r, q) BY XorGroup
<1>5. Xor(Xor(r, q), s) = Xor(r, Xor(q, s)) BY XorGroup
<1>6. Xor(p, Xor(r, Xor(q, s))) = Xor(Xor(p, r), Xor(q, s)) BY <1>1, XorGroup
<1> QED BY <1>2, <1>3, <1>4, <1>5, <1>6

-----------------------------------------------------------------------------
(***************************************************************************)
(* Sums and rotations of words of two bytes, as RC2 uses them, and of four. *)
(***************************************************************************)

\* A byte more.
LEMMA AppendBytes ==
    ASSUME NEW n \in Nat, NEW u \in Bytes(n), NEW x \in Byte
    PROVE  /\ Append(u, x) \in Bytes(n + 1)
           /\ Append(u, x)[n + 1] = x
           /\ \A i \in 1 .. n : Append(u, x)[i] = u[i]
<1>1. u \in Seq(Byte) /\ Len(u) = n BY BytesAreSequences
<1>2. Append(u, x) \in Seq(Byte) /\ Len(Append(u, x)) = n + 1 BY <1>1
<1>3. Append(u, x) \in Bytes(n + 1) BY <1>2, SequencesAreBytes
<1> QED BY <1>1, <1>3

\* What one more byte of both makes of the sum so far.
CarryStep(u, v, i, before) ==
    LET s == u[i] + v[i] + before.carry
    IN  [low |-> Append(before.low, s % 256), carry |-> s \div 256]

\* The recursion of AddCarry, on words of at most four bytes.
LEMMA CarryRecursion ==
    ASSUME NEW n \in 1 .. 4, NEW u \in Bytes(n), NEW v \in Bytes(n)
    PROVE  \E sum : /\ AddCarry(u, v) = sum[n]
                    /\ sum[0] = [low |-> <<>>, carry |-> 0]
                    /\ \A i \in 1 .. n : sum[i] = CarryStep(u, v, i, sum[i - 1])
<1> DEFINE r0 == [low |-> <<>>, carry |-> 0]
           Scheme(g) == [i \in 0 .. n |-> IF i = 0 THEN r0 ELSE CarryStep(u, v, i, g[i - 1])]
           value == CHOOSE g : g = Scheme(g)
           r1 == CarryStep(u, v, 1, r0)
           r2 == CarryStep(u, v, 2, r1)
           r3 == CarryStep(u, v, 3, r2)
           r4 == CarryStep(u, v, 4, r3)
           f == [i \in 0 .. n |-> IF i = 0 THEN r0 ELSE IF i = 1 THEN r1 ELSE IF i = 2 THEN r2
                                  ELSE IF i = 3 THEN r3 ELSE r4]
<1>1. AddCarry(u, v) = value[n]
  <2>1. Len(u) = n BY BytesAreSequences
  <2> QED BY <2>1 DEF AddCarry, CarryStep
<1>2. ASSUME NEW i \in 0 .. n PROVE f[i] = Scheme(f)[i]
  <2> HIDE DEF r0
  <2>1. CASE i = 0 BY <2>1
  <2>2. CASE i = 1
    <3>1. f[0] = r0 /\ f[1] = CarryStep(u, v, 1, r0) BY <2>2
    <3> HIDE DEF f
    <3> QED BY <2>2, <3>1
  <2>3. CASE i = 2
    <3>1. f[1] = r1 /\ f[2] = CarryStep(u, v, 2, r1) BY <2>3
    <3> HIDE DEF f
    <3> QED BY <2>3, <3>1
  <2>4. CASE i = 3
    <3>1. f[2] = r2 /\ f[3] = CarryStep(u, v, 3, r2) BY <2>4
    <3> HIDE DEF f
    <3> QED BY <2>4, <3>1
  <2>5. CASE i = 4
    <3>1. f[3] = r3 /\ f[4] = CarryStep(u, v, 4, r3) BY <2>5
    <3> HIDE DEF f
    <3> QED BY <2>5, <3>1
  <2> QED BY <2>1, <2>2, <2>3, <2>4, <2>5
<1>3. f = Scheme(f)
  <2> HIDE DEF r0, r1, r2, r3, r4
  <2>1. DOMAIN f = 0 .. n /\ f = [i \in DOMAIN f |-> f[i]] OBVIOUS
  <2> HIDE DEF f
  <2> QED BY <1>2, <2>1
<1>4. value = Scheme(value)
  <2> HIDE DEF f, Scheme
  <2> QED BY <1>3
<1> HIDE DEF value
<1>5. value[0] = r0 BY <1>4
<1>6. \A i \in 1 .. n : value[i] = CarryStep(u, v, i, value[i - 1])
  <2> HIDE DEF r0
  <2> QED BY <1>4
<1> QED BY <1>1, <1>5, <1>6

\* Every step keeps a byte more and carries a bit.
LEMMA CarryStepType ==
    ASSUME NEW n \in 1 .. 4, NEW u \in Bytes(n), NEW v \in Bytes(n), NEW i \in 0 .. n - 1,
           NEW before \in [low : Bytes(i), carry : Bit]
    PROVE  CarryStep(u, v, i + 1, before) \in [low : Bytes(i + 1), carry : Bit]
<1> DEFINE x == u[i + 1]
           y == v[i + 1]
           z == before.carry
           s == x + y + z
<1>1. x \in Byte /\ y \in Byte /\ z \in Bit
  <2>1. i + 1 \in 1 .. n OBVIOUS
  <2> QED BY <2>1 DEF Bytes
<1> HIDE DEF x, y, z
<1>2. s \in 0 .. 511 BY <1>1 DEF Byte, Bit
<1> HIDE DEF s
<1>3. s % 256 \in Byte /\ s \div 256 \in Bit BY <1>2 DEF Byte, Bit
<1>4. i \in Nat /\ before.low \in Bytes(i) OBVIOUS
<1>5. Append(before.low, s % 256) \in Bytes(i + 1) BY <1>3, <1>4, AppendBytes
<1> QED BY <1>3, <1>5 DEF CarryStep, s, x, y, z

\* The sum has as many bytes as its operands.
LEMMA AddType ==
    ASSUME NEW n \in {2, 4}, NEW u \in Bytes(n), NEW v \in Bytes(n)
    PROVE  /\ Add(u, v) \in Bytes(n)
           /\ AddCarry(u, v).low \in Bytes(n)
<1> PICK sum : /\ AddCarry(u, v) = sum[n]
               /\ sum[0] = [low |-> <<>>, carry |-> 0]
               /\ \A i \in 1 .. n : sum[i] = CarryStep(u, v, i, sum[i - 1])
  BY CarryRecursion
<1> DEFINE typed(i) == sum[i] \in [low : Bytes(i), carry : Bit]
<1>1. typed(0) BY DEF Bytes, Bit
<1>2. ASSUME NEW i \in 0 .. n - 1, typed(i) PROVE typed(i + 1)
  <2>1. sum[i + 1] = CarryStep(u, v, i + 1, sum[i])
    <3>1. i + 1 \in 1 .. n /\ (i + 1) - 1 = i OBVIOUS
    <3> QED BY <3>1
  <2> QED BY <1>2, <2>1, CarryStepType
<1> HIDE DEF typed
<1>3. typed(1) /\ typed(2) BY <1>1, <1>2
<1>4. n = 4 => typed(4)
  <2> HAVE n = 4
  <2>1. typed(3) BY <1>2, <1>3
  <2> QED BY <1>2, <2>1
<1>5. typed(n) BY <1>3, <1>4
<1> QED BY <1>5 DEF typed, Add

\* The sum of words of two bytes, byte by byte.
LEMMA AddOfTwo ==
    ASSUME NEW u \in Bytes(2), NEW v \in Bytes(2)
    PROVE  /\ Add(u, v)[1] = (u[1] + v[1]) % 256
           /\ Add(u, v)[2] = (u[2] + v[2] + ((u[1] + v[1]) \div 256)) % 256
<1> PICK sum : /\ AddCarry(u, v) = sum[2]
               /\ sum[0] = [low |-> <<>>, carry |-> 0]
               /\ \A i \in 1 .. 2 : sum[i] = CarryStep(u, v, i, sum[i - 1])
  BY CarryRecursion
<1> DEFINE a == u[1]
           b == u[2]
           c == v[1]
           d == v[2]
           s1 == a + c
           s2 == b + d + (s1 \div 256)
<1>1. a \in Byte /\ b \in Byte /\ c \in Byte /\ d \in Byte BY DEF Bytes
<1>2. sum[1] = CarryStep(u, v, 1, sum[0]) /\ sum[2] = CarryStep(u, v, 2, sum[1]) OBVIOUS
<1>3. s1 \in Nat /\ s2 \in Nat /\ s1 + 0 = s1
  <2> HIDE DEF a, b, c, d
  <2> QED BY <1>1 DEF Byte
<1>4. sum[1] = [low |-> Append(<<>>, s1 % 256), carry |-> s1 \div 256] BY <1>2, <1>3 DEF CarryStep
<1>5. sum[2].low = Append(Append(<<>>, s1 % 256), s2 % 256) BY <1>2, <1>4 DEF CarryStep
<1> HIDE DEF s1, s2
<1>6. s1 % 256 \in Byte /\ s2 % 256 \in Byte
  <2>1. \A x \in Nat : x % 256 \in Byte BY DEF Byte
  <2> QED BY <1>3, <2>1
<1>7. sum[2].low[1] = s1 % 256 /\ sum[2].low[2] = s2 % 256 BY <1>5, <1>6
<1> QED BY <1>7 DEF Add, s1, s2, a, b, c, d

\* The difference of words of two bytes, byte by byte: the complement of one of them and
\* a 1 are added to the other.
LEMMA SubOfTwo ==
    ASSUME NEW u \in Bytes(2), NEW v \in Bytes(2)
    PROVE  \E t \in Bytes(2) :
               /\ t[1] = (u[1] + (255 - v[1])) % 256
               /\ t[2] = (u[2] + (255 - v[2]) + ((u[1] + (255 - v[1])) \div 256)) % 256
               /\ Sub(u, v) \in Bytes(2)
               /\ Sub(u, v)[1] = (t[1] + 1) % 256
               /\ Sub(u, v)[2] = (t[2] + 0 + ((t[1] + 1) \div 256)) % 256
<1> DEFINE w == [i \in 1 .. 2 |-> 255 - v[i]]
           one == [i \in 1 .. 2 |-> IF i = 1 THEN 1 ELSE 0]
           t == Add(u, w)
<1>1. w \in Bytes(2) /\ w[1] = 255 - v[1] /\ w[2] = 255 - v[2] BY DEF Bytes, Byte
<1>2. Not(v) = w
  <2>1. Len(v) = 2 BY BytesAreSequences
  <2> DEFINE x == [i \in 1 .. 2 |-> 255 - v[i]]
  <2>2. x \in [1 .. 2 -> Byte] BY <1>1 DEF Bytes
  <2>3. Not(v) = Strict(x) BY <2>1 DEF Not
  <2> HIDE DEF x
  <2>4. Strict(x) = x BY <2>2, StrictSame
  <2> QED BY <2>3, <2>4 DEF x
<1>3. one \in Bytes(2) /\ one[1] = 1 /\ one[2] = 0 BY DEF Bytes, Byte
<1>4. Sub(u, v) = Add(t, one)
  <2>1. Len(u) = 2 BY BytesAreSequences
  <2> HIDE DEF w
  <2> QED BY <1>2, <2>1 DEF Sub, Add
<1> HIDE DEF w, one
<1>5. t \in Bytes(2) /\ t[1] = (u[1] + w[1]) % 256
      /\ t[2] = (u[2] + w[2] + ((u[1] + w[1]) \div 256)) % 256
  BY <1>1, AddType, AddOfTwo
<1> HIDE DEF t
<1>6. Add(t, one) \in Bytes(2) /\ Add(t, one)[1] = (t[1] + one[1]) % 256
      /\ Add(t, one)[2] = (t[2] + one[2] + ((t[1] + one[1]) \div 256)) % 256
  <2>1. t \in Bytes(2) BY <1>5
  <2>2. one \in Bytes(2) BY <1>3
  <2>3. Add(t, one) \in Bytes(2) BY <2>1, <2>2, AddType
  <2>4. Add(t, one)[1] = (t[1] + one[1]) % 256
        /\ Add(t, one)[2] = (t[2] + one[2] + ((t[1] + one[1]) \div 256)) % 256
    BY ONLY <2>1, <2>2, AddOfTwo
  <2> QED BY <2>3, <2>4
<1> QED BY <1>1, <1>3, <1>4, <1>5, <1>6

\* A difference takes a sum back.
LEMMA SubTakesBack ==
    ASSUME NEW u \in Bytes(2), NEW v \in Bytes(2)
    PROVE  Sub(Add(u, v), v) = u /\ Sub(u, v) \in Bytes(2)
<1> DEFINE w == Add(u, v)
<1>1. w \in Bytes(2) /\ w[1] = (u[1] + v[1]) % 256
      /\ w[2] = (u[2] + v[2] + ((u[1] + v[1]) \div 256)) % 256
  BY AddType, AddOfTwo
<1> HIDE DEF w
<1> DEFINE a == u[1]
           b == u[2]
           c == v[1]
           d == v[2]
           p == w[1]
           q == w[2]
<1>2. a \in Byte /\ b \in Byte /\ c \in Byte /\ d \in Byte /\ p \in Byte /\ q \in Byte
  BY <1>1 DEF Bytes
<1>3. PICK t \in Bytes(2) :
          /\ t[1] = (p + (255 - c)) % 256
          /\ t[2] = (q + (255 - d) + ((p + (255 - c)) \div 256)) % 256
          /\ Sub(w, v) \in Bytes(2)
          /\ Sub(w, v)[1] = (t[1] + 1) % 256
          /\ Sub(w, v)[2] = (t[2] + 0 + ((t[1] + 1) \div 256)) % 256
  BY <1>1, SubOfTwo
<1>4. p = (a + c) % 256 /\ q = (b + d + ((a + c) \div 256)) % 256 BY <1>1
<1> HIDE DEF a, b, c, d, p, q
<1>5. (t[1] + 1) % 256 = a
  <2>1. t[1] = (p + (255 - c)) % 256 BY <1>3
  <2> QED BY <1>2, <1>4, <2>1 DEF Byte
<1>6. (t[2] + 0 + ((t[1] + 1) \div 256)) % 256 = b
  <2> DEFINE x == (a + c) \div 256
             y == (p + (255 - c)) \div 256
             z == (t[1] + 1) \div 256
  <2>1. t[1] = (p + (255 - c)) % 256 /\ t[2] = (q + (255 - d) + y) % 256 BY <1>3
  <2>2. CASE a + c < 256
    <3>1. x = 0 /\ p = a + c BY <1>2, <1>4, <2>2 DEF Byte
    <3> QED BY <1>2, <1>4, <2>1, <3>1 DEF Byte
  <2>3. CASE a + c > 255
    <3>1. x = 1 /\ p = a + c - 256 BY <1>2, <1>4, <2>3 DEF Byte
    <3> QED BY <1>2, <1>4, <2>1, <3>1 DEF Byte
  <2> QED BY <1>2, <2>2, <2>3 DEF Byte
<1>7. Sub(w, v) = u BY <1>3, <1>5, <1>6 DEF Bytes, a, b
<1> QED BY <1>7, SubOfTwo DEF w

\* A byte of a word that is turned left by k bits, where p is 2^k and q is 2^(8 - k): x is
\* the byte that was there, y the one below it.
TurnBy(x, y, p, q) == ((x * p) % 256) + (y \div q)
Turn(x, y, k) == TurnBy(x, y, 2 ^ k, 2 ^ (8 - k))

\* The bits that are kept of both fit into a byte, and a byte comes back when the word is
\* turned on until it has been turned by eight bits.
LEMMA TurnedBack ==
    ASSUME NEW p \in {2, 4, 8, 16, 32, 64, 128}, NEW q \in {2, 4, 8, 16, 32, 64, 128}, p * q = 256,
           NEW x \in Byte, NEW y \in Byte
    PROVE  /\ TurnBy(x, y, p, q) \in Byte
           /\ TurnBy(TurnBy(y, x, p, q), TurnBy(x, y, p, q), q, p) = x
<1>1. PICK h \in 0 .. p - 1, l \in 0 .. q - 1 : x = h * q + l
  <2> DEFINE hi == x \div q
             lo == x % q
  <2>1. hi \in 0 .. p - 1 /\ lo \in 0 .. q - 1 /\ x = hi * q + lo BY DEF Byte
  <2> HIDE DEF hi, lo
  <2> QED BY <2>1
<1>2. PICK g \in 0 .. p - 1, m \in 0 .. q - 1 : y = g * q + m
  <2> DEFINE hi == y \div q
             lo == y % q
  <2>1. hi \in 0 .. p - 1 /\ lo \in 0 .. q - 1 /\ y = hi * q + lo BY DEF Byte
  <2> HIDE DEF hi, lo
  <2> QED BY <2>1
<1>3. x \div q = h /\ y \div q = g /\ (x * p) % 256 = l * p /\ (y * p) % 256 = m * p
  BY <1>1, <1>2
<1>4. l * p + g \in Byte /\ ((m * p + h) * q) % 256 = h * q /\ (l * p + g) \div p = l
  BY <1>1, <1>2 DEF Byte
<1>5. TurnBy(x, y, p, q) = l * p + g /\ TurnBy(y, x, p, q) = m * p + h BY <1>3 DEF TurnBy
<1>6. TurnBy(m * p + h, l * p + g, q, p) = x BY <1>1, <1>4 DEF TurnBy
<1> QED BY <1>4, <1>5, <1>6

\* A turned byte is a byte; turned on by the rest of a byte, they come back.
LEMMA TurnBack ==
    ASSUME NEW k \in 1 .. 7, NEW x \in Byte, NEW y \in Byte
    PROVE  Turn(x, y, k) \in Byte /\ Turn(Turn(y, x, k), Turn(x, y, k), 8 - k) = x
<1>1. ASSUME NEW p \in {2, 4, 8, 16, 32, 64, 128}, NEW q \in {2, 4, 8, 16, 32, 64, 128},
             p * q = 256, p = 2 ^ k, q = 2 ^ (8 - k), p = 2 ^ (8 - (8 - k))
      PROVE  Turn(x, y, k) \in Byte /\ Turn(Turn(y, x, k), Turn(x, y, k), 8 - k) = x
  <2>1. \A v, w : Turn(v, w, k) = TurnBy(v, w, p, q) /\ Turn(v, w, 8 - k) = TurnBy(v, w, q, p)
    BY <1>1 DEF Turn
  <2> QED BY <1>1, <2>1, TurnedBack
<1>2. CASE k = 1
  <2>1. 2 ^ k = 2 /\ 2 ^ (8 - k) = 128 /\ 2 ^ (8 - (8 - k)) = 2 BY <1>2
  <2> QED BY <1>1, <2>1
<1>3. CASE k = 2
  <2>1. 2 ^ k = 4 /\ 2 ^ (8 - k) = 64 /\ 2 ^ (8 - (8 - k)) = 4 BY <1>3
  <2> QED BY <1>1, <2>1
<1>4. CASE k = 3
  <2>1. 2 ^ k = 8 /\ 2 ^ (8 - k) = 32 /\ 2 ^ (8 - (8 - k)) = 8 BY <1>4
  <2> QED BY <1>1, <2>1
<1>5. CASE k = 4
  <2>1. 2 ^ k = 16 /\ 2 ^ (8 - k) = 16 /\ 2 ^ (8 - (8 - k)) = 16 BY <1>5
  <2> QED BY <1>1, <2>1
<1>6. CASE k = 5
  <2>1. 2 ^ k = 32 /\ 2 ^ (8 - k) = 8 /\ 2 ^ (8 - (8 - k)) = 32 BY <1>6
  <2> QED BY <1>1, <2>1
<1>7. CASE k = 6
  <2>1. 2 ^ k = 64 /\ 2 ^ (8 - k) = 4 /\ 2 ^ (8 - (8 - k)) = 64 BY <1>7
  <2> QED BY <1>1, <2>1
<1>8. CASE k = 7
  <2>1. 2 ^ k = 128 /\ 2 ^ (8 - k) = 2 /\ 2 ^ (8 - (8 - k)) = 128 BY <1>8
  <2> QED BY <1>1, <2>1
<1> QED BY <1>2, <1>3, <1>4, <1>5, <1>6, <1>7, <1>8

\* The byte that comes to place i when all are moved by m.
MovedTo(u, n, m, i) == u[((i - 1 - m) % n) + 1]

\* It is one of the bytes of the word.
LEMMA MovedType ==
    ASSUME NEW n \in {2, 4, 16}, NEW u \in Bytes(n), NEW m \in Int, NEW i \in Int
    PROVE  MovedTo(u, n, m, i) \in Byte
<1>1. ((i - 1 - m) % n) + 1 \in 1 .. n OBVIOUS
<1> QED BY <1>1 DEF MovedTo, Bytes

\* Rol by s \div 8 bytes and s % 8 bits: each byte takes its bits from two.
LEMMA RolEach ==
    ASSUME NEW n \in {2, 4, 16}, NEW u \in Bytes(n), NEW s \in Nat, s % 8 # 0
    PROVE  /\ Rol(u, s) \in Bytes(n)
           /\ \A i \in 1 .. n :
                  Rol(u, s)[i] = Turn(MovedTo(u, n, s \div 8, i), MovedTo(u, n, s \div 8, i - 1), s % 8)
<1> DEFINE w == [i \in 1 .. n |->
                    Turn(MovedTo(u, n, s \div 8, i), MovedTo(u, n, s \div 8, i - 1), s % 8)]
<1>1. Rol(u, s) = Strict(w) BY BytesAreSequences DEF Rol, Turn, TurnBy, MovedTo
<1>2. s % 8 \in 1 .. 7 /\ s \div 8 \in Int OBVIOUS
<1>3. ASSUME NEW i \in 1 .. n
      PROVE  Turn(MovedTo(u, n, s \div 8, i), MovedTo(u, n, s \div 8, i - 1), s % 8) \in Byte
  <2>1. MovedTo(u, n, s \div 8, i) \in Byte /\ MovedTo(u, n, s \div 8, i - 1) \in Byte
    BY <1>2, MovedType
  <2> QED BY <1>2, <2>1, TurnBack
<1>4. w \in [1 .. n -> Byte] BY <1>3
<1>5. \A i \in 1 .. n : w[i] = Turn(MovedTo(u, n, s \div 8, i), MovedTo(u, n, s \div 8, i - 1), s % 8)
  OBVIOUS
<1> HIDE DEF w
<1>6. Strict(w) = w
  <2>1. n \in Nat OBVIOUS
  <2> QED BY ONLY <1>4, <2>1, StrictSame
<1> QED BY <1>1, <1>4, <1>5, <1>6 DEF Bytes

\* The two bytes of a word, when they are moved by nothing and by one.
LEMMA MovedOfTwo ==
    ASSUME NEW u \in Bytes(2)
    PROVE  /\ MovedTo(u, 2, 0, 0) = u[2] /\ MovedTo(u, 2, 0, 1) = u[1] /\ MovedTo(u, 2, 0, 2) = u[2]
           /\ MovedTo(u, 2, 1, 0) = u[1] /\ MovedTo(u, 2, 1, 1) = u[2] /\ MovedTo(u, 2, 1, 2) = u[1]
<1>1. ASSUME NEW m \in Int, NEW i \in Int
      PROVE  /\ i - m \in {0, 2} => MovedTo(u, 2, m, i) = u[2]
             /\ i - m \in {-1, 1} => MovedTo(u, 2, m, i) = u[1]
  <2> DEFINE z == i - 1 - m
             q == z \div 2
             r == z % 2
  <2>1. z \in Int /\ z = (i - m) - 1 OBVIOUS
  <2> HIDE DEF z
  <2>2. q \in Int /\ r \in {0, 1} /\ z = 2 * q + r BY <2>1
  <2>3. MovedTo(u, 2, m, i) = u[r + 1] BY DEF MovedTo, z
  <2> HIDE DEF q, r
  <2>4. i - m \in {0, 2} => r = 1 BY <2>1, <2>2
  <2>5. i - m \in {-1, 1} => r = 0 BY <2>1, <2>2
  <2> QED BY <2>3, <2>4, <2>5
<1> QED BY <1>1

\* A word of two bytes that has been turned by s bits comes back after 16 - s more.
LEMMA RolBack ==
    ASSUME NEW u \in Bytes(2), NEW s \in 1 .. 7
    PROVE  Rol(u, s) \in Bytes(2) /\ Rol(Rol(u, s), 16 - s) = u
<1> DEFINE w == Rol(u, s)
           t == 16 - s
           v == Rol(w, t)
<1>1. s % 8 = s /\ s \div 8 = 0 /\ t % 8 = 8 - s /\ t \div 8 = 1 /\ t \in Nat /\ s \in Nat
      /\ t % 8 # 0 /\ s % 8 # 0
  OBVIOUS
<1>2. w \in Bytes(2) /\ \A i \in 1 .. 2 : w[i] = Turn(MovedTo(u, 2, 0, i), MovedTo(u, 2, 0, i - 1), s)
  <2>1. w \in Bytes(2) /\ \A i \in 1 .. 2 :
            w[i] = Turn(MovedTo(u, 2, s \div 8, i), MovedTo(u, 2, s \div 8, i - 1), s % 8)
    BY <1>1, RolEach
  <2> HIDE DEF w
  <2> QED BY <1>1, <2>1
<1> HIDE DEF w, t
<1>3. v \in Bytes(2) /\ \A i \in 1 .. 2 : v[i] = Turn(MovedTo(w, 2, 1, i), MovedTo(w, 2, 1, i - 1), 8 - s)
  <2>1. v \in Bytes(2) /\ \A i \in 1 .. 2 :
            v[i] = Turn(MovedTo(w, 2, t \div 8, i), MovedTo(w, 2, t \div 8, i - 1), t % 8)
    BY <1>1, <1>2, RolEach
  <2> HIDE DEF v
  <2> QED BY <1>1, <2>1
<1> HIDE DEF v
<1>4. 1 - 1 = 0 /\ 2 - 1 = 1 OBVIOUS
<1>5. w[1] = Turn(u[1], u[2], s) /\ w[2] = Turn(u[2], u[1], s) BY <1>2, <1>4, MovedOfTwo
<1>6. v[1] = Turn(w[2], w[1], 8 - s) /\ v[2] = Turn(w[1], w[2], 8 - s) BY <1>2, <1>3, <1>4, MovedOfTwo
<1>7. u[1] \in Byte /\ u[2] \in Byte BY DEF Bytes
<1>8. v[1] = u[1] /\ v[2] = u[2] BY <1>5, <1>6, <1>7, TurnBack
<1>9. v = u
  <2>1. \A i \in 1 .. 2 : v[i] = u[i] BY <1>8
  <2> QED BY <1>3, <2>1, BytesEqual
<1> QED BY <1>2, <1>9 DEF v, w, t

\* A ^ b is at most a + b, so what both have is a byte.
LEMMA AndByte ==
    ASSUME NEW a \in Byte, NEW b \in Byte
    PROVE  (a + b - XorByte(a, b)) \div 2 \in Byte
<1> DEFINE x == XorByte(a, b)
           A == [k \in 0 .. 7 |-> BitOf(a, k)]
           B == [k \in 0 .. 7 |-> BitOf(b, k)]
           C == [k \in 0 .. 7 |-> BitOf(x, k)]
<1>1. x \in Byte /\ \A k \in 0 .. 7 : BitOf(x, k) = BitSum(BitOf(a, k), BitOf(b, k)) BY XorByteBits
<1> HIDE DEF x
<1>2. A \in [0 .. 7 -> Bit] /\ B \in [0 .. 7 -> Bit] /\ C \in [0 .. 7 -> Bit] BY <1>1, BitsAreBits
<1>3. a = FromBits(A) /\ b = FromBits(B) /\ x = FromBits(C) BY <1>1, SumOfBits
<1>4. ASSUME NEW k \in 0 .. 7 PROVE C[k] <= A[k] + B[k]
  <2>1. \A y, z \in Bit : BitSum(y, z) <= y + z BY DEF Bit, BitSum
  <2>2. C[k] = BitSum(A[k], B[k]) BY <1>1
  <2> HIDE DEF A, B, C
  <2> QED BY <1>2, <2>1, <2>2
<1> HIDE DEF A, B, C
<1>5. x <= a + b
  <2>1. /\ C[0] <= A[0] + B[0] /\ C[1] <= A[1] + B[1] /\ C[2] <= A[2] + B[2] /\ C[3] <= A[3] + B[3]
        /\ C[4] <= A[4] + B[4] /\ C[5] <= A[5] + B[5] /\ C[6] <= A[6] + B[6] /\ C[7] <= A[7] + B[7]
    BY <1>4
  <2>2. \A k \in 0 .. 7 : A[k] \in Int /\ B[k] \in Int /\ C[k] \in Int BY <1>2 DEF Bit
  <2> QED BY <1>3, <2>1, <2>2 DEF FromBits
<1>6. (a + b - x) \div 2 \in Byte BY <1>1, <1>5 DEF Byte
<1> QED BY <1>6 DEF x

\* And and Not keep the length.
LEMMA AndNotType ==
    ASSUME NEW n \in Nat, NEW u \in Bytes(n), NEW v \in Bytes(n)
    PROVE  And(u, v) \in Bytes(n) /\ Not(u) \in Bytes(n)
<1> DEFINE w == [i \in 1 .. n |-> (u[i] + v[i] - XorByte(u[i], v[i])) \div 2]
           x == [i \in 1 .. n |-> 255 - u[i]]
<1>1. And(u, v) = Strict(w) /\ Not(u) = Strict(x) BY BytesAreSequences DEF And, Not
<1>2. w \in [1 .. n -> Byte] BY AndByte DEF Bytes
<1>3. x \in [1 .. n -> Byte]
  <2>1. \A a \in Byte : 255 - a \in Byte BY DEF Byte
  <2> QED BY <2>1 DEF Bytes
<1> HIDE DEF w, x
<1>4. Strict(w) = w /\ Strict(x) = x BY <1>2, <1>3, StrictSame
<1> QED BY <1>1, <1>2, <1>3, <1>4 DEF Bytes

-----------------------------------------------------------------------------
(***************************************************************************)
(* Parts of strings, and the words of a block.                             *)
(***************************************************************************)

\* A part of a string.
LEMMA SubBytes ==
    ASSUME NEW n \in Nat, NEW u \in Bytes(n), NEW a \in 1 .. n + 1, NEW b \in a - 1 .. n
    PROVE  /\ SubSeq(u, a, b) \in Bytes(b - a + 1)
           /\ \A j \in 1 .. b - a + 1 : SubSeq(u, a, b)[j] = u[a + j - 1]
<1>1. u \in Seq(Byte) /\ Len(u) = n BY BytesAreSequences
<1>2. SubSeq(u, a, b) = [j \in 1 .. b - a + 1 |-> u[a + j - 1]] BY <1>1
<1>3. \A j \in 1 .. b - a + 1 : a + j - 1 \in 1 .. n OBVIOUS
<1> QED BY <1>2, <1>3 DEF Bytes

\* Two strings in a row.
LEMMA ConcatBytes ==
    ASSUME NEW m \in Nat, NEW n \in Nat, NEW u \in Bytes(m), NEW v \in Bytes(n)
    PROVE  /\ u \o v \in Bytes(m + n)
           /\ \A i \in 1 .. m : (u \o v)[i] = u[i]
           /\ \A i \in 1 .. n : (u \o v)[m + i] = v[i]
<1>1. u \in Seq(Byte) /\ Len(u) = m /\ v \in Seq(Byte) /\ Len(v) = n BY BytesAreSequences
<1>2. u \o v \in Seq(Byte) /\ Len(u \o v) = m + n BY <1>1
<1>3. u \o v \in Bytes(m + n) BY <1>2, SequencesAreBytes
<1>4. \A i \in 1 .. m : (u \o v)[i] = u[i] BY <1>1
<1>5. \A i \in 1 .. n : (u \o v)[m + i] = v[i] BY <1>1
<1> QED BY <1>3, <1>4, <1>5

\* The m words of a block.
LEMMA WordsEach ==
    ASSUME NEW size \in {2, 4, 16}, NEW m \in Nat, NEW u \in Bytes(m * size)
    PROVE  /\ Words(u, size) \in [1 .. m -> Bytes(size)]
           /\ \A i \in 1 .. m, j \in 1 .. size : Words(u, size)[i][j] = u[(i - 1) * size + j]
<1> DEFINE word(i) == SubSeq(u, (i - 1) * size + 1, i * size)
           w == [i \in 1 .. m |-> word(i)]
<1>1. m * size \in Nat /\ (m * size) \div size = m OBVIOUS
<1>2. Words(u, size) = Strict(w) BY <1>1, BytesAreSequences DEF Words
<1>3. ASSUME NEW i \in 1 .. m
      PROVE  word(i) \in Bytes(size) /\ \A j \in 1 .. size : word(i)[j] = u[(i - 1) * size + j]
  <2> DEFINE a == (i - 1) * size + 1
             b == i * size
  <2>1. a \in 1 .. m * size + 1 /\ b \in a - 1 .. m * size /\ b - a + 1 = size OBVIOUS
  <2>2. \A j \in 1 .. size : a + j - 1 = (i - 1) * size + j OBVIOUS
  <2> HIDE DEF a, b
  <2>3. SubSeq(u, a, b) \in Bytes(size) /\ \A j \in 1 .. size : SubSeq(u, a, b)[j] = u[a + j - 1]
    BY <1>1, <2>1, SubBytes
  <2> QED BY <2>2, <2>3 DEF a, b
<1>4. w \in [1 .. m -> Bytes(size)] /\ \A i \in 1 .. m : w[i] = word(i) BY <1>3
<1> HIDE DEF w
<1>5. Strict(w) = w BY <1>4, StrictSame
<1> QED BY <1>2, <1>3, <1>4, <1>5

-----------------------------------------------------------------------------
(***************************************************************************)
(* GOST 28147-89: the round of decryption takes that of encryption back.   *)
(***************************************************************************)

Nibble == 0 .. 15
SBoxes == [1 .. 8 -> [1 .. 16 -> Nibble]]
Halves == [1 .. 2 -> Bytes(4)]
GostKeys == [1 .. 8 -> Bytes(4)]

\* The halves, with their places changed.
Swapped(n) == <<n[2], n[1]>>

\* The substitution of a word is a word.
LEMMA SubstType ==
    ASSUME NEW sbox \in SBoxes, NEW v \in Bytes(4)
    PROVE  subst(sbox, v) \in Bytes(4)
<1> DEFINE w == [b \in 1 .. 4 |-> sbox[10 - 2 * b][(v[b] % 16) + 1]
                                  + 16 * sbox[9 - 2 * b][v[b] \div 16 + 1]]
<1>1. ASSUME NEW b \in 1 .. 4
      PROVE  sbox[10 - 2 * b][(v[b] % 16) + 1] + 16 * sbox[9 - 2 * b][v[b] \div 16 + 1] \in Byte
  <2>1. 10 - 2 * b \in 1 .. 8 /\ 9 - 2 * b \in 1 .. 8 OBVIOUS
  <2>2. (v[b] % 16) + 1 \in 1 .. 16 /\ v[b] \div 16 + 1 \in 1 .. 16
    <3>1. \A x \in Byte : (x % 16) + 1 \in 1 .. 16 /\ x \div 16 + 1 \in 1 .. 16 BY DEF Byte
    <3> QED BY <3>1 DEF Bytes
  <2>3. sbox[10 - 2 * b][(v[b] % 16) + 1] \in Nibble /\ sbox[9 - 2 * b][v[b] \div 16 + 1] \in Nibble
    BY <2>1, <2>2 DEF SBoxes
  <2>4. \A x, y \in Nibble : x + 16 * y \in Byte BY DEF Nibble, Byte
  <2> QED BY <2>3, <2>4
<1>2. w \in Bytes(4) BY <1>1 DEF Bytes
<1>3. subst(sbox, v) = Rol(w, 11) BY DEF subst
<1>4. 11 \in Nat /\ 11 % 8 # 0 OBVIOUS
<1> HIDE DEF w
<1> QED BY <1>2, <1>3, <1>4, RolEach

\* The keys of a decryption are those of the encryption in the reverse order.
LEMMA KeysReversed ==
    ASSUME NEW r \in 0 .. 31
    PROVE  /\ KeyOfRound("decrypt", r) = KeyOfRound("encrypt", 31 - r)
           /\ KeyOfRound("encrypt", r) + 1 \in 1 .. 8
           /\ (31 - r) % 2 = 1 - (r % 2)
<1>1. KeyOfRound("decrypt", r) = IF r < 8 THEN r ELSE 7 - (r % 8) BY DEF KeyOfRound
<1>2. KeyOfRound("encrypt", r) = IF r < 24 THEN r % 8 ELSE 7 - (r % 8) BY DEF KeyOfRound
<1>3. KeyOfRound("encrypt", 31 - r) = IF 31 - r < 24 THEN (31 - r) % 8 ELSE 7 - ((31 - r) % 8)
  BY DEF KeyOfRound
<1>4. (IF r < 8 THEN r ELSE 7 - (r % 8)) = IF 31 - r < 24 THEN (31 - r) % 8 ELSE 7 - ((31 - r) % 8)
  OBVIOUS
<1>5. (IF r < 24 THEN r % 8 ELSE 7 - (r % 8)) + 1 \in 1 .. 8 OBVIOUS
<1>6. (31 - r) % 2 = 1 - (r % 2) OBVIOUS
<1> QED BY <1>1, <1>2, <1>3, <1>4, <1>5, <1>6

\* A round of encryption has halves as its result.
LEMMA RoundType ==
    ASSUME NEW sbox \in SBoxes, NEW key \in GostKeys, NEW r \in 0 .. 31, NEW n \in Halves
    PROVE  Round(sbox, key, "encrypt", r, n) \in Halves
<1> DEFINE k == key[KeyOfRound("encrypt", r) + 1]
<1>1. n[1] \in Bytes(4) /\ n[2] \in Bytes(4) /\ k \in Bytes(4) BY KeysReversed DEF Halves, GostKeys
<1> HIDE DEF k
<1>2. \A u, v \in Bytes(4) : Xor(u, subst(sbox, Add(v, k))) \in Bytes(4)
  BY <1>1, SubstType, AddType, XorGroup
<1>3. Round(sbox, key, "encrypt", r, n) =
          IF r % 2 = 1 THEN <<Xor(n[1], subst(sbox, Add(n[2], k))), n[2]>>
          ELSE <<n[1], Xor(n[2], subst(sbox, Add(n[1], k)))>>
  BY DEF Round, k
<1>4. \A u, v \in Bytes(4) : <<u, v>> \in Halves BY DEF Halves
<1> QED BY <1>1, <1>2, <1>3, <1>4

\* Round r of a decryption takes round 31 - r of the encryption back, on halves whose
\* places have changed.
LEMMA RoundBack ==
    ASSUME NEW sbox \in SBoxes, NEW key \in GostKeys, NEW r \in 0 .. 31, NEW n \in Halves
    PROVE  Round(sbox, key, "decrypt", r, Swapped(Round(sbox, key, "encrypt", 31 - r, n))) = Swapped(n)
<1> DEFINE k == key[KeyOfRound("encrypt", 31 - r) + 1]
           a == n[1]
           b == n[2]
           f(x) == subst(sbox, Add(x, k))
           m == Round(sbox, key, "encrypt", 31 - r, n)
<1>1. 31 - r \in 0 .. 31 OBVIOUS
<1>2. a \in Bytes(4) /\ b \in Bytes(4) /\ k \in Bytes(4) BY <1>1, KeysReversed DEF Halves, GostKeys
<1>3. m = IF (31 - r) % 2 = 1 THEN <<Xor(a, f(b)), b>> ELSE <<a, Xor(b, f(a))>> BY DEF Round
<1>4. \A x : Round(sbox, key, "decrypt", r, x) =
                 IF r % 2 = 1 THEN <<Xor(x[1], f(x[2])), x[2]>> ELSE <<x[1], Xor(x[2], f(x[1]))>>
  BY KeysReversed DEF Round
<1>5. \A x \in Bytes(4) : f(x) \in Bytes(4)
  <2> HIDE DEF k
  <2> QED BY <1>2, SubstType, AddType
<1> HIDE DEF k, f, m
<1>6. Xor(Xor(a, f(b)), f(b)) = a /\ Xor(Xor(b, f(a)), f(a)) = b BY <1>2, <1>5, XorTwice
<1>7. Swapped(n) = <<b, a>> BY DEF Swapped
<1> HIDE DEF a, b
<1>8. CASE r % 2 = 1
  <2>1. (31 - r) % 2 = 0 BY <1>8, KeysReversed
  <2>2. Swapped(m) = <<Xor(b, f(a)), a>> BY <1>3, <2>1 DEF Swapped
  <2>3. Round(sbox, key, "decrypt", r, Swapped(m)) = <<Xor(Xor(b, f(a)), f(a)), a>>
    BY <1>4, <1>8, <2>2
  <2> QED BY <1>6, <1>7, <2>3 DEF m
<1>9. CASE r % 2 # 1
  <2>1. (31 - r) % 2 = 1 BY <1>9, KeysReversed
  <2>2. Swapped(m) = <<b, Xor(a, f(b))>> BY <1>3, <2>1 DEF Swapped
  <2>3. Round(sbox, key, "decrypt", r, Swapped(m)) = <<b, Xor(Xor(a, f(b)), f(b))>>
    BY <1>4, <1>9, <2>2
  <2> QED BY <1>6, <1>7, <2>3 DEF m
<1> QED BY <1>8, <1>9

-----------------------------------------------------------------------------
(***************************************************************************)
(* RC2: a round and a mashing, and what takes them back.                   *)
(***************************************************************************)

Rc2Blocks == [1 .. 4 -> Bytes(2)]
Rc2Keys == [1 .. 64 -> Bytes(2)]

\* The sum of words of two bytes is that of their numbers, without what is carried out.
LEMMA AddNumbers ==
    ASSUME NEW u \in Bytes(2), NEW v \in Bytes(2)
    PROVE  Number(Add(u, v)) = (Number(u) + Number(v)) % 65536
<1> DEFINE w == Add(u, v)
           a == u[1]
           b == u[2]
           c == v[1]
           d == v[2]
           p == w[1]
           q == w[2]
<1>1. w \in Bytes(2) /\ p = (a + c) % 256 /\ q = (b + d + ((a + c) \div 256)) % 256
  BY AddType, AddOfTwo
<1> HIDE DEF w
<1>2. Number(w) = p + 256 * q /\ Number(u) = a + 256 * b /\ Number(v) = c + 256 * d
  <2>1. \A y \in Bytes(2) : Len(y) = 2 BY BytesAreSequences
  <2>2. Len(w) = 2 /\ Len(u) = 2 /\ Len(v) = 2 BY <1>1, <2>1
  <2> QED BY <2>2 DEF Number
<1>3. a \in Byte /\ b \in Byte /\ c \in Byte /\ d \in Byte BY DEF Bytes
<1> HIDE DEF a, b, c, d, p, q
<1>4. p + 256 * q = ((a + 256 * b) + (c + 256 * d)) % 65536
  <2>1. CASE a + c < 256
    <3>1. (a + c) \div 256 = 0 /\ p = a + c BY <1>1, <1>3, <2>1 DEF Byte
    <3> QED BY <1>1, <1>3, <2>1, <3>1 DEF Byte
  <2>2. CASE a + c > 255
    <3>1. (a + c) \div 256 = 1 /\ p = a + c - 256 BY <1>1, <1>3, <2>2 DEF Byte
    <3>2. q = (b + d + 1) % 256 BY <1>1, <3>1
    <3>3. CASE b + d + 1 < 256
      <4>1. q = b + d + 1 BY <1>3, <3>2, <3>3 DEF Byte
      <4> QED BY <1>3, <3>1, <3>3, <4>1 DEF Byte
    <3>4. CASE b + d + 1 > 255
      <4>1. q = b + d + 1 - 256 BY <1>3, <3>2, <3>4 DEF Byte
      <4> DEFINE s == (a + 256 * b) + (c + 256 * d)
      <4>2. s \in Nat /\ 65536 <= s /\ s < 131072 /\ p + 256 * q = s - 65536
        BY <1>3, <2>2, <3>1, <3>4, <4>1 DEF Byte
      <4> HIDE DEF s
      <4>3. s % 65536 = s - 65536 BY <4>2
      <4> QED BY <4>2, <4>3 DEF s
    <3> QED BY <1>3, <3>3, <3>4 DEF Byte
  <2> QED BY <1>3, <2>1, <2>2 DEF Byte
<1> QED BY <1>2, <1>4 DEF w

\* A word of two bytes is determined by its number.
LEMMA NumberDetermines ==
    ASSUME NEW u \in Bytes(2), NEW v \in Bytes(2), Number(u) = Number(v)
    PROVE  u = v /\ Number(u) \in Nat
<1> DEFINE a == u[1]
           b == u[2]
           c == v[1]
           d == v[2]
<1>1. Number(u) = a + 256 * b /\ Number(v) = c + 256 * d
  <2>1. Len(u) = 2 /\ Len(v) = 2 BY BytesAreSequences
  <2> QED BY <2>1 DEF Number
<1>2. a \in Byte /\ b \in Byte /\ c \in Byte /\ d \in Byte BY DEF Bytes
<1> HIDE DEF a, b, c, d
<1>3. a + 256 * b = c + 256 * d BY <1>1
<1>4. a = c /\ b = d /\ a + 256 * b \in Nat BY ONLY <1>2, <1>3 DEF Byte
<1>5. \A i \in 1 .. 2 : u[i] = v[i] BY <1>4 DEF a, b, c, d
<1>6. u = v BY <1>5, BytesEqual
<1> QED BY <1>1, <1>4, <1>6

\* The order of two words that are added is of no importance.
LEMMA AddSwap ==
    ASSUME NEW u \in Bytes(2), NEW v \in Bytes(2), NEW w \in Bytes(2)
    PROVE  Add(Add(u, v), w) = Add(Add(u, w), v)
<1> DEFINE p == Add(u, v)
           q == Add(u, w)
<1>1. p \in Bytes(2) /\ q \in Bytes(2) /\ Number(p) = (Number(u) + Number(v)) % 65536
      /\ Number(q) = (Number(u) + Number(w)) % 65536
  BY AddType, AddNumbers
<1> HIDE DEF p, q
<1>2. Add(p, w) \in Bytes(2) /\ Add(q, v) \in Bytes(2) BY <1>1, AddType
<1>3. Number(Add(p, w)) = (Number(p) + Number(w)) % 65536 BY <1>1, AddNumbers
<1>4. Number(Add(q, v)) = (Number(q) + Number(v)) % 65536 BY <1>1, AddNumbers
<1>5. Number(u) \in Nat /\ Number(v) \in Nat /\ Number(w) \in Nat BY NumberDetermines
<1>6. \A x, y, z \in Nat : (((x + y) % 65536) + z) % 65536 = (((x + z) % 65536) + y) % 65536 OBVIOUS
<1>7. Number(Add(p, w)) = Number(Add(q, v)) BY <1>1, <1>3, <1>4, <1>5, <1>6
<1>8. Add(p, w) = Add(q, v) BY <1>2, <1>7, NumberDetermines
<1> QED BY <1>8 DEF p, q

\* What is put into a block is there, and replaces what was put there before.
LEMMA PutEach ==
    ASSUME NEW x \in Rc2Blocks, NEW i \in 0 .. 3, NEW w \in Bytes(2)
    PROVE  /\ Put(x, i, w) \in Rc2Blocks
           /\ Put(x, i, w)[i + 1] = w
           /\ \A k \in 1 .. 4 : k # i + 1 => Put(x, i, w)[k] = x[k]
           /\ Put(Put(x, i, w), i, x[i + 1]) = x
<1>1. i + 1 \in 1 .. 4 OBVIOUS
<1>2. Put(x, i, w) \in Rc2Blocks /\ Put(x, i, w)[i + 1] = w BY <1>1 DEF Put, Rc2Blocks
<1>3. \A k \in 1 .. 4 : k # i + 1 => Put(x, i, w)[k] = x[k] BY <1>1 DEF Put, Rc2Blocks
<1>4. Put(Put(x, i, w), i, x[i + 1]) = x BY <1>1 DEF Put, Rc2Blocks
<1> QED BY <1>2, <1>3, <1>4

\* The choice among the other words of a block is a word, and so is the key that one
\* selects; neither depends on the word itself.
LEMMA OthersOnly ==
    ASSUME NEW x \in Rc2Blocks, NEW i \in 0 .. 3, NEW key \in Rc2Keys
    PROVE  /\ Chosen(x, i) \in Bytes(2) /\ Selected(x, i, key) \in Bytes(2)
           /\ \A w \in Bytes(2) : /\ Chosen(Put(x, i, w), i) = Chosen(x, i)
                                  /\ Selected(Put(x, i, w), i, key) = Selected(x, i, key)
<1>1. i + 1 \in 1 .. 4 /\ \A j \in 1 .. 3 : ((i + j) % 4) + 1 \in (1 .. 4) \ {i + 1} OBVIOUS
<1>2. \A y \in Rc2Blocks, j \in 1 .. 3 : y[((i + j) % 4) + 1] \in Bytes(2) BY <1>1 DEF Rc2Blocks
<1>3. ASSUME NEW y \in Rc2Blocks
      PROVE  /\ Chosen(y, i) = Add(And(y[((i + 1) % 4) + 1], Not(y[((i + 3) % 4) + 1])),
                                   And(y[((i + 2) % 4) + 1], y[((i + 3) % 4) + 1]))
             /\ Selected(y, i, key) = key[(y[((i + 3) % 4) + 1][1] % 64) + 1]
  BY DEF Chosen, Selected
<1>4. Chosen(x, i) \in Bytes(2)
  <2> DEFINE a == x[((i + 1) % 4) + 1]
             b == x[((i + 2) % 4) + 1]
             c == x[((i + 3) % 4) + 1]
  <2>1. a \in Bytes(2) /\ b \in Bytes(2) /\ c \in Bytes(2) BY <1>2
  <2> HIDE DEF a, b, c
  <2>2. And(a, Not(c)) \in Bytes(2) /\ And(b, c) \in Bytes(2) BY <2>1, AndNotType
  <2>3. Add(And(a, Not(c)), And(b, c)) \in Bytes(2) BY <2>2, AddType
  <2> QED BY <1>3, <2>3 DEF a, b, c
<1>5. Selected(x, i, key) \in Bytes(2)
  <2> DEFINE c == x[((i + 3) % 4) + 1][1]
  <2>1. c \in Byte BY <1>2 DEF Bytes
  <2> HIDE DEF c
  <2>2. (c % 64) + 1 \in 1 .. 64 BY <2>1 DEF Byte
  <2> QED BY <1>3, <2>2 DEF c, Rc2Keys
<1>6. ASSUME NEW w \in Bytes(2)
      PROVE  /\ Chosen(Put(x, i, w), i) = Chosen(x, i)
             /\ Selected(Put(x, i, w), i, key) = Selected(x, i, key)
  <2> DEFINE y == Put(x, i, w)
  <2>1. y \in Rc2Blocks BY PutEach
  <2>2. ASSUME NEW j \in 1 .. 3 PROVE y[((i + j) % 4) + 1] = x[((i + j) % 4) + 1]
    <3> DEFINE k == ((i + j) % 4) + 1
    <3>1. k \in 1 .. 4 /\ k # i + 1 BY <1>1
    <3> HIDE DEF k, y
    <3>2. y[k] = x[k] BY <3>1, PutEach DEF y
    <3> QED BY <3>2 DEF k
  <2> HIDE DEF y
  <2>3. Chosen(y, i) = Chosen(x, i) BY <1>3, <2>1, <2>2
  <2>4. Selected(y, i, key) = Selected(x, i, key) BY <1>3, <2>1, <2>2
  <2> QED BY <2>3, <2>4 DEF y
<1> QED BY <1>4, <1>5, <1>6

\* A word that has been mixed comes back.
LEMMA UnmixWordBack ==
    ASSUME NEW x \in Rc2Blocks, NEW i \in 0 .. 3, NEW k \in Bytes(2)
    PROVE  MixWord(x, i, k) \in Rc2Blocks /\ UnmixWord(MixWord(x, i, k), i, k) = x
<1> DEFINE c == Chosen(x, i)
           s == Shifts[i + 1]
           u == x[i + 1]
           p == Add(Add(u, c), k)
           w == Rol(p, s)
           y == Put(x, i, w)
<1>1. s \in 1 .. 7
  <2>1. i \in {0, 1, 2, 3} OBVIOUS
  <2>2. Shifts[1] = 1 /\ Shifts[2] = 2 /\ Shifts[3] = 3 /\ Shifts[4] = 5 BY DEF Shifts
  <2>3. 0 + 1 = 1 /\ 1 + 1 = 2 /\ 2 + 1 = 3 /\ 3 + 1 = 4 OBVIOUS
  <2> QED BY <2>1, <2>2, <2>3
<1>2. u \in Bytes(2) /\ c \in Bytes(2)
  <2>1. i + 1 \in 1 .. 4 OBVIOUS
  <2>2. [j \in 1 .. 64 |-> Zeros(2)] \in Rc2Keys BY ZerosBytes DEF Rc2Keys
  <2> QED BY <2>1, <2>2, OthersOnly DEF Rc2Blocks
<1>3. MixWord(x, i, k) = y BY DEF MixWord
<1>4. UnmixWord(y, i, k) = Put(y, i, Sub(Sub(Rol(y[i + 1], 16 - s), Chosen(y, i)), k)) BY DEF UnmixWord
<1> HIDE DEF c, s, u
<1>5. p \in Bytes(2) /\ Sub(Sub(p, c), k) = u
  <2>1. Add(u, c) \in Bytes(2) /\ Add(u, k) \in Bytes(2) BY <1>2, AddType
  <2>2. p = Add(Add(u, k), c) BY <1>2, AddSwap
  <2>3. Sub(p, c) = Add(u, k) BY <1>2, <2>1, <2>2, SubTakesBack
  <2> QED BY <1>2, <2>1, <2>3, SubTakesBack, AddType
<1> HIDE DEF p
<1>6. w \in Bytes(2) /\ Rol(w, 16 - s) = p BY <1>1, <1>5, RolBack
<1> HIDE DEF w
<1>7. /\ y \in Rc2Blocks /\ y[i + 1] = w /\ Chosen(y, i) = c /\ Put(y, i, u) = x
  <2>1. [j \in 1 .. 64 |-> Zeros(2)] \in Rc2Keys BY ZerosBytes DEF Rc2Keys
  <2>2. Chosen(y, i) = c BY <1>6, <2>1, OthersOnly DEF c
  <2> QED BY <1>6, <2>2, PutEach DEF u
<1> HIDE DEF y
<1>8. UnmixWord(y, i, k) = x BY <1>4, <1>5, <1>6, <1>7
<1> QED BY <1>3, <1>7, <1>8

\* A word that has been mashed comes back.
LEMMA UnmashWordBack ==
    ASSUME NEW x \in Rc2Blocks, NEW i \in 0 .. 3, NEW key \in Rc2Keys
    PROVE  MashWord(x, i, key) \in Rc2Blocks /\ UnmashWord(MashWord(x, i, key), i, key) = x
<1> DEFINE k == Selected(x, i, key)
           u == x[i + 1]
           w == Add(u, k)
           y == Put(x, i, w)
<1>1. u \in Bytes(2) /\ k \in Bytes(2)
  <2>1. i + 1 \in 1 .. 4 OBVIOUS
  <2> QED BY <2>1, OthersOnly DEF Rc2Blocks
<1>2. MashWord(x, i, key) = y BY DEF MashWord
<1>3. UnmashWord(y, i, key) = Put(y, i, Sub(y[i + 1], Selected(y, i, key))) BY DEF UnmashWord
<1> HIDE DEF k, u
<1>4. w \in Bytes(2) /\ Sub(w, k) = u BY <1>1, AddType, SubTakesBack
<1> HIDE DEF w
<1>5. /\ y \in Rc2Blocks /\ y[i + 1] = w /\ Selected(y, i, key) = k /\ Put(y, i, u) = x
  <2>1. Selected(y, i, key) = k BY <1>4, OthersOnly DEF k
  <2> QED BY <1>4, <2>1, PutEach DEF u
<1> HIDE DEF y
<1>6. UnmashWord(y, i, key) = x BY <1>3, <1>4, <1>5
<1> QED BY <1>2, <1>5, <1>6

\* A round and a mashing work on all four words, and what takes them back goes through
\* the words in the other direction.
LEMMA MixBack ==
    ASSUME NEW x \in Rc2Blocks, NEW key \in Rc2Keys, NEW r \in 0 .. 15
    PROVE  Mix(x, key, r) \in Rc2Blocks /\ Unmix(Mix(x, key, r), key, r) = x
<1> DEFINE k1 == key[4 * r + 1]
           k2 == key[4 * r + 2]
           k3 == key[4 * r + 3]
           k4 == key[4 * r + 4]
           a == MixWord(x, 0, k1)
           b == MixWord(a, 1, k2)
           c == MixWord(b, 2, k3)
           d == MixWord(c, 3, k4)
<1>1. k1 \in Bytes(2) /\ k2 \in Bytes(2) /\ k3 \in Bytes(2) /\ k4 \in Bytes(2) BY DEF Rc2Keys
<1>2. Mix(x, key, r) = d BY DEF Mix
<1>3. \A y : Unmix(y, key, r) = UnmixWord(UnmixWord(UnmixWord(UnmixWord(y, 3, k4), 2, k3), 1, k2), 0, k1)
  BY DEF Unmix
<1> HIDE DEF k1, k2, k3, k4
<1>4. a \in Rc2Blocks /\ UnmixWord(a, 0, k1) = x BY <1>1, UnmixWordBack
<1> HIDE DEF a
<1>5. b \in Rc2Blocks /\ UnmixWord(b, 1, k2) = a BY <1>1, <1>4, UnmixWordBack
<1> HIDE DEF b
<1>6. c \in Rc2Blocks /\ UnmixWord(c, 2, k3) = b BY <1>1, <1>5, UnmixWordBack
<1> HIDE DEF c
<1>7. d \in Rc2Blocks /\ UnmixWord(d, 3, k4) = c BY <1>1, <1>6, UnmixWordBack
<1> HIDE DEF d
<1> QED BY <1>2, <1>3, <1>4, <1>5, <1>6, <1>7

\* The same of the mashing.
LEMMA MashBack ==
    ASSUME NEW x \in Rc2Blocks, NEW key \in Rc2Keys
    PROVE  Mash(x, key) \in Rc2Blocks /\ Unmash(Mash(x, key), key) = x
<1> DEFINE a == MashWord(x, 0, key)
           b == MashWord(a, 1, key)
           c == MashWord(b, 2, key)
           d == MashWord(c, 3, key)
<1>1. Mash(x, key) = d BY DEF Mash
<1>2. \A y : Unmash(y, key) = UnmashWord(UnmashWord(UnmashWord(UnmashWord(y, 3, key), 2, key), 1, key), 0, key)
  BY DEF Unmash
<1>3. a \in Rc2Blocks /\ UnmashWord(a, 0, key) = x BY UnmashWordBack
<1> HIDE DEF a
<1>4. b \in Rc2Blocks /\ UnmashWord(b, 1, key) = a BY <1>3, UnmashWordBack
<1> HIDE DEF b
<1>5. c \in Rc2Blocks /\ UnmashWord(c, 2, key) = b BY <1>4, UnmashWordBack
<1> HIDE DEF c
<1>6. d \in Rc2Blocks /\ UnmashWord(d, 3, key) = c BY <1>5, UnmashWordBack
<1> HIDE DEF d
<1> QED BY <1>1, <1>2, <1>3, <1>4, <1>5, <1>6

-----------------------------------------------------------------------------
(***************************************************************************)
(* Kuznyechik: the linear map, its inverse and the substitutions.          *)
(***************************************************************************)

Blocks == Bytes(16)
Rows == [1 .. 16 -> Blocks]

\* The entries of the rows, whose products with sums are sums.
Entries == {c \in Byte : /\ Multiples[c + 1] \in [1 .. 256 -> Byte]
                         /\ \A a, b \in Byte : Multiples[c + 1][XorByte(a, b) + 1]
                                = XorByte(Multiples[c + 1][a + 1], Multiples[c + 1][b + 1])}

\* The rows of both maps have such entries.
LEMMA RowsType ==
    /\ \A i \in 1 .. 16 : Columns[i] \in [1 .. 16 -> Entries]
    /\ \A i \in 1 .. 16 : ColumnsInv[i] \in [1 .. 16 -> Entries]
<1>1. BlockSize = 16 BY DEF BlockSize
<1>2. \A i \in 1 .. 16 : Columns[i] \in [1 .. 16 -> Byte]
  <2>1. Columns \in [1 .. BlockSize -> [1 .. BlockSize -> Byte]] BY TablesAssumption
  <2> QED BY <1>1, <2>1
<1>3. ASSUME NEW i \in 1 .. 16, NEW j \in 1 .. 16 PROVE Columns[i][j] \in Entries
  <2> DEFINE c == Columns[i][j]
  <2>1. \A d \in Byte : (\E k, l \in 1 .. BlockSize : Columns[k][l] = d) =>
            /\ Multiples[d + 1] \in [1 .. 256 -> Byte]
            /\ \A a, b \in Byte : Multiples[d + 1][XorByte(a, b) + 1]
                  = XorByte(Multiples[d + 1][a + 1], Multiples[d + 1][b + 1])
    BY TablesAssumption, Zenon
  <2>2. \E k, l \in 1 .. BlockSize : Columns[k][l] = c BY <1>1
  <2>3. c \in Byte BY <1>2
  <2> HIDE DEF c
  <2>4. c \in Entries BY <2>1, <2>2, <2>3 DEF Entries
  <2> QED BY <2>4 DEF c
<1>4. ASSUME NEW i \in 1 .. 16 PROVE Columns[i] \in [1 .. 16 -> Entries] BY <1>2, <1>3
<1>5. ASSUME NEW i \in 1 .. 16 PROVE ColumnsInv[i] \in [1 .. 16 -> Entries]
  <2> DEFINE u == Columns[17 - i]
             w == [j \in 1 .. 16 |-> u[17 - j]]
  <2>1. 17 - i \in 1 .. 16 /\ 16 + 1 - i = 17 - i OBVIOUS
  <2>2. u \in [1 .. 16 -> Entries] /\ u \in Bytes(16) BY <1>2, <1>4, <2>1 DEF Bytes
  <2>3. ColumnsInv[i] = Reversed(u) BY <2>1 DEF ColumnsInv, BlockSize
  <2> HIDE DEF u
  <2>4. \A j \in 1 .. 16 : 16 + 1 - j = 17 - j /\ 17 - j \in 1 .. 16 OBVIOUS
  <2>5. Len(u) = 16 BY <2>2, BytesAreSequences
  <2>6. Reversed(u) = Strict(w) BY <2>4, <2>5 DEF Reversed
  <2>7. w \in [1 .. 16 -> Entries] BY <2>2, <2>4
  <2> HIDE DEF w
  <2>8. Strict(w) = w
    <3>1. 16 \in Nat OBVIOUS
    <3> QED BY ONLY <2>7, <3>1, StrictSame
  <2> QED BY <2>3, <2>6, <2>7, <2>8
<1> QED BY <1>4, <1>5

\* What a row gives for a byte is a block, and its bytes are products.
LEMMA MappedEach ==
    ASSUME NEW column \in [1 .. 16 -> Entries], NEW b \in Byte
    PROVE  /\ Mapped(column, b) \in Blocks
           /\ \A j \in 1 .. 16 : Mapped(column, b)[j] = Multiples[column[j] + 1][b + 1]
<1> DEFINE w == [j \in 1 .. 16 |-> Multiples[column[j] + 1][b + 1]]
<1>1. Mapped(column, b) = Strict(w) BY DEF Mapped, BlockSize
<1>2. b + 1 \in 1 .. 256 BY DEF Byte
<1>3. \A j \in 1 .. 16 : Multiples[column[j] + 1] \in [1 .. 256 -> Byte] BY DEF Entries
<1>4. w \in [1 .. 16 -> Byte] BY <1>2, <1>3
<1>5. \A j \in 1 .. 16 : w[j] = Multiples[column[j] + 1][b + 1] OBVIOUS
<1> HIDE DEF w
<1>6. Strict(w) = w
  <2>1. 16 \in Nat OBVIOUS
  <2> QED BY ONLY <1>4, <2>1, StrictSame
<1> QED BY <1>1, <1>4, <1>5, <1>6 DEF Blocks, Bytes

\* What it gives for a sum is the sum of what it gives.
LEMMA MappedAdds ==
    ASSUME NEW column \in [1 .. 16 -> Entries], NEW a \in Byte, NEW b \in Byte
    PROVE  Mapped(column, XorByte(a, b)) = Xor(Mapped(column, a), Mapped(column, b))
<1> DEFINE p == Mapped(column, a)
           q == Mapped(column, b)
           c == XorByte(a, b)
           r == Mapped(column, c)
<1>1. c \in Byte BY XorByteGroup
<1>2. /\ p \in Blocks /\ q \in Blocks /\ r \in Blocks
      /\ \A j \in 1 .. 16 : /\ p[j] = Multiples[column[j] + 1][a + 1]
                            /\ q[j] = Multiples[column[j] + 1][b + 1]
                            /\ r[j] = Multiples[column[j] + 1][c + 1]
  BY <1>1, MappedEach
<1>3. \A j \in 1 .. 16 : Multiples[column[j] + 1][c + 1]
          = XorByte(Multiples[column[j] + 1][a + 1], Multiples[column[j] + 1][b + 1])
  BY DEF Entries
<1> HIDE DEF p, q, r, c
<1>4. Xor(p, q) \in Blocks /\ \A j \in 1 .. 16 : Xor(p, q)[j] = XorByte(p[j], q[j])
  BY <1>2, XorEach DEF Blocks
<1>5. \A j \in 1 .. 16 : r[j] = Xor(p, q)[j] BY <1>2, <1>3, <1>4
<1>6. r = Xor(p, q) BY <1>2, <1>4, <1>5, BytesEqual DEF Blocks
<1> QED BY <1>6 DEF p, q, r, c

\* XorSum16 of the elements of a sequence.
SumOf(f) == LET u(i) == f[i] IN XorSum16(u)

\* The levels of XorSum16.
Level8(f, i) == Xor(f[i], f[i + 8])
Level4(f, i) == Xor(Level8(f, i), Level8(f, i + 4))
Level2(f, i) == Xor(Level4(f, i), Level4(f, i + 2))

\* All of them are blocks.
LEMMA LevelsType ==
    ASSUME NEW f \in Rows
    PROVE  /\ \A i \in 1 .. 8 : Level8(f, i) \in Blocks
           /\ \A i \in 1 .. 4 : Level4(f, i) \in Blocks
           /\ \A i \in 1 .. 2 : Level2(f, i) \in Blocks
           /\ SumOf(f) = Xor(Level2(f, 1), Level2(f, 2))
           /\ SumOf(f) \in Blocks
<1>1. \A u, v \in Blocks : Xor(u, v) \in Blocks BY XorGroup DEF Blocks
<1>2. \A i \in 1 .. 8 : Level8(f, i) \in Blocks
  <2>1. \A i \in 1 .. 8 : i \in 1 .. 16 /\ i + 8 \in 1 .. 16 OBVIOUS
  <2> QED BY <1>1, <2>1 DEF Level8, Rows
<1>3. \A i \in 1 .. 4 : Level4(f, i) \in Blocks
  <2>1. \A i \in 1 .. 4 : i \in 1 .. 8 /\ i + 4 \in 1 .. 8 OBVIOUS
  <2> QED BY <1>1, <1>2, <2>1 DEF Level4
<1>4. \A i \in 1 .. 2 : Level2(f, i) \in Blocks
  <2>1. \A i \in 1 .. 2 : i \in 1 .. 4 /\ i + 2 \in 1 .. 4 OBVIOUS
  <2> QED BY <1>1, <1>3, <2>1 DEF Level2
<1>5. SumOf(f) = Xor(Level2(f, 1), Level2(f, 2)) BY DEF SumOf, XorSum16, Level2, Level4, Level8
<1>6. Level2(f, 1) \in Blocks /\ Level2(f, 2) \in Blocks BY <1>4
<1> QED BY <1>1, <1>2, <1>3, <1>4, <1>5, <1>6

\* The sum of sums is the sum of both.
LEMMA SumOfAdds ==
    ASSUME NEW f \in Rows, NEW g \in Rows, NEW h \in Rows, \A i \in 1 .. 16 : h[i] = Xor(f[i], g[i])
    PROVE  SumOf(h) = Xor(SumOf(f), SumOf(g))
<1>1. \A p, q, r, s \in Blocks : Xor(Xor(p, q), Xor(r, s)) = Xor(Xor(p, r), Xor(q, s))
  BY XorExchange DEF Blocks
<1>2. ASSUME NEW i \in 1 .. 8 PROVE Level8(h, i) = Xor(Level8(f, i), Level8(g, i))
  <2>1. i \in 1 .. 16 /\ i + 8 \in 1 .. 16 OBVIOUS
  <2>2. f[i] \in Blocks /\ g[i] \in Blocks /\ f[i + 8] \in Blocks /\ g[i + 8] \in Blocks
    BY <2>1 DEF Rows
  <2>3. h[i] = Xor(f[i], g[i]) /\ h[i + 8] = Xor(f[i + 8], g[i + 8]) BY <2>1
  <2> QED BY <1>1, <2>2, <2>3 DEF Level8
<1>3. ASSUME NEW i \in 1 .. 4 PROVE Level4(h, i) = Xor(Level4(f, i), Level4(g, i))
  <2>1. i \in 1 .. 8 /\ i + 4 \in 1 .. 8 OBVIOUS
  <2>2. Level8(f, i) \in Blocks /\ Level8(g, i) \in Blocks /\ Level8(f, i + 4) \in Blocks
        /\ Level8(g, i + 4) \in Blocks
    BY <2>1, LevelsType
  <2> QED BY <1>1, <1>2, <2>1, <2>2 DEF Level4
<1>4. ASSUME NEW i \in 1 .. 2 PROVE Level2(h, i) = Xor(Level2(f, i), Level2(g, i))
  <2>1. i \in 1 .. 4 /\ i + 2 \in 1 .. 4 OBVIOUS
  <2>2. Level4(f, i) \in Blocks /\ Level4(g, i) \in Blocks /\ Level4(f, i + 2) \in Blocks
        /\ Level4(g, i + 2) \in Blocks
    BY <2>1, LevelsType
  <2> QED BY <1>1, <1>3, <2>1, <2>2 DEF Level2
<1>5. Level2(f, 1) \in Blocks /\ Level2(g, 1) \in Blocks /\ Level2(f, 2) \in Blocks
      /\ Level2(g, 2) \in Blocks
  BY LevelsType
<1>6. Level2(h, 1) = Xor(Level2(f, 1), Level2(g, 1)) /\ Level2(h, 2) = Xor(Level2(f, 2), Level2(g, 2))
  BY <1>4
<1>7. SumOf(f) = Xor(Level2(f, 1), Level2(f, 2)) BY LevelsType
<1>8. SumOf(g) = Xor(Level2(g, 1), Level2(g, 2)) BY LevelsType
<1>9. SumOf(h) = Xor(Level2(h, 1), Level2(h, 2)) BY LevelsType
<1> DEFINE p == Level2(f, 1)
           q == Level2(g, 1)
           r == Level2(f, 2)
           s == Level2(g, 2)
<1>10. Xor(Xor(p, q), Xor(r, s)) = Xor(Xor(p, r), Xor(q, s)) BY <1>1, <1>5
<1> QED BY <1>6, <1>7, <1>8, <1>9, <1>10

\* The rows of a map for the bytes of a block, and what the map gives for the block.
RowsFor(rows, w) == [i \in 1 .. 16 |-> Mapped(rows[i], w[i])]
Image(rows, w) == SumOf(RowsFor(rows, w))

\* The rows for a block are blocks.
LEMMA RowsForType ==
    ASSUME NEW rows, \A i \in 1 .. 16 : rows[i] \in [1 .. 16 -> Entries], NEW w \in Blocks
    PROVE  RowsFor(rows, w) \in Rows /\ Image(rows, w) \in Blocks
<1>1. \A i \in 1 .. 16 : w[i] \in Byte BY DEF Blocks, Bytes
<1>2. \A i \in 1 .. 16 : Mapped(rows[i], w[i]) \in Blocks BY <1>1, MappedEach
<1>3. RowsFor(rows, w) \in Rows BY <1>2 DEF RowsFor, Rows
<1> QED BY <1>3, LevelsType DEF Image

\* A map gives for a sum the sum of what it gives.
LEMMA ImageAdds ==
    ASSUME NEW rows, \A i \in 1 .. 16 : rows[i] \in [1 .. 16 -> Entries],
           NEW u \in Blocks, NEW v \in Blocks
    PROVE  Image(rows, Xor(u, v)) = Xor(Image(rows, u), Image(rows, v))
<1> DEFINE w == Xor(u, v)
           f == RowsFor(rows, u)
           g == RowsFor(rows, v)
           h == RowsFor(rows, w)
<1>1. w \in Blocks /\ \A i \in 1 .. 16 : w[i] = XorByte(u[i], v[i]) BY XorEach DEF Blocks
<1> HIDE DEF w
<1>2. f \in Rows /\ g \in Rows /\ h \in Rows BY <1>1, RowsForType
<1>3. ASSUME NEW i \in 1 .. 16 PROVE h[i] = Xor(f[i], g[i])
  <2>1. u[i] \in Byte /\ v[i] \in Byte BY DEF Blocks, Bytes
  <2>2. h[i] = Mapped(rows[i], w[i]) /\ f[i] = Mapped(rows[i], u[i]) /\ g[i] = Mapped(rows[i], v[i])
    BY DEF RowsFor
  <2> QED BY <1>1, <2>1, <2>2, MappedAdds
<1> HIDE DEF f, g, h
<1>4. SumOf(h) = Xor(SumOf(f), SumOf(g)) BY <1>2, <1>3, SumOfAdds
<1> QED BY <1>4 DEF Image, f, g, h, w

\* The tables of the source, as images of the maps: only the substitutions differ.
LEMMA LinvIsImage == ASSUME NEW v PROVE linv_transform(v) = Image(ColumnsInv, v)
<1> DEFINE f == RowsFor(ColumnsInv, v)
<1>1. \A i \in 1 .. 16 : f[i] = Mapped(ColumnsInv[i], v[i]) BY DEF RowsFor
<1>2. Image(ColumnsInv, v) = SumOf(f) BY DEF Image
<1> HIDE DEF f
<1> QED BY <1>1, <1>2 DEF linv_transform, Lookup, kuz_table_inv, SumOf, XorSum16

\* Encryption substitutes first: lsx_transform joins key, substitution and map.
LEMMA LsxIsImage ==
    ASSUME NEW v, NEW key, NEW w, \A i \in 1 .. 16 : w[i] = pi(Xor(v, key)[i])
    PROVE  lsx_transform(v, key) = Image(Columns, w)
<1> DEFINE f == RowsFor(Columns, w)
           x == Xor(v, key)
<1>1. \A i \in 1 .. 16 : f[i] = Mapped(Columns[i], pi(x[i])) BY DEF RowsFor
<1>2. Image(Columns, w) = SumOf(f) BY DEF Image
<1>3. lsx_transform(v, key) = Lookup(kuz_table, x) BY DEF lsx_transform
<1> HIDE DEF f, x
<1>4. Lookup(kuz_table, x) = SumOf(f) BY <1>1 DEF Lookup, kuz_table, SumOf, XorSum16
<1> QED BY <1>2, <1>3, <1>4

\* Decryption substitutes between the inverse map and the next key: xli_si.
LEMMA XliIsImage ==
    ASSUME NEW v, NEW dekey, NEW w, \A i \in 1 .. 16 : w[i] = pi_inv(v[i])
    PROVE  xli_si(v, dekey) = Xor(Image(ColumnsInv, w), dekey)
<1> DEFINE f == RowsFor(ColumnsInv, w)
<1>1. \A i \in 1 .. 16 : f[i] = Mapped(ColumnsInv[i], pi_inv(v[i])) BY DEF RowsFor
<1>2. Image(ColumnsInv, w) = SumOf(f) BY DEF Image
<1> HIDE DEF f
<1>3. Lookup(kuz_table_inv_LS, v) = SumOf(f)
  BY <1>1 DEF Lookup, kuz_table_inv_LS, SumOf, XorSum16
<1> QED BY <1>2, <1>3 DEF xli_si

\* The image of a sum of rows is the sum of their images.
LEMMA ImageOfSum ==
    ASSUME NEW rows, \A i \in 1 .. 16 : rows[i] \in [1 .. 16 -> Entries],
           NEW f \in Rows, NEW g \in Rows, \A i \in 1 .. 16 : g[i] = Image(rows, f[i])
    PROVE  Image(rows, SumOf(f)) = SumOf(g)
<1>1. \A u, v \in Blocks : Image(rows, Xor(u, v)) = Xor(Image(rows, u), Image(rows, v))
  BY ImageAdds
<1>2. ASSUME NEW i \in 1 .. 8 PROVE Image(rows, Level8(f, i)) = Level8(g, i)
  <2>1. i \in 1 .. 16 /\ i + 8 \in 1 .. 16 OBVIOUS
  <2>2. f[i] \in Blocks /\ f[i + 8] \in Blocks BY <2>1 DEF Rows
  <2>3. g[i] = Image(rows, f[i]) /\ g[i + 8] = Image(rows, f[i + 8]) BY <2>1
  <2> QED BY <1>1, <2>2, <2>3 DEF Level8
<1>3. ASSUME NEW i \in 1 .. 4 PROVE Image(rows, Level4(f, i)) = Level4(g, i)
  <2>1. i \in 1 .. 8 /\ i + 4 \in 1 .. 8 OBVIOUS
  <2>2. Level8(f, i) \in Blocks /\ Level8(f, i + 4) \in Blocks BY <2>1, LevelsType
  <2> QED BY <1>1, <1>2, <2>1, <2>2 DEF Level4
<1>4. ASSUME NEW i \in 1 .. 2 PROVE Image(rows, Level2(f, i)) = Level2(g, i)
  <2>1. i \in 1 .. 4 /\ i + 2 \in 1 .. 4 OBVIOUS
  <2>2. Level4(f, i) \in Blocks /\ Level4(f, i + 2) \in Blocks BY <2>1, LevelsType
  <2> QED BY <1>1, <1>3, <2>1, <2>2 DEF Level2
<1>5. Level2(f, 1) \in Blocks /\ Level2(f, 2) \in Blocks BY LevelsType
<1>6. Image(rows, Level2(f, 1)) = Level2(g, 1) /\ Image(rows, Level2(f, 2)) = Level2(g, 2)
  BY <1>4
<1>7. SumOf(f) = Xor(Level2(f, 1), Level2(f, 2)) BY LevelsType
<1>8. SumOf(g) = Xor(Level2(g, 1), Level2(g, 2)) BY LevelsType
<1> QED BY <1>1, <1>5, <1>6, <1>7, <1>8

\* Byte i of a block alone.
Only(w, i) == [Zeros(16) EXCEPT ![i] = w[i]]

\* It is a block that is zero elsewhere.
LEMMA OnlyEach ==
    ASSUME NEW w \in Blocks, NEW i \in 1 .. 16
    PROVE  /\ Only(w, i) \in Blocks
           /\ \A j \in 1 .. 16 : Only(w, i)[j] = IF j = i THEN w[j] ELSE 0
<1>1. Zeros(16) = [j \in 1 .. 16 |-> 0] BY DEF Zeros
<1>2. w[i] \in Byte /\ 0 \in Byte BY DEF Blocks, Bytes, Byte
<1>3. \A j \in 1 .. 16 : Only(w, i)[j] = IF j = i THEN w[j] ELSE 0 BY <1>1 DEF Only
<1>4. Only(w, i) \in [1 .. 16 -> Byte] BY <1>1, <1>2 DEF Only
<1> QED BY <1>3, <1>4 DEF Blocks, Bytes

\* The bytes alone add up to the block.
LEMMA SumOfOnly ==
    ASSUME NEW w \in Blocks, NEW g \in Rows, \A i \in 1 .. 16 : g[i] = Only(w, i)
    PROVE  SumOf(g) = w
<1>1. \A a \in Byte : XorByte(a, 0) = a /\ XorByte(0, a) = a
  <2>1. 0 \in Byte BY DEF Byte
  <2> QED BY <2>1, XorByteGroup
<1>2. \A u, v \in Blocks, j \in 1 .. 16 : Xor(u, v)[j] = XorByte(u[j], v[j])
  <2>1. 16 \in Nat OBVIOUS
  <2> QED BY <2>1, XorEach DEF Blocks
<1>3. \A j \in 1 .. 16 : w[j] \in Byte BY DEF Blocks, Bytes
<1>4. 0 \in Byte BY DEF Byte
<1>5. ASSUME NEW i \in 1 .. 8, NEW j \in 1 .. 16
      PROVE  Level8(g, i)[j] = IF j % 8 = i % 8 THEN w[j] ELSE 0
  <2>1. i \in 1 .. 16 /\ i + 8 \in 1 .. 16 OBVIOUS
  <2>2. g[i] \in Blocks /\ g[i + 8] \in Blocks BY <2>1 DEF Rows
  <2>3. g[i] = Only(w, i) /\ g[i + 8] = Only(w, i + 8) BY <2>1
  <2>4. g[i][j] = IF j = i THEN w[j] ELSE 0 BY <2>1, <2>3, OnlyEach
  <2>5. g[i + 8][j] = IF j = i + 8 THEN w[j] ELSE 0 BY <2>1, <2>3, OnlyEach
  <2>6. Level8(g, i)[j] = XorByte(g[i][j], g[i + 8][j]) BY <1>2, <2>2 DEF Level8
  <2>7. j % 8 = i % 8 <=> j = i \/ j = i + 8 OBVIOUS
  <2>8. ~ (j = i /\ j = i + 8) OBVIOUS
  <2>9. w[j] \in Byte BY <1>3
  <2> QED BY <1>1, <1>4, <2>4, <2>5, <2>6, <2>7, <2>8, <2>9
<1>6. ASSUME NEW i \in 1 .. 4, NEW j \in 1 .. 16
      PROVE  Level4(g, i)[j] = IF j % 4 = i % 4 THEN w[j] ELSE 0
  <2>1. i \in 1 .. 8 /\ i + 4 \in 1 .. 8 OBVIOUS
  <2>2. Level8(g, i) \in Blocks /\ Level8(g, i + 4) \in Blocks BY <2>1, LevelsType
  <2>3. Level4(g, i)[j] = XorByte(Level8(g, i)[j], Level8(g, i + 4)[j]) BY <1>2, <2>2 DEF Level4
  <2>4. Level8(g, i)[j] = IF j % 8 = i % 8 THEN w[j] ELSE 0 BY <1>5, <2>1
  <2>5. Level8(g, i + 4)[j] = IF j % 8 = (i + 4) % 8 THEN w[j] ELSE 0 BY <1>5, <2>1
  <2>6. j % 4 = i % 4 <=> j % 8 = i % 8 \/ j % 8 = (i + 4) % 8 OBVIOUS
  <2>7. ~ (j % 8 = i % 8 /\ j % 8 = (i + 4) % 8) OBVIOUS
  <2>8. w[j] \in Byte BY <1>3
  <2> QED BY <1>1, <1>4, <2>3, <2>4, <2>5, <2>6, <2>7, <2>8
<1>7. ASSUME NEW i \in 1 .. 2, NEW j \in 1 .. 16
      PROVE  Level2(g, i)[j] = IF j % 2 = i % 2 THEN w[j] ELSE 0
  <2>1. i \in 1 .. 4 /\ i + 2 \in 1 .. 4 OBVIOUS
  <2>2. Level4(g, i) \in Blocks /\ Level4(g, i + 2) \in Blocks BY <2>1, LevelsType
  <2>3. Level2(g, i)[j] = XorByte(Level4(g, i)[j], Level4(g, i + 2)[j]) BY <1>2, <2>2 DEF Level2
  <2>4. Level4(g, i)[j] = IF j % 4 = i % 4 THEN w[j] ELSE 0 BY <1>6, <2>1
  <2>5. Level4(g, i + 2)[j] = IF j % 4 = (i + 2) % 4 THEN w[j] ELSE 0 BY <1>6, <2>1
  <2>6. j % 2 = i % 2 <=> j % 4 = i % 4 \/ j % 4 = (i + 2) % 4 OBVIOUS
  <2>7. ~ (j % 4 = i % 4 /\ j % 4 = (i + 2) % 4) OBVIOUS
  <2>8. w[j] \in Byte BY <1>3
  <2> QED BY <1>1, <1>4, <2>3, <2>4, <2>5, <2>6, <2>7, <2>8
<1>8. ASSUME NEW j \in 1 .. 16 PROVE SumOf(g)[j] = w[j]
  <2>1. Level2(g, 1) \in Blocks /\ Level2(g, 2) \in Blocks BY LevelsType
  <2>2. SumOf(g) = Xor(Level2(g, 1), Level2(g, 2)) BY LevelsType
  <2>3. SumOf(g)[j] = XorByte(Level2(g, 1)[j], Level2(g, 2)[j]) BY <1>2, <2>1, <2>2
  <2>4. Level2(g, 1)[j] = IF j % 2 = 1 THEN w[j] ELSE 0 BY <1>7
  <2>5. Level2(g, 2)[j] = IF j % 2 = 0 THEN w[j] ELSE 0 BY <1>7
  <2>6. j % 2 = 0 \/ j % 2 = 1 OBVIOUS
  <2>7. w[j] \in Byte BY <1>3
  <2> QED BY <1>1, <1>4, <2>3, <2>4, <2>5, <2>6, <2>7
<1>9. SumOf(g) \in Blocks BY LevelsType
<1> QED BY <1>8, <1>9, BytesEqual DEF Blocks

\* The inverse map takes the map back.
LEMMA LinvBack ==
    ASSUME NEW w \in Blocks
    PROVE  /\ Image(Columns, w) \in Blocks
           /\ linv_transform(Image(Columns, w)) = w
<1> DEFINE f == RowsFor(Columns, w)
           g == [i \in 1 .. 16 |-> Only(w, i)]
<1>1. f \in Rows /\ Image(Columns, w) \in Blocks BY RowsType, RowsForType
<1>2. g \in Rows BY OnlyEach DEF Rows
<1>3. ASSUME NEW i \in 1 .. 16 PROVE g[i] = Image(ColumnsInv, f[i])
  <2>1. w[i] \in Byte BY DEF Blocks, Bytes
  <2>2. f[i] = Mapped(Columns[i], w[i]) BY DEF RowsFor
  <2>3. BlockSize = 16 BY DEF BlockSize
  <2>4. \A k \in 1 .. BlockSize, b \in Byte :
            linv_transform(Mapped(Columns[k], b)) = [Zeros(BlockSize) EXCEPT ![k] = b]
    BY TablesAssumption, Zenon
  <2>5. linv_transform(Mapped(Columns[i], w[i])) = [Zeros(16) EXCEPT ![i] = w[i]]
    BY <2>1, <2>3, <2>4
  <2>6. g[i] = [Zeros(16) EXCEPT ![i] = w[i]] BY DEF Only
  <2> QED BY <2>2, <2>5, <2>6, LinvIsImage
<1>4. \A i \in 1 .. 16 : g[i] = Only(w, i) OBVIOUS
<1>5. Image(Columns, w) = SumOf(f) BY DEF Image
<1> HIDE DEF f, g
<1>6. Image(ColumnsInv, SumOf(f)) = SumOf(g) BY <1>1, <1>2, <1>3, RowsType, ImageOfSum
<1>7. SumOf(g) = w BY <1>2, <1>4, SumOfOnly
<1> QED BY <1>1, <1>5, <1>6, <1>7, LinvIsImage

\* The inverse map of a block is one, and of a sum the sum.
LEMMA LinvAdds ==
    ASSUME NEW u \in Blocks, NEW v \in Blocks
    PROVE  /\ linv_transform(u) \in Blocks
           /\ linv_transform(Xor(u, v)) = Xor(linv_transform(u), linv_transform(v))
BY LinvIsImage, RowsType, RowsForType, ImageAdds

\* The substitutions of a block are blocks, and the second takes the first back.
LEMMA Substitutions ==
    /\ \A b \in Byte : pi(b) \in Byte /\ pi_inv(b) \in Byte /\ pi_inv(pi(b)) = b
    /\ \A v \in Blocks : /\ s_transform(v) \in Blocks
                         /\ \A i \in 1 .. 16 : s_transform(v)[i] = pi(v[i])
    /\ \A v \in Blocks : /\ sinv_transform(v) \in Blocks
                         /\ \A i \in 1 .. 16 : sinv_transform(v)[i] = pi_inv(v[i])
    /\ \A v \in Blocks : sinv_transform(s_transform(v)) = v
<1>1. \A b \in Byte : pi(b) \in Byte /\ pi_inv(b) \in Byte /\ pi_inv(pi(b)) = b
  <2>1. PiList \in [1 .. 256 -> Byte] /\ PiInvList \in [1 .. 256 -> Byte] BY TablesAssumption
  <2>2. \A b \in Byte : b + 1 \in 1 .. 256 BY DEF Byte
  <2>3. \A b \in Byte : pi_inv(pi(b)) = b BY TablesAssumption
  <2> QED BY <2>1, <2>2, <2>3 DEF pi, pi_inv
<1>2. 16 \in Nat /\ BlockSize = 16 BY DEF BlockSize
<1>3. ASSUME NEW v \in Blocks
      PROVE  s_transform(v) \in Blocks /\ \A i \in 1 .. 16 : s_transform(v)[i] = pi(v[i])
  <2> DEFINE w == [i \in 1 .. 16 |-> pi(v[i])]
  <2>1. \A i \in 1 .. 16 : v[i] \in Byte BY DEF Blocks, Bytes
  <2>2. w \in [1 .. 16 -> Byte] BY <1>1, <2>1
  <2>3. s_transform(v) = Strict(w) BY <1>2 DEF s_transform
  <2>4. \A i \in 1 .. 16 : w[i] = pi(v[i]) OBVIOUS
  <2> HIDE DEF w
  <2>5. Strict(w) = w BY ONLY <1>2, <2>2, StrictSame
  <2> QED BY <2>2, <2>3, <2>4, <2>5 DEF Blocks, Bytes
<1>4. ASSUME NEW v \in Blocks
      PROVE  sinv_transform(v) \in Blocks /\ \A i \in 1 .. 16 : sinv_transform(v)[i] = pi_inv(v[i])
  <2> DEFINE w == [i \in 1 .. 16 |-> pi_inv(v[i])]
  <2>1. \A i \in 1 .. 16 : v[i] \in Byte BY DEF Blocks, Bytes
  <2>2. w \in [1 .. 16 -> Byte] BY <1>1, <2>1
  <2>3. sinv_transform(v) = Strict(w) BY <1>2 DEF sinv_transform
  <2>4. \A i \in 1 .. 16 : w[i] = pi_inv(v[i]) OBVIOUS
  <2> HIDE DEF w
  <2>5. Strict(w) = w BY ONLY <1>2, <2>2, StrictSame
  <2> QED BY <2>2, <2>3, <2>4, <2>5 DEF Blocks, Bytes
<1>5. ASSUME NEW v \in Blocks PROVE sinv_transform(s_transform(v)) = v
  <2> DEFINE w == s_transform(v)
             x == sinv_transform(w)
  <2>1. w \in Blocks /\ x \in Blocks BY <1>3, <1>4
  <2>2. \A i \in 1 .. 16 : v[i] \in Byte BY DEF Blocks, Bytes
  <2>3. \A i \in 1 .. 16 : w[i] = pi(v[i]) BY <1>3
  <2>4. \A i \in 1 .. 16 : x[i] = pi_inv(w[i]) BY <1>4, <2>1
  <2>5. \A i \in 1 .. 16 : x[i] = v[i] BY <1>1, <2>2, <2>3, <2>4
  <2> HIDE DEF x
  <2>6. x = v BY <1>2, <2>1, <2>5, BytesEqual DEF Blocks
  <2> QED BY <2>6 DEF x
<1> QED BY <1>1, <1>3, <1>4, <1>5

\* A round of encryption is the image of what it substitutes.
LEMMA LsxBack ==
    ASSUME NEW v \in Blocks, NEW key \in Blocks
    PROVE  /\ lsx_transform(v, key) \in Blocks
           /\ linv_transform(lsx_transform(v, key)) = s_transform(Xor(v, key))
<1> DEFINE x == Xor(v, key)
           w == s_transform(x)
<1>1. x \in Blocks
  <2>1. 16 \in Nat OBVIOUS
  <2> QED BY <2>1, XorGroup DEF Blocks
<1>2. w \in Blocks /\ \A i \in 1 .. 16 : w[i] = pi(x[i]) BY <1>1, Substitutions
<1> HIDE DEF w
<1>3. lsx_transform(v, key) = Image(Columns, w) BY <1>2, LsxIsImage
<1> QED BY <1>2, <1>3, LinvBack DEF w

\* A round of decryption is the inverse map of what it substitutes back, and the key.
LEMMA XliIsLinv ==
    ASSUME NEW v \in Blocks, NEW dekey
    PROVE  xli_si(v, dekey) = Xor(linv_transform(sinv_transform(v)), dekey)
BY Substitutions, XliIsImage, LinvIsImage

\* One round of decryption takes one of encryption back: what it substitutes is the sum
\* from which the round before had its result.
LEMMA KuznyechikRoundBack ==
    ASSUME NEW v \in Blocks, NEW key \in Blocks, NEW next \in Blocks
    PROVE  LET y == lsx_transform(v, key) IN
           /\ xli_si(s_transform(Xor(y, next)), linv_transform(next)) = s_transform(Xor(v, key))
           /\ Xor(linv_transform(Xor(next, y)), linv_transform(next)) = s_transform(Xor(v, key))
<1> DEFINE y == lsx_transform(v, key)
           x == Xor(y, next)
           a == linv_transform(y)
           b == linv_transform(next)
<1>1. y \in Blocks /\ a = s_transform(Xor(v, key)) BY LsxBack
<1>2. 16 \in Nat OBVIOUS
<1>3. x \in Blocks /\ Xor(next, y) = x BY <1>1, <1>2, XorGroup DEF Blocks
<1>4. xli_si(s_transform(x), b) = Xor(linv_transform(sinv_transform(s_transform(x))), b)
  BY <1>3, Substitutions, XliIsLinv
<1>5. sinv_transform(s_transform(x)) = x BY <1>3, Substitutions
<1>6. linv_transform(x) = Xor(a, b) /\ a \in Blocks /\ b \in Blocks BY <1>1, LinvAdds
<1> HIDE DEF y, a, b
<1>7. Xor(Xor(a, b), b) = a BY <1>2, <1>6, XorTwice DEF Blocks
<1> QED BY <1>1, <1>3, <1>4, <1>5, <1>6, <1>7 DEF y, b

-----------------------------------------------------------------------------
(***************************************************************************)
(* The inductive invariant: trace holds what the rounds of encryption made *)
(* one from the other, so a round of decryption, which the lemmas above    *)
(* take back, leads from one of its elements to the one before.            *)
(***************************************************************************)

CipherCalls == {"kuznyechik", "gost28147", "rc2"}

\* The functions that no call of a block cipher passes through.
OtherFunctions == {"gf128_mul", "gost_mac", "chacha", "blake2s", "sha1", "gost3411_94", "streebog",
                   "xoshiro"}

\* Kuznyechik: its arguments, with the keys that are made so far.
KuzCalls(keys) == [call : {"kuznyechik"}, impl : {"generic", "simd"}, input : Inputs.kuznyechik,
                   keys : keys, dekeys : keys]
RoundKeys == [1 .. 10 -> Blocks]

SetkeyState ==
    /\ args \in KuzCalls({<<>>})
    /\ loc \in [i : 0 .. 32, pair : [1 .. 2 -> Blocks], keys : Seq(Blocks)]
    /\ Len(loc.keys) = 2 + 2 * (loc.i \div 8)

\* The trace of n rounds.
KuzTraced(n) ==
    /\ args \in KuzCalls(RoundKeys) /\ args.dekeys = DecryptKeys(args.keys)
    /\ loc.trace \in [1 .. n + 1 -> Blocks]
    /\ loc.trace[1] = args.input.in
    /\ \A j \in 1 .. n : loc.trace[j + 1] = lsx_transform(args.keys[j], loc.trace[j])

KuzEncryptState ==
    /\ loc \in [i : 0 .. 9, temp : Blocks, trace : Seq(Blocks)]
    /\ KuzTraced(loc.i)
    /\ loc.temp = loc.trace[loc.i + 1]

KuzDecryptState ==
    /\ loc \in [i : 1 .. 10, temp : Blocks, trace : Seq(Blocks)]
    /\ KuzTraced(9)
    /\ loc.temp = s_transform(Xor(loc.trace[loc.i], args.keys[loc.i]))
    /\ ret = <<ret[1]>>

\* GOST 28147-89.
GostCalls == [call : {"gost28147"}, input : Inputs.gost28147, key : GostKeys]

GostTraced(n) ==
    /\ args \in GostCalls
    /\ loc \in [r : 0 .. 32, n : Halves, trace : Seq(Halves)]
    /\ loc.trace \in [1 .. n + 1 -> Halves]
    /\ loc.trace[1] = Words(args.input.in, 4)
    /\ \A j \in 1 .. n :
          loc.trace[j + 1] = Round(args.input.sbox, args.key, "encrypt", j - 1, loc.trace[j])

GostEncryptState == GostTraced(loc.r) /\ loc.n = loc.trace[loc.r + 1]

GostDecryptState == GostTraced(32) /\ loc.n = Swapped(loc.trace[33 - loc.r]) /\ ret = <<ret[1]>>

\* RC2: first the key, which has T8 bytes when the loop from behind begins.
Rc2Calls == [call : {"rc2"}, input : Inputs.rc2]

Rc2StretchState ==
    /\ args \in Rc2Calls
    /\ loc \in [k : Seq(Byte), len : 0 .. 128, bits : 1 .. 1024]
    /\ Len(loc.k) \in 0 .. 128

Rc2ReduceState ==
    /\ args \in Rc2Calls
    /\ loc \in [k : Seq(Byte), len : 0 .. 128, bits : 1 .. 1024]
    /\ Len(loc.k) \in (loc.bits + 7) \div 8 .. 128

\* What round r, from 0, begins with, when the one before has made x.
Before(x, key, r) == IF r \in {5, 11} THEN Mash(x, key) ELSE x

Rc2Traced(n) ==
    /\ args \in [call : {"rc2"}, input : Inputs.rc2, key : Rc2Keys]
    /\ loc \in [r : 0 .. 16, x : Rc2Blocks, trace : Seq(Rc2Blocks)]
    /\ loc.trace \in [1 .. n + 1 -> Rc2Blocks]
    /\ loc.trace[1] = Words(args.input.in, 2)
    /\ \A j \in 1 .. n :
          loc.trace[j + 1] = Mix(Before(loc.trace[j], args.key, j - 1), args.key, j - 1)

Rc2EncryptState == Rc2Traced(loc.r) /\ loc.x = Before(loc.trace[loc.r + 1], args.key, loc.r)

Rc2DecryptState == Rc2Traced(16) /\ loc.x = loc.trace[17 - loc.r] /\ ret = <<ret[1]>>

RetraceInv ==
    /\ fn = "kuz_setkey" => SetkeyState
    /\ fn = "kuz_encrypt" => KuzEncryptState
    /\ fn = "kuz_decrypt" => KuzDecryptState
    /\ fn = "gost_encrypt" => GostEncryptState
    /\ fn = "gost_decrypt" => GostDecryptState
    /\ fn = "rc2_stretch" => Rc2StretchState
    /\ fn = "rc2_reduce" => Rc2ReduceState
    /\ fn = "rc2_encrypt" => Rc2EncryptState
    /\ fn = "rc2_decrypt" => Rc2DecryptState
    /\ fn \in OtherFunctions => args.call \notin CipherCalls
    /\ fn = "return" /\ args.call \in CipherCalls => ret[2] = args.input.in

-----------------------------------------------------------------------------
(***************************************************************************)
(* What the steps of the three ciphers do to the invariant.                *)
(***************************************************************************)

\* A function on the first n numbers is a sequence.
LEMMA AreSequences ==
    ASSUME NEW S, NEW n \in Nat, NEW u \in [1 .. n -> S]
    PROVE  u \in Seq(S) /\ Len(u) = n
<1>1. u \in UNION {[1 .. k -> S] : k \in Nat} OBVIOUS
<1>2. u \in Seq(S) BY <1>1, SeqDef
<1>3. DOMAIN u = 1 .. n OBVIOUS
<1> QED BY <1>2, <1>3

\* An element more.
LEMMA AppendTo ==
    ASSUME NEW S, NEW n \in Nat, NEW u \in [1 .. n -> S], NEW x \in S
    PROVE  /\ Append(u, x) \in Seq(S) /\ Append(u, x) \in [1 .. n + 1 -> S]
           /\ Append(u, x)[n + 1] = x
           /\ \A i \in 1 .. n : Append(u, x)[i] = u[i]
<1>1. u \in Seq(S) /\ Len(u) = n BY AreSequences
<1>2. Append(u, x) \in Seq(S) /\ Len(Append(u, x)) = n + 1 BY <1>1
<1>3. Append(u, x) \in [1 .. n + 1 -> S] BY <1>2, LenProperties
<1> QED BY <1>1, <1>2, <1>3

\* The calls and the functions of the other components are not the ciphers'.
LEMMA OtherBegins ==
    ASSUME fn' \in OtherFunctions \cup {"return"}, args'.call \notin CipherCalls
    PROVE  RetraceInv'
BY DEF RetraceInv, OtherFunctions

\* Nor do their steps become a cipher's before they return.
LEMMA OtherStays ==
    ASSUME RetraceInv, fn \in OtherFunctions, args' = args, fn' \in {fn, "return"}
    PROVE  RetraceInv'
BY DEF RetraceInv, OtherFunctions

\* The key schedule of Kuznyechik.
LEMMA SetkeyBegins == ASSUME kuznyechik_setkey PROVE RetraceInv'
<1>1. PICK impl \in {"generic", "simd"} :
          \/ /\ fn' = "return" /\ ret' = <<-1>>
             /\ args' = [call |-> "kuz_setkey", impl |-> impl, key |-> Null]
             /\ UNCHANGED loc
          \/ \E input \in Inputs.kuznyechik :
                LET pair == Words(input.key, BlockSize) IN
                /\ fn' = "kuz_setkey"
                /\ args' = [call |-> "kuznyechik", impl |-> impl, input |-> input,
                            keys |-> <<>>, dekeys |-> <<>>]
                /\ loc' = [i |-> 0, pair |-> pair, keys |-> pair]
                /\ UNCHANGED ret
  BY DEF kuznyechik_setkey
<1>2. CASE fn' = "return" /\ args' = [call |-> "kuz_setkey", impl |-> impl, key |-> Null]
  <2>1. args'.call = "kuz_setkey" BY <1>2
  <2>2. args'.call \notin CipherCalls BY <2>1 DEF CipherCalls
  <2> QED BY <1>2, <2>2, OtherBegins
<1>3. ASSUME NEW input \in Inputs.kuznyechik,
             fn' = "kuz_setkey",
             args' = [call |-> "kuznyechik", impl |-> impl, input |-> input,
                      keys |-> <<>>, dekeys |-> <<>>],
             loc' = [i |-> 0, pair |-> Words(input.key, BlockSize),
                     keys |-> Words(input.key, BlockSize)]
      PROVE  RetraceInv'
  <2> DEFINE pair == Words(input.key, 16)
  <2>1. BlockSize = 16 BY DEF BlockSize
  <2>2. input.key \in Bytes(2 * 16)
    <3>1. input \in [key : [1 .. 32 -> Byte], in : [1 .. 16 -> Byte]] BY InputsAssumption
    <3>2. input.key \in [1 .. 32 -> Byte] /\ 2 * 16 = 32 BY <3>1
    <3> QED BY <3>2 DEF Bytes
  <2>3. pair \in [1 .. 2 -> Bytes(16)]
    <3>1. 16 \in {2, 4, 16} /\ 2 \in Nat OBVIOUS
    <3> QED BY <2>2, <3>1, WordsEach
  <2>4. loc' = [i |-> 0, pair |-> pair, keys |-> pair] BY <1>3, <2>1
  <2> HIDE DEF pair
  <2>5. pair \in Seq(Blocks) /\ Len(pair) = 2
    <3>1. 2 \in Nat OBVIOUS
    <3> QED BY <2>3, <3>1, AreSequences DEF Blocks
  <2>6. SetkeyState' BY <1>3, <2>3, <2>4, <2>5 DEF SetkeyState, KuzCalls, Blocks
  <2> QED BY <1>3, <2>6 DEF RetraceInv, OtherFunctions
<1> QED BY <1>1, <1>2, <1>3

\* The constants that the key schedule adds, of which the last is of round 31, are blocks.
LEMMA SubkeyType ==
    ASSUME NEW pair \in [1 .. 2 -> Blocks], NEW i \in 0 .. 31
    PROVE  SubkeyRound(pair, i) \in [1 .. 2 -> Blocks]
<1> DEFINE w == [j \in 1 .. 32 |-> Mapped(Columns[16], j)]
           c == kuz_key_table[i + 1]
<1>1. \A j \in 1 .. 32 : Mapped(Columns[16], j) \in Blocks
  <2>1. \A j \in 1 .. 32 : j \in Byte BY DEF Byte
  <2>2. Columns[16] \in [1 .. 16 -> Entries] BY RowsType
  <2> QED BY <2>1, <2>2, MappedEach
<1>2. w \in [1 .. 32 -> Blocks] BY <1>1
<1>3. kuz_key_table = Strict(w) BY DEF kuz_key_table, BlockSize
<1> HIDE DEF w
<1>4. Strict(w) = w
  <2>1. 32 \in Nat OBVIOUS
  <2> QED BY <1>2, <2>1, StrictSame
<1>5. c \in Blocks BY <1>2, <1>3, <1>4
<1> HIDE DEF c
<1>6. pair[1] \in Blocks /\ pair[2] \in Blocks OBVIOUS
<1>7. \A u, v \in Blocks : Xor(u, v) \in Blocks
  <2>1. 16 \in Nat OBVIOUS
  <2> QED BY <2>1, XorGroup DEF Blocks
<1> DEFINE a == Xor(lsx_transform(pair[1], c), pair[2])
           b == Xor(lsx_transform(pair[2], c), pair[1])
<1>8. a \in Blocks /\ b \in Blocks BY <1>5, <1>6, <1>7, LsxBack
<1>9. SubkeyRound(pair, i) = IF i % 2 = 0 THEN <<pair[1], a>> ELSE <<b, pair[2]>>
  BY DEF SubkeyRound, c
<1> HIDE DEF a, b
<1> QED BY <1>6, <1>8, <1>9

\* Every eighth round adds a pair of keys.
LEMMA SetkeyRounds == ASSUME RetraceInv, SetkeyRound PROVE RetraceInv'
<1> DEFINE p == SubkeyRound(loc.pair, loc.i)
           keys == IF loc.i % 8 = 7 THEN loc.keys \o p ELSE loc.keys
<1>1. /\ fn = "kuz_setkey" /\ fn' = fn /\ args' = args /\ loc.i < 32
      /\ loc' = [i |-> loc.i + 1, pair |-> p, keys |-> keys]
  BY DEF SetkeyRound
<1>2. /\ args \in KuzCalls({<<>>})
      /\ loc \in [i : 0 .. 32, pair : [1 .. 2 -> Blocks], keys : Seq(Blocks)]
      /\ Len(loc.keys) = 2 + 2 * (loc.i \div 8)
  BY <1>1 DEF RetraceInv, SetkeyState
<1>3. loc.i \in 0 .. 31 BY <1>1, <1>2
<1>4. p \in [1 .. 2 -> Blocks] BY <1>2, <1>3, SubkeyType
<1>5. p \in Seq(Blocks) /\ Len(p) = 2
  <2>1. 2 \in Nat OBVIOUS
  <2> QED BY <1>4, <2>1, AreSequences
<1> HIDE DEF p
<1>6. loc.keys \in Seq(Blocks) BY <1>2
<1>7. keys \in Seq(Blocks) /\ Len(keys) = Len(loc.keys) + IF loc.i % 8 = 7 THEN 2 ELSE 0
  <2> DEFINE old == loc.keys
  <2>1. old \in Seq(Blocks) BY <1>6
  <2>2. keys = IF loc.i % 8 = 7 THEN old \o p ELSE old OBVIOUS
  <2> HIDE DEF old
  <2>3. old \o p \in Seq(Blocks) /\ Len(old \o p) = Len(old) + 2
    <3>1. old \o p \in Seq(Blocks) /\ Len(old \o p) = Len(old) + Len(p)
      BY <1>5, <2>1, ConcatProperties, Zenon
    <3> QED BY <1>5, <3>1
  <2>4. Len(old) \in Nat BY <2>1
  <2> HIDE DEF keys
  <2>5. Len(keys) = Len(old) + IF loc.i % 8 = 7 THEN 2 ELSE 0 BY <2>2, <2>3, <2>4
  <2>6. keys \in Seq(Blocks) BY <2>1, <2>2, <2>3
  <2> QED BY <2>5, <2>6 DEF old
<1>8. \A i \in 0 .. 31 : (i + 1) \div 8 = i \div 8 + IF i % 8 = 7 THEN 1 ELSE 0 OBVIOUS
<1> HIDE DEF keys
<1>9. Len(keys) = 2 + 2 * ((loc.i + 1) \div 8)
  <2> DEFINE i == loc.i
             e == (i + 1) \div 8
  <2>1. i \in 0 .. 31 BY <1>3
  <2>2. Len(loc.keys) = 2 + 2 * (i \div 8) BY <1>2
  <2>3. Len(keys) = Len(loc.keys) + IF i % 8 = 7 THEN 2 ELSE 0 BY <1>7
  <2> HIDE DEF i
  <2>4. e = i \div 8 + IF i % 8 = 7 THEN 1 ELSE 0 BY <1>8, <2>1
  <2>5. i \div 8 \in Int BY <2>1
  <2> HIDE DEF e
  <2>6. Len(keys) = 2 + 2 * e BY ONLY <2>2, <2>3, <2>4, <2>5
  <2> QED BY <2>6 DEF e, i
<1>10. SetkeyState'
  <2>1. loc'.i = loc.i + 1 /\ loc'.keys = keys BY <1>1
  <2>2. loc' \in [i : 0 .. 32, pair : [1 .. 2 -> Blocks], keys : Seq(Blocks)]
    <3>1. loc.i + 1 \in 0 .. 32 BY <1>3
    <3>2. keys \in Seq(Blocks) BY <1>7
    <3>3. loc' = [i |-> loc.i + 1, pair |-> p, keys |-> keys] BY <1>1
    <3> QED BY ONLY <1>4, <3>1, <3>2, <3>3
  <2> QED BY <1>1, <1>2, <1>9, <2>1, <2>2 DEF SetkeyState
<1> QED BY <1>1, <1>10 DEF RetraceInv, OtherFunctions

\* The keys for decryption are blocks.
LEMMA DecryptKeysEach ==
    ASSUME NEW keys \in RoundKeys
    PROVE  /\ DecryptKeys(keys) \in RoundKeys
           /\ \A i \in 1 .. 10 : DecryptKeys(keys)[i] = linv_transform(keys[i])
<1> DEFINE w == [i \in 1 .. 10 |-> linv_transform(keys[i])]
<1>1. \A i \in 1 .. 10 : keys[i] \in Blocks BY DEF RoundKeys
<1>2. w \in [1 .. 10 -> Blocks] BY <1>1, LinvAdds
<1>3. \A i \in 1 .. 10 : w[i] = linv_transform(keys[i]) OBVIOUS
<1>4. DecryptKeys(keys) = Strict(w) BY DEF DecryptKeys
<1> HIDE DEF w
<1>5. Strict(w) = w
  <2>1. 10 \in Nat OBVIOUS
  <2> QED BY <1>2, <2>1, StrictSame
<1> QED BY <1>2, <1>3, <1>4, <1>5 DEF RoundKeys

\* All ten keys are made when the encryption begins, and decryption has the keys made of them.
LEMMA SetkeyReturns == ASSUME RetraceInv, SetkeyReturn PROVE RetraceInv'
<1> DEFINE in == args.input.in
           keys == loc.keys
           dekeys == DecryptKeys(keys)
<1>1. /\ fn = "kuz_setkey" /\ fn' = "kuz_encrypt" /\ loc.i = 32
      /\ args' = [args EXCEPT !.keys = keys, !.dekeys = dekeys]
      /\ loc' = [i |-> 0, temp |-> in, trace |-> <<in>>]
  BY DEF SetkeyReturn
<1>2. /\ args \in KuzCalls({<<>>})
      /\ keys \in Seq(Blocks) /\ Len(keys) = 2 + 2 * (32 \div 8)
  BY <1>1 DEF RetraceInv, SetkeyState
<1>3. keys \in RoundKeys
  <2>1. Len(keys) = 10 BY <1>2
  <2> HIDE DEF keys
  <2> QED BY <1>2, <2>1, LenProperties DEF RoundKeys
<1>4. dekeys \in RoundKeys BY <1>3, DecryptKeysEach
<1>5. in \in Blocks BY <1>2, InputsAssumption DEF KuzCalls, Blocks, Bytes
<1>6. /\ args' \in KuzCalls(RoundKeys) /\ args'.keys = keys /\ args'.dekeys = dekeys
      /\ args'.input.in = in
  <2> HIDE DEF keys, dekeys
  <2> QED BY <1>1, <1>2, <1>3, <1>4 DEF KuzCalls
<1> HIDE DEF in, keys
<1>7. <<in>> \in Seq(Blocks) /\ <<in>> \in [1 .. 1 -> Blocks] /\ <<in>>[1] = in BY <1>5
<1>8. loc' \in [i : 0 .. 9, temp : Blocks, trace : Seq(Blocks)] BY <1>1, <1>5, <1>7
<1>9. loc'.i = 0 /\ loc'.temp = in /\ loc'.trace = <<in>> BY <1>1
<1>10. KuzEncryptState' BY <1>6, <1>7, <1>8, <1>9 DEF KuzEncryptState, KuzTraced
<1> QED BY <1>1, <1>10 DEF RetraceInv, OtherFunctions

\* The rounds of Kuznyechik: encryption writes the trace.
LEMMA EncryptRounds == ASSUME RetraceInv, EncryptRound PROVE RetraceInv'
<1> DEFINE m == loc.i + 1
           trace == loc.trace
           t == lsx_transform(args.keys[m], loc.temp)
<1>1. /\ fn = "kuz_encrypt" /\ fn' = fn /\ args' = args /\ loc.i < 9
      /\ loc' = [i |-> m, temp |-> t, trace |-> Append(trace, t)]
  BY DEF EncryptRound
<1>2. /\ loc \in [i : 0 .. 9, temp : Blocks, trace : Seq(Blocks)]
      /\ args \in KuzCalls(RoundKeys) /\ args.dekeys = DecryptKeys(args.keys)
      /\ trace \in [1 .. m -> Blocks]
      /\ trace[1] = args.input.in
      /\ \A j \in 1 .. loc.i : trace[j + 1] = lsx_transform(args.keys[j], trace[j])
      /\ loc.temp = trace[m]
  BY <1>1 DEF RetraceInv, KuzEncryptState, KuzTraced
<1>3. m \in 1 .. 9 /\ m + 1 \in Nat /\ loc.i \in 0 .. 8 BY <1>1, <1>2
<1>4. args.keys[m] \in Blocks /\ loc.temp \in Blocks BY <1>2, <1>3 DEF KuzCalls, RoundKeys
<1>5. t \in Blocks BY <1>4, LsxBack
<1>6. t = lsx_transform(args.keys[m], trace[m]) BY <1>2
<1> HIDE DEF t, trace
<1> DEFINE next == Append(trace, t)
<1>7. /\ next \in Seq(Blocks) /\ next \in [1 .. m + 1 -> Blocks] /\ next[m + 1] = t
      /\ \A i \in 1 .. m : next[i] = trace[i]
  <2>1. m \in Nat BY <1>3
  <2>2. trace \in [1 .. m -> Blocks] BY <1>2
  <2> HIDE DEF m
  <2>3. t \in Blocks BY <1>5
  <2>4. Append(trace, t) \in Seq(Blocks) BY ONLY <2>1, <2>2, <2>3, AppendTo
  <2>5. Append(trace, t) \in [1 .. m + 1 -> Blocks] BY ONLY <2>1, <2>2, <2>3, AppendTo
  <2>6. Append(trace, t)[m + 1] = t BY ONLY <2>1, <2>2, <2>3, AppendTo
  <2>7. \A i \in 1 .. m : Append(trace, t)[i] = trace[i] BY ONLY <2>1, <2>2, <2>3, AppendTo
  <2> QED BY ONLY <2>4, <2>5, <2>6, <2>7
<1> HIDE DEF next
<1>8. ASSUME NEW j \in 1 .. m PROVE next[j + 1] = lsx_transform(args.keys[j], next[j])
  <2>1. CASE j = m BY <1>3, <1>6, <1>7, <2>1
  <2>2. CASE j # m
    <3>1. j \in 1 .. loc.i /\ j + 1 \in 1 .. m /\ j \in 1 .. m BY <1>3, <2>2
    <3> QED BY <1>2, <1>7, <3>1
  <2> QED BY <2>1, <2>2
<1>9. next[1] = args.input.in
  <2>1. 1 \in 1 .. m BY <1>3
  <2> QED BY <1>2, <1>7, <2>1
<1>10. loc'.i = m /\ loc'.temp = t /\ loc'.trace = next BY <1>1 DEF next
<1>11. loc' \in [i : 0 .. 9, temp : Blocks, trace : Seq(Blocks)]
  BY <1>1, <1>3, <1>5, <1>7 DEF next
<1> HIDE DEF m
<1>12. KuzEncryptState'
  BY <1>1, <1>2, <1>7, <1>8, <1>9, <1>10, <1>11 DEF KuzEncryptState, KuzTraced
<1> QED BY <1>1, <1>12 DEF RetraceInv, OtherFunctions

\* A block of the trace, under the key of its round, in either order.
LEMMA KuzSums ==
    ASSUME NEW u \in Blocks, NEW v \in Blocks
    PROVE  /\ Xor(u, v) \in Blocks /\ Xor(u, v) = Xor(v, u) /\ Xor(Xor(u, v), v) = u
           /\ s_transform(Xor(u, v)) \in Blocks
<1>1. 16 \in Nat OBVIOUS
<1>2. Xor(u, v) \in Blocks /\ Xor(u, v) = Xor(v, u) BY <1>1, XorGroup DEF Blocks
<1>3. Xor(Xor(u, v), v) = u BY <1>1, XorTwice DEF Blocks
<1>4. s_transform(Xor(u, v)) \in Blocks BY <1>2, Substitutions
<1> QED BY <1>2, <1>3, <1>4

\* What the trace gives for its round i: what round i + 1 decrypts to.
LEMMA TraceStep ==
    ASSUME KuzTraced(9), NEW i \in 1 .. 9
    PROVE  /\ args.keys[i] \in Blocks /\ args.keys[i + 1] \in Blocks
           /\ loc.trace[i] \in Blocks /\ loc.trace[i + 1] \in Blocks
           /\ loc.trace[i + 1] = lsx_transform(args.keys[i], loc.trace[i])
           /\ args.dekeys[i + 1] = linv_transform(args.keys[i + 1])
<1>1. i \in 1 .. 10 /\ i + 1 \in 1 .. 10 OBVIOUS
<1>2. args.keys \in RoundKeys BY DEF KuzTraced, KuzCalls
<1>3. args.keys[i] \in Blocks /\ args.keys[i + 1] \in Blocks BY <1>1, <1>2 DEF RoundKeys
<1>4. loc.trace \in [1 .. 10 -> Blocks] BY DEF KuzTraced
<1>5. loc.trace[i] \in Blocks /\ loc.trace[i + 1] \in Blocks BY <1>1, <1>4
<1>6. loc.trace[i + 1] = lsx_transform(args.keys[i], loc.trace[i]) BY DEF KuzTraced
<1>7. args.dekeys[i + 1] = linv_transform(args.keys[i + 1])
  BY <1>1, <1>2, DecryptKeysEach DEF KuzTraced
<1> QED BY <1>3, <1>5, <1>6, <1>7

\* The last key, behind which decryption begins with the substituted sum.
LEMMA EncryptReturns == ASSUME RetraceInv, EncryptReturn PROVE RetraceInv'
<1> DEFINE k == args.keys[10]
           x == loc.trace[10]
           y == loc.trace[9]
           j == args.keys[9]
           out == Xor(args.keys[10], loc.temp)
           first == [loc EXCEPT !.i = 10, !.temp = s_transform(out)]
           second == [loc EXCEPT !.temp = Xor(linv_transform(out), args.dekeys[10])]
<1>1. /\ fn = "kuz_encrypt" /\ fn' = "kuz_decrypt" /\ args' = args /\ loc.i = 9
      /\ ret' = <<out>>
      /\ loc' = IF args.impl = "generic" THEN first ELSE second
  BY DEF EncryptReturn
<1>2. KuzEncryptState BY <1>1 DEF RetraceInv
<1>3. /\ loc \in [i : 0 .. 9, temp : Blocks, trace : Seq(Blocks)]
      /\ KuzTraced(9) /\ loc.temp = x
  BY <1>1, <1>2 DEF KuzEncryptState
<1>4. /\ k \in Blocks /\ x \in Blocks /\ y \in Blocks /\ j \in Blocks
      /\ x = lsx_transform(j, y) /\ args.dekeys[10] = linv_transform(k)
  <2>1. 9 \in 1 .. 9 /\ 9 + 1 = 10 OBVIOUS
  <2> QED BY <1>3, <2>1, TraceStep
<1>5. out = Xor(x, k) /\ out = Xor(k, x) BY <1>3, <1>4, KuzSums
<1>6. CASE args.impl = "generic"
  <2>1. loc' \in [i : 1 .. 10, temp : Blocks, trace : Seq(Blocks)] /\ loc'.i = 10
        /\ loc'.temp = s_transform(Xor(x, k)) /\ loc'.trace = loc.trace
    <3> DEFINE t == s_transform(Xor(x, k))
    <3>1. t \in Blocks BY <1>4, KuzSums
    <3>2. loc' = [loc EXCEPT !.i = 10, !.temp = t] BY <1>1, <1>5, <1>6
    <3>3. loc \in [i : 0 .. 9, temp : Blocks, trace : Seq(Blocks)] BY <1>3
    <3> HIDE DEF t, k, x, y, j
    <3>4. loc' = [i |-> 10, temp |-> t, trace |-> loc.trace] BY ONLY <3>2, <3>3
    <3>5. loc.trace \in Seq(Blocks) BY ONLY <3>3
    <3>6. loc' \in [i : 1 .. 10, temp : Blocks, trace : Seq(Blocks)] /\ loc'.i = 10
          /\ loc'.temp = t /\ loc'.trace = loc.trace
      BY ONLY <3>1, <3>4, <3>5
    <3> QED BY <3>6 DEF t
  <2> QED BY <1>1, <1>3, <2>1 DEF KuzDecryptState, KuzTraced, RetraceInv, OtherFunctions
<1>7. CASE args.impl # "generic"
  <2>1. Xor(linv_transform(out), args.dekeys[10]) = s_transform(Xor(j, y))
    BY <1>4, <1>5, KuznyechikRoundBack
  <2>2. loc' \in [i : 1 .. 10, temp : Blocks, trace : Seq(Blocks)] /\ loc'.i = 9
        /\ loc'.temp = s_transform(Xor(y, j)) /\ loc'.trace = loc.trace
    <3> DEFINE t == s_transform(Xor(y, j))
    <3>1. t \in Blocks /\ t = s_transform(Xor(j, y)) BY <1>4, KuzSums
    <3>2. loc' = [loc EXCEPT !.temp = t] BY <1>1, <1>7, <2>1, <3>1
    <3>3. loc \in [i : 0 .. 9, temp : Blocks, trace : Seq(Blocks)] /\ loc.i = 9 BY <1>1, <1>3
    <3> HIDE DEF t, k, x, y, j
    <3>4. loc' \in [i : 1 .. 10, temp : Blocks, trace : Seq(Blocks)] /\ loc'.i = 9
          /\ loc'.temp = t /\ loc'.trace = loc.trace
      BY ONLY <3>1, <3>2, <3>3
    <3> QED BY <3>4 DEF t
  <2> QED BY <1>1, <1>3, <2>2 DEF KuzDecryptState, KuzTraced, RetraceInv, OtherFunctions
<1> QED BY <1>6, <1>7

\* A round of xli_si leads from what belongs to round i to what belongs to round i - 1, by
\* KuznyechikRoundBack.
LEMMA DecryptRounds == ASSUME RetraceInv, DecryptRound PROVE RetraceInv'
<1> DEFINE i == loc.i - 1
           next == args.keys[i + 1]
           y == loc.trace[i + 1]
           k == args.keys[i]
           x == loc.trace[i]
           t == s_transform(Xor(x, k))
<1>1. /\ fn = "kuz_decrypt" /\ fn' = "kuz_decrypt" /\ args' = args /\ ret' = ret /\ loc.i > 1
      /\ loc' = [loc EXCEPT !.i = @ - 1, !.temp = xli_si(@, args.dekeys[loc.i])]
  BY DEF DecryptRound
<1>2. KuzDecryptState BY <1>1 DEF RetraceInv
<1>3. /\ loc \in [i : 1 .. 10, temp : Blocks, trace : Seq(Blocks)]
      /\ KuzTraced(9) /\ ret = <<ret[1]>>
  BY <1>2 DEF KuzDecryptState
<1>4. i \in 1 .. 9 /\ loc.i = i + 1 BY <1>1, <1>3
<1>5. loc.temp = s_transform(Xor(y, next)) BY <1>2, <1>4 DEF KuzDecryptState
<1>6. /\ next \in Blocks /\ y \in Blocks /\ k \in Blocks /\ x \in Blocks
      /\ y = lsx_transform(k, x) /\ args.dekeys[i + 1] = linv_transform(next)
  <2> HIDE DEF i
  <2> QED BY <1>3, <1>4, TraceStep
<1> HIDE DEF i, next, y, k, x
<1>7. xli_si(loc.temp, args.dekeys[i + 1]) = s_transform(Xor(k, x))
  BY <1>5, <1>6, KuznyechikRoundBack
<1>8. t \in Blocks /\ t = s_transform(Xor(k, x)) BY <1>6, KuzSums
<1>9. loc' = [loc EXCEPT !.i = i, !.temp = t]
  <2>1. loc.i - 1 = i BY DEF i
  <2> HIDE DEF t
  <2> QED BY <1>1, <1>4, <1>7, <1>8, <2>1
<1>10. loc' \in [i : 1 .. 10, temp : Blocks, trace : Seq(Blocks)] /\ loc'.i = i
       /\ loc'.temp = t /\ loc'.trace = loc.trace
  <2>1. i \in 1 .. 10 BY <1>4
  <2> HIDE DEF t
  <2> QED BY <1>3, <1>8, <1>9, <2>1
<1>11. t = s_transform(Xor(loc.trace[i], args.keys[i])) BY DEF t, x, k
<1> HIDE DEF t
<1>12. KuzDecryptState' BY <1>1, <1>3, <1>10, <1>11 DEF KuzDecryptState, KuzTraced
<1> QED BY <1>1, <1>12 DEF RetraceInv, OtherFunctions

\* The last substitution and the first key leave the block that trace begins with.
LEMMA DecryptReturns == ASSUME RetraceInv, DecryptReturn PROVE RetraceInv'
<1> DEFINE k == args.keys[1]
           x == loc.trace[1]
           out == Xor(sinv_transform(loc.temp), args.keys[1])
<1>1. /\ fn = "kuz_decrypt" /\ fn' = "return" /\ args' = args /\ loc.i = 1
      /\ ret' = Append(ret, out)
  BY DEF DecryptReturn
<1>2. KuzDecryptState BY <1>1 DEF RetraceInv
<1>3. KuzTraced(9) /\ loc.temp = s_transform(Xor(x, k)) /\ ret = <<ret[1]>> /\ x = args.input.in
  BY <1>1, <1>2 DEF KuzDecryptState, KuzTraced
<1>4. k \in Blocks /\ x \in Blocks
  <2>1. 1 \in 1 .. 9 OBVIOUS
  <2> QED BY <1>3, <2>1, TraceStep
<1>5. out = x BY <1>3, <1>4, KuzSums, Substitutions
<1> HIDE DEF out
<1>6. ret'[2] = out
  <2> DEFINE r == ret[1]
  <2>1. ret' = Append(<<r>>, out) BY <1>1, <1>3
  <2> HIDE DEF r
  <2> QED BY ONLY <2>1
<1> QED BY <1>1, <1>3, <1>5, <1>6 DEF RetraceInv, OtherFunctions

\* The halves of a block, which are the block again, and the words of a key.
LEMMA HalvesOf ==
    ASSUME NEW in \in Bytes(8)
    PROVE  Words(in, 4) \in Halves /\ Words(in, 4)[1] \o Words(in, 4)[2] = in
<1> DEFINE w == Words(in, 4)
           a == w[1]
           b == w[2]
           c == a \o b
<1>1. w \in [1 .. 2 -> Bytes(4)]
      /\ \A i \in 1 .. 2, j \in 1 .. 4 : w[i][j] = in[(i - 1) * 4 + j]
  <2>1. 4 \in {2, 4, 16} /\ 2 \in Nat OBVIOUS
  <2>2. in \in Bytes(2 * 4) BY DEF Bytes
  <2> QED BY <2>1, <2>2, WordsEach
<1>2. a \in Bytes(4) /\ b \in Bytes(4) BY <1>1
<1>3. \A j \in 1 .. 4 : a[j] = in[j] /\ b[j] = in[4 + j]
  <2>1. \A j \in 1 .. 4 : (1 - 1) * 4 + j = j /\ (2 - 1) * 4 + j = 4 + j OBVIOUS
  <2> HIDE DEF w
  <2> QED BY <1>1, <2>1
<1> HIDE DEF a, b, w
<1>4. /\ c \in Bytes(4 + 4) /\ \A i \in 1 .. 4 : c[i] = a[i]
      /\ \A i \in 1 .. 4 : c[4 + i] = b[i]
  <2>1. 4 \in Nat OBVIOUS
  <2> QED BY <1>2, <2>1, ConcatBytes
<1> HIDE DEF c
<1>5. ASSUME NEW i \in 1 .. 8 PROVE c[i] = in[i]
  <2>1. CASE i \in 1 .. 4 BY <1>3, <1>4, <2>1
  <2>2. CASE i \notin 1 .. 4
    <3>1. i - 4 \in 1 .. 4 /\ 4 + (i - 4) = i BY <2>2
    <3> QED BY <1>3, <1>4, <3>1
  <2> QED BY <2>1, <2>2
<1>6. 8 \in Nat /\ 4 + 4 = 8 OBVIOUS
<1>7. c = in BY <1>4, <1>5, <1>6, BytesEqual
<1> QED BY <1>1, <1>7 DEF a, b, c, w, Halves

\* The call of GOST 28147-89: two halves and eight words of the key.
LEMMA GostBegins == ASSUME gost28147 PROVE RetraceInv'
<1>1. PICK input \in Inputs.gost28147 :
          /\ fn' = "gost_encrypt"
          /\ args' = [call |-> "gost28147", input |-> input, key |-> gost28147_setkey_raw(input.key)]
          /\ loc' = [r |-> 0, n |-> Words(input.in, 4), trace |-> <<Words(input.in, 4)>>]
  BY DEF gost28147
<1> DEFINE n == Words(input.in, 4)
           key == Words(input.key, 4)
<1>2. input \in [sbox : [1 .. 8 -> [1 .. 16 -> 0 .. 15]], key : [1 .. 32 -> Byte],
                 in : [1 .. 8 -> Byte]]
  BY InputsAssumption
<1>3. n \in Halves BY <1>2, HalvesOf DEF Bytes
<1>4. key \in GostKeys
  <2>1. 4 \in {2, 4, 16} /\ 8 \in Nat /\ 8 * 4 = 32 OBVIOUS
  <2> QED BY <1>2, <2>1, WordsEach DEF GostKeys, Bytes
<1>5. args' = [call |-> "gost28147", input |-> input, key |-> key]
  BY <1>1 DEF gost28147_setkey_raw
<1>6. loc' = [r |-> 0, n |-> n, trace |-> <<n>>] BY <1>1
<1>7. n = Words(input.in, 4) OBVIOUS
<1> HIDE DEF n, key
<1>8. <<n>> \in Seq(Halves) /\ <<n>> \in [1 .. 1 -> Halves] /\ <<n>>[1] = n BY <1>3
<1>9. args' \in GostCalls /\ args'.input = input BY <1>4, <1>5 DEF GostCalls
<1>10. loc' \in [r : 0 .. 32, n : Halves, trace : Seq(Halves)] /\ loc'.r = 0 /\ loc'.n = n
       /\ loc'.trace = <<n>>
  BY <1>3, <1>6, <1>8
<1>11. GostEncryptState' BY <1>7, <1>8, <1>9, <1>10 DEF GostEncryptState, GostTraced
<1> QED BY <1>1, <1>11 DEF RetraceInv, OtherFunctions

\* What a call has in hand.
LEMMA GostOperands ==
    ASSUME args \in GostCalls
    PROVE  args.input.sbox \in SBoxes /\ args.key \in GostKeys /\ args.input.in \in Bytes(8)
<1>1. args.input \in Inputs.gost28147 /\ args.key \in GostKeys BY DEF GostCalls
<1>2. args.input \in [sbox : [1 .. 8 -> [1 .. 16 -> 0 .. 15]], key : [1 .. 32 -> Byte],
                      in : [1 .. 8 -> Byte]]
  BY <1>1, InputsAssumption
<1> QED BY <1>1, <1>2 DEF SBoxes, Nibble, Bytes

\* Halves that change places twice are where they were.
LEMMA SwappedTwice == \A n \in Halves : Swapped(n) \in Halves /\ Swapped(Swapped(n)) = n
BY DEF Swapped, Halves

\* A round of the encryption, and the halves that change places at its end.
LEMMA GostEncrypts == ASSUME RetraceInv, GostEncrypt PROVE RetraceInv'
<1>1. /\ fn = "gost_encrypt" /\ args' = args
      /\ CryptRound("encrypt") \/ /\ loc.r = 32 /\ fn' = "gost_decrypt"
                                  /\ ret' = <<loc.n[2] \o loc.n[1]>>
                                  /\ loc' = [loc EXCEPT !.r = 0, !.n = <<@[2], @[1]>>]
  BY DEF GostEncrypt, CryptRound
<1>2. /\ args \in GostCalls
      /\ loc \in [r : 0 .. 32, n : Halves, trace : Seq(Halves)]
      /\ loc.trace \in [1 .. loc.r + 1 -> Halves]
      /\ loc.trace[1] = Words(args.input.in, 4)
      /\ \A j \in 1 .. loc.r :
            loc.trace[j + 1] = Round(args.input.sbox, args.key, "encrypt", j - 1, loc.trace[j])
      /\ loc.n = loc.trace[loc.r + 1]
  BY <1>1 DEF RetraceInv, GostEncryptState, GostTraced
<1>3. CASE CryptRound("encrypt")
  <2> DEFINE m == loc.r + 1
             trace == loc.trace
             t == Round(args.input.sbox, args.key, "encrypt", loc.r, loc.n)
             next == Append(trace, t)
  <2>1. /\ fn' = fn /\ loc.r < 32
        /\ loc' = [loc EXCEPT !.r = m, !.n = t, !.trace = next]
    BY <1>3 DEF CryptRound
  <2>2. m \in 1 .. 32 /\ m \in Nat /\ loc.r \in 0 .. 31
    <3>1. loc \in [r : 0 .. 32, n : Halves, trace : Seq(Halves)] BY <1>2
    <3>2. loc.r \in 0 .. 32 /\ loc.r < 32 BY <2>1, <3>1
    <3> QED BY ONLY <3>2
  <2>3. t \in Halves
    <3>1. loc.n \in Halves BY <1>2
    <3> QED BY <1>2, <2>2, <3>1, GostOperands, RoundType
  <2>4. t = Round(args.input.sbox, args.key, "encrypt", m - 1, trace[m])
    <3>1. m - 1 = loc.r BY <2>2
    <3> QED BY <1>2, <3>1
  <2>5. trace \in [1 .. m -> Halves] BY <1>2
  <2>6. /\ next \in Seq(Halves) /\ next \in [1 .. m + 1 -> Halves] /\ next[m + 1] = t
        /\ \A i \in 1 .. m : next[i] = trace[i]
    <3>1. m \in Nat BY <2>2
    <3> HIDE DEF m, t, trace
    <3>2. Append(trace, t) \in Seq(Halves) BY ONLY <2>3, <2>5, <3>1, AppendTo
    <3>3. Append(trace, t) \in [1 .. m + 1 -> Halves] BY ONLY <2>3, <2>5, <3>1, AppendTo
    <3>4. Append(trace, t)[m + 1] = t BY ONLY <2>3, <2>5, <3>1, AppendTo
    <3>5. \A i \in 1 .. m : Append(trace, t)[i] = trace[i] BY ONLY <2>3, <2>5, <3>1, AppendTo
    <3> QED BY ONLY <3>2, <3>3, <3>4, <3>5
  <2> HIDE DEF t, next
  <2>7. ASSUME NEW j \in 1 .. m
        PROVE  next[j + 1] = Round(args.input.sbox, args.key, "encrypt", j - 1, next[j])
    <3>1. CASE j = m BY <2>2, <2>4, <2>6, <3>1
    <3>2. CASE j # m
      <4>1. j \in 1 .. loc.r /\ j + 1 \in 1 .. m /\ j \in 1 .. m BY <2>2, <3>2
      <4> QED BY <1>2, <2>6, <4>1
    <3> QED BY <3>1, <3>2
  <2>8. next[1] = Words(args.input.in, 4)
    <3>1. 1 \in 1 .. m BY <2>2
    <3> QED BY <1>2, <2>6, <3>1
  <2> HIDE DEF m, trace
  <2>9. loc' = [r |-> m, n |-> t, trace |-> next]
    <3>1. loc \in [r : 0 .. 32, n : Halves, trace : Seq(Halves)] BY <1>2
    <3> QED BY ONLY <2>1, <3>1
  <2>10. loc' \in [r : 0 .. 32, n : Halves, trace : Seq(Halves)] /\ loc'.r = m /\ loc'.n = t
         /\ loc'.trace = next
    <3>1. m \in 0 .. 32 BY <2>2
    <3> QED BY ONLY <2>3, <2>6, <2>9, <3>1
  <2>11. GostEncryptState'
    BY <1>1, <1>2, <2>6, <2>7, <2>8, <2>10 DEF GostEncryptState, GostTraced
  <2> QED BY <1>1, <2>1, <2>11 DEF RetraceInv, OtherFunctions
<1>4. CASE /\ loc.r = 32 /\ fn' = "gost_decrypt"
           /\ ret' = <<loc.n[2] \o loc.n[1]>>
           /\ loc' = [loc EXCEPT !.r = 0, !.n = <<@[2], @[1]>>]
  <2> DEFINE t == Swapped(loc.n)
             trace == loc.trace
  <2>1. loc.n \in Halves /\ trace \in Seq(Halves) BY <1>2
  <2>2. t \in Halves BY <2>1, SwappedTwice
  <2>3. loc' = [r |-> 0, n |-> t, trace |-> trace] BY <1>2, <1>4 DEF Swapped
  <2>4. t = Swapped(trace[33]) BY <1>2, <1>4
  <2>5. /\ trace \in [1 .. 33 -> Halves] /\ trace[1] = Words(args.input.in, 4)
        /\ \A j \in 1 .. 32 :
              trace[j + 1] = Round(args.input.sbox, args.key, "encrypt", j - 1, trace[j])
    BY <1>2, <1>4
  <2> HIDE DEF t, trace
  <2>6. loc' \in [r : 0 .. 32, n : Halves, trace : Seq(Halves)] /\ loc'.r = 0 /\ loc'.n = t
        /\ loc'.trace = trace
    BY ONLY <2>1, <2>2, <2>3
  <2>7. ret' = <<ret'[1]>> BY <1>4
  <2>8. 32 + 1 = 33 /\ 33 - 0 = 33 OBVIOUS
  <2>9. args' \in GostCalls /\ args' = args BY <1>1, <1>2
  <2>10. GostTraced(32)' BY ONLY <2>5, <2>6, <2>8, <2>9 DEF GostTraced
  <2>11. loc'.n = Swapped(loc'.trace[33 - loc'.r]) BY ONLY <2>4, <2>6, <2>8
  <2>12. GostDecryptState' BY ONLY <2>7, <2>10, <2>11 DEF GostDecryptState
  <2> QED BY <1>4, <2>12 DEF RetraceInv, OtherFunctions
<1> QED BY <1>1, <1>3, <1>4

\* A round of the decryption takes the last round back that has not been, and the block is
\* returned at the end.
LEMMA GostDecrypts == ASSUME RetraceInv, GostDecrypt PROVE RetraceInv'
<1>1. /\ fn = "gost_decrypt" /\ args' = args
      /\ CryptRound("decrypt") \/ /\ loc.r = 32 /\ fn' = "return"
                                  /\ ret' = Append(ret, loc.n[2] \o loc.n[1])
  BY DEF GostDecrypt, CryptRound
<1>2. GostTraced(32) /\ loc.n = Swapped(loc.trace[33 - loc.r]) /\ ret = <<ret[1]>>
  BY <1>1 DEF RetraceInv, GostDecryptState
<1>3. /\ args \in GostCalls
      /\ loc \in [r : 0 .. 32, n : Halves, trace : Seq(Halves)]
      /\ loc.trace \in [1 .. 33 -> Halves]
      /\ loc.trace[1] = Words(args.input.in, 4)
      /\ \A j \in 1 .. 32 :
            loc.trace[j + 1] = Round(args.input.sbox, args.key, "encrypt", j - 1, loc.trace[j])
  BY <1>2 DEF GostTraced
<1>4. CASE CryptRound("decrypt")
  <2> DEFINE r == loc.r
             trace == loc.trace
             x == trace[32 - r]
             t == Round(args.input.sbox, args.key, "decrypt", r, loc.n)
  <2>1. /\ fn' = fn /\ ret' = ret /\ r < 32
        /\ loc' = [loc EXCEPT !.r = r + 1, !.n = t, !.trace = trace]
    BY <1>4 DEF CryptRound
  <2>2. loc \in [r : 0 .. 32, n : Halves, trace : Seq(Halves)] BY <1>3
  <2>3. r \in 0 .. 31 /\ trace \in Seq(Halves)
    <3>1. r \in 0 .. 32 /\ r < 32 /\ trace \in Seq(Halves) BY <2>1, <2>2
    <3> HIDE DEF r, trace
    <3> QED BY ONLY <3>1
  <2>4. x \in Halves /\ trace[33 - r] = Round(args.input.sbox, args.key, "encrypt", 31 - r, x)
    <3> DEFINE j == 32 - r
    <3>1. j \in 1 .. 32 /\ j \in 1 .. 33 /\ j + 1 = 33 - r /\ j - 1 = 31 - r
      <4> HIDE DEF r
      <4> QED BY <2>3
    <3>2. x = trace[j] OBVIOUS
    <3> HIDE DEF j, r, x
    <3>3. x \in Halves BY <1>3, <3>1, <3>2
    <3>4. trace[j + 1] = Round(args.input.sbox, args.key, "encrypt", j - 1, x)
      BY <1>3, <3>1, <3>2
    <3> QED BY <3>1, <3>3, <3>4
  <2>5. t = Swapped(x)
    <3>1. loc.n = Swapped(trace[33 - r]) BY <1>2
    <3>2. args.input.sbox \in SBoxes /\ args.key \in GostKeys BY <1>3, GostOperands
    <3> DEFINE sbox == args.input.sbox
               key == args.key
               y == Round(sbox, key, "encrypt", 31 - r, x)
    <3>3. loc.n = Swapped(y) BY <2>4, <3>1
    <3>4. t = Round(sbox, key, "decrypt", r, loc.n) OBVIOUS
    <3>5. x \in Halves /\ r \in 0 .. 31 BY <2>3, <2>4
    <3>6. sbox \in SBoxes /\ key \in GostKeys BY <3>2
    <3> HIDE DEF x, r, trace, sbox, key, t
    <3>7. Round(sbox, key, "decrypt", r, Swapped(Round(sbox, key, "encrypt", 31 - r, x))) = Swapped(x)
      BY ONLY <3>5, <3>6, RoundBack
    <3> QED BY ONLY <3>3, <3>4, <3>7
  <2>6. t \in Halves BY <2>4, <2>5, SwappedTwice
  <2>7. r + 1 \in 0 .. 32 /\ 33 - (r + 1) = 32 - r
    <3> HIDE DEF r
    <3> QED BY <2>3
  <2>8. t = Swapped(trace[33 - (r + 1)]) BY <2>5, <2>7
  <2>9. loc' = [r |-> r + 1, n |-> t, trace |-> trace]
    <3>1. loc \in [r : 0 .. 32, n : Halves, trace : Seq(Halves)] BY <1>3
    <3> HIDE DEF t, trace, r
    <3> QED BY ONLY <2>1, <3>1
  <2>10. /\ trace \in [1 .. 33 -> Halves] /\ trace[1] = Words(args.input.in, 4)
         /\ \A j \in 1 .. 32 :
               trace[j + 1] = Round(args.input.sbox, args.key, "encrypt", j - 1, trace[j])
    BY <1>3
  <2> HIDE DEF t, trace, r, x
  <2>11. loc' \in [r : 0 .. 32, n : Halves, trace : Seq(Halves)] /\ loc'.r = r + 1 /\ loc'.n = t
         /\ loc'.trace = trace
    BY ONLY <2>3, <2>6, <2>7, <2>9
  <2>12. 32 + 1 = 33 OBVIOUS
  <2>13. args' \in GostCalls /\ args' = args BY <1>1, <1>3
  <2>14. GostTraced(32)' BY ONLY <2>10, <2>11, <2>12, <2>13 DEF GostTraced
  <2>15. ret' = <<ret'[1]>> BY <1>2, <2>1
  <2>16. loc'.n = Swapped(loc'.trace[33 - loc'.r]) BY ONLY <2>8, <2>11
  <2>17. GostDecryptState' BY ONLY <2>14, <2>15, <2>16 DEF GostDecryptState
  <2> QED BY <1>1, <2>1, <2>17 DEF RetraceInv, OtherFunctions
<1>5. CASE loc.r = 32 /\ fn' = "return" /\ ret' = Append(ret, loc.n[2] \o loc.n[1])
  <2> DEFINE w == Words(args.input.in, 4)
             out == loc.n[2] \o loc.n[1]
             r == ret[1]
  <2>1. w \in Halves /\ w[1] \o w[2] = args.input.in BY <1>3, GostOperands, HalvesOf
  <2>2. loc.n = Swapped(w)
    <3>1. loc.n = Swapped(loc.trace[33 - loc.r]) /\ loc.r = 32 /\ loc.trace[1] = w BY <1>2, <1>3, <1>5
    <3>2. 33 - 32 = 1 OBVIOUS
    <3> QED BY ONLY <3>1, <3>2
  <2>3. out = args.input.in
    <3>1. loc.n[2] = w[1] /\ loc.n[1] = w[2]
      <4> HIDE DEF w
      <4> QED BY ONLY <2>2 DEF Swapped
    <3> QED BY <2>1, <3>1
  <2>4. ret' = Append(<<r>>, out) BY <1>2, <1>5
  <2> HIDE DEF r, out
  <2>5. ret'[2] = out BY ONLY <2>4
  <2> QED BY <1>1, <1>5, <2>3, <2>5 DEF RetraceInv, OtherFunctions
<1> QED BY <1>1, <1>4, <1>5

\* RC2: the bytes of the key.
LEMMA KeyBytes ==
    /\ \A u \in Seq(Byte), i \in Int : At(u, i) \in Byte
    /\ \A a \in Byte : key_table[a + 1] \in Byte
<1>1. 0 \in Byte BY DEF Byte
<1>2. \A u \in Seq(Byte), i \in Int : At(u, i) \in Byte BY <1>1 DEF At
<1>3. key_table \in [1 .. 256 -> Byte] BY InputsAssumption
<1>4. \A a \in Byte : a + 1 \in 1 .. 256 BY DEF Byte
<1> QED BY <1>2, <1>3, <1>4

\* The key grows by a byte in the first loop.
LEMMA StretchedType ==
    ASSUME NEW k \in Seq(Byte), Len(k) \in 0 .. 127, NEW size \in Int
    PROVE  Stretched(k, size) \in Seq(Byte) /\ Len(Stretched(k, size)) = Len(k) + 1
<1> DEFINE i == Len(k) + 1
           a == At(k, i - size)
           b == At(k, i - 1)
           x == key_table[((a + b) % 256) + 1]
<1>1. i \in Int /\ i - size \in Int /\ i - 1 \in Int OBVIOUS
<1>2. a \in Byte /\ b \in Byte
  <2> HIDE DEF i
  <2> QED BY <1>1, KeyBytes
<1>3. x \in Byte
  <2> HIDE DEF a, b
  <2>1. (a + b) % 256 \in Byte BY <1>2 DEF Byte
  <2> QED BY <2>1, KeyBytes
<1>4. Stretched(k, size) = Append(k, x) BY DEF Stretched
<1> HIDE DEF x
<1> QED BY <1>3, <1>4

\* T8 bytes, and the power of two that clears the highest bits of the first.
LEMMA EffectiveBytes ==
    ASSUME NEW bits \in 1 .. 1024
    PROVE  LET t8 == (bits + 7) \div 8 IN
           /\ t8 \in 1 .. 128
           /\ 8 - (8 * t8 - bits) \in 1 .. 8
OBVIOUS

\* A byte stays one when its highest bits are cleared.
LEMMA ClearedType ==
    ASSUME NEW x \in Byte, NEW e \in 1 .. 8
    PROVE  x % 2 ^ e \in Byte
<1>1. /\ 2 ^ 1 = 2 /\ 2 ^ 2 = 4 /\ 2 ^ 3 = 8 /\ 2 ^ 4 = 16
      /\ 2 ^ 5 = 32 /\ 2 ^ 6 = 64 /\ 2 ^ 7 = 128 /\ 2 ^ 8 = 256
  OBVIOUS
<1>2. e \in {1, 2, 3, 4, 5, 6, 7, 8} OBVIOUS
<1>3. \A m \in {2, 4, 8, 16, 32, 64, 128, 256} : x % m \in Byte BY DEF Byte
<1>4. 2 ^ e \in {2, 4, 8, 16, 32, 64, 128, 256}
  <2>1. CASE e = 1 BY <1>1, <2>1
  <2>2. CASE e = 2 BY <1>1, <2>2
  <2>3. CASE e = 3 BY <1>1, <2>3
  <2>4. CASE e = 4 BY <1>1, <2>4
  <2>5. CASE e = 5 BY <1>1, <2>5
  <2>6. CASE e = 6 BY <1>1, <2>6
  <2>7. CASE e = 7 BY <1>1, <2>7
  <2>8. CASE e = 8 BY <1>1, <2>8
  <2> QED BY <1>2, <2>1, <2>2, <2>3, <2>4, <2>5, <2>6, <2>7, <2>8
<1> QED BY <1>3, <1>4

\* What the loop from behind begins with are T8 bytes.
LEMMA MaskedType ==
    ASSUME NEW k \in Seq(Byte), Len(k) = 128, NEW bits \in 1 .. 1024
    PROVE  Masked(k, bits) \in Seq(Byte) /\ Len(Masked(k, bits)) = (bits + 7) \div 8
<1> DEFINE t8 == (bits + 7) \div 8
           e == 8 - (8 * t8 - bits)
           a == k[129 - t8]
           x == key_table[(a % 2 ^ e) + 1]
           rest == SubSeq(k, 130 - t8, 128)
<1>1. t8 \in 1 .. 128 /\ e \in 1 .. 8 BY EffectiveBytes
<1>2. Masked(k, bits) = <<x>> \o rest BY DEF Masked
<1>3. (bits + 7) \div 8 = t8 OBVIOUS
<1> HIDE DEF t8, e
<1>4. k \in Bytes(128) BY SequencesAreBytes
<1>5. a \in Byte
  <2> DEFINE j == 129 - t8
  <2>1. j \in 1 .. 128 BY <1>1
  <2>2. a = k[j] OBVIOUS
  <2>3. k \in [1 .. 128 -> Byte] BY <1>4 DEF Bytes
  <2> HIDE DEF j, a
  <2> QED BY ONLY <2>1, <2>2, <2>3
<1> HIDE DEF a
<1>6. x \in Byte
  <2>1. a % 2 ^ e \in Byte BY <1>1, <1>5, ClearedType
  <2> QED BY <2>1, KeyBytes
<1> HIDE DEF x
<1>7. rest \in Bytes(t8 - 1)
  <2> DEFINE n == 128
             from == 130 - t8
  <2>1. from \in 1 .. n + 1 /\ n \in from - 1 .. n /\ n \in Nat BY <1>1
  <2>2. n - from + 1 = t8 - 1 BY <1>1
  <2>3. rest = SubSeq(k, from, n) /\ k \in Bytes(n) BY <1>4
  <2> HIDE DEF n, from, rest
  <2>4. SubSeq(k, from, n) \in Bytes(n - from + 1) BY <2>1, <2>3, SubBytes
  <2> QED BY <2>2, <2>3, <2>4
<1> HIDE DEF rest
<1>8. rest \in Seq(Byte) /\ Len(rest) = t8 - 1
  <2>1. t8 - 1 \in Nat BY <1>1
  <2> QED BY <1>7, <2>1, BytesAreSequences
<1> DEFINE one == <<x>>
<1>9. one \in Seq(Byte) /\ Len(one) = 1 BY <1>6
<1> HIDE DEF one
<1>10. one \o rest \in Seq(Byte) /\ Len(one \o rest) = Len(one) + Len(rest)
  <2>1. one \in Seq(Byte) /\ rest \in Seq(Byte) BY <1>8, <1>9
  <2> QED BY ONLY <2>1, ConcatProperties
<1>11. Len(one \o rest) = t8 BY <1>1, <1>8, <1>9, <1>10
<1> QED BY <1>2, <1>3, <1>10, <1>11 DEF one

\* The loop from behind puts a byte in front.
LEMMA ReducedType ==
    ASSUME NEW k \in Seq(Byte), NEW bits \in 1 .. 1024, Len(k) \in (bits + 7) \div 8 .. 127
    PROVE  Reduced(k, bits) \in Seq(Byte) /\ Len(Reduced(k, bits)) = Len(k) + 1
<1> DEFINE t8 == (bits + 7) \div 8
           a == k[t8]
           b == k[1]
           x == key_table[XorByte(a, b) + 1]
<1>1. t8 \in 1 .. 128 BY EffectiveBytes
<1>2. Reduced(k, bits) = <<x>> \o k BY DEF Reduced
<1>3. Len(k) \in t8 .. 127 OBVIOUS
<1> HIDE DEF t8
<1>4. t8 \in 1 .. Len(k) /\ 1 \in 1 .. Len(k) BY <1>1, <1>3
<1>5. a \in Byte /\ b \in Byte BY <1>4
<1> HIDE DEF a, b
<1>6. x \in Byte
  <2>1. XorByte(a, b) \in Byte BY <1>5, XorByteGroup
  <2> QED BY <2>1, KeyBytes
<1> HIDE DEF x
<1> DEFINE one == <<x>>
<1>7. one \in Seq(Byte) /\ Len(one) = 1 BY <1>6
<1> HIDE DEF one
<1>8. one \o k \in Seq(Byte) /\ Len(one \o k) = Len(one) + Len(k)
  BY <1>7, ConcatProperties, Zenon
<1> QED BY <1>2, <1>3, <1>7, <1>8 DEF one

\* A word more.
Joined(words, i, before) == before \o words[i]

\* The four words of a block in a row.
LEMMA ConcatOfFour ==
    ASSUME NEW w \in Rc2Blocks
    PROVE  Concat(w) = ((w[1] \o w[2]) \o w[3]) \o w[4]
<1> DEFINE r0 == <<>>
           Scheme(g) == [i \in 0 .. 4 |-> IF i = 0 THEN r0 ELSE Joined(w, i, g[i - 1])]
           value == CHOOSE g : g = Scheme(g)
           r1 == Joined(w, 1, r0)
           r2 == Joined(w, 2, r1)
           r3 == Joined(w, 3, r2)
           r4 == Joined(w, 4, r3)
           f == [i \in 0 .. 4 |-> IF i = 0 THEN r0 ELSE IF i = 1 THEN r1 ELSE IF i = 2 THEN r2
                                  ELSE IF i = 3 THEN r3 ELSE r4]
<1>1. Concat(w) = value[4]
  <2>1. Len(w) = 4
    <3>1. 4 \in Nat OBVIOUS
    <3> QED BY <3>1, AreSequences DEF Rc2Blocks
  <2> QED BY <2>1 DEF Concat, Joined
<1>2. r1 = w[1]
  <2>1. w[1] \in Bytes(2) BY DEF Rc2Blocks
  <2>2. w[1] \in Seq(Byte) BY <2>1, BytesAreSequences
  <2> DEFINE u == w[1]
  <2>3. u \in Seq(Byte) BY <2>2
  <2> HIDE DEF u
  <2>4. <<>> \o u = u BY <2>3
  <2> QED BY <2>4 DEF u, Joined
<1>3. ASSUME NEW i \in 0 .. 4 PROVE f[i] = Scheme(f)[i]
  <2> HIDE DEF r0
  <2>1. CASE i = 0 BY <2>1
  <2>2. CASE i = 1
    <3>1. f[0] = r0 /\ f[1] = Joined(w, 1, r0) BY <2>2
    <3> HIDE DEF f
    <3> QED BY <2>2, <3>1
  <2>3. CASE i = 2
    <3>1. f[1] = r1 /\ f[2] = Joined(w, 2, r1) BY <2>3
    <3> HIDE DEF f
    <3> QED BY <2>3, <3>1
  <2>4. CASE i = 3
    <3>1. f[2] = r2 /\ f[3] = Joined(w, 3, r2) BY <2>4
    <3> HIDE DEF f
    <3> QED BY <2>4, <3>1
  <2>5. CASE i = 4
    <3>1. f[3] = r3 /\ f[4] = Joined(w, 4, r3) BY <2>5
    <3> HIDE DEF f
    <3> QED BY <2>5, <3>1
  <2> QED BY <2>1, <2>2, <2>3, <2>4, <2>5
<1>4. f = Scheme(f)
  <2> HIDE DEF r0, r1, r2, r3, r4
  <2>1. DOMAIN f = 0 .. 4 /\ f = [i \in DOMAIN f |-> f[i]] OBVIOUS
  <2> HIDE DEF f
  <2> QED BY <1>3, <2>1
<1>5. value = Scheme(value)
  <2> HIDE DEF f, Scheme
  <2> QED BY <1>4
<1> HIDE DEF value
<1>6. /\ value[0] = r0 /\ value[1] = Joined(w, 1, value[0]) /\ value[2] = Joined(w, 2, value[1])
      /\ value[3] = Joined(w, 3, value[2]) /\ value[4] = Joined(w, 4, value[3])
  <2> HIDE DEF r0
  <2>1. \A i \in 0 .. 4 : value[i] = IF i = 0 THEN r0 ELSE Joined(w, i, value[i - 1]) BY <1>5
  <2> QED BY <2>1
<1>7. value[4] = Joined(w, 4, Joined(w, 3, Joined(w, 2, r1)))
  <2> HIDE DEF r0
  <2> QED BY <1>6
<1> HIDE DEF r1
<1> QED BY <1>1, <1>2, <1>7 DEF Joined

\* The words of a block, which are the block again.
LEMMA FourOf ==
    ASSUME NEW in \in Bytes(8)
    PROVE  Words(in, 2) \in Rc2Blocks /\ Concat(Words(in, 2)) = in
<1> DEFINE w == Words(in, 2)
           a == w[1]
           b == w[2]
           c == w[3]
           d == w[4]
           p == a \o b
           q == p \o c
           r == q \o d
<1>1. w \in [1 .. 4 -> Bytes(2)]
      /\ \A i \in 1 .. 4, j \in 1 .. 2 : w[i][j] = in[(i - 1) * 2 + j]
  <2>1. 2 \in {2, 4, 16} /\ 4 \in Nat OBVIOUS
  <2>2. in \in Bytes(4 * 2) BY DEF Bytes
  <2> QED BY <2>1, <2>2, WordsEach
<1>2. w \in Rc2Blocks BY <1>1 DEF Rc2Blocks
<1>3. Concat(w) = r BY <1>2, ConcatOfFour
<1>4. a \in Bytes(2) /\ b \in Bytes(2) /\ c \in Bytes(2) /\ d \in Bytes(2) BY <1>1
<1>5. \A j \in 1 .. 2 : a[j] = in[j] /\ b[j] = in[2 + j] /\ c[j] = in[4 + j] /\ d[j] = in[6 + j]
  <2>1. \A j \in 1 .. 2 : /\ (1 - 1) * 2 + j = j /\ (2 - 1) * 2 + j = 2 + j
                          /\ (3 - 1) * 2 + j = 4 + j /\ (4 - 1) * 2 + j = 6 + j
    OBVIOUS
  <2> HIDE DEF w
  <2> QED BY <1>1, <2>1
<1> HIDE DEF a, b, c, d, w
<1>6. 2 \in Nat /\ 4 \in Nat /\ 6 \in Nat /\ 8 \in Nat OBVIOUS
<1>7. p \in Bytes(4) /\ \A i \in 1 .. 2 : p[i] = in[i] /\ p[2 + i] = in[2 + i]
  <2>1. p \in Bytes(2 + 2) /\ (\A i \in 1 .. 2 : p[i] = a[i]) /\ \A i \in 1 .. 2 : p[2 + i] = b[i]
    BY <1>4, <1>6, ConcatBytes
  <2>2. 2 + 2 = 4 OBVIOUS
  <2> HIDE DEF p
  <2> QED BY <1>5, <2>1, <2>2
<1> HIDE DEF p
<1>8. q \in Bytes(6) /\ (\A i \in 1 .. 4 : q[i] = p[i]) /\ \A i \in 1 .. 2 : q[4 + i] = in[4 + i]
  <2>1. q \in Bytes(4 + 2) /\ (\A i \in 1 .. 4 : q[i] = p[i]) /\ \A i \in 1 .. 2 : q[4 + i] = c[i]
    BY <1>4, <1>6, <1>7, ConcatBytes
  <2>2. 4 + 2 = 6 OBVIOUS
  <2> HIDE DEF q
  <2> QED BY <1>5, <2>1, <2>2
<1> HIDE DEF q
<1>9. r \in Bytes(8) /\ (\A i \in 1 .. 6 : r[i] = q[i]) /\ \A i \in 1 .. 2 : r[6 + i] = in[6 + i]
  <2>1. r \in Bytes(6 + 2) /\ (\A i \in 1 .. 6 : r[i] = q[i]) /\ \A i \in 1 .. 2 : r[6 + i] = d[i]
    BY <1>4, <1>6, <1>8, ConcatBytes
  <2>2. 6 + 2 = 8 OBVIOUS
  <2> HIDE DEF r
  <2> QED BY <1>5, <2>1, <2>2
<1> HIDE DEF r
<1>10. ASSUME NEW i \in 1 .. 8 PROVE r[i] = in[i]
  <2>1. CASE i \in 1 .. 2 BY <1>7, <1>8, <1>9, <2>1
  <2>2. CASE i \in 3 .. 4
    <3>1. i - 2 \in 1 .. 2 /\ 2 + (i - 2) = i /\ i \in 1 .. 4 /\ i \in 1 .. 6 BY <2>2
    <3> QED BY <1>7, <1>8, <1>9, <3>1
  <2>3. CASE i \in 5 .. 6
    <3>1. i - 4 \in 1 .. 2 /\ 4 + (i - 4) = i /\ i \in 1 .. 6 BY <2>3
    <3> QED BY <1>8, <1>9, <3>1
  <2>4. CASE i \in 7 .. 8
    <3>1. i - 6 \in 1 .. 2 /\ 6 + (i - 6) = i BY <2>4
    <3> QED BY <1>9, <3>1
  <2> QED BY <2>1, <2>2, <2>3, <2>4
<1>11. r = in BY <1>6, <1>9, <1>10, BytesEqual
<1> QED BY <1>2, <1>3, <1>11 DEF w

\* The steps of RC2: the key first, of which each makes another.
KeyStates == [k : Seq(Byte), len : 0 .. 128, bits : 1 .. 1024]

\* Another string in the place of the bytes.
LEMMA KeyReplaced ==
    ASSUME NEW l \in KeyStates, NEW t \in Seq(Byte), NEW m, m = [l EXCEPT !.k = t]
    PROVE  m \in KeyStates /\ m.k = t /\ m.bits = l.bits
<1> DEFINE Sizes == 0 .. 128
           Bits == 1 .. 1024
<1>1. l \in [k : Seq(Byte), len : Sizes, bits : Bits] BY DEF KeyStates
<1> HIDE DEF Sizes, Bits
<1>2. m = [k |-> t, len |-> l.len, bits |-> l.bits] BY ONLY <1>1, m = [l EXCEPT !.k = t]
<1>3. l.len \in Sizes /\ l.bits \in Bits BY ONLY <1>1
<1>4. t \in Seq(Byte) OBVIOUS
<1>5. m \in [k : Seq(Byte), len : Sizes, bits : Bits] BY ONLY <1>2, <1>3, <1>4
<1>6. m.k = t /\ m.bits = l.bits BY ONLY <1>2
<1> QED BY <1>5, <1>6 DEF KeyStates, Sizes, Bits

\* What such a state consists of.
LEMMA KeyFields ==
    ASSUME NEW l \in KeyStates
    PROVE  l.k \in Seq(Byte) /\ Len(l.k) \in Nat /\ l.bits \in 1 .. 1024 /\ l.len \in Int
<1> DEFINE Sizes == 0 .. 128
           Bits == 1 .. 1024
           u == l.k
           s == l.len
<1>1. l \in [k : Seq(Byte), len : Sizes, bits : Bits] BY DEF KeyStates
<1> HIDE DEF Sizes, Bits
<1>2. u \in Seq(Byte) /\ s \in Sizes /\ l.bits \in Bits BY ONLY <1>1
<1> HIDE DEF u, s
<1>3. Len(u) \in Nat BY <1>2, LenProperties
<1>4. s \in Int BY <1>2 DEF Sizes
<1> QED BY <1>2, <1>3, <1>4 DEF Bits, u, s

\* The call: no more than 128 bytes are taken, and the effective bits are brought into range.
LEMMA Rc2Begins == ASSUME rc2_set_key PROVE RetraceInv'
<1>1. PICK input \in Inputs.rc2 :
          LET len == IF Len(input.data) > 128 THEN 128 ELSE Len(input.data)
              bits == IF input.bits <= 0 \/ input.bits > 1024 THEN 1024 ELSE input.bits
          IN  /\ fn' = "rc2_stretch"
              /\ args' = [call |-> "rc2", input |-> input]
              /\ loc' = [k |-> SubSeq(input.data, 1, len), len |-> len, bits |-> bits]
  BY DEF rc2_set_key
<1> DEFINE data == input.data
           len == IF Len(data) > 128 THEN 128 ELSE Len(data)
           bits == IF input.bits <= 0 \/ input.bits > 1024 THEN 1024 ELSE input.bits
           k == SubSeq(data, 1, len)
<1>2. fn' = "rc2_stretch" /\ args' = [call |-> "rc2", input |-> input]
      /\ loc' = [k |-> k, len |-> len, bits |-> bits]
  BY <1>1
<1>3. data \in Seq(Byte) /\ input.bits \in Int
  <2>1. input \in [data : Seq(Byte), bits : Int, in : [1 .. 8 -> Byte]] BY InputsAssumption
  <2> QED BY <2>1
<1>4. bits \in 1 .. 1024
  <2> DEFINE b == input.bits
  <2>1. b \in Int /\ bits = IF b <= 0 \/ b > 1024 THEN 1024 ELSE b BY <1>3
  <2> HIDE DEF b, bits
  <2> QED BY ONLY <2>1
<1> HIDE DEF data, bits
<1>5. len \in 0 .. 128 /\ len \in 0 .. Len(data)
  <2> DEFINE n == Len(data)
  <2>1. n \in Nat /\ len = IF n > 128 THEN 128 ELSE n BY <1>3
  <2> HIDE DEF n, len
  <2>2. len \in 0 .. 128 /\ len \in 0 .. n BY ONLY <2>1
  <2> QED BY <2>2 DEF n
<1>6. k \in Seq(Byte) /\ Len(k) = len
  <2> HIDE DEF len
  <2>1. data \in Bytes(Len(data)) /\ Len(data) \in Nat BY <1>3, SequencesAreBytes
  <2> DEFINE n == Len(data)
  <2>2. 1 \in 1 .. n + 1 /\ len \in 1 - 1 .. n /\ n \in Nat /\ data \in Bytes(n) BY <1>5, <2>1
  <2>3. len - 1 + 1 = len /\ len \in Nat BY <1>5
  <2> HIDE DEF n
  <2>4. SubSeq(data, 1, len) \in Bytes(len - 1 + 1) BY <2>2, SubBytes
  <2> QED BY <2>3, <2>4, BytesAreSequences
<1> HIDE DEF k, len
<1>7. args' \in Rc2Calls BY <1>2 DEF Rc2Calls
<1>8. loc' \in [k : Seq(Byte), len : 0 .. 128, bits : 1 .. 1024] /\ loc'.k = k
  BY ONLY <1>2, <1>4, <1>5, <1>6
<1>9. Rc2StretchState' BY <1>5, <1>6, <1>7, <1>8 DEF Rc2StretchState
<1> QED BY <1>2, <1>9 DEF RetraceInv, OtherFunctions

\* The first loop, and the masking behind it.
LEMMA Rc2Stretches == ASSUME RetraceInv, rc2_stretch PROVE RetraceInv'
<1>1. /\ fn = "rc2_stretch" /\ args' = args
      /\ IF Len(loc.k) < 128
         THEN loc' = [loc EXCEPT !.k = Stretched(@, loc.len)] /\ fn' = fn
         ELSE loc' = [loc EXCEPT !.k = Masked(@, loc.bits)] /\ fn' = "rc2_reduce"
  BY DEF rc2_stretch
<1>2. /\ args \in Rc2Calls
      /\ loc \in [k : Seq(Byte), len : 0 .. 128, bits : 1 .. 1024]
      /\ Len(loc.k) \in 0 .. 128
  BY <1>1 DEF RetraceInv, Rc2StretchState
<1> DEFINE k == loc.k
           bits == loc.bits
           size == loc.len
<1>3. k \in Seq(Byte) /\ bits \in 1 .. 1024 /\ size \in Int /\ Len(k) \in Nat /\ loc \in KeyStates
  BY <1>2, KeyFields DEF KeyStates
<1>4. Len(k) \in 0 .. 128 BY <1>2
<1>5. CASE Len(k) < 128
  <2> DEFINE t == Stretched(k, size)
  <2>1. loc' = [loc EXCEPT !.k = t] /\ fn' = fn BY <1>1, <1>5
  <2>2. t \in Seq(Byte) /\ Len(t) \in 0 .. 128
    <3> HIDE DEF k, size
    <3> DEFINE n == Len(k)
    <3>1. n \in 0 .. 127
      <4>1. n \in 0 .. 128 /\ n < 128 BY <1>5, <1>4
      <4> HIDE DEF n
      <4> QED BY ONLY <4>1
    <3>2. t \in Seq(Byte) /\ Len(t) = n + 1 BY <1>3, <3>1, StretchedType
    <3>3. n + 1 \in 0 .. 128
      <4> HIDE DEF n
      <4> QED BY ONLY <3>1
    <3> HIDE DEF t, n
    <3> QED BY <3>2, <3>3
  <2> HIDE DEF t
  <2>3. loc' \in KeyStates /\ loc'.k = t BY <1>3, <2>1, <2>2, KeyReplaced
  <2>4. Rc2StretchState' BY <1>1, <1>2, <2>2, <2>3 DEF Rc2StretchState, KeyStates
  <2> QED BY <1>1, <2>1, <2>4 DEF RetraceInv, OtherFunctions
<1>6. CASE ~ (Len(k) < 128)
  <2> DEFINE t == Masked(k, bits)
  <2>1. loc' = [loc EXCEPT !.k = t] /\ fn' = "rc2_reduce" BY <1>1, <1>6
  <2>2. t \in Seq(Byte) /\ Len(t) = (bits + 7) \div 8 /\ Len(t) \in (bits + 7) \div 8 .. 128
    <3> HIDE DEF k, bits
    <3> DEFINE n == Len(k)
               t8 == (bits + 7) \div 8
    <3>1. n = 128
      <4>1. n \in 0 .. 128 /\ ~ (n < 128) BY <1>6, <1>4
      <4> HIDE DEF n
      <4> QED BY ONLY <4>1
    <3>2. t \in Seq(Byte) /\ Len(t) = t8 BY <1>3, <3>1, MaskedType
    <3>3. t8 \in 1 .. 128 BY <1>3, EffectiveBytes
    <3>4. t8 \in t8 .. 128
      <4> HIDE DEF t8
      <4> QED BY ONLY <3>3
    <3> HIDE DEF t
    <3> QED BY <3>2, <3>4
  <2> HIDE DEF t
  <2>3. loc' \in KeyStates /\ loc'.k = t /\ loc'.bits = bits BY <1>3, <2>1, <2>2, KeyReplaced
  <2>4. Rc2ReduceState' BY <1>1, <1>2, <2>2, <2>3 DEF Rc2ReduceState, KeyStates
  <2> QED BY <1>1, <2>1, <2>4 DEF RetraceInv, OtherFunctions
<1> QED BY <1>5, <1>6

\* What the rounds before make of a block.
LEMMA BeforeType ==
    ASSUME NEW x \in Rc2Blocks, NEW key \in Rc2Keys, NEW r
    PROVE  Before(x, key, r) \in Rc2Blocks
BY MashBack DEF Before

\* The loop from behind; when there are 128 bytes, their words are the key.
LEMMA Rc2Reduces == ASSUME RetraceInv, rc2_reduce PROVE RetraceInv'
<1>1. /\ fn = "rc2_reduce"
      /\ IF Len(loc.k) < 128
         THEN loc' = [loc EXCEPT !.k = Reduced(@, loc.bits)] /\ UNCHANGED <<fn, args>>
         ELSE LET in == Words(args.input.in, 2) IN
              /\ fn' = "rc2_encrypt"
              /\ args' = [call |-> "rc2", input |-> args.input, key |-> Words(loc.k, 2)]
              /\ loc' = [r |-> 0, x |-> in, trace |-> <<in>>]
  BY DEF rc2_reduce
<1>2. /\ args \in Rc2Calls
      /\ loc \in [k : Seq(Byte), len : 0 .. 128, bits : 1 .. 1024]
      /\ Len(loc.k) \in (loc.bits + 7) \div 8 .. 128
  BY <1>1 DEF RetraceInv, Rc2ReduceState
<1> DEFINE k == loc.k
           bits == loc.bits
<1>3. k \in Seq(Byte) /\ bits \in 1 .. 1024 /\ Len(k) \in Nat /\ loc \in KeyStates
  BY <1>2, KeyFields DEF KeyStates
<1>4. Len(k) \in (bits + 7) \div 8 .. 128 BY <1>2
<1>5. (bits + 7) \div 8 \in 1 .. 128
  <2> HIDE DEF bits
  <2> QED BY <1>3, EffectiveBytes
<1>6. CASE Len(k) < 128
  <2> DEFINE t == Reduced(k, bits)
  <2>1. loc' = [loc EXCEPT !.k = t] /\ fn' = fn /\ args' = args BY <1>1, <1>6
  <2>2. t \in Seq(Byte) /\ Len(t) \in (bits + 7) \div 8 .. 128
    <3> HIDE DEF k, bits
    <3> DEFINE n == Len(k)
               t8 == (bits + 7) \div 8
    <3>1. n \in t8 .. 127 /\ n + 1 \in t8 .. 128
      <4>1. n \in t8 .. 128 /\ n < 128 /\ t8 \in 1 .. 128 BY <1>6, <1>4, <1>5
      <4> HIDE DEF n, t8
      <4> QED BY ONLY <4>1
    <3>2. t \in Seq(Byte) /\ Len(t) = n + 1 BY <1>3, <3>1, ReducedType
    <3> HIDE DEF t, n
    <3> QED BY <3>1, <3>2
  <2> HIDE DEF t
  <2>3. loc' \in KeyStates /\ loc'.k = t /\ loc'.bits = bits BY <1>3, <2>1, <2>2, KeyReplaced
  <2>4. Rc2ReduceState' BY <1>1, <1>2, <2>1, <2>2, <2>3 DEF Rc2ReduceState, KeyStates
  <2> QED BY <1>1, <2>1, <2>4 DEF RetraceInv, OtherFunctions
<1>7. CASE ~ (Len(k) < 128)
  <2> DEFINE x == Words(args.input.in, 2)
             key == Words(k, 2)
             input == args.input
  <2>1. /\ fn' = "rc2_encrypt" /\ args' = [call |-> "rc2", input |-> input, key |-> key]
        /\ loc' = [r |-> 0, x |-> x, trace |-> <<x>>]
    BY <1>1, <1>7
  <2>2. input \in Inputs.rc2 BY <1>2 DEF Rc2Calls
  <2>3. input \in [data : Seq(Byte), bits : Int, in : [1 .. 8 -> Byte]] BY <2>2, InputsAssumption
  <2>4. x \in Rc2Blocks
    <3>1. input.in \in Bytes(8) BY <2>3 DEF Bytes
    <3> QED BY <3>1, FourOf
  <2>5. key \in Rc2Keys
    <3> HIDE DEF k, bits
    <3> DEFINE n == Len(k)
               t8 == (bits + 7) \div 8
    <3>1. n \in t8 .. 128 /\ ~ (n < 128) /\ t8 \in 1 .. 128 BY <1>7, <1>4, <1>5
    <3>2. n = 128
      <4> HIDE DEF n, t8
      <4> QED BY ONLY <3>1
    <3>3. k \in Bytes(128) BY <1>3, <3>2, SequencesAreBytes
    <3>4. k \in Bytes(64 * 2) BY <3>3 DEF Bytes
    <3>5. 2 \in {2, 4, 16} /\ 64 \in Nat OBVIOUS
    <3> QED BY <3>4, <3>5, WordsEach DEF Rc2Keys
  <2>6. x = Words(input.in, 2) /\ x = Before(x, key, 0) BY DEF Before
  <2> HIDE DEF x, key, input
  <2>7. <<x>> \in Seq(Rc2Blocks) /\ <<x>> \in [1 .. 1 -> Rc2Blocks] /\ <<x>>[1] = x BY <2>4
  <2>8. args' \in [call : {"rc2"}, input : Inputs.rc2, key : Rc2Keys] /\ args'.input = input
        /\ args'.key = key
    BY ONLY <2>1, <2>2, <2>5
  <2>9. loc' \in [r : 0 .. 16, x : Rc2Blocks, trace : Seq(Rc2Blocks)] /\ loc'.r = 0
        /\ loc'.x = x /\ loc'.trace = <<x>>
    BY ONLY <2>1, <2>4, <2>7
  <2>10. Rc2EncryptState' BY <2>6, <2>7, <2>8, <2>9 DEF Rc2EncryptState, Rc2Traced
  <2> QED BY <2>1, <2>10 DEF RetraceInv, OtherFunctions
<1> QED BY <1>6, <1>7

\* Its rounds.
LEMMA Rc2Encrypts == ASSUME RetraceInv, rc2_encrypt_block PROVE RetraceInv'
<1>1. /\ fn = "rc2_encrypt" /\ args' = args
      /\ IF loc.r < 16
         THEN LET x == Mix(loc.x, args.key, loc.r) IN
              /\ loc' = [r |-> loc.r + 1, x |-> IF loc.r \in {4, 10} THEN Mash(x, args.key) ELSE x,
                         trace |-> Append(loc.trace, x)]
              /\ fn' = fn
         ELSE /\ fn' = "rc2_decrypt" /\ ret' = <<Concat(loc.x)>>
              /\ loc' = [loc EXCEPT !.r = 0]
  BY DEF rc2_encrypt_block
<1>2. /\ args \in [call : {"rc2"}, input : Inputs.rc2, key : Rc2Keys]
      /\ loc \in [r : 0 .. 16, x : Rc2Blocks, trace : Seq(Rc2Blocks)]
      /\ loc.trace \in [1 .. loc.r + 1 -> Rc2Blocks]
      /\ loc.trace[1] = Words(args.input.in, 2)
      /\ \A j \in 1 .. loc.r :
            loc.trace[j + 1] = Mix(Before(loc.trace[j], args.key, j - 1), args.key, j - 1)
      /\ loc.x = Before(loc.trace[loc.r + 1], args.key, loc.r)
  BY <1>1 DEF RetraceInv, Rc2EncryptState, Rc2Traced
<1> DEFINE r == loc.r
           m == r + 1
           trace == loc.trace
           key == args.key
           in == args.input.in
<1>3. key \in Rc2Keys /\ loc.x \in Rc2Blocks /\ r \in 0 .. 16 /\ trace \in Seq(Rc2Blocks) BY <1>2
<1>4. CASE r < 16
  <2> DEFINE t == Mix(loc.x, key, r)
             u == Before(t, key, m)
             next == Append(trace, t)
  <2>1. r \in 0 .. 15 /\ m \in Nat /\ m \in 1 .. 16 /\ m - 1 = r
        /\ (m \in {5, 11} <=> r \in {4, 10})
    <3> HIDE DEF r
    <3> QED BY <1>3, <1>4
  <2>2. fn' = fn /\ loc' = [r |-> m, x |-> u, trace |-> next] BY <1>1, <1>4, <2>1 DEF Before
  <2>3. t \in Rc2Blocks BY <1>3, <2>1, MixBack
  <2>4. t = Mix(Before(trace[m], key, m - 1), key, m - 1) BY <1>2, <2>1
  <2>5. u \in Rc2Blocks BY <1>3, <2>3, BeforeType
  <2>6. trace \in [1 .. m -> Rc2Blocks] BY <1>2
  <2>7. /\ next \in Seq(Rc2Blocks) /\ next \in [1 .. m + 1 -> Rc2Blocks] /\ next[m + 1] = t
        /\ \A i \in 1 .. m : next[i] = trace[i]
    <3>1. m \in Nat BY <2>1
    <3> HIDE DEF m, t, trace
    <3>2. Append(trace, t) \in Seq(Rc2Blocks) BY ONLY <2>3, <2>6, <3>1, AppendTo
    <3>3. Append(trace, t) \in [1 .. m + 1 -> Rc2Blocks] BY ONLY <2>3, <2>6, <3>1, AppendTo
    <3>4. Append(trace, t)[m + 1] = t BY ONLY <2>3, <2>6, <3>1, AppendTo
    <3>5. \A i \in 1 .. m : Append(trace, t)[i] = trace[i] BY ONLY <2>3, <2>6, <3>1, AppendTo
    <3> QED BY ONLY <3>2, <3>3, <3>4, <3>5
  <2> HIDE DEF t, next
  <2>8. ASSUME NEW j \in 1 .. m
        PROVE  next[j + 1] = Mix(Before(next[j], key, j - 1), key, j - 1)
    <3>1. CASE j = m
      <4>1. next[m] = trace[m] BY <2>1, <2>7
      <4> QED BY <2>4, <2>7, <3>1, <4>1
    <3>2. CASE j # m
      <4>1. j \in 1 .. r /\ j + 1 \in 1 .. m /\ j \in 1 .. m
        <5> HIDE DEF r
        <5> QED BY <2>1, <3>2
      <4> QED BY <1>2, <2>7, <4>1
    <3> QED BY <3>1, <3>2
  <2>9. next[1] = Words(in, 2)
    <3>1. 1 \in 1 .. m BY <2>1
    <3> QED BY <1>2, <2>7, <3>1
  <2>10. u = Before(next[m + 1], key, m) BY <2>7
  <2> HIDE DEF u
  <2>11. loc' \in [r : 0 .. 16, x : Rc2Blocks, trace : Seq(Rc2Blocks)] /\ loc'.r = m /\ loc'.x = u
         /\ loc'.trace = next
    <3>1. m \in 0 .. 16 BY <2>1
    <3> HIDE DEF m
    <3> QED BY ONLY <2>2, <2>5, <2>7, <3>1
  <2> HIDE DEF m, trace
  <2>12. args' \in [call : {"rc2"}, input : Inputs.rc2, key : Rc2Keys] /\ args'.key = key
         /\ args'.input.in = in
    BY <1>1, <1>2
  <2> HIDE DEF key, in
  <2>13. Rc2Traced(loc.r)' BY ONLY <2>7, <2>8, <2>9, <2>11, <2>12 DEF Rc2Traced
  <2>14. loc'.x = Before(loc'.trace[loc'.r + 1], args'.key, loc'.r) BY ONLY <2>10, <2>11, <2>12
  <2>15. Rc2EncryptState' BY ONLY <2>13, <2>14 DEF Rc2EncryptState
  <2> QED BY <1>1, <2>2, <2>15 DEF RetraceInv, OtherFunctions
<1>5. CASE ~ (r < 16)
  <2>1. r = 16
    <3> HIDE DEF r
    <3> QED BY <1>3, <1>5
  <2>2. fn' = "rc2_decrypt" /\ ret' = <<ret'[1]>> /\ loc' = [loc EXCEPT !.r = 0] BY <1>1, <1>5
  <2>3. loc.x = trace[17]
    <3>1. 16 + 1 = 17 OBVIOUS
    <3> QED BY <1>2, <2>1, <3>1 DEF Before
  <2>4. /\ trace \in [1 .. 16 + 1 -> Rc2Blocks] /\ trace[1] = Words(in, 2)
        /\ \A j \in 1 .. 16 : trace[j + 1] = Mix(Before(trace[j], key, j - 1), key, j - 1)
    BY <1>2, <2>1
  <2>5. loc \in [r : 0 .. 16, x : Rc2Blocks, trace : Seq(Rc2Blocks)] BY <1>2
  <2>6. loc' \in [r : 0 .. 16, x : Rc2Blocks, trace : Seq(Rc2Blocks)] /\ loc'.r = 0
        /\ loc'.x = loc.x /\ loc'.trace = trace
    BY ONLY <2>2, <2>5
  <2>7. args' \in [call : {"rc2"}, input : Inputs.rc2, key : Rc2Keys] /\ args'.key = key
        /\ args'.input.in = in
    BY <1>1, <1>2
  <2> HIDE DEF key, in, trace, m
  <2>8. Rc2Traced(16)' BY ONLY <2>4, <2>6, <2>7 DEF Rc2Traced
  <2>9. 17 - 0 = 17 OBVIOUS
  <2>10. loc'.x = loc'.trace[17 - loc'.r] BY ONLY <2>3, <2>6, <2>9
  <2>11. Rc2DecryptState' BY ONLY <2>2, <2>8, <2>10 DEF Rc2DecryptState
  <2> QED BY <2>2, <2>11 DEF RetraceInv, OtherFunctions
<1> QED BY <1>4, <1>5

\* A round back: the mixing, and the mashing where there was one before it.
LEMMA Rc2Decrypts == ASSUME RetraceInv, rc2_decrypt_block PROVE RetraceInv'
<1>1. /\ fn = "rc2_decrypt" /\ args' = args
      /\ IF loc.r < 16
         THEN LET x == Unmix(loc.x, args.key, 15 - loc.r) IN
              /\ loc' = [loc EXCEPT !.r = @ + 1,
                                    !.x = IF loc.r \in {4, 10} THEN Unmash(x, args.key) ELSE x]
              /\ fn' = fn /\ ret' = ret
         ELSE fn' = "return" /\ ret' = Append(ret, Concat(loc.x))
  BY DEF rc2_decrypt_block
<1>2. Rc2Traced(16) /\ loc.x = loc.trace[17 - loc.r] /\ ret = <<ret[1]>>
  BY <1>1 DEF RetraceInv, Rc2DecryptState
<1> DEFINE r == loc.r
           trace == loc.trace
           key == args.key
           in == args.input.in
<1>3. /\ args \in [call : {"rc2"}, input : Inputs.rc2, key : Rc2Keys]
      /\ loc \in [r : 0 .. 16, x : Rc2Blocks, trace : Seq(Rc2Blocks)]
      /\ trace \in [1 .. 17 -> Rc2Blocks]
      /\ trace[1] = Words(in, 2)
      /\ \A j \in 1 .. 16 : trace[j + 1] = Mix(Before(trace[j], key, j - 1), key, j - 1)
  BY <1>2 DEF Rc2Traced
<1>4. key \in Rc2Keys /\ r \in 0 .. 16 /\ trace \in Seq(Rc2Blocks) BY <1>3
<1>5. CASE r < 16
  <2> DEFINE j == 16 - r
             s == 15 - r
             x == trace[j]
             y == Before(x, key, s)
             t == Unmix(loc.x, key, s)
             u == IF r \in {4, 10} THEN Unmash(t, key) ELSE t
  <2>1. fn' = fn /\ ret' = ret /\ loc' = [loc EXCEPT !.r = r + 1, !.x = u] BY <1>1, <1>5
  <2>2. /\ j \in 1 .. 16 /\ j \in 1 .. 17 /\ j + 1 = 17 - r /\ j - 1 = s /\ s \in 0 .. 15
        /\ (s \in {5, 11} <=> r \in {4, 10}) /\ r + 1 \in 0 .. 16 /\ 17 - (r + 1) = j
    <3> HIDE DEF r
    <3> QED BY <1>4, <1>5
  <2>3. trace[j + 1] = Mix(Before(trace[j], key, j - 1), key, j - 1) BY <1>3, <2>2
  <2>4. loc.x = trace[17 - r] BY <1>2
  <2> HIDE DEF r, j, s
  <2>5. x \in Rc2Blocks
    <3> HIDE DEF trace
    <3> QED BY <1>3, <2>2
  <2>6. loc.x = Mix(y, key, s) BY <2>2, <2>3, <2>4
  <2> HIDE DEF x, trace
  <2>7. y \in Rc2Blocks BY <1>4, <2>5, BeforeType
  <2>8. t = y
    <3> HIDE DEF y
    <3>1. Unmix(Mix(y, key, s), key, s) = y
      <4> HIDE DEF key
      <4> QED BY ONLY <1>4, <2>2, <2>7, MixBack
    <3> QED BY <2>6, <3>1
  <2>9. u = x
    <3>1. CASE r \in {4, 10}
      <4>1. y = Mash(x, key) BY <2>2, <3>1 DEF Before
      <4>2. Unmash(Mash(x, key), key) = x BY <1>4, <2>5, MashBack
      <4> HIDE DEF t, y
      <4> QED BY <2>8, <3>1, <4>1, <4>2
    <3>2. CASE r \notin {4, 10}
      <4>1. y = x BY <2>2, <3>2 DEF Before
      <4> HIDE DEF t, y
      <4> QED BY <2>8, <3>2, <4>1
    <3> QED BY <3>1, <3>2
  <2> HIDE DEF u, t, y
  <2>10. loc' \in [r : 0 .. 16, x : Rc2Blocks, trace : Seq(Rc2Blocks)] /\ loc'.r = r + 1
         /\ loc'.x = u /\ loc'.trace = trace
    <3>1. loc \in [r : 0 .. 16, x : Rc2Blocks, trace : Seq(Rc2Blocks)] BY <1>3
    <3>2. r + 1 \in 0 .. 16 /\ u \in Rc2Blocks BY <2>2, <2>5, <2>9
    <3>3. loc'.trace = loc.trace BY ONLY <2>1, <3>1
    <3>4. loc' \in [r : 0 .. 16, x : Rc2Blocks, trace : Seq(Rc2Blocks)] /\ loc'.r = r + 1
          /\ loc'.x = u
      BY ONLY <2>1, <3>1, <3>2
    <3> QED BY <3>3, <3>4 DEF trace
  <2>11. loc'.x = loc'.trace[17 - loc'.r] BY <2>2, <2>9, <2>10 DEF x
  <2>12. args' \in [call : {"rc2"}, input : Inputs.rc2, key : Rc2Keys] /\ args'.key = key
         /\ args'.input.in = in
    BY <1>1, <1>3
  <2>13. /\ trace \in [1 .. 16 + 1 -> Rc2Blocks] /\ trace[1] = Words(in, 2)
         /\ \A i \in 1 .. 16 : trace[i + 1] = Mix(Before(trace[i], key, i - 1), key, i - 1)
    BY <1>3
  <2> HIDE DEF key, in
  <2>14. Rc2Traced(16)' BY ONLY <2>10, <2>12, <2>13 DEF Rc2Traced
  <2>15. ret' = <<ret'[1]>> BY <1>2, <2>1
  <2>16. Rc2DecryptState' BY ONLY <2>11, <2>14, <2>15 DEF Rc2DecryptState
  <2> QED BY <1>1, <2>1, <2>16 DEF RetraceInv, OtherFunctions
<1>6. CASE ~ (r < 16)
  <2> DEFINE out == Concat(loc.x)
             one == ret[1]
  <2>1. r = 16
    <3> HIDE DEF r
    <3> QED BY <1>4, <1>6
  <2>2. loc.x = trace[1]
    <3>1. 17 - 16 = 1 OBVIOUS
    <3> QED BY <1>2, <2>1, <3>1
  <2>3. in \in Bytes(8)
    <3>1. args.input \in Inputs.rc2 BY <1>3
    <3>2. args.input \in [data : Seq(Byte), bits : Int, in : [1 .. 8 -> Byte]]
      BY <3>1, InputsAssumption
    <3> QED BY <3>2 DEF Bytes
  <2>4. out = in BY <1>3, <2>2, <2>3, FourOf
  <2>5. fn' = "return" /\ ret' = Append(<<one>>, out) BY <1>1, <1>2, <1>6
  <2> HIDE DEF one, out
  <2>6. ret'[2] = out BY ONLY <2>5
  <2> QED BY <1>1, <2>4, <2>5, <2>6 DEF RetraceInv, OtherFunctions
<1> QED BY <1>5, <1>6

-----------------------------------------------------------------------------
(***************************************************************************)
(* The other components do not touch the ciphers, and the theorem.         *)
(***************************************************************************)

\* The subkeys of OMAC, the product of MGM, the MAC of GOST 28147-89.
LEMMA OtherKuznyechik ==
    ASSUME RetraceInv, omac_subkeys \/ gf128_mul \/ ProductStep \/ ProductReturn
    PROVE  RetraceInv'
<1>1. CASE omac_subkeys
  <2>1. fn' = "return" /\ args'.call = "omac" BY <1>1 DEF omac_subkeys
  <2> QED BY <2>1, OtherBegins DEF CipherCalls, OtherFunctions
<1>2. CASE gf128_mul
  <2>1. fn' = "gf128_mul" /\ args'.call = "gf128_mul" BY <1>2 DEF gf128_mul
  <2> QED BY <2>1, OtherBegins DEF CipherCalls, OtherFunctions
<1>3. CASE ProductStep \/ ProductReturn
  <2>1. fn = "gf128_mul" /\ args' = args /\ fn' \in {fn, "return"}
    BY <1>3 DEF ProductStep, ProductReturn
  <2> QED BY <2>1, OtherStays DEF OtherFunctions
<1> QED BY <1>1, <1>2, <1>3

\* The MACs of GOST 28147-89.
LEMMA OtherMac ==
    ASSUME RetraceInv, gost28147_mac4_raw \/ gost28147_imit_cp12 \/ MacRound \/ MacNext
    PROVE  RetraceInv'
<1>1. CASE gost28147_imit_cp12
  <2>1. fn' = "gost_mac" /\ args'.call = "imit" BY <1>1 DEF gost28147_imit_cp12, BeginMac
  <2> QED BY <2>1, OtherBegins DEF CipherCalls, OtherFunctions
<1>2. CASE gost28147_mac4_raw
  <2>1. PICK input \in Inputs.mac4 :
          \/ fn' = "return" /\ args' = [call |-> "mac4", input |-> input]
          \/ BeginMac("mac4", input, gost28147_setkey_raw(input.key), Len(input.text) \div 8)
    BY <1>2, Zenon DEF gost28147_mac4_raw
  <2>2. CASE fn' = "return" /\ args' = [call |-> "mac4", input |-> input]
    <3>1. fn' = "return" /\ args'.call = "mac4" BY <2>2
    <3> QED BY <3>1, OtherBegins DEF CipherCalls
  <2>3. CASE BeginMac("mac4", input, gost28147_setkey_raw(input.key), Len(input.text) \div 8)
    <3>1. fn' = "gost_mac" /\ args'.call = "mac4" BY <2>3 DEF BeginMac
    <3> QED BY <3>1, OtherBegins DEF CipherCalls, OtherFunctions
  <2> QED BY <2>1, <2>2, <2>3
<1>3. CASE MacRound \/ MacNext
  <2>1. fn = "gost_mac" /\ args' = args /\ fn' \in {fn, "return"}
    BY <1>3 DEF MacRound, MacNext
  <2> QED BY <2>1, OtherStays DEF OtherFunctions
<1> QED BY <1>1, <1>2, <1>3

\* The compressions.
LEMMA OtherCompressions == ASSUME RetraceInv, CompressionsNext PROVE RetraceInv'
<1>1. CASE pogost_xoshiro256pp_seed \/ pogost_xoshiro256pp_step \/ XoshiroReturn
  <2>1. CASE pogost_xoshiro256pp_seed
    <3>1. fn' = "xoshiro" /\ args'.call = "xoshiro" BY <2>1 DEF pogost_xoshiro256pp_seed, Begin
    <3> QED BY <3>1, OtherBegins DEF CipherCalls, OtherFunctions
  <2>2. CASE pogost_xoshiro256pp_step
    <3>1. fn = "xoshiro" /\ args' = args /\ fn' = fn BY <2>2 DEF pogost_xoshiro256pp_step, Rounds
    <3> QED BY <3>1, OtherStays DEF OtherFunctions
  <2>3. CASE XoshiroReturn
    <3>1. fn = "xoshiro" /\ args' = args /\ fn' \in {fn, "return"} BY <2>3 DEF XoshiroReturn
    <3> QED BY <3>1, OtherStays DEF OtherFunctions
  <2> QED BY <1>1, <2>1, <2>2, <2>3
<1>2. CASE chacha_block \/ ChaChaRound \/ ChaChaReturn
  <2>1. CASE chacha_block
    <3>1. fn' = "chacha" /\ args'.call = "chacha" BY <2>1 DEF chacha_block, Begin
    <3> QED BY <3>1, OtherBegins DEF CipherCalls, OtherFunctions
  <2>2. CASE ChaChaRound
    <3>1. fn = "chacha" /\ args' = args /\ fn' = fn BY <2>2 DEF ChaChaRound, Rounds
    <3> QED BY <3>1, OtherStays DEF OtherFunctions
  <2>3. CASE ChaChaReturn
    <3>1. fn = "chacha" /\ args' = args /\ fn' \in {fn, "return"} BY <2>3 DEF ChaChaReturn
    <3> QED BY <3>1, OtherStays DEF OtherFunctions
  <2> QED BY <1>2, <2>1, <2>2, <2>3
<1>3. CASE blake2s_compress \/ BlakeRound \/ BlakeReturn
  <2>1. CASE blake2s_compress
    <3>1. fn' = "blake2s" /\ args'.call = "blake2s" BY <2>1 DEF blake2s_compress, Begin
    <3> QED BY <3>1, OtherBegins DEF CipherCalls, OtherFunctions
  <2>2. CASE BlakeRound
    <3>1. fn = "blake2s" /\ args' = args /\ fn' = fn BY <2>2 DEF BlakeRound, Rounds
    <3> QED BY <3>1, OtherStays DEF OtherFunctions
  <2>3. CASE BlakeReturn
    <3>1. fn = "blake2s" /\ args' = args /\ fn' \in {fn, "return"} BY <2>3 DEF BlakeReturn, End
    <3> QED BY <3>1, OtherStays DEF OtherFunctions
  <2> QED BY <1>3, <2>1, <2>2, <2>3
<1>4. CASE sha1_block \/ ShaRound \/ ShaReturn
  <2>1. CASE sha1_block
    <3>1. fn' = "sha1" /\ args'.call = "sha1" BY <2>1 DEF sha1_block, Begin
    <3> QED BY <3>1, OtherBegins DEF CipherCalls, OtherFunctions
  <2>2. CASE ShaRound
    <3>1. fn = "sha1" /\ args' = args /\ fn' = fn BY <2>2 DEF ShaRound, Rounds
    <3> QED BY <3>1, OtherStays DEF OtherFunctions
  <2>3. CASE ShaReturn
    <3>1. fn = "sha1" /\ args' = args /\ fn' \in {fn, "return"} BY <2>3 DEF ShaReturn, End
    <3> QED BY <3>1, OtherStays DEF OtherFunctions
  <2> QED BY <1>4, <2>1, <2>2, <2>3
<1>5. CASE hash_step \/ HashEncryption \/ HashMixing
  <2>1. CASE hash_step
    <3>1. fn' = "gost3411_94" /\ args'.call = "gost3411_94" BY <2>1 DEF hash_step, Begin
    <3> QED BY <3>1, OtherBegins DEF CipherCalls, OtherFunctions
  <2>2. CASE HashEncryption
    <3>1. fn = "gost3411_94" /\ args' = args /\ fn' = fn BY <2>2 DEF HashEncryption, Rounds
    <3> QED BY <3>1, OtherStays DEF OtherFunctions
  <2>3. CASE HashMixing
    <3>1. fn = "gost3411_94" /\ args' = args /\ fn' \in {fn, "return"} BY <2>3 DEF HashMixing, End
    <3> QED BY <3>1, OtherStays DEF OtherFunctions
  <2> QED BY <1>5, <2>1, <2>2, <2>3
<1>6. CASE streebog_g \/ streebog_round \/ StreebogReturn
  <2>1. CASE streebog_g
    <3>1. fn' = "streebog" /\ args'.call = "streebog" BY <2>1 DEF streebog_g, Begin
    <3> QED BY <3>1, OtherBegins DEF CipherCalls, OtherFunctions
  <2>2. CASE streebog_round
    <3>1. fn = "streebog" /\ args' = args /\ fn' = fn BY <2>2 DEF streebog_round, Rounds
    <3> QED BY <3>1, OtherStays DEF OtherFunctions
  <2>3. CASE StreebogReturn
    <3>1. fn = "streebog" /\ args' = args /\ fn' \in {fn, "return"} BY <2>3 DEF StreebogReturn, End
    <3> QED BY <3>1, OtherStays DEF OtherFunctions
  <2> QED BY <1>6, <2>1, <2>2, <2>3
<1> QED BY <1>1, <1>2, <1>3, <1>4, <1>5, <1>6 DEF CompressionsNext

\* The invariant is inductive.
LEMMA RetraceInit == Init => RetraceInv
BY DEF Init, RetraceInv, OtherFunctions

\* Every step preserves it: each action by its lemma.
LEMMA RetraceNext == RetraceInv /\ [Next]_<<fn, args, loc, ret>> => RetraceInv'
<1> SUFFICES ASSUME RetraceInv, [Next]_<<fn, args, loc, ret>> PROVE RetraceInv' OBVIOUS
<1>1. CASE KuznyechikNext
  <2>1. CASE omac_subkeys \/ gf128_mul \/ ProductStep \/ ProductReturn BY <2>1, OtherKuznyechik
  <2>2. CASE kuznyechik_setkey BY <2>2, SetkeyBegins
  <2>3. CASE SetkeyRound BY <2>3, SetkeyRounds
  <2>4. CASE SetkeyReturn BY <2>4, SetkeyReturns
  <2>5. CASE EncryptRound BY <2>5, EncryptRounds
  <2>6. CASE EncryptReturn BY <2>6, EncryptReturns
  <2>7. CASE DecryptRound BY <2>7, DecryptRounds
  <2>8. CASE DecryptReturn BY <2>8, DecryptReturns
  <2> QED BY <1>1, <2>1, <2>2, <2>3, <2>4, <2>5, <2>6, <2>7, <2>8 DEF KuznyechikNext
<1>2. CASE BlockCiphersNext
  <2>1. CASE gost28147_mac4_raw \/ gost28147_imit_cp12 \/ MacRound \/ MacNext BY <2>1, OtherMac
  <2>2. CASE gost28147 BY <2>2, GostBegins
  <2>3. CASE GostEncrypt BY <2>3, GostEncrypts
  <2>4. CASE GostDecrypt BY <2>4, GostDecrypts
  <2>5. CASE rc2_set_key BY <2>5, Rc2Begins
  <2>6. CASE rc2_stretch BY <2>6, Rc2Stretches
  <2>7. CASE rc2_reduce BY <2>7, Rc2Reduces
  <2>8. CASE rc2_encrypt_block BY <2>8, Rc2Encrypts
  <2>9. CASE rc2_decrypt_block BY <2>9, Rc2Decrypts
  <2> QED BY <1>2, <2>1, <2>2, <2>3, <2>4, <2>5, <2>6, <2>7, <2>8, <2>9 DEF BlockCiphersNext
<1>3. CASE CompressionsNext BY <1>3, OtherCompressions
<1>4. CASE Forget
  <2>1. fn' = "idle" BY <1>4 DEF Forget
  <2> QED BY <2>1 DEF RetraceInv, OtherFunctions
<1>5. CASE UNCHANGED <<fn, args, loc, ret>>
  <2>1. fn' = fn /\ args' = args /\ loc' = loc /\ ret' = ret BY <1>5
  <2>2. /\ SetkeyState' = SetkeyState /\ KuzEncryptState' = KuzEncryptState
        /\ KuzDecryptState' = KuzDecryptState
    BY <2>1 DEF SetkeyState, KuzEncryptState, KuzDecryptState, KuzTraced
  <2>3. GostEncryptState' = GostEncryptState /\ GostDecryptState' = GostDecryptState
    BY <2>1 DEF GostEncryptState, GostDecryptState, GostTraced
  <2>4. /\ Rc2StretchState' = Rc2StretchState /\ Rc2ReduceState' = Rc2ReduceState
        /\ Rc2EncryptState' = Rc2EncryptState /\ Rc2DecryptState' = Rc2DecryptState
    BY <2>1 DEF Rc2StretchState, Rc2ReduceState, Rc2EncryptState, Rc2DecryptState, Rc2Traced
  <2> QED BY <2>1, <2>2, <2>3, <2>4 DEF RetraceInv
<1> QED BY <1>1, <1>2, <1>3, <1>4, <1>5 DEF Next

\* What it says of the states is the property.
LEMMA RetracedByInv == RetraceInv => RoundsRetraced
<1> SUFFICES ASSUME RetraceInv PROVE RoundsRetraced OBVIOUS
<1>1. ASSUME fn = "kuz_decrypt"
      PROVE  loc.temp = s_transform(Xor(loc.trace[loc.i], args.keys[loc.i]))
  BY <1>1 DEF RetraceInv, KuzDecryptState
<1>2. ASSUME fn = "gost_decrypt"
      PROVE  <<loc.n[2], loc.n[1]>> = loc.trace[33 - loc.r]
  <2> DEFINE r == loc.r
             u == loc.trace[33 - r]
  <2>1. /\ loc \in [r : 0 .. 32, n : Halves, trace : Seq(Halves)]
        /\ loc.trace \in [1 .. 32 + 1 -> Halves]
        /\ loc.n = Swapped(u)
    BY <1>2 DEF RetraceInv, GostDecryptState, GostTraced
  <2>2. r \in 0 .. 32 BY <2>1
  <2>3. 33 - r \in 1 .. 32 + 1
    <3> HIDE DEF r
    <3> QED BY <2>2
  <2> HIDE DEF r
  <2>4. u \in Halves BY <2>1, <2>3
  <2> HIDE DEF u
  <2>5. Swapped(Swapped(u)) = u BY <2>4, SwappedTwice
  <2> QED BY <2>1, <2>5 DEF Swapped, u, r
<1>3. ASSUME fn = "rc2_decrypt" PROVE loc.x = loc.trace[17 - loc.r]
  BY <1>3 DEF RetraceInv, Rc2DecryptState
<1>4. ASSUME fn = "return", args.call \in CipherCalls PROVE ret[2] = args.input.in
  BY <1>4 DEF RetraceInv
<1>5. KuznyechikRetraced BY <1>1, <1>4 DEF KuznyechikRetraced, CipherCalls
<1>6. CiphersRetraced BY <1>2, <1>3, <1>4 DEF CiphersRetraced, CipherCalls
<1> QED BY <1>5, <1>6 DEF RoundsRetraced

\* Decryption retraces encryption, round by round, for every key and every block of the
\* three ciphers: after a round of kuz_decrypt, crypt or rc2_decrypt the state is one that
\* trace holds, and what is returned at the end is the block that was encrypted.
THEOREM RoundsAreRetraced == Spec => []RoundsRetraced
<1>1. Init => RetraceInv BY RetraceInit
<1>2. RetraceInv /\ [Next]_<<fn, args, loc, ret>> => RetraceInv' BY RetraceNext
<1>3. RetraceInv => RoundsRetraced BY RetracedByInv
<1> QED BY <1>1, <1>2, <1>3, PTL DEF Spec

-----------------------------------------------------------------------------
(***************************************************************************)
(* The product of MGM. A polynomial is the set of the powers that have the *)
(* coefficient 1; Remainder multiplies two of them and folds what is above *)
(* the power 127 twice.                                                    *)
(***************************************************************************)

\* The sum of two coefficients, and of two polynomials.
Differ(p, q) == ~ (p <=> q)
SumSet(s, t) == (s \ t) \cup (t \ s)

\* The steps of Remainder.
Product(s, t) == {k \in 0 .. 255 : Cardinality({i \in s : k - i \in t}) % 2 = 1}
High(s) == {k - 128 : k \in s \ (0 .. 127)}
Folded(s) == {k \in 0 .. 255 : (k \in Product(High(s), {0, 1, 2, 7})) # (k \in s /\ k < 128)}

\* What is left of a product: it is folded twice.
LEMMA RemainderFolds == \A a, b : Remainder(a, b) = Folded(Folded(Product(a, b)))
BY DEF Remainder, Product, High, Folded

\* An element more or not.
LEMMA OddChanges ==
    ASSUME NEW S, IsFiniteSet(S), NEW e, e \notin S
    PROVE  /\ IsFiniteSet(S \cup {e})
           /\ Cardinality(S \cup {e}) % 2 = 1 <=> Cardinality(S) % 2 # 1
<1> DEFINE c == Cardinality(S)
<1>1. IsFiniteSet(S \cup {e}) /\ Cardinality(S \cup {e}) = c + 1 BY FS_AddElement
<1>2. c \in Nat BY FS_CardinalityType
<1> HIDE DEF c
<1>3. (c + 1) % 2 = 1 <=> c % 2 # 1 BY <1>2
<1> QED BY <1>1, <1>3 DEF c

\* The same for an element that is only added under a condition.
LEMMA OddIf ==
    ASSUME NEW S, IsFiniteSet(S), NEW e, e \notin S, NEW p \in BOOLEAN
    PROVE  LET T == IF p THEN S \cup {e} ELSE S IN
           /\ IsFiniteSet(T)
           /\ Cardinality(T) % 2 = 1 <=> Differ(p, Cardinality(S) % 2 = 1)
<1>1. CASE p BY <1>1, OddChanges DEF Differ
<1>2. CASE ~ p BY <1>2 DEF Differ
<1> QED BY <1>1, <1>2

\* The product with x^7 + x^2 + x + 1.
LEMMA ProductOfFour ==
    ASSUME NEW s \in SUBSET Int, NEW k \in 0 .. 255
    PROVE  k \in Product(s, {0, 1, 2, 7})
           <=> Differ(Differ(k \in s, k - 1 \in s), Differ(k - 2 \in s, k - 7 \in s))
<1> DEFINE S1 == IF k \in s THEN {} \cup {k} ELSE {}
           S2 == IF k - 1 \in s THEN S1 \cup {k - 1} ELSE S1
           S3 == IF k - 2 \in s THEN S2 \cup {k - 2} ELSE S2
           S4 == IF k - 7 \in s THEN S3 \cup {k - 7} ELSE S3
           S == {i \in s : k - i \in {0, 1, 2, 7}}
<1>1. IsFiniteSet({}) /\ ~ (Cardinality({}) % 2 = 1) BY FS_EmptySet
<1>2. IsFiniteSet(S1) /\ (Cardinality(S1) % 2 = 1 <=> k \in s)
  <2>1. k \notin {} /\ (k \in s) \in BOOLEAN OBVIOUS
  <2>2. IsFiniteSet(S1) /\ (Cardinality(S1) % 2 = 1 <=> Differ(k \in s, Cardinality({}) % 2 = 1))
    BY <1>1, <2>1, OddIf
  <2> QED BY <1>1, <2>2 DEF Differ
<1>3. k - 1 \notin S1 /\ k - 2 \notin S2 /\ k - 7 \notin S3 OBVIOUS
<1>4. S = S4
  <2>1. \A i \in Int : i \in S <=> i \in S4 OBVIOUS
  <2>2. S \subseteq Int OBVIOUS
  <2>3. S4 \subseteq Int
    <3>1. k \in Int /\ k - 1 \in Int /\ k - 2 \in Int /\ k - 7 \in Int OBVIOUS
    <3>2. S1 \subseteq Int BY <3>1
    <3> HIDE DEF S1
    <3>3. S2 \subseteq Int BY <3>1, <3>2
    <3> HIDE DEF S2
    <3>4. S3 \subseteq Int BY <3>1, <3>3
    <3> HIDE DEF S3
    <3> QED BY <3>1, <3>4
  <2> HIDE DEF S, S4
  <2> QED BY <2>1, <2>2, <2>3
<1> HIDE DEF S1
<1>5. IsFiniteSet(S2) /\ (Cardinality(S2) % 2 = 1 <=> Differ(k - 1 \in s, Cardinality(S1) % 2 = 1))
  <2>1. (k - 1 \in s) \in BOOLEAN OBVIOUS
  <2> QED BY <1>2, <1>3, <2>1, OddIf
<1> HIDE DEF S2
<1>6. IsFiniteSet(S3) /\ (Cardinality(S3) % 2 = 1 <=> Differ(k - 2 \in s, Cardinality(S2) % 2 = 1))
  <2>1. (k - 2 \in s) \in BOOLEAN OBVIOUS
  <2> QED BY <1>5, <1>3, <2>1, OddIf
<1> HIDE DEF S3
<1>7. IsFiniteSet(S4) /\ (Cardinality(S4) % 2 = 1 <=> Differ(k - 7 \in s, Cardinality(S3) % 2 = 1))
  <2>1. (k - 7 \in s) \in BOOLEAN OBVIOUS
  <2> QED BY <1>6, <1>3, <2>1, OddIf
<1> HIDE DEF S4, S
<1>8. Cardinality(S) % 2 = 1
      <=> Differ(Differ(k \in s, k - 1 \in s), Differ(k - 2 \in s, k - 7 \in s))
  BY <1>2, <1>4, <1>5, <1>6, <1>7 DEF Differ
<1> QED BY <1>8 DEF Product, S

\* The bits that folding makes.
Bits(s, k) == Differ(Differ(k + 128 \in s, k >= 1 /\ k + 127 \in s),
                     Differ(k >= 2 /\ k + 126 \in s, k >= 7 /\ k + 121 \in s))

\* A power is left if an odd number of those that come to it is there.
LEMMA FoldBits ==
    ASSUME NEW s \in SUBSET (0 .. 255), NEW k \in 0 .. 255
    PROVE  k \in Folded(s) <=> Differ(Bits(s, k), k < 128 /\ k \in s)
<1> DEFINE h == High(s)
<1>1. h \in SUBSET Int /\ \A m \in Int : m \in h <=> m >= 0 /\ m + 128 \in s
  <2>1. h \in SUBSET Int BY DEF High
  <2>2. ASSUME NEW m \in Int, m \in h PROVE m >= 0 /\ m + 128 \in s BY <2>2 DEF High
  <2>3. ASSUME NEW m \in Int, m >= 0, m + 128 \in s PROVE m \in h
    <3> DEFINE u == m + 128
    <3>1. u \in s \ (0 .. 127) /\ u - 128 = m BY <2>3
    <3> HIDE DEF u
    <3> QED BY <3>1 DEF High
  <2> QED BY <2>1, <2>2, <2>3
<1> HIDE DEF h
<1>2. k \in Product(h, {0, 1, 2, 7})
      <=> Differ(Differ(k \in h, k - 1 \in h), Differ(k - 2 \in h, k - 7 \in h))
  BY <1>1, ProductOfFour
<1>3. /\ k \in h <=> k + 128 \in s
      /\ k - 1 \in h <=> k >= 1 /\ k + 127 \in s
      /\ k - 2 \in h <=> k >= 2 /\ k + 126 \in s
      /\ k - 7 \in h <=> k >= 7 /\ k + 121 \in s
  <2>1. /\ k - 1 + 128 = k + 127 /\ k - 2 + 128 = k + 126 /\ k - 7 + 128 = k + 121
        /\ k >= 0 /\ (k - 1 >= 0 <=> k >= 1) /\ (k - 2 >= 0 <=> k >= 2) /\ (k - 7 >= 0 <=> k >= 7)
        /\ k \in Int /\ k - 1 \in Int /\ k - 2 \in Int /\ k - 7 \in Int
    OBVIOUS
  <2> QED BY <1>1, <2>1
<1>4. k \in Product(h, {0, 1, 2, 7}) <=> Bits(s, k) BY <1>2, <1>3 DEF Bits
<1>5. k \in Folded(s) <=> (k \in Product(h, {0, 1, 2, 7})) # (k \in s /\ k < 128) BY DEF Folded, h
<1> QED BY <1>4, <1>5 DEF Differ

\* What is in a sum.
LEMMA SumIn == \A s, t, k : k \in SumSet(s, t) <=> Differ(k \in s, k \in t)
BY DEF SumSet, Differ

\* What is folded is a polynomial of lower degree, twice folded one of a block.
LEMMA FoldedDegree ==
    /\ \A s \in SUBSET (0 .. 255) : Folded(s) \in SUBSET (0 .. 134)
    /\ \A s \in SUBSET (0 .. 134) : Folded(s) \in SUBSET (0 .. 127)
                                    /\ (127 \in Folded(s) <=> 127 \in s)
    /\ \A s \in SUBSET (0 .. 127) : Folded(s) = s
<1>1. ASSUME NEW s \in SUBSET (0 .. 255) PROVE Folded(s) \in SUBSET (0 .. 134)
  <2>1. ASSUME NEW k \in 0 .. 255, k \in Folded(s) PROVE k \in 0 .. 134
    <3>1. Differ(Bits(s, k), k < 128 /\ k \in s) BY <2>1, FoldBits
    <3>2. CASE k > 134
      <4>1. \A m \in Int : m > 255 => m \notin s OBVIOUS
      <4>2. k + 128 \in Int /\ k + 128 > 255 /\ k + 127 > 255 /\ k + 126 > 255 /\ k + 121 > 255
        BY <3>2
      <4>3. k + 127 \in Int /\ k + 126 \in Int /\ k + 121 \in Int /\ ~ (k < 128) BY <3>2
      <4> QED BY <3>1, <4>1, <4>2, <4>3 DEF Bits, Differ
    <3> QED BY <3>2
  <2> QED BY <2>1 DEF Folded
<1>2. ASSUME NEW s \in SUBSET (0 .. 134)
      PROVE  Folded(s) \in SUBSET (0 .. 127) /\ (127 \in Folded(s) <=> 127 \in s)
  <2>1. s \in SUBSET (0 .. 255) OBVIOUS
  <2>2. \A m \in Int : m > 134 => m \notin s OBVIOUS
  <2>3. ASSUME NEW k \in 0 .. 255, k > 13 PROVE ~ Bits(s, k)
    <3>1. k + 128 > 134 /\ k + 127 > 134 /\ k + 126 > 134 /\ k + 121 > 134 BY <2>3
    <3>2. k + 128 \in Int /\ k + 127 \in Int /\ k + 126 \in Int /\ k + 121 \in Int OBVIOUS
    <3> QED BY <2>2, <3>1, <3>2 DEF Bits, Differ
  <2>4. ASSUME NEW k \in 0 .. 255, k \in Folded(s) PROVE k \in 0 .. 127
    <3>1. Differ(Bits(s, k), k < 128 /\ k \in s) BY <2>1, <2>4, FoldBits
    <3>2. CASE k > 127 BY <2>3, <3>1, <3>2 DEF Differ
    <3> QED BY <3>2
  <2>5. Folded(s) \in SUBSET (0 .. 127) BY <2>4 DEF Folded
  <2>6. 127 \in 0 .. 255 /\ 127 > 13 /\ 127 < 128 OBVIOUS
  <2>7. 127 \in Folded(s) <=> Differ(Bits(s, 127), 127 < 128 /\ 127 \in s) BY <2>1, <2>6, FoldBits
  <2> QED BY <2>3, <2>5, <2>6, <2>7 DEF Differ
<1>3. ASSUME NEW s, s \in SUBSET (0 .. 127) PROVE Folded(s) = s
  <2>1. s \in SUBSET (0 .. 255) BY <1>3
  <2>2. \A m \in Int : m > 127 => m \notin s BY <1>3
  <2>3. ASSUME NEW k \in 0 .. 255 PROVE k \in Folded(s) <=> k \in s
    <3>1. k \in Folded(s) <=> Differ(Bits(s, k), k < 128 /\ k \in s) BY <2>1, FoldBits
    <3>2. ~ Bits(s, k)
      <4>1. /\ k + 128 > 127 /\ k + 127 \in Int /\ k + 128 \in Int /\ k + 126 \in Int /\ k + 121 \in Int
            /\ k >= 1 => k + 127 > 127
            /\ k >= 2 => k + 126 > 127
            /\ k >= 7 => k + 121 > 127
        OBVIOUS
      <4> QED BY <2>2, <4>1 DEF Bits, Differ
    <3>3. k \in s => k < 128 BY <1>3
    <3> QED BY <3>1, <3>2, <3>3 DEF Differ
  <2>4. Folded(s) \in SUBSET (0 .. 255) BY DEF Folded
  <2> QED BY ONLY <2>1, <2>3, <2>4
<1> QED BY <1>1, <1>2, <1>3

\* The sum of polynomials is folded to the sum.
LEMMA FoldedSum ==
    ASSUME NEW s, NEW t, s \in SUBSET (0 .. 255), t \in SUBSET (0 .. 255)
    PROVE  Folded(SumSet(s, t)) = SumSet(Folded(s), Folded(t))
<1> DEFINE u == SumSet(s, t)
<1>1. u \in SUBSET (0 .. 255) BY DEF SumSet
<1>2. \A k : k \in u <=> Differ(k \in s, k \in t) BY SumIn
<1> HIDE DEF u
<1>3. ASSUME NEW k \in 0 .. 255
      PROVE  k \in Folded(u) <=> k \in SumSet(Folded(s), Folded(t))
  <2>1. k \in Folded(u) <=> Differ(Bits(u, k), k < 128 /\ k \in u) BY <1>1, FoldBits
  <2>2. k \in Folded(s) <=> Differ(Bits(s, k), k < 128 /\ k \in s) BY FoldBits
  <2>3. k \in Folded(t) <=> Differ(Bits(t, k), k < 128 /\ k \in t) BY FoldBits
  <2>4. Bits(u, k) <=> Differ(Bits(s, k), Bits(t, k))
    <3>1. /\ k + 128 \in u <=> Differ(k + 128 \in s, k + 128 \in t)
          /\ k + 127 \in u <=> Differ(k + 127 \in s, k + 127 \in t)
          /\ k + 126 \in u <=> Differ(k + 126 \in s, k + 126 \in t)
          /\ k + 121 \in u <=> Differ(k + 121 \in s, k + 121 \in t)
      BY <1>2
    <3> QED BY <3>1 DEF Bits, Differ
  <2>5. k \in u <=> Differ(k \in s, k \in t) BY <1>2
  <2>6. k \in Folded(u) <=> Differ(k \in Folded(s), k \in Folded(t))
    BY <2>1, <2>2, <2>3, <2>4, <2>5 DEF Differ
  <2> QED BY <2>6, SumIn
<1>4. /\ Folded(u) \in SUBSET (0 .. 255)
      /\ Folded(s) \in SUBSET (0 .. 255) /\ Folded(t) \in SUBSET (0 .. 255)
  BY DEF Folded
<1>5. SumSet(Folded(s), Folded(t)) \in SUBSET (0 .. 255) BY ONLY <1>4 DEF SumSet
<1>6. Folded(u) = SumSet(Folded(s), Folded(t)) BY ONLY <1>3, <1>4, <1>5
<1> QED BY <1>6 DEF u

\* The next power, and the polynomial that the field is made with.
NextPowers(s) == {k + 1 : k \in s}
Modulus == {0, 1, 2, 7, 128}

\* What is in the next powers.
LEMMA NextIn ==
    ASSUME NEW s \in SUBSET Int
    PROVE  NextPowers(s) \in SUBSET Int /\ \A k \in Int : k \in NextPowers(s) <=> k - 1 \in s
<1>1. NextPowers(s) \in SUBSET Int BY DEF NextPowers
<1>2. ASSUME NEW k \in Int, k \in NextPowers(s) PROVE k - 1 \in s BY <1>2 DEF NextPowers
<1>3. ASSUME NEW k \in Int, k - 1 \in s PROVE k \in NextPowers(s)
  <2> DEFINE m == k - 1
  <2>1. m \in s /\ m + 1 = k BY <1>3
  <2> HIDE DEF m
  <2> QED BY <2>1 DEF NextPowers
<1> QED BY <1>1, <1>2, <1>3

\* Nothing is left of the modulus, nor of nothing.
LEMMA FoldedModulus == Folded(Modulus) = {} /\ Folded({}) = {}
<1>1. Modulus \in SUBSET (0 .. 255) BY DEF Modulus
<1>2. ASSUME NEW k \in 0 .. 255 PROVE k \notin Folded(Modulus)
  <2>1. k \in Folded(Modulus) <=> Differ(Bits(Modulus, k), k < 128 /\ k \in Modulus)
    BY <1>1, FoldBits
  <2>2. /\ k + 128 \in Modulus <=> k = 0
        /\ (k >= 1 /\ k + 127 \in Modulus) <=> k = 1
        /\ (k >= 2 /\ k + 126 \in Modulus) <=> k = 2
        /\ (k >= 7 /\ k + 121 \in Modulus) <=> k = 7
        /\ (k < 128 /\ k \in Modulus) <=> k \in {0, 1, 2, 7}
    BY DEF Modulus
  <2>3. Bits(Modulus, k) <=> k \in {0, 1, 2, 7} BY <2>2 DEF Bits, Differ
  <2> QED BY <2>1, <2>2, <2>3 DEF Differ
<1>3. Folded(Modulus) = {} BY <1>2 DEF Folded
<1>4. Folded({}) = {} BY FoldedDegree
<1> QED BY <1>3, <1>4

\* The next powers are folded to the next powers, but for the modulus.
LEMMA FoldedNext ==
    ASSUME NEW s, s \in SUBSET (0 .. 254)
    PROVE  Folded(NextPowers(s))
           = SumSet(NextPowers(Folded(s)), IF 127 \in s THEN Modulus ELSE {})
<1> DEFINE n == NextPowers(s)
           f == Folded(s)
           m == IF 127 \in s THEN Modulus ELSE {}
<1>1. s \in SUBSET (0 .. 255) /\ s \in SUBSET Int OBVIOUS
<1>2. f \in SUBSET (0 .. 134) /\ f \in SUBSET Int BY <1>1, FoldedDegree
<1>3. n \in SUBSET Int /\ \A k \in Int : k \in n <=> k - 1 \in s BY <1>1, NextIn
<1>4. \A k \in Int : k \in NextPowers(f) <=> k - 1 \in f BY <1>2, NextIn
<1>5. n \in SUBSET (0 .. 255)
  <2>1. \A k \in Int : k - 1 \in s => k \in 0 .. 255 OBVIOUS
  <2> HIDE DEF n
  <2> QED BY <1>3, <2>1
<1>6. NextPowers(f) \in SUBSET (0 .. 255)
  <2>1. NextPowers(f) \in SUBSET Int BY <1>2, NextIn
  <2>2. \A k \in Int : k - 1 \in f => k \in 0 .. 255 BY <1>2
  <2> HIDE DEF f
  <2> QED BY <1>4, <2>1, <2>2
<1> HIDE DEF n, f
<1>7. ASSUME NEW k \in 0 .. 255 PROVE k \in Folded(n) <=> k \in SumSet(NextPowers(f), m)
  <2>1. k \in Folded(n) <=> Differ(Bits(n, k), k < 128 /\ k \in n) BY <1>5, FoldBits
  <2>2. /\ k + 128 \in n <=> k + 127 \in s
        /\ k + 127 \in n <=> k + 126 \in s
        /\ k + 126 \in n <=> k + 125 \in s
        /\ k + 121 \in n <=> k + 120 \in s
        /\ k \in n <=> k - 1 \in s
    <3>1. /\ k + 128 - 1 = k + 127 /\ k + 127 - 1 = k + 126 /\ k + 126 - 1 = k + 125
          /\ k + 121 - 1 = k + 120 /\ k + 128 \in Int /\ k + 127 \in Int /\ k + 126 \in Int
          /\ k + 121 \in Int /\ k \in Int
      OBVIOUS
    <3> QED BY <1>3, <3>1
  <2>3. k \in m <=> (127 \in s /\ k \in {0, 1, 2, 7, 128}) BY DEF Modulus
  <2>4. k \in SumSet(NextPowers(f), m) <=> Differ(k - 1 \in f, k \in m) BY <1>4, SumIn
  <2> HIDE DEF m
  <2>5. CASE k = 0
    <3>1. k - 1 \notin f BY <1>2, <2>5
    <3>2. k - 1 \notin s BY <2>5
    <3>3. Bits(n, k) <=> 127 \in s BY <2>2, <2>5 DEF Bits, Differ
    <3> QED BY <2>1, <2>2, <2>3, <2>4, <2>5, <3>1, <3>2, <3>3 DEF Differ
  <2>6. CASE k # 0
    <3> DEFINE j == k - 1
    <3>1. /\ j \in 0 .. 255 /\ j + 128 = k + 127 /\ j + 127 = k + 126 /\ j + 126 = k + 125
          /\ j + 121 = k + 120 /\ (j >= 1 <=> k >= 2) /\ (j >= 2 <=> k >= 3) /\ (j >= 7 <=> k >= 8)
          /\ (j < 128 <=> k < 129) /\ k >= 1
      BY <2>6
    <3> HIDE DEF j
    <3>2. j \in f <=> Differ(Bits(s, j), j < 128 /\ j \in s) BY <1>1, <3>1, FoldBits DEF f
    <3>3. Bits(s, j) <=> Differ(Differ(k + 127 \in s, k >= 2 /\ k + 126 \in s),
                                Differ(k >= 3 /\ k + 125 \in s, k >= 8 /\ k + 120 \in s))
      BY <3>1 DEF Bits
    <3>4. Bits(n, k) <=> Differ(Differ(k + 127 \in s, k >= 1 /\ k + 126 \in s),
                                Differ(k >= 2 /\ k + 125 \in s, k >= 7 /\ k + 120 \in s))
      BY <2>2 DEF Bits
    <3>5. k = 1 => k + 126 = 127
      OBVIOUS
    <3>6. k = 2 => k + 125 = 127
      OBVIOUS
    <3>7. k = 7 => k + 120 = 127
      OBVIOUS
    <3>8. k = 128 => k - 1 = 127
      OBVIOUS
    <3>9. k - 1 = j BY DEF j
    <3>10. /\ (k >= 1 <=> k >= 2 \/ k = 1) /\ (k >= 2 <=> k >= 3 \/ k = 2) /\ (k >= 7 <=> k >= 8 \/ k = 7)
           /\ (k < 129 <=> k < 128 \/ k = 128)
           /\ (k = 1 => ~ (k >= 2) /\ k < 128)
           /\ (k = 2 => ~ (k >= 3) /\ k < 128 /\ k # 1)
           /\ (k = 7 => ~ (k >= 8) /\ k < 128 /\ k # 1 /\ k # 2)
           /\ (k = 128 => k >= 8 /\ k >= 3 /\ k # 1 /\ k # 2 /\ k # 7)
           /\ (k \in {0, 1, 2, 7, 128} <=> k = 1 \/ k = 2 \/ k = 7 \/ k = 128)
      BY <2>6
    <3> QED BY <2>1, <2>2, <2>3, <2>4, <3>1, <3>2, <3>3, <3>4, <3>5, <3>6, <3>7, <3>8, <3>9, <3>10
         DEF Differ
  <2> QED BY <2>5, <2>6
<1>8. m \in SUBSET (0 .. 255) BY DEF Modulus
<1> HIDE DEF m
<1>9. SumSet(NextPowers(f), m) \in SUBSET (0 .. 255) BY ONLY <1>6, <1>8 DEF SumSet
<1>10. Folded(n) \in SUBSET (0 .. 255) BY DEF Folded
<1>11. Folded(n) = SumSet(NextPowers(f), m) BY ONLY <1>7, <1>9, <1>10
<1> QED BY <1>11 DEF n, f, m

\* What is left of a product: folded twice, it is a polynomial of a block.
Rest(s) == Folded(Folded(s))

\* It is a polynomial of a block, and one of a block is its own rest.
LEMMA RestType ==
    /\ \A s \in SUBSET (0 .. 255) : Rest(s) \in SUBSET (0 .. 127)
    /\ \A s \in SUBSET (0 .. 127) : Rest(s) = s
BY FoldedDegree DEF Rest

\* The rest of a sum is the sum of the rests.
LEMMA RestSum ==
    ASSUME NEW s \in SUBSET (0 .. 255), NEW t \in SUBSET (0 .. 255)
    PROVE  Rest(SumSet(s, t)) = SumSet(Rest(s), Rest(t))
<1>1. Folded(SumSet(s, t)) = SumSet(Folded(s), Folded(t)) BY FoldedSum
<1>2. Folded(s) \in SUBSET (0 .. 255) /\ Folded(t) \in SUBSET (0 .. 255) BY DEF Folded
<1> QED BY <1>1, <1>2, FoldedSum DEF Rest

\* A polynomial of a block times x: what Double does.
Doubled(s) == SumSet({k \in 0 .. 127 : k - 1 \in s}, IF 127 \in s THEN {0, 1, 2, 7} ELSE {})

\* The rest of the next powers is that of the powers before, times x.
LEMMA RestNext ==
    ASSUME NEW s, s \in SUBSET (0 .. 254)
    PROVE  Rest(NextPowers(s)) = Doubled(Rest(s))
<1> DEFINE f == Folded(s)
           n == NextPowers(f)
           m == IF 127 \in s THEN Modulus ELSE {}
           h == Folded(f)
<1>1. f \in SUBSET (0 .. 134) /\ f \in SUBSET (0 .. 254)
  <2>1. s \in SUBSET (0 .. 255) OBVIOUS
  <2>2. f \in SUBSET (0 .. 134) BY <2>1, FoldedDegree
  <2> HIDE DEF f
  <2> QED BY <2>2
<1>2. Folded(NextPowers(s)) = SumSet(n, m) BY FoldedNext
<1>3. n \in SUBSET (0 .. 255) /\ m \in SUBSET (0 .. 255)
  <2>1. n \in SUBSET Int /\ \A k \in Int : k \in n <=> k - 1 \in f BY <1>1, NextIn
  <2>2. \A k \in Int : k - 1 \in f => k \in 0 .. 255 BY <1>1
  <2>3. m \in SUBSET (0 .. 255) BY DEF Modulus
  <2> HIDE DEF n, f, m
  <2> QED BY <2>1, <2>2, <2>3
<1>4. Folded(SumSet(n, m)) = SumSet(Folded(n), Folded(m)) BY <1>3, FoldedSum
<1>5. Folded(m) = {} BY FoldedModulus
<1>6. Folded(n) = SumSet(NextPowers(h), IF 127 \in f THEN Modulus ELSE {}) BY <1>1, FoldedNext
<1>7. h \in SUBSET (0 .. 127) /\ (127 \in h <=> 127 \in f) BY <1>1, FoldedDegree
<1> HIDE DEF n, m, h, f
<1>8. Folded(SumSet(n, m)) = Folded(n)
  <2>1. \A t : SumSet(t, {}) = t BY DEF SumSet
  <2> QED BY <1>4, <1>5, <2>1
<1>9. Folded(n) = Doubled(h)
  <2> DEFINE g == IF 127 \in h THEN Modulus ELSE {}
             e == {k \in 0 .. 127 : k - 1 \in h}
             d == IF 127 \in h THEN {0, 1, 2, 7} ELSE {}
  <2>1. Folded(n) = SumSet(NextPowers(h), g) /\ Doubled(h) = SumSet(e, d)
    BY <1>6, <1>7 DEF Doubled
  <2>2. NextPowers(h) \in SUBSET Int /\ \A k \in Int : k \in NextPowers(h) <=> k - 1 \in h
    BY <1>7, NextIn
  <2>3. ASSUME NEW k \in Int PROVE k \in SumSet(NextPowers(h), g) <=> k \in SumSet(e, d)
    <3>1. k \in NextPowers(h) <=> k - 1 \in h BY <2>2
    <3>2. k - 1 \in h => k \in 1 .. 128 BY <1>7
    <3>3. k \in g <=> 127 \in h /\ k \in {0, 1, 2, 7, 128} BY DEF Modulus
    <3>4. k \in e <=> k \in 0 .. 127 /\ k - 1 \in h OBVIOUS
    <3>5. k \in d <=> 127 \in h /\ k \in {0, 1, 2, 7} OBVIOUS
    <3> HIDE DEF g, e, d
    <3>6. CASE k = 128
      <4>1. k - 1 = 127 /\ k \notin {0, 1, 2, 7} /\ k \notin 0 .. 127 BY <3>6
      <4> QED BY <3>1, <3>3, <3>4, <3>5, <3>6, <4>1, SumIn DEF Differ
    <3>7. CASE k # 128
      <4>1. k \in e <=> k \in NextPowers(h) BY <3>1, <3>2, <3>4, <3>7
      <4>2. k \in g <=> k \in d BY <3>3, <3>5, <3>7
      <4> QED BY <4>1, <4>2, SumIn DEF Differ
    <3> QED BY <3>6, <3>7
  <2>4. SumSet(NextPowers(h), g) \in SUBSET Int
    <3>1. g \in SUBSET Int BY DEF Modulus
    <3> QED BY ONLY <2>2, <3>1 DEF SumSet
  <2>5. SumSet(e, d) \in SUBSET Int
    <3>1. e \in SUBSET Int /\ d \in SUBSET Int OBVIOUS
    <3> QED BY ONLY <3>1 DEF SumSet
  <2>6. SumSet(NextPowers(h), g) = SumSet(e, d) BY ONLY <2>3, <2>4, <2>5
  <2> QED BY <2>1, <2>6
<1> QED BY <1>2, <1>8, <1>9 DEF Rest, h, f

\* The product with a single power.
LEMMA ProductOfOne ==
    ASSUME NEW s, s \in SUBSET (0 .. 127), NEW i \in 0 .. 128
    PROVE  /\ Product(s, {i}) \in SUBSET (0 .. 255)
           /\ \A k \in Int : k \in Product(s, {i}) <=> k - i \in s
<1>1. ASSUME NEW k \in 0 .. 255 PROVE k \in Product(s, {i}) <=> k - i \in s
  <2> DEFINE t == {j \in s : k - j \in {i}}
  <2>1. \A j \in s : k - j = i <=> j = k - i OBVIOUS
  <2>2. CASE k - i \in s
    <3>1. t = {k - i} BY <2>1, <2>2
    <3>2. Cardinality(t) = 1 BY <3>1, FS_Singleton
    <3>3. 1 % 2 = 1 OBVIOUS
    <3> HIDE DEF t
    <3> QED BY <2>2, <3>2, <3>3 DEF Product, t
  <2>3. CASE k - i \notin s
    <3>1. t = {} BY <2>1, <2>3
    <3>2. Cardinality(t) = 0 BY <3>1, FS_EmptySet
    <3>3. 0 % 2 # 1 OBVIOUS
    <3> HIDE DEF t
    <3> QED BY <2>3, <3>2, <3>3 DEF Product, t
  <2> QED BY <2>2, <2>3
<1>2. Product(s, {i}) \in SUBSET (0 .. 255) BY DEF Product
<1>3. \A k \in Int : k - i \in s => k \in 0 .. 255 OBVIOUS
<1> DEFINE p == Product(s, {i})
<1> HIDE DEF p
<1>4. p \in SUBSET (0 .. 255) /\ \A k \in 0 .. 255 : k \in p <=> k - i \in s BY <1>1, <1>2 DEF p
<1>5. \A k \in Int : k \in p <=> k - i \in s
  <2>1. ASSUME NEW k, k \in p PROVE k \in 0 .. 255 BY ONLY <1>4, <2>1
  <2> QED BY ONLY <1>3, <1>4, <2>1
<1> QED BY <1>4, <1>5 DEF p

\* The product with one power more is larger by the product with it.
LEMMA ProductOfMore ==
    ASSUME NEW s, s \in SUBSET (0 .. 127), NEW t, NEW i, i \in 0 .. 127, i \notin t
    PROVE  Product(s, t \cup {i}) = SumSet(Product(s, t), Product(s, {i}))
<1>1. ASSUME NEW k \in 0 .. 255
      PROVE  k \in Product(s, t \cup {i}) <=> k \in SumSet(Product(s, t), Product(s, {i}))
  <2> DEFINE a == {j \in s : k - j \in t}
             b == {j \in s : k - j \in t \cup {i}}
             e == k - i
  <2>1. \A j \in s : k - j = i <=> j = e OBVIOUS
  <2>2. IsFiniteSet(a)
    <3>1. IsFiniteSet(0 .. 127)
      <4>1. 0 \in Int /\ 127 \in Int OBVIOUS
      <4> QED BY ONLY <4>1, FS_Interval
    <3>2. a \in SUBSET (0 .. 127) OBVIOUS
    <3> QED BY <3>1, <3>2, FS_Subset
  <2>3. e \notin a
    <3>1. k - e = i OBVIOUS
    <3> QED BY <3>1
  <2>4. b = IF e \in s THEN a \cup {e} ELSE a BY <2>1
  <2>5. Cardinality(b) % 2 = 1 <=> Differ(e \in s, Cardinality(a) % 2 = 1)
    <3>1. (e \in s) \in BOOLEAN OBVIOUS
    <3> HIDE DEF a, b, e
    <3> QED BY <2>2, <2>3, <2>4, <3>1, OddIf
  <2>6. k \in Product(s, t \cup {i}) <=> Cardinality(b) % 2 = 1 BY DEF Product
  <2>7. k \in Product(s, t) <=> Cardinality(a) % 2 = 1 BY DEF Product
  <2>8. k \in Product(s, {i}) <=> e \in s
    <3>1. i \in 0 .. 128 /\ k \in Int OBVIOUS
    <3> QED BY <3>1, ProductOfOne
  <2> HIDE DEF a, b, e
  <2> QED BY <2>5, <2>6, <2>7, <2>8, SumIn DEF Differ
<1>2. /\ Product(s, t \cup {i}) \in SUBSET (0 .. 255)
      /\ Product(s, t) \in SUBSET (0 .. 255) /\ Product(s, {i}) \in SUBSET (0 .. 255)
  BY DEF Product
<1>3. SumSet(Product(s, t), Product(s, {i})) \in SUBSET (0 .. 255) BY ONLY <1>2 DEF SumSet
<1> QED BY ONLY <1>1, <1>2, <1>3

\* What the loop needs of Remainder: it begins with no power, and with x^0.
LEMMA RemainderBegins ==
    ASSUME NEW s, s \in SUBSET (0 .. 127)
    PROVE  Remainder(s, {}) = {} /\ Remainder(s, {0}) = s
<1>1. Product(s, {}) = {}
  <2>1. ASSUME NEW k \in 0 .. 255 PROVE k \notin Product(s, {})
    <3>1. {j \in s : k - j \in {}} = {} OBVIOUS
    <3> QED BY <3>1, FS_EmptySet DEF Product
  <2> QED BY <2>1 DEF Product
<1>2. Product(s, {0}) = s
  <2>1. Product(s, {0}) \in SUBSET (0 .. 255) /\ \A k \in Int : k \in Product(s, {0}) <=> k - 0 \in s
    <3>1. 0 \in 0 .. 128 OBVIOUS
    <3> QED BY <3>1, ProductOfOne
  <2>2. \A k \in Int : k - 0 = k OBVIOUS
  <2>3. s \in SUBSET (0 .. 255) OBVIOUS
  <2>4. \A k \in 0 .. 255 : k \in Int OBVIOUS
  <2>5. \A k \in 0 .. 255 : k \in Product(s, {0}) <=> k \in s BY <2>1, <2>2, <2>4
  <2> QED BY ONLY <2>1, <2>3, <2>5
<1>3. Rest({}) = {} /\ Rest(s) = s BY RestType
<1> QED BY <1>1, <1>2, <1>3, RemainderFolds DEF Rest

\* One more power of the second polynomial adds the product with it.
LEMMA RemainderMore ==
    ASSUME NEW s, s \in SUBSET (0 .. 127), NEW t, NEW i, i \in 0 .. 127, i \notin t
    PROVE  Remainder(s, t \cup {i}) = SumSet(Remainder(s, t), Remainder(s, {i}))
<1>1. Product(s, t) \in SUBSET (0 .. 255) /\ Product(s, {i}) \in SUBSET (0 .. 255) BY DEF Product
<1>2. Rest(SumSet(Product(s, t), Product(s, {i}))) = SumSet(Rest(Product(s, t)), Rest(Product(s, {i})))
  BY <1>1, RestSum
<1> QED BY <1>2, ProductOfMore, RemainderFolds DEF Rest

\* The product with the next power is the one before, times x.
LEMMA RemainderNext ==
    ASSUME NEW s, s \in SUBSET (0 .. 127), NEW i \in 0 .. 127
    PROVE  /\ Remainder(s, {i}) \in SUBSET (0 .. 127)
           /\ Remainder(s, {i + 1}) = Doubled(Remainder(s, {i}))
<1> DEFINE p == Product(s, {i})
           q == Product(s, {i + 1})
<1>1. p \in SUBSET (0 .. 255) /\ \A k \in Int : k \in p <=> k - i \in s
  <2>1. i \in 0 .. 128 OBVIOUS
  <2> QED BY <2>1, ProductOfOne
<1>2. q \in SUBSET (0 .. 255) /\ \A k \in Int : k \in q <=> k - (i + 1) \in s
  <2>1. i + 1 \in 0 .. 128 OBVIOUS
  <2> QED BY <2>1, ProductOfOne
<1> HIDE DEF p, q
<1>3. p \in SUBSET (0 .. 254)
  <2>1. \A k \in Int : k - i \in s => k \in 0 .. 254 OBVIOUS
  <2> QED BY <1>1, <2>1
<1>4. NextPowers(p) = q
  <2>1. p \in SUBSET Int BY <1>1
  <2>2. NextPowers(p) \in SUBSET Int /\ \A k \in Int : k \in NextPowers(p) <=> k - 1 \in p
    BY <2>1, NextIn
  <2>3. \A k \in Int : k - 1 \in Int /\ (k - 1) - i = k - (i + 1) OBVIOUS
  <2>4. \A k \in Int : k \in NextPowers(p) <=> k \in q BY <1>1, <1>2, <2>2, <2>3
  <2>5. q \in SUBSET Int BY <1>2
  <2> QED BY ONLY <2>2, <2>4, <2>5
<1>5. Rest(q) = Doubled(Rest(p)) BY <1>3, <1>4, RestNext
<1>6. Rest(p) \in SUBSET (0 .. 127) BY <1>1, RestType
<1> QED BY <1>5, <1>6, RemainderFolds DEF Rest, p, q

-----------------------------------------------------------------------------
(***************************************************************************)
(* The bits of a block: Double is the product with x, Xor the sum.         *)
(***************************************************************************)

\* The bits of a byte that is turned left by one: bit 0 comes from the byte below.
LEMMA TurnOne ==
    ASSUME NEW x \in Byte, NEW y \in Byte
    PROVE  /\ Turn(x, y, 1) \in Byte
           /\ BitOf(Turn(x, y, 1), 0) = BitOf(y, 7)
           /\ \A j \in 1 .. 7 : BitOf(Turn(x, y, 1), j) = BitOf(x, j - 1)
<1> DEFINE a == [k \in 0 .. 7 |-> BitOf(x, k)]
           b == [k \in 0 .. 7 |-> BitOf(y, k)]
           c == [k \in 0 .. 7 |-> IF k = 0 THEN BitOf(y, 7) ELSE BitOf(x, k - 1)]
           t == Turn(x, y, 1)
<1>1. x = FromBits(a) /\ y = FromBits(b) BY SumOfBits
<1>2. a \in [0 .. 7 -> Bit] /\ b \in [0 .. 7 -> Bit] BY BitsAreBits
<1>3. c \in [0 .. 7 -> Bit]
  <2>1. ASSUME NEW k \in 0 .. 7 PROVE (IF k = 0 THEN BitOf(y, 7) ELSE BitOf(x, k - 1)) \in Bit
    <3>1. CASE k = 0
      <4>1. 7 \in 0 .. 7 OBVIOUS
      <4> QED BY <3>1, <4>1, BitsAreBits
    <3>2. CASE k # 0
      <4>1. k - 1 \in 0 .. 7 BY <3>2
      <4> QED BY <3>2, <4>1, BitsAreBits
    <3> QED BY <3>1, <3>2
  <2> QED BY <2>1
<1>4. /\ c[0] = b[7] /\ c[1] = a[0] /\ c[2] = a[1] /\ c[3] = a[2]
      /\ c[4] = a[3] /\ c[5] = a[4] /\ c[6] = a[5] /\ c[7] = a[6]
  OBVIOUS
<1>5. c[0] = BitOf(y, 7) /\ \A j \in 1 .. 7 : c[j] = BitOf(x, j - 1) OBVIOUS
<1> HIDE DEF a, b, c
<1>6. t = FromBits(c)
  <2>1. t = ((x * 2) % 256) + (y \div 128)
    <3>1. 2 ^ 1 = 2 /\ 2 ^ (8 - 1) = 128 OBVIOUS
    <3> QED BY <3>1 DEF Turn, TurnBy
  <2>2. /\ a[0] \in Bit /\ a[1] \in Bit /\ a[2] \in Bit /\ a[3] \in Bit
        /\ a[4] \in Bit /\ a[5] \in Bit /\ a[6] \in Bit /\ a[7] \in Bit
        /\ b[0] \in Bit /\ b[1] \in Bit /\ b[2] \in Bit /\ b[3] \in Bit
        /\ b[4] \in Bit /\ b[5] \in Bit /\ b[6] \in Bit /\ b[7] \in Bit
    BY <1>2
  <2>3. (x * 2) % 256 = 2 * a[0] + 4 * a[1] + 8 * a[2] + 16 * a[3] + 32 * a[4] + 64 * a[5] + 128 * a[6]
    <3> DEFINE s == 2 * a[0] + 4 * a[1] + 8 * a[2] + 16 * a[3] + 32 * a[4] + 64 * a[5] + 128 * a[6]
               o == a[0] + 2 * a[1] + 4 * a[2] + 8 * a[3] + 16 * a[4] + 32 * a[5] + 64 * a[6]
               h == a[7]
    <3>1. x = o + 128 * h BY <1>1 DEF FromBits
    <3>2. s \in 0 .. 255 /\ o \in Int /\ h \in Int /\ s = 2 * o
      <4> DEFINE a0 == a[0]
                 a1 == a[1]
                 a2 == a[2]
                 a3 == a[3]
                 a4 == a[4]
                 a5 == a[5]
                 a6 == a[6]
      <4>1. /\ a0 \in 0 .. 1 /\ a1 \in 0 .. 1 /\ a2 \in 0 .. 1 /\ a3 \in 0 .. 1
            /\ a4 \in 0 .. 1 /\ a5 \in 0 .. 1 /\ a6 \in 0 .. 1
        BY <2>2 DEF Bit
      <4>2. h \in Int BY <2>2 DEF Bit
      <4>3. /\ s = 2 * a0 + 4 * a1 + 8 * a2 + 16 * a3 + 32 * a4 + 64 * a5 + 128 * a6
            /\ o = a0 + 2 * a1 + 4 * a2 + 8 * a3 + 16 * a4 + 32 * a5 + 64 * a6
        OBVIOUS
      <4> HIDE DEF a0, a1, a2, a3, a4, a5, a6, s, o, h
      <4> QED BY ONLY <4>1, <4>2, <4>3
    <3> HIDE DEF s, h, o
    <3>3. x * 2 = 256 * h + s BY ONLY <3>1, <3>2
    <3>4. (256 * h + s) % 256 = s BY ONLY <3>2
    <3>5. (x * 2) % 256 = s BY <3>4, <3>3
    <3> QED BY <3>5 DEF s
  <2>4. y \div 128 = b[7] BY <1>1, <2>2 DEF FromBits, Bit
  <2> QED BY <1>4, <2>1, <2>2, <2>3, <2>4 DEF FromBits, Bit
<1> HIDE DEF t
<1>7. t \in Byte /\ \A k \in 0 .. 7 : BitOf(t, k) = c[k] BY <1>3, <1>6, BitsOfSum
<1>8. BitOf(t, 0) = BitOf(y, 7) BY <1>5, <1>7
<1>9. \A j \in 1 .. 7 : BitOf(t, j) = BitOf(x, j - 1) BY <1>5, <1>7
<1> QED BY <1>7, <1>8, <1>9 DEF t

\* An odd byte less one: only bit 0 has changed.
LEMMA LessOne ==
    ASSUME NEW a \in Byte, BitOf(a, 0) = 1
    PROVE  /\ a - 1 \in Byte
           /\ BitOf(a - 1, 0) = 0
           /\ \A j \in 1 .. 7 : BitOf(a - 1, j) = BitOf(a, j)
<1> DEFINE b == [k \in 0 .. 7 |-> BitOf(a, k)]
           c == [k \in 0 .. 7 |-> IF k = 0 THEN 0 ELSE BitOf(a, k)]
<1>1. a = FromBits(b) BY SumOfBits
<1>2. b \in [0 .. 7 -> Bit] /\ c \in [0 .. 7 -> Bit] BY BitsAreBits DEF Bit
<1>3. /\ c[0] = 0 /\ b[0] = 1 /\ c[1] = b[1] /\ c[2] = b[2] /\ c[3] = b[3]
      /\ c[4] = b[4] /\ c[5] = b[5] /\ c[6] = b[6] /\ c[7] = b[7]
  OBVIOUS
<1>4. c[0] = 0 /\ \A j \in 1 .. 7 : c[j] = BitOf(a, j) OBVIOUS
<1> HIDE DEF b, c
<1>5. a - 1 = FromBits(c)
  <2> DEFINE s == 2 * b[1] + 4 * b[2] + 8 * b[3] + 16 * b[4] + 32 * b[5] + 64 * b[6] + 128 * b[7]
  <2>1. /\ b[1] \in Int /\ b[2] \in Int /\ b[3] \in Int /\ b[4] \in Int
        /\ b[5] \in Int /\ b[6] \in Int /\ b[7] \in Int
    BY <1>2 DEF Bit
  <2>2. s \in Int BY <2>1
  <2>3. a = 1 + s BY <1>1, <1>3, <2>1 DEF FromBits
  <2>4. FromBits(c) = s BY <1>3, <2>1 DEF FromBits
  <2> HIDE DEF s
  <2> QED BY <2>2, <2>3, <2>4
<1>6. FromBits(c) \in Byte /\ \A k \in 0 .. 7 : BitOf(FromBits(c), k) = c[k] BY <1>2, BitsOfSum
<1>7. 0 \in 0 .. 7 /\ \A j \in 1 .. 7 : j \in 0 .. 7 OBVIOUS
<1> QED BY <1>4, <1>5, <1>6, <1>7

\* The bits of 0x87.
LEMMA BitsOf135 == 135 \in Byte /\ \A j \in 0 .. 7 : BitOf(135, j) = IF j \in {0, 1, 2, 7} THEN 1 ELSE 0
<1>1. 135 \in Byte BY DEF Byte
<1>2. /\ BitOf(135, 0) = 1 /\ BitOf(135, 1) = 1 /\ BitOf(135, 2) = 1 /\ BitOf(135, 3) = 0
      /\ BitOf(135, 4) = 0 /\ BitOf(135, 5) = 0 /\ BitOf(135, 6) = 0 /\ BitOf(135, 7) = 1
  BY TwoPowers DEF BitOf
<1> QED BY <1>1, <1>2, Places

\* Where the power k is in a block.
LEMMA PlaceOf ==
    ASSUME NEW k \in 0 .. 127
    PROVE  /\ k \div 8 \in 0 .. 15 /\ k % 8 \in 0 .. 7 /\ k = 8 * (k \div 8) + (k % 8)
           /\ 16 - k \div 8 \in 1 .. 16
<1> DEFINE q == k \div 8
           j == k % 8
<1>1. q \in Int /\ j \in 0 .. 7 OBVIOUS
<1>2. k = 8 * q + j OBVIOUS
<1> HIDE DEF q, j
<1>3. q \in 0 .. 15 BY <1>1, <1>2
<1>4. 16 - q \in 1 .. 16 BY <1>3
<1>5. k \div 8 \in 0 .. 15 /\ 16 - k \div 8 \in 1 .. 16 BY ONLY <1>3, <1>4 DEF q
<1>6. k % 8 \in 0 .. 7 BY ONLY <1>1 DEF j
<1>7. k = 8 * (k \div 8) + (k % 8) BY ONLY <1>2 DEF q, j
<1> QED BY <1>5, <1>6, <1>7

\* The bit of a power is one of a byte of the block.
LEMMA BitAtType ==
    ASSUME NEW b \in Bytes(16), NEW k \in 0 .. 127
    PROVE  b[16 - k \div 8] \in Byte /\ BitAt(b, k) = BitOf(b[16 - k \div 8], k % 8) /\ BitAt(b, k) \in Bit
<1>1. b[16 - k \div 8] \in Byte BY PlaceOf DEF Bytes
<1>2. BitAt(b, k) = BitOf(b[16 - k \div 8], k % 8) BY DEF BitAt, BlockSize
<1> QED BY <1>1, <1>2, PlaceOf, BitsAreBits

\* A reversed block.
LEMMA ReversedEach ==
    ASSUME NEW u \in Bytes(16)
    PROVE  Reversed(u) \in Bytes(16) /\ \A i \in 1 .. 16 : Reversed(u)[i] = u[17 - i]
<1> DEFINE w == [i \in 1 .. 16 |-> u[17 - i]]
<1>1. w \in Bytes(16) /\ \A i \in 1 .. 16 : w[i] = u[17 - i] BY DEF Bytes
<1>2. Reversed(u) = Strict(w)
  <2>1. Len(u) = 16 BY BytesAreSequences
  <2>2. Reversed(u) = Strict([i \in 1 .. 16 |-> u[16 + 1 - i]]) BY <2>1 DEF Reversed
  <2>3. 16 + 1 = 17 OBVIOUS
  <2> QED BY <2>2, <2>3
<1> HIDE DEF w
<1>3. Strict(w) = w BY <1>1, StrictSame DEF Bytes
<1> QED BY <1>1, <1>2, <1>3

\* The block that is turned left by one bit.
TurnedBlock(b) == Reversed(Rol(Reversed(b), 1))

\* Its bytes.
LEMMA TurnedEach ==
    ASSUME NEW b \in Bytes(16)
    PROVE  /\ TurnedBlock(b) \in Bytes(16)
           /\ \A i \in 1 .. 15 : TurnedBlock(b)[i] = Turn(b[i], b[i + 1], 1)
           /\ TurnedBlock(b)[16] = Turn(b[16], b[1], 1)
<1> DEFINE r == Reversed(b)
           w == Rol(r, 1)
           t == Reversed(w)
<1>1. r \in Bytes(16) /\ \A i \in 1 .. 16 : r[i] = b[17 - i] BY ReversedEach
<1> HIDE DEF r
<1>2. /\ w \in Bytes(16)
      /\ \A i \in 1 .. 16 : w[i] = Turn(MovedTo(r, 16, 0, i), MovedTo(r, 16, 0, i - 1), 1)
  <2>1. 1 \div 8 = 0 /\ 1 % 8 = 1 /\ 1 % 8 # 0 /\ 1 \in Nat /\ 16 \in {2, 4, 16} OBVIOUS
  <2>2. /\ w \in Bytes(16)
        /\ \A i \in 1 .. 16 :
              w[i] = Turn(MovedTo(r, 16, 1 \div 8, i), MovedTo(r, 16, 1 \div 8, i - 1), 1 % 8)
    BY <1>1, <2>1, RolEach
  <2> HIDE DEF w
  <2> QED BY <2>1, <2>2
<1> HIDE DEF w
<1>3. t \in Bytes(16) /\ \A i \in 1 .. 16 : t[i] = w[17 - i] BY <1>2, ReversedEach
<1> HIDE DEF t
<1>4. ASSUME NEW i \in 1 .. 16 PROVE MovedTo(r, 16, 0, i) = b[17 - i]
  <2>1. ((i - 1 - 0) % 16) + 1 = i OBVIOUS
  <2> QED BY <1>1, <2>1 DEF MovedTo
<1>5. MovedTo(r, 16, 0, 0) = b[1]
  <2>1. ((0 - 1 - 0) % 16) + 1 = 16
    <3> DEFINE z == 0 - 1 - 0
               q == z \div 16
               n == z % 16
    <3>1. z \in Int /\ z = 0 - 1 OBVIOUS
    <3> HIDE DEF z
    <3>2. q \in Int BY <3>1
    <3>3. z \in Int BY <3>1
    <3>4. n \in 0 .. 15 BY ONLY <3>3
    <3>5. z = 16 * q + n BY ONLY <3>3
    <3> HIDE DEF q, n
    <3>6. n + 1 = 16 BY ONLY <3>1, <3>2, <3>4, <3>5
    <3> QED BY <3>6 DEF z, n
  <2>2. 17 - 16 = 1 /\ 16 \in 1 .. 16 OBVIOUS
  <2> QED BY <1>1, <2>1, <2>2 DEF MovedTo
<1>6. ASSUME NEW i \in 1 .. 15 PROVE t[i] = Turn(b[i], b[i + 1], 1)
  <2> DEFINE j == 17 - i
  <2>1. j \in 1 .. 16 /\ j - 1 \in 1 .. 16 /\ 17 - j = i /\ 17 - (j - 1) = i + 1 /\ i \in 1 .. 16 OBVIOUS
  <2>2. t[i] = w[j] BY <1>3, <2>1
  <2> HIDE DEF j
  <2>3. w[j] = Turn(MovedTo(r, 16, 0, j), MovedTo(r, 16, 0, j - 1), 1) BY <1>2, <2>1
  <2>4. MovedTo(r, 16, 0, j) = b[17 - j] /\ MovedTo(r, 16, 0, j - 1) = b[17 - (j - 1)] BY <1>4, <2>1
  <2> QED BY <2>1, <2>2, <2>3, <2>4
<1>7. t[16] = Turn(b[16], b[1], 1)
  <2>1. 17 - 16 = 1 /\ 1 - 1 = 0 /\ 17 - 1 = 16 /\ 16 \in 1 .. 16 /\ 1 \in 1 .. 16 OBVIOUS
  <2>2. t[16] = w[1] BY <1>3, <2>1
  <2>3. w[1] = Turn(MovedTo(r, 16, 0, 1), MovedTo(r, 16, 0, 0), 1) BY <1>2, <2>1
  <2>4. MovedTo(r, 16, 0, 1) = b[16] BY <1>4, <2>1
  <2> QED BY <1>5, <2>2, <2>3, <2>4
<1> QED BY <1>3, <1>6, <1>7 DEF t, w, r, TurnedBlock

\* Its bits: every power is the one before, and the first is the last.
LEMMA TurnedBits ==
    ASSUME NEW b \in Bytes(16), NEW k \in 0 .. 127
    PROVE  BitAt(TurnedBlock(b), k) = IF k = 0 THEN BitAt(b, 127) ELSE BitAt(b, k - 1)
<1> DEFINE t == TurnedBlock(b)
           q == k \div 8
           j == k % 8
<1>1. t \in Bytes(16) /\ (\A i \in 1 .. 15 : t[i] = Turn(b[i], b[i + 1], 1)) /\ t[16] = Turn(b[16], b[1], 1)
  BY TurnedEach
<1> HIDE DEF t
<1>2. q \in 0 .. 15 /\ j \in 0 .. 7 /\ k = 8 * q + j /\ 16 - q \in 1 .. 16 BY PlaceOf
<1>3. BitAt(t, k) = BitOf(t[16 - q], j) BY <1>1, BitAtType
<1>4. \A i \in 1 .. 16 : b[i] \in Byte BY DEF Bytes
<1>5. 127 \div 8 = 15 /\ 127 % 8 = 7 /\ 16 - 15 = 1 /\ 127 \in 0 .. 127 OBVIOUS
<1>6. BitAt(b, 127) = BitOf(b[1], 7) BY <1>5, BitAtType
<1>7. k - 1 \in 0 .. 127 => BitAt(b, k - 1) = BitOf(b[16 - (k - 1) \div 8], (k - 1) % 8) BY BitAtType
<1> HIDE DEF q, j
<1>8. PICK y \in Byte : t[16 - q] = Turn(b[16 - q], y, 1) /\ y = IF q = 0 THEN b[1] ELSE b[17 - q]
  <2>1. CASE q = 0
    <3>1. 16 - q = 16 /\ 1 \in 1 .. 16 BY <2>1
    <3> QED BY <1>1, <1>4, <2>1, <3>1
  <2>2. CASE q # 0
    <3>1. 16 - q \in 1 .. 15 /\ (16 - q) + 1 = 17 - q /\ 17 - q \in 1 .. 16 BY <1>2, <2>2
    <3> QED BY <1>1, <1>4, <2>2, <3>1
  <2> QED BY <2>1, <2>2
<1>9. b[16 - q] \in Byte BY <1>2, <1>4
<1>10. CASE j # 0
  <2>1. j \in 1 .. 7 /\ k # 0 /\ k - 1 \in 0 .. 127 /\ (k - 1) \div 8 = q /\ (k - 1) % 8 = j - 1
    BY <1>2, <1>10
  <2>2. BitOf(t[16 - q], j) = BitOf(b[16 - q], j - 1) BY <1>8, <1>9, <2>1, TurnOne
  <2> QED BY <1>3, <1>7, <2>1, <2>2 DEF t
<1>11. CASE j = 0
  <2>1. BitOf(t[16 - q], 0) = BitOf(y, 7) BY <1>8, <1>9, TurnOne
  <2>2. CASE q = 0
    <3>1. k = 0 BY <1>2, <1>11, <2>2
    <3> QED BY <1>3, <1>6, <1>8, <1>11, <2>1, <2>2, <3>1 DEF t
  <2>3. CASE q # 0
    <3>1. /\ k # 0 /\ k - 1 \in 0 .. 127 /\ (k - 1) \div 8 = q - 1 /\ (k - 1) % 8 = 7
          /\ 16 - (q - 1) = 17 - q
      BY <1>2, <1>11, <2>3
    <3> QED BY <1>3, <1>7, <1>8, <1>11, <2>1, <2>3, <3>1 DEF t
  <2> QED BY <2>2, <2>3
<1> QED BY <1>10, <1>11

\* The powers of a block are those below 128, and it has those that are there by BitAt.
LEMMA PowersIn ==
    ASSUME NEW b
    PROVE  /\ Powers(b) \in SUBSET (0 .. 127)
           /\ \A k \in 0 .. 127 : k \in Powers(b) <=> BitAt(b, k) = 1
BY DEF Powers

\* The powers of a sum.
LEMMA PowersOfSum ==
    ASSUME NEW u \in Bytes(16), NEW v \in Bytes(16)
    PROVE  Powers(Xor(u, v)) = SumSet(Powers(u), Powers(v))
<1> DEFINE w == Xor(u, v)
           p == Powers(w)
           s == Powers(u)
           t == Powers(v)
<1>1. w \in Bytes(16) /\ \A i \in 1 .. 16 : w[i] = XorByte(u[i], v[i])
  <2>1. 16 \in Nat OBVIOUS
  <2> QED BY ONLY <2>1, XorEach
<1> HIDE DEF w
<1>2. ASSUME NEW k \in 0 .. 127 PROVE k \in p <=> Differ(k \in s, k \in t)
  <2> DEFINE i == 16 - k \div 8
             j == k % 8
             x == BitOf(u[i], j)
             y == BitOf(v[i], j)
  <2>1. i \in 1 .. 16 /\ j \in 0 .. 7 BY PlaceOf
  <2>2. /\ BitAt(w, k) = BitOf(w[i], j)
        /\ BitAt(u, k) = x /\ u[i] \in Byte /\ x \in Bit
        /\ BitAt(v, k) = y /\ v[i] \in Byte /\ y \in Bit
    BY <1>1, BitAtType
  <2> HIDE DEF i, j
  <2>3. BitOf(w[i], j) = BitSum(x, y) BY <1>1, <2>1, <2>2, XorByteBits
  <2>4. /\ k \in p <=> BitAt(w, k) = 1
        /\ k \in s <=> x = 1
        /\ k \in t <=> y = 1
    BY <2>2, PowersIn
  <2> HIDE DEF x, y
  <2>5. BitSum(x, y) = 1 <=> Differ(x = 1, y = 1) BY ONLY <2>2 DEF BitSum, Bit, Differ
  <2> HIDE DEF p, s, t
  <2> QED BY <2>2, <2>3, <2>4, <2>5 DEF Differ
<1>3. p \in SUBSET (0 .. 127) /\ s \in SUBSET (0 .. 127) /\ t \in SUBSET (0 .. 127) BY PowersIn
<1> HIDE DEF p, s, t
<1>4. \A k \in 0 .. 127 : k \in p <=> k \in SumSet(s, t) BY <1>2, SumIn
<1>5. SumSet(s, t) \in SUBSET (0 .. 127) BY ONLY <1>3 DEF SumSet
<1>6. p = SumSet(s, t) BY ONLY <1>3, <1>4, <1>5
<1> QED BY <1>6 DEF p, s, t, w

\* The zero block has none.
LEMMA PowersOfZeros == Powers(Zeros(16)) = {}
<1>1. Zeros(16) \in Bytes(16)
  <2>1. 16 \in Nat OBVIOUS
  <2> QED BY ONLY <2>1, ZerosBytes
<1>2. ASSUME NEW k \in 0 .. 127 PROVE k \notin Powers(Zeros(16))
  <2> DEFINE i == 16 - k \div 8
             j == k % 8
  <2>1. i \in 1 .. 16 /\ j \in 0 .. 7 BY PlaceOf
  <2>2. BitAt(Zeros(16), k) = BitOf(Zeros(16)[i], j) BY <1>1, BitAtType
  <2> HIDE DEF i, j
  <2>3. Zeros(16)[i] = 0 BY <2>1 DEF Zeros
  <2>4. BitOf(0, j) # 1
    <3>1. /\ BitOf(0, 0) # 1 /\ BitOf(0, 1) # 1 /\ BitOf(0, 2) # 1 /\ BitOf(0, 3) # 1
          /\ BitOf(0, 4) # 1 /\ BitOf(0, 5) # 1 /\ BitOf(0, 6) # 1 /\ BitOf(0, 7) # 1
      BY TwoPowers DEF BitOf
    <3> QED BY <2>1, <3>1, Places
  <2> QED BY <2>2, <2>3, <2>4, PowersIn
<1> QED BY <1>2, PowersIn

\* Double is the product with x.
LEMMA PowersOfDouble ==
    ASSUME NEW b \in Bytes(16)
    PROVE  Double(b) \in Bytes(16) /\ Powers(Double(b)) = Doubled(Powers(b))
<1> DEFINE t == TurnedBlock(b)
           d == Double(b)
           s == Powers(b)
           p == Powers(d)
           c == XorByte(t[16] - 1, 135)
<1>1. t \in Bytes(16) /\ t[16] \in Byte
  <2>1. t \in Bytes(16) BY TurnedEach
  <2> HIDE DEF t
  <2> QED BY <2>1 DEF Bytes
<1>2. \A k \in 0 .. 127 : BitAt(t, k) = IF k = 0 THEN BitAt(b, 127) ELSE BitAt(b, k - 1) BY TurnedBits
<1>3. d = IF BitAt(b, 127) = 1 THEN [t EXCEPT ![16] = c] ELSE t BY DEF Double, TurnedBlock
<1> HIDE DEF t, d
<1>4. BitAt(t, 0) = BitOf(t[16], 0) /\ BitAt(t, 0) = BitAt(b, 127) /\ BitAt(b, 127) \in Bit
  <2>1. 0 \in 0 .. 127 /\ 127 \in 0 .. 127 OBVIOUS
  <2>2. 16 - 0 \div 8 = 16 /\ 0 % 8 = 0 OBVIOUS
  <2>3. BitAt(t, 0) = BitOf(t[16], 0) BY <2>2 DEF BitAt, BlockSize
  <2>4. BitAt(t, 0) = BitAt(b, 127) BY <1>2, <2>1
  <2> QED BY <2>1, <2>3, <2>4, BitAtType
<1>5. ASSUME NEW k \in 0 .. 127
      PROVE  (k # 0 /\ BitAt(t, k) = 1) <=> k - 1 \in s
  <2>1. s \in SUBSET (0 .. 127) BY PowersIn
  <2>2. CASE k = 0
    <3>1. k - 1 \notin 0 .. 127 BY <2>2
    <3> QED BY <2>1, <2>2, <3>1
  <2>3. CASE k # 0
    <3>1. k - 1 \in 0 .. 127 BY <2>3
    <3>2. BitAt(t, k) = BitAt(b, k - 1) BY <1>2, <2>3
    <3> QED BY <2>3, <3>1, <3>2, PowersIn
  <2> QED BY <2>2, <2>3
<1>6. 127 \in s <=> BitAt(b, 127) = 1
  <2>1. 127 \in 0 .. 127 OBVIOUS
  <2> QED BY <2>1, PowersIn
<1>7. CASE BitAt(b, 127) # 1
  <2>1. d = t /\ d \in Bytes(16) BY <1>1, <1>3, <1>7
  <2>2. ASSUME NEW k \in 0 .. 127 PROVE k \in p <=> k - 1 \in s
    <3>1. k \in p <=> BitAt(t, k) = 1 BY <2>1, PowersIn
    <3>2. k = 0 => BitAt(t, k) # 1 BY <1>4, <1>7
    <3> QED BY <1>5, <3>1, <3>2
  <2>3. p \in SUBSET (0 .. 127) BY PowersIn
  <2> HIDE DEF p, s
  <2>4. p = {k \in 0 .. 127 : k - 1 \in s} BY ONLY <2>2, <2>3
  <2>5. SumSet(p, {}) = p BY DEF SumSet
  <2>6. p = Doubled(s) BY <1>6, <1>7, <2>4, <2>5 DEF Doubled
  <2> QED BY <2>1, <2>6 DEF p, s, d
<1>8. CASE BitAt(b, 127) = 1
  <2> DEFINE a == t[16]
             e == {k \in 0 .. 127 : k - 1 \in s}
             f == {0, 1, 2, 7}
  <2>1. BitOf(a, 0) = 1 /\ a \in Byte BY <1>1, <1>4, <1>8
  <2>2. /\ a - 1 \in Byte /\ BitOf(a - 1, 0) = 0
        /\ \A j \in 1 .. 7 : BitOf(a - 1, j) = BitOf(a, j)
    <3> HIDE DEF a
    <3> QED BY <2>1, LessOne
  <2>3. c \in Byte /\ \A j \in 0 .. 7 : BitOf(c, j) = BitSum(BitOf(a - 1, j), BitOf(135, j))
    <3> HIDE DEF a
    <3> QED BY <2>2, BitsOf135, XorByteBits DEF a
  <2>4. d = [t EXCEPT ![16] = c] BY <1>3, <1>8
  <2> HIDE DEF a, c
  <2>5. d \in Bytes(16) /\ d[16] = c /\ \A i \in 1 .. 15 : d[i] = t[i]
    BY <1>1, <2>3, <2>4 DEF Bytes
  <2>6. ASSUME NEW k \in 0 .. 127 PROVE k \in p <=> Differ(k - 1 \in s, k \in f)
    <3> DEFINE q == k \div 8
               j == k % 8
    <3>1. q \in 0 .. 15 /\ j \in 0 .. 7 /\ k = 8 * q + j /\ 16 - q \in 1 .. 16 BY PlaceOf
    <3>2. BitAt(d, k) = BitOf(d[16 - q], j) /\ BitAt(t, k) = BitOf(t[16 - q], j) /\ BitAt(t, k) \in Bit
      BY <1>1, <2>5, BitAtType
    <3> HIDE DEF q, j
    <3>3. k \in p <=> BitAt(d, k) = 1 BY PowersIn
    <3>4. CASE q # 0
      <4>1. 16 - q \in 1 .. 15 /\ k # 0 /\ k \notin f BY <3>1, <3>4
      <4>2. BitAt(d, k) = BitAt(t, k) BY <2>5, <3>2, <4>1
      <4> QED BY <1>5, <3>3, <4>1, <4>2 DEF Differ
    <3>5. CASE q = 0
      <4>1. 16 - q = 16 /\ k = j BY <3>1, <3>5
      <4>2. BitAt(d, k) = BitOf(c, j) /\ BitAt(t, k) = BitOf(a, j) BY <2>5, <3>2, <4>1 DEF a
      <4>3. BitOf(c, j) = BitSum(BitOf(a - 1, j), IF j \in {0, 1, 2, 7} THEN 1 ELSE 0)
        BY <2>3, <3>1, BitsOf135
      <4>4. BitOf(a - 1, j) = IF j = 0 THEN 0 ELSE BitOf(a, j)
        <5>1. j # 0 => j \in 1 .. 7 BY <3>1
        <5> QED BY <2>2, <5>1
      <4>5. \A z \in Bit : BitSum(z, 0) = z /\ (BitSum(z, 1) = 1 <=> z # 1) BY DEF Bit, BitSum
      <4>6. 0 \in Bit BY DEF Bit
      <4>7. BitOf(a - 1, j) \in Bit BY <3>2, <4>2, <4>4, <4>6
      <4>8. BitOf(a - 1, j) = 1 <=> k - 1 \in s
        <5>1. (k # 0 /\ BitAt(t, k) = 1) <=> k - 1 \in s BY <1>5
        <5> QED BY <4>1, <4>2, <4>4, <5>1
      <4>9. k \in f <=> j \in {0, 1, 2, 7} BY <4>1
      <4>10. BitOf(c, j) = 1 <=> Differ(BitOf(a - 1, j) = 1, j \in {0, 1, 2, 7})
        BY ONLY <4>3, <4>5, <4>7 DEF Differ
      <4> QED BY <3>3, <4>2, <4>8, <4>9, <4>10 DEF Differ
    <3> QED BY <3>4, <3>5
  <2>7. p \in SUBSET (0 .. 127) /\ e \in SUBSET (0 .. 127) /\ f \in SUBSET (0 .. 127)
    <3>1. e \in SUBSET (0 .. 127) /\ f \in SUBSET (0 .. 127) OBVIOUS
    <3> QED BY <3>1, PowersIn
  <2>8. \A k \in 0 .. 127 : k \in e <=> k - 1 \in s OBVIOUS
  <2> HIDE DEF p, s, e, f
  <2>9. \A k \in 0 .. 127 : k \in p <=> k \in SumSet(e, f) BY <2>6, <2>8, SumIn DEF Differ
  <2>10. SumSet(e, f) \in SUBSET (0 .. 127) BY ONLY <2>7 DEF SumSet
  <2>11. p = SumSet(e, f) BY ONLY <2>7, <2>9, <2>10
  <2>12. SumSet(e, f) = Doubled(s) BY <1>6, <1>8 DEF Doubled, e, f
  <2> QED BY <2>5, <2>11, <2>12 DEF p, s, d
<1> QED BY <1>7, <1>8

-----------------------------------------------------------------------------
(***************************************************************************)
(* The loop of gf128_mul, and its theorem.                                 *)
(***************************************************************************)

\* In front of bit i of y, res is the product with the bits before it, and x the product
\* with the power i.
ProductState ==
    fn = "gf128_mul" =>
        /\ args.input \in [x : Bytes(16), y : Bytes(16)]
        /\ loc \in [i : 0 .. 128, x : Bytes(16), res : Bytes(16)]
        /\ Powers(loc.res) = Remainder(Powers(args.input.x), {k \in Powers(args.input.y) : k < loc.i})
        /\ Powers(loc.x) = Remainder(Powers(args.input.x), {loc.i})

\* The product begins with no bit of y.
LEMMA ProductBegins == gf128_mul => ProductState'
<1> SUFFICES ASSUME gf128_mul PROVE ProductState' OBVIOUS
<1>1. PICK input \in Inputs.gf128_mul :
          /\ args' = [call |-> "gf128_mul", input |-> input]
          /\ loc' = [i |-> 0, x |-> input.x, res |-> Zeros(BlockSize)]
  BY DEF gf128_mul
<1>2. input \in [x : Bytes(16), y : Bytes(16)] BY InputsAssumption DEF Bytes
<1>3. Zeros(16) \in Bytes(16)
  <2>1. 16 \in Nat OBVIOUS
  <2> QED BY ONLY <2>1, ZerosBytes
<1>4. args'.input = input BY <1>1
<1>5. loc' = [i |-> 0, x |-> input.x, res |-> Zeros(16)] BY <1>1 DEF BlockSize
<1>6. loc' \in [i : 0 .. 128, x : Bytes(16), res : Bytes(16)]
  <2>1. 0 \in 0 .. 128 OBVIOUS
  <2> QED BY ONLY <1>2, <1>3, <1>5, <2>1
<1>7. {k \in Powers(input.y) : k < 0} = {}
  <2>1. Powers(input.y) \in SUBSET (0 .. 127) BY PowersIn
  <2> QED BY <2>1
<1>8. Remainder(Powers(input.x), {}) = {} /\ Remainder(Powers(input.x), {0}) = Powers(input.x)
  <2>1. Powers(input.x) \in SUBSET (0 .. 127) BY PowersIn
  <2> QED BY <2>1, RemainderBegins
<1>9. loc'.i = 0 /\ loc'.x = input.x /\ loc'.res = Zeros(16) BY <1>5
<1>10. Powers(loc'.res) = Remainder(Powers(input.x), {k \in Powers(input.y) : k < loc'.i})
  BY <1>7, <1>8, <1>9, PowersOfZeros
<1>11. Powers(loc'.x) = Remainder(Powers(input.x), {loc'.i}) BY <1>8, <1>9
<1> QED BY <1>2, <1>4, <1>6, <1>10, <1>11 DEF ProductState

\* A bit of y: x is added if it is set, and doubled.
LEMMA ProductGoesOn == ProductState /\ ProductStep => ProductState'
<1> SUFFICES ASSUME ProductState, ProductStep PROVE ProductState' OBVIOUS
<1> DEFINE i == loc.i
           x == loc.x
           res == loc.res
           X == Powers(args.input.x)
           Y == Powers(args.input.y)
           below == {k \in Y : k < i}
           sum == IF BitAt(args.input.y, i) = 1 THEN Xor(res, x) ELSE res
<1>1. /\ args.input \in [x : Bytes(16), y : Bytes(16)]
      /\ loc \in [i : 0 .. 128, x : Bytes(16), res : Bytes(16)]
      /\ Powers(res) = Remainder(X, below)
      /\ Powers(x) = Remainder(X, {i})
      /\ loc.i < 128
      /\ args' = args
      /\ loc' = [i |-> i + 1, x |-> Double(x), res |-> sum]
  BY DEF ProductState, ProductStep
<1>2. i \in 0 .. 127 /\ x \in Bytes(16) /\ res \in Bytes(16) /\ args.input.y \in Bytes(16) BY <1>1
<1>3. X \in SUBSET (0 .. 127) /\ Y \in SUBSET (0 .. 127) BY PowersIn
<1>4. i \in Y <=> BitAt(args.input.y, i) = 1 BY <1>2, PowersIn
<1>5. Double(x) \in Bytes(16) /\ Powers(Double(x)) = Doubled(Powers(x))
  <2> HIDE DEF x
  <2> QED BY <1>2, PowersOfDouble
<1>6. Xor(res, x) \in Bytes(16) /\ Powers(Xor(res, x)) = SumSet(Powers(res), Powers(x))
  <2>1. 16 \in Nat OBVIOUS
  <2> HIDE DEF res, x
  <2>2. Xor(res, x) \in Bytes(16) BY ONLY <1>2, <2>1, XorEach
  <2> QED BY <1>2, <2>2, PowersOfSum
<1>7. Powers(Double(x)) = Remainder(X, {i + 1})
  <2> HIDE DEF X, i, x
  <2> QED BY <1>1, <1>2, <1>3, <1>5, RemainderNext
<1>8. sum \in Bytes(16) BY <1>2, <1>6
<1>9. Powers(sum) = Remainder(X, {k \in Y : k < i + 1})
  <2> DEFINE next == {k \in Y : k < i + 1}
  <2>1. CASE i \in Y
    <3>1. next = below \cup {i}
      <4>1. \A k \in Y : k \in Int BY <1>3
      <4>2. \A k \in Int : k < i + 1 <=> k < i \/ k = i BY <1>2
      <4> HIDE DEF Y, i
      <4> QED BY <2>1, <4>1, <4>2
    <3>2. i \notin below BY <1>2
    <3> HIDE DEF next, below
    <3>3. Remainder(X, below \cup {i}) = SumSet(Remainder(X, below), Remainder(X, {i}))
      <4> HIDE DEF X, i
      <4> QED BY <1>2, <1>3, <3>2, RemainderMore
    <3>4. sum = Xor(res, x) BY <1>4, <2>1
    <3> HIDE DEF sum
    <3>5. Powers(sum) = Remainder(X, next) BY <1>1, <1>6, <3>1, <3>3, <3>4
    <3> QED BY <3>5 DEF next
  <2>2. CASE i \notin Y
    <3>1. next = below
      <4>1. \A k \in Y : k \in Int BY <1>3
      <4>2. \A k \in Int : k < i + 1 <=> k < i \/ k = i BY <1>2
      <4> HIDE DEF Y, i
      <4> QED BY <2>2, <4>1, <4>2
    <3>2. sum = res BY <1>4, <2>2
    <3> HIDE DEF next, below, sum
    <3>3. Powers(sum) = Remainder(X, next) BY <1>1, <3>1, <3>2
    <3> QED BY <3>3 DEF next
  <2> QED BY <2>1, <2>2
<1> HIDE DEF sum
<1>10. loc'.i = i + 1 /\ loc'.x = Double(x) /\ loc'.res = sum BY <1>1
<1>11. loc' \in [i : 0 .. 128, x : Bytes(16), res : Bytes(16)]
  <2>1. i + 1 \in 0 .. 128 BY <1>2
  <2> HIDE DEF i, x
  <2> QED BY ONLY <1>1, <1>5, <1>8, <2>1
<1>12. args'.input = args.input BY <1>1
<1> QED BY <1>1, <1>7, <1>9, <1>10, <1>11, <1>12 DEF ProductState

\* No other step is one of a product.
LEMMA NoProduct ==
    \/ omac_subkeys \/ ProductReturn \/ kuznyechik_setkey \/ SetkeyRound \/ SetkeyReturn
    \/ EncryptRound \/ EncryptReturn \/ DecryptRound \/ DecryptReturn
    \/ BlockCiphersNext \/ CompressionsNext \/ Forget
    => fn' # "gf128_mul"
<1>1. ASSUME omac_subkeys \/ ProductReturn \/ Forget PROVE fn' # "gf128_mul"
  BY <1>1 DEF omac_subkeys, ProductReturn, Forget
<1>2. ASSUME kuznyechik_setkey PROVE fn' # "gf128_mul" BY <1>2 DEF kuznyechik_setkey
<1>3. ASSUME SetkeyRound \/ SetkeyReturn PROVE fn' # "gf128_mul" BY <1>3 DEF SetkeyRound, SetkeyReturn
<1>4. ASSUME EncryptRound \/ EncryptReturn PROVE fn' # "gf128_mul" BY <1>4 DEF EncryptRound, EncryptReturn
<1>5. ASSUME DecryptRound \/ DecryptReturn PROVE fn' # "gf128_mul" BY <1>5 DEF DecryptRound, DecryptReturn
<1>6. ASSUME BlockCiphersNext PROVE fn' # "gf128_mul"
  <2>1. ASSUME gost28147 \/ gost28147_mac4_raw \/ gost28147_imit_cp12 \/ rc2_set_key
        PROVE  fn' # "gf128_mul"
    BY <2>1 DEF gost28147, gost28147_mac4_raw, gost28147_imit_cp12, BeginMac, rc2_set_key
  <2>2. ASSUME GostEncrypt PROVE fn' # "gf128_mul" BY <2>2 DEF GostEncrypt, CryptRound
  <2>3. ASSUME GostDecrypt PROVE fn' # "gf128_mul" BY <2>3 DEF GostDecrypt, CryptRound
  <2>4. ASSUME MacRound \/ MacNext PROVE fn' # "gf128_mul" BY <2>4 DEF MacRound, MacNext
  <2>5. ASSUME rc2_stretch \/ rc2_reduce PROVE fn' # "gf128_mul" BY <2>5 DEF rc2_stretch, rc2_reduce
  <2>6. ASSUME rc2_encrypt_block \/ rc2_decrypt_block PROVE fn' # "gf128_mul"
    BY <2>6 DEF rc2_encrypt_block, rc2_decrypt_block
  <2> QED BY <1>6, <2>1, <2>2, <2>3, <2>4, <2>5, <2>6 DEF BlockCiphersNext
<1>7. ASSUME CompressionsNext PROVE fn' # "gf128_mul"
  <2>1. ASSUME pogost_xoshiro256pp_seed \/ pogost_xoshiro256pp_step \/ XoshiroReturn
        PROVE  fn' # "gf128_mul"
    BY <2>1 DEF pogost_xoshiro256pp_seed, pogost_xoshiro256pp_step, XoshiroReturn, Begin, Rounds
  <2>2. ASSUME chacha_block \/ ChaChaRound \/ ChaChaReturn PROVE fn' # "gf128_mul"
    BY <2>2 DEF chacha_block, ChaChaRound, ChaChaReturn, Begin, Rounds
  <2>3. ASSUME blake2s_compress \/ BlakeRound \/ BlakeReturn PROVE fn' # "gf128_mul"
    BY <2>3 DEF blake2s_compress, BlakeRound, BlakeReturn, Begin, Rounds, End
  <2>4. ASSUME sha1_block \/ ShaRound \/ ShaReturn PROVE fn' # "gf128_mul"
    BY <2>4 DEF sha1_block, ShaRound, ShaReturn, Begin, Rounds, End
  <2>5. ASSUME hash_step \/ HashEncryption \/ HashMixing PROVE fn' # "gf128_mul"
    BY <2>5 DEF hash_step, HashEncryption, HashMixing, Begin, Rounds, End
  <2>6. ASSUME streebog_g \/ streebog_round \/ StreebogReturn PROVE fn' # "gf128_mul"
    BY <2>6 DEF streebog_g, streebog_round, StreebogReturn, Begin, Rounds, End
  <2> QED BY <1>7, <2>1, <2>2, <2>3, <2>4, <2>5, <2>6 DEF CompressionsNext
<1> QED BY <1>1, <1>2, <1>3, <1>4, <1>5, <1>6, <1>7

\* The multiplication of MGM is the one of the field, for every pair of blocks: in front
\* of every bit of y the loop of gf128_mul has in res the remainder of the product with
\* the bits before it, and in x the remainder of the product with that power.
THEOREM ProductsAreExact == Spec => [](ProductState /\ ProductInField)
<1>1. Init => ProductState BY DEF Init, ProductState
<1>2. ProductState /\ [Next]_<<fn, args, loc, ret>> => ProductState'
  <2> SUFFICES ASSUME ProductState, [Next]_<<fn, args, loc, ret>> PROVE ProductState' OBVIOUS
  <2>1. CASE gf128_mul BY <2>1, ProductBegins
  <2>2. CASE ProductStep BY <2>2, ProductGoesOn
  <2>3. CASE UNCHANGED <<fn, args, loc, ret>>
    <3>1. fn' = fn /\ args' = args /\ loc' = loc BY <2>3
    <3> QED BY <3>1 DEF ProductState
  <2>4. CASE Next /\ ~ gf128_mul /\ ~ ProductStep
    <3>1. fn' # "gf128_mul" BY <2>4, NoProduct DEF Next, KuznyechikNext
    <3> QED BY <3>1 DEF ProductState
  <2> QED BY <2>1, <2>2, <2>3, <2>4
<1>3. ProductState => ProductState /\ ProductInField BY DEF ProductState, ProductInField
<1> QED BY <1>1, <1>2, <1>3, PTL DEF Spec
=============================================================================
