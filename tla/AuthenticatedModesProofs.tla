---------------------- MODULE AuthenticatedModesProofs ----------------------
(***************************************************************************)
(* The proofs about AuthenticatedModes: that ChaCha20-Poly1305, MGM and    *)
(* KExp15 implement authenticated encryption, and that a rejection         *)
(* releases nothing, for every size of blocks, tags and keys, every set of *)
(* additional data and every set of messages.                              *)
(*                                                                         *)
(* First arrays of bytes; then the three modes, each with its inductive    *)
(* invariant, what a step does to it and what it says of the properties;   *)
(* at the end the composition.                                             *)
(***************************************************************************)
EXTENDS AuthenticatedModes, SequenceTheorems, WellFoundedInduction, TLAPS

-----------------------------------------------------------------------------
(***************************************************************************)
(* Arrays of bytes, division and induction.                                *)
(***************************************************************************)
\* An array of n bytes.
Array(s, n) == n \in Nat /\ s = [i \in 1 .. n |-> s[i]]

\* Its length is n, as that of a sequence of its elements.
LEMMA ArrayLen ==
    ASSUME NEW s, NEW n, Array(s, n)
    PROVE  Len(s) = n /\ DOMAIN s = 1 .. n /\ s \in Seq({s[i] : i \in 1 .. n})
<1> DEFINE V == {s[i] : i \in 1 .. n}
           t == [i \in 1 .. n |-> s[i]]
<1>1. n \in Nat /\ s = t
  BY DEF Array
<1>2. \A i \in 1 .. n : s[i] \in V
  OBVIOUS
<1> HIDE DEF V
<1>3. t \in Seq(V) /\ Len(t) = n /\ DOMAIN t = 1 .. n
  BY <1>1, <1>2
<1> HIDE DEF t
<1> QED BY <1>1, <1>3 DEF V

\* Two arrays with the same bytes are one.
LEMMA ArrayEqual ==
    ASSUME NEW s, NEW t, NEW n, Array(s, n), Array(t, n), \A i \in 1 .. n : s[i] = t[i]
    PROVE  s = t
BY DEF Array

\* Nothing is lost in an exclusive or.
LEMMA XorTells ==
    ASSUME NEW x, NEW y, NEW z
    PROVE  /\ Xor(x, z) = Xor(y, z) <=> x = y
           /\ Xor(z, x) = Xor(z, y) <=> x = y
           /\ Xor(Xor(x, z), z) = x
BY DEF Xor

\* Quotient and remainder by any number.
LEMMA Quotient ==
    ASSUME NEW m \in Nat \ {0}, NEW k \in Nat, NEW r \in 0 .. m - 1
    PROVE  (k * m + r) % m = r /\ (k * m + r) \div m = k
OBVIOUS

\* Every number is made of them.
LEMMA Divided ==
    ASSUME NEW n \in Nat \ {0}, NEW m \in Nat
    PROVE  /\ m \div n \in Nat /\ m % n \in 0 .. n - 1
           /\ m = (m \div n) * n + (m % n)
<1> DEFINE d == m \div n
           e == m % n
<1>1. d \in Nat /\ e \in 0 .. n - 1 /\ m = d * n + e
  OBVIOUS
<1> QED BY <1>1

\* A part of an array.
LEMMA ArrayCut ==
    ASSUME NEW s, NEW n, Array(s, n), NEW o \in Nat, NEW w \in Nat, o + w <= n
    PROVE  SubSeq(s, o + 1, o + w) = [k \in 1 .. w |-> s[o + k]]
<1> DEFINE V == {s[i] : i \in 1 .. n}
           t == SubSeq(s, o + 1, o + w)
<1>1. n \in Nat /\ Len(s) = n /\ s \in Seq(V)
  BY ArrayLen DEF Array
<1> HIDE DEF V
<1>2. o + 1 \in 1 .. Len(s) + 1 /\ o + w \in (o + 1) - 1 .. Len(s)
  BY <1>1
<1>3. /\ t \in Seq(V)
      /\ Len(t) = IF o + 1 <= o + w THEN (o + w) - (o + 1) + 1 ELSE 0
      /\ \A i \in 1 .. (o + w) - (o + 1) + 1 : t[i] = s[(o + 1) + i - 1]
  BY <1>1, <1>2, SubSeqProperties
<1> HIDE DEF t
<1>4. Len(t) = w
  BY <1>3
<1>5. t = [k \in 1 .. w |-> t[k]]
  BY <1>3, <1>4, LenProperties
<1>6. \A k \in 1 .. w : t[k] = s[o + k]
  <2> SUFFICES ASSUME NEW k \in 1 .. w
               PROVE  t[k] = s[o + k]
    OBVIOUS
  <2>1. k \in 1 .. (o + w) - (o + 1) + 1 /\ (o + 1) + k - 1 = o + k
    OBVIOUS
  <2> QED BY <1>3, <2>1
<1>7. [k \in 1 .. w |-> t[k]] = [k \in 1 .. w |-> s[o + k]]
  BY <1>6
<1> QED BY <1>5, <1>7 DEF t

\* The first part of one.
LEMMA ArrayFirst ==
    ASSUME NEW s, NEW n, Array(s, n), NEW w \in Nat, w <= n
    PROVE  SubSeq(s, 1, w) = [k \in 1 .. w |-> s[k]]
<1> DEFINE z == 0
<1>1. z \in Nat /\ z + w <= n
  OBVIOUS
<1>2. SubSeq(s, z + 1, z + w) = [k \in 1 .. w |-> s[z + k]]
  <2> HIDE DEF z
  <2> QED BY <1>1, ArrayCut
<1>3. z + 1 = 1 /\ z + w = w /\ \A k \in 1 .. w : z + k = k
  OBVIOUS
<1> HIDE DEF z
<1> QED BY <1>2, <1>3

\* Two arrays in a row.
LEMMA ArrayConcat ==
    ASSUME NEW s, NEW n \in Nat, Array(s, n), NEW t, NEW m \in Nat, Array(t, m)
    PROVE  s \o t = [i \in 1 .. n + m |-> IF i <= n THEN s[i] ELSE t[i - n]]
<1> DEFINE V == {s[i] : i \in 1 .. n}
           W == {t[i] : i \in 1 .. m}
<1>1. n \in Nat /\ Len(s) = n /\ s \in Seq(V) /\ m \in Nat /\ Len(t) = m /\ t \in Seq(W)
  BY ArrayLen DEF Array
<1> DEFINE U == V \cup W
<1>2. s \in Seq(U) /\ t \in Seq(U)
  <2>1. V \subseteq U /\ W \subseteq U
    OBVIOUS
  <2> HIDE DEF U, V, W
  <2> QED BY <1>1, <2>1
<1> HIDE DEF U, V, W
<1> DEFINE c == s \o t
<1>3. /\ c \in Seq(U) /\ Len(c) = n + m
      /\ \A i \in 1 .. n + m : c[i] = IF i <= n THEN s[i] ELSE t[i - n]
  BY <1>1, <1>2, ConcatProperties
<1> HIDE DEF c
<1>4. n + m \in Nat /\ c = [i \in 1 .. n + m |-> c[i]]
  BY <1>1, <1>3, LenProperties
<1> QED BY <1>3, <1>4 DEF c

\* A set of numbers has a least one.
LEMMA LeastNumber ==
    ASSUME NEW T, T \subseteq Nat, T # {}
    PROVE  \E x \in T : \A y \in T : x <= y
<1> DEFINE R == OpToRel(<, Nat)
<1>1. IsWellFoundedOn(R, Nat)
  BY NatLessThanWellFounded
<1>2. \A x, y \in Nat : <<x, y>> \in R <=> x < y
  BY DEF OpToRel
<1> HIDE DEF R
<1>3. PICK x \in T : \A y \in T : <<y, x>> \notin R
  BY <1>1, WFMin
<1>4. ASSUME NEW y \in T PROVE x <= y
  <2>1. x \in Nat /\ y \in Nat
    OBVIOUS
  <2>2. ~ (y < x)
    BY <1>2, <1>3, <2>1
  <2> QED BY <2>1, <2>2
<1> QED BY <1>4

\* A set of numbers that has 0 and with every number its successor has them all.
LEMMA CountUp ==
    ASSUME NEW S, 0 \in S, \A k \in Nat : k \in S => k + 1 \in S
    PROVE  \A k \in Nat : k \in S
<1> DEFINE T == {k \in Nat : k \notin S}
<1> SUFFICES ASSUME T # {} PROVE FALSE
  OBVIOUS
<1>1. PICK x \in T : \A y \in T : x <= y
  <2> HIDE DEF T
  <2>1. T \subseteq Nat
    BY DEF T
  <2> QED BY <2>1, LeastNumber
<1>2. x - 1 \in Nat /\ x - 1 \notin T
  BY <1>1
<1>3. (x - 1) + 1 \in S
  BY <1>2
<1> QED BY <1>3

\* A table is an array,
LEMMA ArrayTable ==
    ASSUME NEW n \in Nat, NEW f, NEW S, f \in [1 .. n -> S]
    PROVE  Array(f, n)
BY DEF Array

\* and so are two arrays in a row,
Joined(c, s, n, t, m) ==
    /\ n \in Nat /\ m \in Nat
    /\ Array(c, n + m)
    /\ \A i \in 1 .. n : c[i] = s[i]
    /\ \A i \in 1 .. m : c[n + i] = t[i]

\* One array after another.
LEMMA ArrayJoin ==
    ASSUME NEW s, NEW n, Array(s, n), NEW t, NEW m, Array(t, m)
    PROVE  Joined(s \o t, s, n, t, m)
<1> DEFINE c == s \o t
<1>1. n \in Nat /\ m \in Nat
  BY DEF Array
<1>2. c = [i \in 1 .. n + m |-> IF i <= n THEN s[i] ELSE t[i - n]]
  BY <1>1, ArrayConcat
<1> HIDE DEF c
<1>3. Array(c, n + m)
  <2>1. n + m \in Nat
    BY <1>1
  <2>2. c = [i \in 1 .. n + m |-> c[i]]
    BY <1>2
  <2> QED BY <2>1, <2>2 DEF Array
<1>4. \A i \in 1 .. n : c[i] = s[i]
  BY <1>1, <1>2
<1>5. ASSUME NEW i \in 1 .. m
      PROVE  c[n + i] = t[i]
  <2> DEFINE k == n + i
  <2>1. k \in 1 .. n + m /\ ~ (k <= n) /\ k - n = i
    BY <1>1
  <2> HIDE DEF k
  <2>2. c[k] = t[i]
    BY <1>2, <2>1
  <2> QED BY <2>2 DEF k
<1>6. Joined(c, s, n, t, m)
  BY <1>1, <1>3, <1>4, <1>5, Zenon DEF Joined
<1> QED BY <1>6, Zenon DEF c

\* a first and a last part of one,
LEMMA ArrayPart ==
    ASSUME NEW s, NEW n, Array(s, n), NEW o \in Nat, NEW w \in Nat, o + w <= n
    PROVE  /\ Array(SubSeq(s, o + 1, o + w), w)
           /\ \A i \in 1 .. w : SubSeq(s, o + 1, o + w)[i] = s[o + i]
<1> DEFINE t == SubSeq(s, o + 1, o + w)
<1>1. t = [i \in 1 .. w |-> s[o + i]]
  BY ArrayCut
<1> HIDE DEF t
<1>2. t = [i \in 1 .. w |-> t[i]] /\ \A i \in 1 .. w : t[i] = s[o + i]
  BY <1>1
<1> QED BY <1>2 DEF Array, t

\* The first and the last bytes of an array.
LEMMA ArrayEnds ==
    ASSUME NEW s, NEW n, Array(s, n), NEW w \in Nat, w <= n
    PROVE  /\ Array(SubSeq(s, 1, w), w) /\ \A i \in 1 .. w : SubSeq(s, 1, w)[i] = s[i]
           /\ Array(SubSeq(s, Len(s) - w + 1, Len(s)), w)
           /\ \A i \in 1 .. w : SubSeq(s, Len(s) - w + 1, Len(s))[i] = s[n - w + i]
<1> DEFINE z == n - n
           o == n - w
<1>1. n \in Nat /\ Len(s) = n
  BY ArrayLen DEF Array
<1>2. z \in Nat /\ z + w <= n /\ z + 1 = 1 /\ z + w = w /\ \A i \in 1 .. w : z + i = i
  BY <1>1
<1>3. o \in Nat /\ o + w <= n /\ o + w = n /\ o + 1 = Len(s) - w + 1
  BY <1>1
<1> HIDE DEF z
<1>4. Array(SubSeq(s, z + 1, z + w), w) /\ \A i \in 1 .. w : SubSeq(s, z + 1, z + w)[i] = s[z + i]
  BY <1>2, ArrayPart
<1>5. Array(SubSeq(s, 1, w), w) /\ \A i \in 1 .. w : SubSeq(s, 1, w)[i] = s[i]
  BY <1>2, <1>4
<1> HIDE DEF o
<1>6. Array(SubSeq(s, o + 1, o + w), w) /\ \A i \in 1 .. w : SubSeq(s, o + 1, o + w)[i] = s[o + i]
  BY <1>3, ArrayPart
<1>7. Array(SubSeq(s, Len(s) - w + 1, Len(s)), w)
      /\ \A i \in 1 .. w : SubSeq(s, Len(s) - w + 1, Len(s))[i] = s[o + i]
  BY <1>1, <1>3, <1>6, Zenon
<1> QED BY <1>5, <1>7 DEF o

\* of which it is made.
LEMMA ArrayHalves ==
    ASSUME NEW s, NEW n, Array(s, n), NEW w \in Nat, w <= n
    PROVE  s = SubSeq(s, 1, n - w) \o SubSeq(s, Len(s) - w + 1, Len(s))
<1> DEFINE t == SubSeq(s, 1, n - w)
           u == SubSeq(s, Len(s) - w + 1, Len(s))
           c == t \o u
<1>1. n \in Nat /\ n - w \in Nat /\ n - w <= n
  BY DEF Array
<1>2. Array(t, n - w) /\ \A i \in 1 .. n - w : t[i] = s[i]
  BY <1>1, ArrayEnds
<1>3. Array(u, w) /\ \A i \in 1 .. w : u[i] = s[n - w + i]
  BY ArrayEnds
<1> HIDE DEF t, u
<1>4. c = [i \in 1 .. (n - w) + w |-> IF i <= n - w THEN t[i] ELSE u[i - (n - w)]]
  BY <1>1, <1>2, <1>3, ArrayConcat
<1> HIDE DEF c
<1>5. (n - w) + w = n
  BY <1>1
<1>6. c = [i \in 1 .. n |-> c[i]]
  BY <1>4, <1>5
<1>7. ASSUME NEW i \in 1 .. n
      PROVE  c[i] = s[i]
  <2>1. CASE i <= n - w
    BY <1>1, <1>2, <1>4, <1>5, <2>1
  <2>2. CASE ~(i <= n - w)
    <3> DEFINE j == i - (n - w)
    <3>1. j \in 1 .. w /\ n - w + j = i
      BY <1>1, <2>2
    <3>2. c[i] = u[j]
      BY <1>4, <1>5, <2>2
    <3> HIDE DEF j
    <3> QED BY <1>3, <3>1, <3>2
  <2> QED BY <2>1, <2>2
<1>8. s = [i \in 1 .. n |-> s[i]]
  BY DEF Array
<1>9. c = s
  BY <1>6, <1>7, <1>8
<1> QED BY <1>9 DEF c, t, u

\* The first part of two in a row can be told from the rest if its length can,
LEMMA ArraySplit ==
    ASSUME NEW s, NEW t, NEW u, NEW v, NEW n, NEW m, NEW k,
           Array(s, n), Array(u, n), Array(t, m), Array(v, k), s \o t = u \o v
    PROVE  s = u /\ t = v /\ m = k
<1> DEFINE c == s \o t
           d == u \o v
<1>1. c = d
  OBVIOUS
<1> HIDE DEF c, d
<1>2. Joined(c, s, n, t, m)
  BY ArrayJoin DEF c
<1>3. Joined(d, u, n, v, k)
  BY ArrayJoin DEF d
<1>4. Len(c) = n + m /\ Len(d) = n + k
  BY <1>2, <1>3, ArrayLen DEF Joined
<1>5. m = k
  BY <1>1, <1>2, <1>3, <1>4 DEF Joined
<1>6. \A i \in 1 .. n : s[i] = u[i]
  BY <1>1, <1>2, <1>3 DEF Joined
<1>7. \A i \in 1 .. m : t[i] = v[i]
  BY <1>1, <1>2, <1>3, <1>5 DEF Joined
<1>8. s = u
  BY <1>6, ArrayEqual
<1>9. t = v
  BY <1>5, <1>7, ArrayEqual
<1> QED BY <1>5, <1>8, <1>9

\* and so can the second.
LEMMA ArraySplitBack ==
    ASSUME NEW s, NEW t, NEW u, NEW v, NEW n, NEW m, NEW k,
           Array(s, n), Array(u, k), Array(t, m), Array(v, m), s \o t = u \o v
    PROVE  s = u /\ t = v /\ n = k
<1> DEFINE c == s \o t
           d == u \o v
<1>1. c = d
  OBVIOUS
<1> HIDE DEF c, d
<1>2. Joined(c, s, n, t, m)
  BY ArrayJoin DEF c
<1>3. Joined(d, u, k, v, m)
  BY ArrayJoin DEF d
<1>4. Len(c) = n + m /\ Len(d) = k + m
  BY <1>2, <1>3, ArrayLen DEF Joined
<1>5. n = k
  BY <1>1, <1>2, <1>3, <1>4 DEF Joined
<1>6. \A i \in 1 .. n : s[i] = u[i]
  BY <1>1, <1>2, <1>3, <1>5 DEF Joined
<1>7. \A i \in 1 .. m : t[i] = v[i]
  BY <1>1, <1>2, <1>3, <1>5 DEF Joined
<1>8. s = u
  BY <1>5, <1>6, ArrayEqual
<1>9. t = v
  BY <1>7, ArrayEqual
<1> QED BY <1>5, <1>8, <1>9

\* A set of numbers with a bound has a greatest element.
LEMMA GreatestNumber ==
    ASSUME NEW T, T \subseteq Nat, T # {}, NEW b \in Nat, \A x \in T : x <= b
    PROVE  \E x \in T : \A y \in T : y <= x
<1> DEFINE S == {b - x : x \in T}
<1>1. S \subseteq Nat /\ S # {}
  <2>1. \A x \in T : b - x \in Nat
    OBVIOUS
  <2> QED BY <2>1
<1>2. PICK k \in S : \A y \in S : k <= y
  <2> HIDE DEF S
  <2> QED BY <1>1, LeastNumber
<1>3. PICK x \in T : k = b - x
  BY <1>2
<1>4. ASSUME NEW y \in T PROVE y <= x
  <2>1. b - y \in S
    OBVIOUS
  <2>2. b - x <= b - y
    BY <1>2, <1>3, <2>1
  <2>3. x \in Nat /\ y \in Nat
    OBVIOUS
  <2> QED BY <2>2, <2>3
<1> QED BY <1>4


\* The same of one array that is two arrays in a row in two ways.
LEMMA JoinedTells ==
    ASSUME NEW c, NEW s, NEW n, NEW t, NEW m, NEW u, NEW k, NEW v, NEW l,
           Array(s, n), Array(t, m), Array(u, k), Array(v, l),
           Joined(c, s, n, t, m), Joined(c, u, k, v, l), n = k \/ m = l
    PROVE  s = u /\ t = v /\ n = k /\ m = l
<1>1. Len(c) = n + m /\ Len(c) = k + l
  BY ArrayLen DEF Joined
<1>2. n = k /\ m = l
  BY <1>1 DEF Joined
<1>3. \A i \in 1 .. n : s[i] = u[i]
  BY <1>2 DEF Joined
<1>4. \A i \in 1 .. m : t[i] = v[i]
  BY <1>2 DEF Joined
<1>5. s = u
  BY <1>2, <1>3, ArrayEqual
<1>6. t = v
  BY <1>2, <1>4, ArrayEqual
<1> QED BY <1>2, <1>5, <1>6

\* An array of nothing.
LEMMA ArrayEmpty ==
    ASSUME NEW s, NEW n, Array(s, n)
    PROVE  n = 0 <=> s = <<>>
<1>1. n = 0 => s = <<>>
  <2> SUFFICES ASSUME n = 0 PROVE s = <<>>
    OBVIOUS
  <2>1. Array(<<>>, n)
    BY DEF Array
  <2> DEFINE e == <<>>
  <2> HIDE DEF e
  <2>2. Array(e, n) /\ \A i \in 1 .. n : s[i] = e[i]
    BY <2>1 DEF e
  <2>3. s = e
    BY <2>2, ArrayEqual
  <2> QED BY <2>3 DEF e
<1>2. s = <<>> => n = 0
  <2>1. Len(s) = n
    BY ArrayLen
  <2> QED BY <2>1
<1> QED BY <1>1, <1>2

\* A smaller number has no greater quotient.
LEMMA QuotientOrder ==
    ASSUME NEW n \in Nat \ {0}, NEW x \in Nat, NEW y \in Nat, x <= y
    PROVE  x \div n <= y \div n
<1> DEFINE p == x \div n
           r == x % n
           q == y \div n
           s == y % n
<1>1. p \in Nat /\ r \in 0 .. n - 1 /\ x = p * n + r
  BY Divided
<1>2. q \in Nat /\ s \in 0 .. n - 1 /\ y = q * n + s
  BY Divided
<1> HIDE DEF p, q, r, s
<1>3. ASSUME p > q PROVE FALSE
  <2> DEFINE w == (p - q - 1) * n
  <2>1. w \in Nat /\ p * n = q * n + n + w
    BY <1>1, <1>2, <1>3
  <2> HIDE DEF w
  <2>2. p * n \in Nat /\ q * n \in Nat
    BY <1>1, <1>2
  <2> QED BY <1>1, <1>2, <2>1, <2>2
<1>4. p <= q
  BY <1>1, <1>2, <1>3
<1> QED BY <1>4 DEF p, q
-----------------------------------------------------------------------------
(***************************************************************************)
(* ChaCha20-Poly1305.  First the key stream, the tag and the box.          *)
(***************************************************************************)

\* Byte i of the key stream that meets the text, and of the one-time key.
CByte(h, i) ==
    {<<"stream", [C!State0(h) EXCEPT !.ctr = (1 + (i - 1) \div StreamBlock) % CtrRadix],
       ((i - 1) % StreamBlock) + 1>>}
COtk(h) == [i \in 1 .. OtkSize |-> {<<"stream", [C!State0(h) EXCEPT !.ctr = 0], i>>}]

\* What the tag is made from, and the tag.
CSource(h, ct) == <<COtk(h), C!MacInput(h.ad, ct)>>
CTag(x) == [i \in 1 .. TagSize |-> {<<"tag", x, i>>}]

\* The text and the box.
CText(h, msg) == [i \in 1 .. Len(msg) |-> Xor(msg[i], CByte(h, i))]
CBox(h, msg) == CText(h, msg) \o CTag(CSource(h, CText(h, msg)))

\* The sizes and the strings of the callers.
LEMMA CConstants ==
    ASSUME C!LengthAssumption
    PROVE  /\ StreamBlock \in Nat \ {0} /\ OtkSize \in Nat \ {0} /\ MacBlock \in Nat \ {0}
           /\ TagSize \in Nat \ {0} /\ CtrRadix \in Nat \ {0} /\ UintRadix \in Nat \ {0}
           /\ OtkSize <= StreamBlock /\ OtkSize < UintRadix
BY DEF C!LengthAssumption

\* A string of bytes is an array.
LEMMA MadeArray ==
    ASSUME NEW kind, NEW s, MadeOf(kind, s)
    PROVE  Len(s) \in Nat /\ Array(s, Len(s)) /\ DOMAIN s = 1 .. Len(s)
<1> DEFINE S == {s[i] : i \in DOMAIN s}
<1>1. s \in Seq(S)
  BY DEF MadeOf
<1> HIDE DEF S
<1>2. Len(s) \in Nat /\ DOMAIN s = 1 .. Len(s) /\ s = [i \in 1 .. Len(s) |-> s[i]]
  BY <1>1
<1> QED BY <1>2 DEF Array

\* The strings of the callers of ChaCha20-Poly1305.
LEMMA CStrings ==
    ASSUME C!LengthAssumption
    PROVE  /\ \A s \in Ads \cup ChaChaMessages :
                 Len(s) \in Nat /\ Array(s, Len(s)) /\ Len(s) + MacBlock + TagSize < UintRadix
           /\ \A s \in Ads : \A i \in 1 .. Len(s) : \A a \in s[i] : a[1] = "ad"
           /\ \A s \in ChaChaMessages :
                 /\ \A i \in 1 .. Len(s) : \A a \in s[i] : a[1] = "msg"
                 /\ Len(s) \div StreamBlock + 2 < CtrRadix
<1>1. /\ \A s \in Ads : C!MadeOf("ad", s)
      /\ \A s \in ChaChaMessages : C!MadeOf("msg", s)
      /\ \A s \in Ads \cup ChaChaMessages : Len(s) + MacBlock + TagSize < UintRadix
      /\ \A s \in ChaChaMessages : Len(s) \div StreamBlock + 2 < CtrRadix
  BY DEF C!LengthAssumption
<1>2. \A k, s : C!MadeOf(k, s) <=> MadeOf(k, s)
  BY DEF C!MadeOf, MadeOf
<1>3. ASSUME NEW s \in Ads
      PROVE  /\ Len(s) \in Nat /\ Array(s, Len(s))
             /\ \A i \in 1 .. Len(s) : \A a \in s[i] : a[1] = "ad"
  <2>1. MadeOf("ad", s)
    BY <1>1, <1>2
  <2>2. Len(s) \in Nat /\ Array(s, Len(s)) /\ DOMAIN s = 1 .. Len(s)
    BY <2>1, MadeArray
  <2> QED BY <2>1, <2>2 DEF MadeOf
<1>4. ASSUME NEW s \in ChaChaMessages
      PROVE  /\ Len(s) \in Nat /\ Array(s, Len(s))
             /\ \A i \in 1 .. Len(s) : \A a \in s[i] : a[1] = "msg"
  <2>1. MadeOf("msg", s)
    BY <1>1, <1>2
  <2>2. Len(s) \in Nat /\ Array(s, Len(s)) /\ DOMAIN s = 1 .. Len(s)
    BY <2>1, MadeArray
  <2> QED BY <2>1, <2>2 DEF MadeOf
<1> QED BY <1>1, <1>3, <1>4

\* An exclusive or with what is not there adds it.
LEMMA XorBasics ==
    /\ \A x, y : C!Xor(x, y) = Xor(x, y) /\ M!Xor(x, y) = Xor(x, y) /\ E!Xor(x, y) = Xor(x, y)
    /\ \A x : Xor(Zero, x) = x /\ Xor(x, Zero) = x /\ Xor(x, x) = Zero
    /\ \A x, y : Xor(Xor(x, y), y) = x
BY DEF C!Xor, M!Xor, E!Xor, Xor, Zero

\* A block of key stream, byte by byte.
LEMMA CBlock ==
    ASSUME NEW x, NEW k \in 1 .. StreamBlock
    PROVE  C!chacha_block(x)[k] = {<<"stream", x, k>>}
BY DEF C!chacha_block, C!BytesOf, C!Atom

\* The one-time key is the beginning of block 0.
LEMMA CKey ==
    ASSUME C!LengthAssumption, NEW h
    PROVE  C!OneTimeKey(h) = COtk(h)
<1> DEFINE x == C!State0(h)
           z == C!Zeros(OtkSize)
<1>1. z = [i \in 1 .. OtkSize |-> Zero] /\ Len(z) % UintRadix = OtkSize
  <2>1. z = [i \in 1 .. OtkSize |-> Zero]
    BY DEF C!Zeros, C!Zero, Zero
  <2>2. Len(z) = OtkSize
    <3>1. Array(z, OtkSize)
      BY <2>1, CConstants DEF Array
    <3> HIDE DEF z
    <3> QED BY <3>1, ArrayLen
  <2>3. OtkSize % UintRadix = OtkSize
    BY CConstants
  <2> QED BY <2>1, <2>2, <2>3
<1>2. x.ctr = 0
  BY DEF C!State0, C!xchacha_init, C!chacha_init
<1>3. C!OneTimeKey(h) =
        [i \in 1 .. Len(z) % UintRadix |->
            C!Xor(z[i], C!chacha_block([x EXCEPT !.ctr = (x.ctr + (i - 1) \div StreamBlock) % CtrRadix])
                           [((i - 1) % StreamBlock) + 1])]
  BY DEF C!OneTimeKey, C!chacha20_crypt
<1> HIDE DEF x, z
<1>4. ASSUME NEW i \in 1 .. OtkSize
      PROVE  C!Xor(z[i], C!chacha_block([x EXCEPT !.ctr = (x.ctr + (i - 1) \div StreamBlock) % CtrRadix])
                           [((i - 1) % StreamBlock) + 1]) = {<<"stream", [x EXCEPT !.ctr = 0], i>>}
  <2>1. (i - 1) \div StreamBlock = 0 /\ ((i - 1) % StreamBlock) + 1 = i /\ 0 % CtrRadix = 0
        /\ i \in 1 .. StreamBlock
    <3>1. i - 1 \in 0 .. StreamBlock - 1 /\ StreamBlock \in Nat \ {0} /\ CtrRadix \in Nat \ {0}
      BY CConstants
    <3> QED BY <3>1
  <2>2. (x.ctr + (i - 1) \div StreamBlock) % CtrRadix = 0
    BY <1>2, <2>1
  <2>3. z[i] = Zero
    BY <1>1
  <2> QED BY <2>1, <2>2, <2>3, CBlock, XorBasics
<1> QED BY <1>1, <1>3, <1>4 DEF COtk, x

\* The text meets the key stream from block 1 on, whether it is encrypted or
\* decrypted.
LEMMA CCrypt ==
    ASSUME C!LengthAssumption, NEW h, NEW s, NEW n, Array(s, n), n < UintRadix
    PROVE  C!chacha20_crypt(C!DataState(h), s) = [i \in 1 .. n |-> Xor(s[i], CByte(h, i))]
<1> DEFINE x == C!State0(h)
           y == C!DataState(h)
<1>1. n \in Nat /\ Len(s) = n /\ n % UintRadix = n
  <2>1. n \in Nat /\ Len(s) = n
    BY ArrayLen DEF Array
  <2> QED BY <2>1, CConstants
<1>2. x.ctr = 0 /\ [x EXCEPT !.ctr = @] = x
  BY DEF C!State0, C!xchacha_init, C!chacha_init
<1>3. y = [x EXCEPT !.ctr = 1]
  <2>1. (OtkSize + StreamBlock - 1) \div StreamBlock = 1
    <3> DEFINE r == OtkSize - 1
    <3>1. r \in 0 .. StreamBlock - 1 /\ OtkSize + StreamBlock - 1 = 1 * StreamBlock + r
          /\ StreamBlock \in Nat \ {0} /\ 1 \in Nat
      BY CConstants
    <3> HIDE DEF r
    <3> QED BY <3>1, Quotient
  <2>2. (x.ctr + (OtkSize + StreamBlock - 1) \div StreamBlock) % CtrRadix = 1
    <3>1. CtrRadix \in Nat /\ CtrRadix > 2
      <4>1. PICK m \in ChaChaMessages : TRUE
        BY DEF C!LengthAssumption
      <4>2. Len(m) \div StreamBlock \in Nat
        BY <4>1, CConstants, CStrings, Divided
      <4> QED BY <4>1, <4>2, CConstants, CStrings
    <3> QED BY <1>2, <2>1, <3>1
  <2>3. y = [x EXCEPT !.ctr = (x.ctr + (OtkSize + StreamBlock - 1) \div StreamBlock) % CtrRadix]
    BY DEF C!DataState, C!AfterCrypt
  <2> QED BY <2>2, <2>3
<1>4. /\ y.ctr = 1 /\ \A c : [y EXCEPT !.ctr = c] = [x EXCEPT !.ctr = c]
  <2>1. x = [key |-> x.key, ctr |-> x.ctr, nonce |-> x.nonce]
    BY DEF C!State0, C!xchacha_init, C!chacha_init
  <2> HIDE DEF x, y
  <2> QED BY <1>3, <2>1
<1>5. C!chacha20_crypt(y, s) =
        [i \in 1 .. Len(s) % UintRadix |->
            C!Xor(s[i], C!chacha_block([y EXCEPT !.ctr = (y.ctr + (i - 1) \div StreamBlock) % CtrRadix])
                           [((i - 1) % StreamBlock) + 1])]
  <2> HIDE DEF y
  <2> QED BY DEF C!chacha20_crypt
<1> HIDE DEF x, y
<1>6. ASSUME NEW i \in 1 .. n
      PROVE  C!Xor(s[i], C!chacha_block([y EXCEPT !.ctr = (y.ctr + (i - 1) \div StreamBlock) % CtrRadix])
                           [((i - 1) % StreamBlock) + 1]) = Xor(s[i], CByte(h, i))
  <2> DEFINE b == (i - 1) \div StreamBlock
             r == (i - 1) % StreamBlock
  <2>1. r + 1 \in 1 .. StreamBlock
    <3>1. i - 1 \in Nat
      BY <1>1
    <3>2. r \in 0 .. StreamBlock - 1
      BY <3>1, CConstants, Divided
    <3> HIDE DEF r
    <3> QED BY <3>2, CConstants
  <2> HIDE DEF b, r
  <2>2. C!chacha_block([y EXCEPT !.ctr = (y.ctr + b) % CtrRadix])[r + 1]
          = {<<"stream", [x EXCEPT !.ctr = (1 + b) % CtrRadix], r + 1>>}
    BY <1>4, <2>1, CBlock
  <2>3. CByte(h, i) = {<<"stream", [x EXCEPT !.ctr = (1 + b) % CtrRadix], r + 1>>}
    BY DEF CByte, x, b, r
  <2>4. C!Xor(s[i], C!chacha_block([y EXCEPT !.ctr = (y.ctr + b) % CtrRadix])[r + 1])
          = Xor(s[i], CByte(h, i))
    BY <2>2, <2>3, XorBasics
  <2> QED BY <2>4 DEF b, r
<1>7. C!chacha20_crypt(y, s) = [i \in 1 .. n |-> Xor(s[i], CByte(h, i))]
  BY <1>1, <1>5, <1>6
<1> QED BY <1>7 DEF y

\* The text and the tag as arrays.
LEMMA CParts ==
    ASSUME C!LengthAssumption, NEW h, NEW msg \in ChaChaMessages, NEW x
    PROVE  /\ Len(msg) \in Nat /\ Array(CText(h, msg), Len(msg)) /\ Array(CTag(x), TagSize)
           /\ Joined(CBox(h, msg), CText(h, msg), Len(msg), CTag(CSource(h, CText(h, msg))), TagSize)
<1>1. Len(msg) \in Nat /\ TagSize \in Nat
  BY CConstants, CStrings
<1>2. Array(CText(h, msg), Len(msg))
  BY <1>1 DEF CText, Array
<1>3. \A z : Array(CTag(z), TagSize)
  BY <1>1 DEF CTag, Array
<1> DEFINE t == CText(h, msg)
           g == CTag(CSource(h, CText(h, msg)))
<1>4. Array(t, Len(msg)) /\ Array(g, TagSize)
  BY <1>2, <1>3
<1> HIDE DEF t, g
<1>5. Joined(t \o g, t, Len(msg), g, TagSize)
  BY <1>4, ArrayJoin
<1>6. CBox(h, msg) = t \o g
  BY DEF CBox, t, g
<1>7. Joined(CBox(h, msg), t, Len(msg), g, TagSize)
  BY <1>5, <1>6
<1> QED BY <1>1, <1>2, <1>3, <1>7 DEF t, g

\* What encrypt writes.
LEMMA CEncrypted ==
    ASSUME C!LengthAssumption, NEW h, NEW msg \in ChaChaMessages
    PROVE  C!Encrypted(h, msg) = CBox(h, msg)
<1>1. Array(msg, Len(msg)) /\ Len(msg) < UintRadix
  BY CConstants, CStrings
<1>2. C!chacha20_crypt(C!DataState(h), msg) = CText(h, msg)
  BY <1>1, CCrypt DEF CText
<1>3. \A otk, input : C!poly1305(otk, input) = CTag(<<otk, input>>)
  BY DEF C!poly1305, C!BytesOf, C!Atom, CTag
<1>4. C!Encrypted(h, msg)
        = CText(h, msg) \o C!poly1305(C!OneTimeKey(h), C!MacInput(h.ad, CText(h, msg)))
  BY <1>2 DEF C!Encrypted
<1> QED BY <1>3, <1>4, CKey DEF CBox, CSource

\* Decrypting it gives the message.
LEMMA CInverse ==
    ASSUME C!LengthAssumption, NEW h, NEW msg \in ChaChaMessages
    PROVE  C!chacha20_crypt(C!DataState(h), CText(h, msg)) = msg
<1>1. Array(msg, Len(msg)) /\ Len(msg) < UintRadix /\ Len(msg) \in Nat
  BY CConstants, CStrings
<1> DEFINE t == CText(h, msg)
           n == Len(msg)
<1>2. Array(t, n) /\ \A i \in 1 .. n : t[i] = Xor(msg[i], CByte(h, i))
  BY <1>1 DEF CText, Array
<1> HIDE DEF t, n
<1>3. C!chacha20_crypt(C!DataState(h), t) = [i \in 1 .. n |-> Xor(t[i], CByte(h, i))]
  BY <1>1, <1>2, CCrypt DEF n
<1>4. \A i \in 1 .. n : Xor(t[i], CByte(h, i)) = msg[i]
  BY <1>2, XorBasics
<1>5. msg = [i \in 1 .. n |-> msg[i]]
  BY <1>1 DEF Array, n
<1>6. C!chacha20_crypt(C!DataState(h), t) = msg
  BY <1>3, <1>4, <1>5
<1> QED BY <1>6 DEF t

\* The zeros that pad an array.
LEMMA CPadding ==
    ASSUME C!LengthAssumption, NEW n \in Nat
    PROVE  /\ C!Missing(n, MacBlock) \in Nat
           /\ Array(C!Zeros(C!Missing(n, MacBlock)), C!Missing(n, MacBlock))
<1>1. n % MacBlock \in 0 .. MacBlock - 1 /\ MacBlock \in Nat
  BY CConstants, Divided
<1>2. C!Missing(n, MacBlock) \in Nat
  BY <1>1 DEF C!Missing
<1> DEFINE k == C!Missing(n, MacBlock)
<1> HIDE DEF k
<1>3. Array(C!Zeros(k), k)
  BY <1>2 DEF C!Zeros, Array, k
<1> QED BY <1>2, <1>3 DEF k

\* The lengths at the end of what is authenticated.
CLengths(n, m) == << {<<"le64", "ad", n>>}, {<<"le64", "ct", m>>} >>

\* Two strings, each with its padding, and their lengths are as good as the two.
LEMMA CInputTells ==
    ASSUME C!LengthAssumption, NEW a, NEW b, NEW s, NEW t, NEW k, NEW l, NEW n, NEW m,
           Array(a, k), Array(b, l), Array(s, n), Array(t, m),
           C!MacInput(a, s) = C!MacInput(b, t)
    PROVE  a = b /\ s = t
<1> DEFINE y == C!Zeros(C!Missing(k, MacBlock))
           z == C!Zeros(C!Missing(n, MacBlock))
           v == C!Zeros(C!Missing(l, MacBlock))
           w == C!Zeros(C!Missing(m, MacBlock))
           ky == C!Missing(k, MacBlock)
           nz == C!Missing(n, MacBlock)
           lv == C!Missing(l, MacBlock)
           mw == C!Missing(m, MacBlock)
<1>1. /\ k \in Nat /\ l \in Nat /\ n \in Nat /\ m \in Nat
      /\ Len(a) = k /\ Len(b) = l /\ Len(s) = n /\ Len(t) = m
  BY ArrayLen DEF Array
<1>2. C!MacInput(a, s) = (((a \o y) \o s) \o z) \o CLengths(k, n)
  BY <1>1 DEF C!MacInput, C!Atom, CLengths
<1>3. C!MacInput(b, t) = (((b \o v) \o t) \o w) \o CLengths(l, m)
  BY <1>1 DEF C!MacInput, C!Atom, CLengths
<1>4. Array(y, ky) /\ Array(z, nz) /\ Array(v, lv) /\ Array(w, mw)
  BY <1>1, CPadding
<1>5. k = l => y = v /\ ky = lv
  OBVIOUS
<1>6. n = m => z = w /\ nz = mw
  OBVIOUS
<1> HIDE DEF y, z, v, w, ky, nz, lv, mw
<1>7. \A p, q : Array(CLengths(p, q), 2)
  BY DEF CLengths, Array
<1> DEFINE ay == a \o y
           ays == ay \o s
           aysz == ays \o z
           ck == CLengths(k, n)
           all == aysz \o ck
           bv == b \o v
           bvt == bv \o t
           bvtw == bvt \o w
           cl == CLengths(l, m)
           other == bvtw \o cl
<1>8. all = other
  BY <1>2, <1>3
<1>9. Array(ck, 2) /\ Array(cl, 2)
  BY <1>7
<1>10. ck = cl => k = l /\ n = m
  <2>1. HAVE ck = cl
  <2>2. <<"le64", "ad", k>> = <<"le64", "ad", l>> /\ <<"le64", "ct", n>> = <<"le64", "ct", m>>
    BY <2>1 DEF CLengths
  <2> QED BY <2>2
<1> HIDE DEF ck, cl, ay, bv, ays, bvt, aysz, bvtw, all, other
<1>11. Joined(ay, a, k, y, ky) /\ Joined(bv, b, l, v, lv)
  BY <1>4, ArrayJoin DEF ay, bv
<1>12. Array(ay, k + ky) /\ Array(bv, l + lv)
  BY <1>11 DEF Joined
<1>13. Joined(ays, ay, k + ky, s, n) /\ Joined(bvt, bv, l + lv, t, m)
  <2>1. Joined(ays, ay, k + ky, s, n)
    BY <1>12, ArrayJoin DEF ays
  <2>2. Joined(bvt, bv, l + lv, t, m)
    BY <1>12, ArrayJoin DEF bvt
  <2> QED BY <2>1, <2>2
<1>14. Array(ays, (k + ky) + n) /\ Array(bvt, (l + lv) + m)
  BY <1>13 DEF Joined
<1>15. Joined(aysz, ays, (k + ky) + n, z, nz) /\ Joined(bvtw, bvt, (l + lv) + m, w, mw)
  <2>1. Joined(aysz, ays, (k + ky) + n, z, nz)
    BY <1>4, <1>14, ArrayJoin DEF aysz
  <2>2. Joined(bvtw, bvt, (l + lv) + m, w, mw)
    BY <1>4, <1>14, ArrayJoin DEF bvtw
  <2> QED BY <2>1, <2>2
<1>16. Array(aysz, ((k + ky) + n) + nz) /\ Array(bvtw, ((l + lv) + m) + mw)
  BY <1>15 DEF Joined
<1>17. Joined(all, aysz, ((k + ky) + n) + nz, ck, 2) /\ Joined(other, bvtw, ((l + lv) + m) + mw, cl, 2)
  <2>1. Joined(all, aysz, ((k + ky) + n) + nz, ck, 2)
    BY <1>9, <1>16, ArrayJoin DEF all
  <2>2. Joined(other, bvtw, ((l + lv) + m) + mw, cl, 2)
    BY <1>9, <1>16, ArrayJoin DEF other
  <2> QED BY <2>1, <2>2
<1>18. aysz = bvtw /\ ck = cl
  <2>1. Joined(all, bvtw, ((l + lv) + m) + mw, cl, 2)
    BY <1>8, <1>17
  <2>2. Array(cl, 2) /\ 2 = 2
    BY <1>9
  <2> QED BY <1>9, <1>16, <1>17, <2>1, <2>2, JoinedTells
<1>19. k = l /\ n = m /\ nz = mw
  BY <1>6, <1>10, <1>18
<1>20. ays = bvt
  <2>1. Joined(aysz, bvt, (l + lv) + m, w, mw)
    BY <1>15, <1>18
  <2> QED BY <1>4, <1>14, <1>15, <1>19, <2>1, JoinedTells
<1>21. ay = bv /\ s = t
  <2>1. Joined(ays, bv, l + lv, t, m)
    BY <1>13, <1>20
  <2> QED BY <1>12, <1>13, <1>19, <2>1, JoinedTells
<1>22. a = b
  <2>1. Joined(ay, b, l, v, lv)
    BY <1>11, <1>21
  <2> QED BY <1>4, <1>11, <1>19, <2>1, JoinedTells
<1> QED BY <1>21, <1>22

\* The one-time key tells the nonce and the kind of mode,
LEMMA CKeyTells ==
    ASSUME C!LengthAssumption, NEW h \in C!Headers, NEW g \in C!Headers, COtk(h) = COtk(g)
    PROVE  h.kind = g.kind /\ h.hi = g.hi /\ h.lo = g.lo
<1>1. h.kind \in {"chacha", "xchacha"} /\ g.kind \in {"chacha", "xchacha"}
  BY DEF C!Headers
<1> DEFINE x == C!State0(h)
           y == C!State0(g)
<1>2. /\ x = IF h.kind = "xchacha" THEN [key |-> <<"subkey", h.hi>>, ctr |-> 0, nonce |-> h.lo]
             ELSE [key |-> <<"key", 0>>, ctr |-> 0, nonce |-> <<h.hi, h.lo>>]
      /\ y = IF g.kind = "xchacha" THEN [key |-> <<"subkey", g.hi>>, ctr |-> 0, nonce |-> g.lo]
             ELSE [key |-> <<"key", 0>>, ctr |-> 0, nonce |-> <<g.hi, g.lo>>]
  BY DEF C!State0, C!xchacha_init, C!chacha_init
<1>3. x = y
  <2>1. 1 \in 1 .. OtkSize
    BY CConstants
  <2>2. COtk(h)[1] = {<<"stream", [x EXCEPT !.ctr = 0], 1>>} /\ COtk(g)[1] = {<<"stream", [y EXCEPT !.ctr = 0], 1>>}
    <3> HIDE DEF x, y
    <3> QED BY <2>1 DEF COtk, x, y
  <2>3. [x EXCEPT !.ctr = 0] = x /\ [y EXCEPT !.ctr = 0] = y
    <3>1. x = [key |-> x.key, ctr |-> 0, nonce |-> x.nonce]
      BY <1>2
    <3>2. y = [key |-> y.key, ctr |-> 0, nonce |-> y.nonce]
      BY <1>2
    <3> HIDE DEF x, y
    <3> QED BY <3>1, <3>2
  <2> HIDE DEF x, y
  <2>4. <<"stream", x, 1>> = <<"stream", y, 1>>
    BY <2>2, <2>3
  <2> QED BY <2>4
<1> HIDE DEF x, y
<1>4. x.key = y.key /\ x.nonce = y.nonce
  BY <1>3
<1>5. CASE h.kind = "xchacha" /\ g.kind = "xchacha"
  BY <1>2, <1>4, <1>5
<1>6. CASE h.kind = "chacha" /\ g.kind = "chacha"
  BY <1>2, <1>4, <1>6
<1>7. CASE h.kind # g.kind
  <2>1. x.key[1] # y.key[1]
    BY <1>1, <1>2, <1>7
  <2> QED BY <1>4, <2>1
<1> QED BY <1>1, <1>5, <1>6, <1>7

\* and so what the tag is made from tells everything.
LEMMA CSourceTells ==
    ASSUME C!LengthAssumption, NEW h \in C!Headers, NEW g \in C!Headers,
           NEW s, NEW n, Array(s, n), NEW t, NEW m, Array(t, m), CSource(h, s) = CSource(g, t)
    PROVE  h = g /\ s = t
<1>1. COtk(h) = COtk(g) /\ C!MacInput(h.ad, s) = C!MacInput(g.ad, t)
  BY DEF CSource
<1>2. h.kind = g.kind /\ h.hi = g.hi /\ h.lo = g.lo
  BY <1>1, CKeyTells
<1>3. h.ad \in Ads /\ g.ad \in Ads
  BY DEF C!Headers
<1>4. Array(h.ad, Len(h.ad)) /\ Array(g.ad, Len(g.ad))
  BY <1>3, CStrings
<1>5. h.ad = g.ad /\ s = t
  BY <1>1, <1>4, CInputTells
<1>6. h = g
  BY <1>2, <1>5 DEF C!Headers
<1> QED BY <1>5, <1>6

\* Arrays in a row, one after the other in either order.
LEMMA ArrayThree ==
    ASSUME NEW s, NEW n, Array(s, n), NEW t, NEW m, Array(t, m), NEW u, NEW k, Array(u, k)
    PROVE  (s \o t) \o u = s \o (t \o u)
<1> DEFINE S == {s[i] : i \in 1 .. n}
           T == {t[i] : i \in 1 .. m}
           U == {u[i] : i \in 1 .. k}
           W == S \cup T \cup U
<1>1. s \in Seq(S) /\ t \in Seq(T) /\ u \in Seq(U)
  BY ArrayLen
<1> HIDE DEF S, T, U
<1>2. s \in Seq(W) /\ t \in Seq(W) /\ u \in Seq(W)
  BY <1>1
<1> HIDE DEF W
<1> QED BY <1>2, ConcatAssociative

\* A string with its padding, as RFC 8439 has it.
LEMMA CPadded ==
    ASSUME C!LengthAssumption, NEW s, NEW n, Array(s, n)
    PROVE  [i \in 1 .. Len(s) + C!Missing(Len(s), MacBlock) |-> IF i <= Len(s) THEN s[i] ELSE C!Zero]
              = s \o C!Zeros(C!Missing(Len(s), MacBlock))
<1>1. n \in Nat /\ Len(s) = n
  BY ArrayLen DEF Array
<1> DEFINE k == C!Missing(n, MacBlock)
           z == C!Zeros(k)
<1>2. k \in Nat /\ Array(z, k)
  BY <1>1, CPadding
<1>3. \A i \in 1 .. k : z[i] = C!Zero
  BY DEF C!Zeros
<1> HIDE DEF k, z
<1>4. s \o z = [i \in 1 .. n + k |-> IF i <= n THEN s[i] ELSE z[i - n]]
  BY <1>1, <1>2, ArrayConcat
<1>5. \A i \in 1 .. n + k : ~(i <= n) => z[i - n] = C!Zero
  <2>1. \A i \in 1 .. n + k : ~(i <= n) => i - n \in 1 .. k
    BY <1>1, <1>2
  <2> QED BY <1>3, <2>1
<1>6. s \o z = [i \in 1 .. n + k |-> IF i <= n THEN s[i] ELSE C!Zero]
  BY <1>4, <1>5
<1> QED BY <1>1, <1>6 DEF k, z

\* The key stream of RFC 8439: the counter does not wrap.
LEMMA CStream ==
    ASSUME C!LengthAssumption, NEW h, NEW msg \in ChaChaMessages, NEW i \in 1 .. Len(msg)
    PROVE  CByte(h, i) = C!KeyStream(h, 1 + (i - 1) \div StreamBlock, ((i - 1) % StreamBlock) + 1)
<1> DEFINE q == (i - 1) \div StreamBlock
           l == Len(msg) \div StreamBlock
<1>1. Len(msg) \in Nat /\ i - 1 \in Nat /\ i - 1 <= Len(msg) /\ l + 2 < CtrRadix
      /\ StreamBlock \in Nat \ {0} /\ CtrRadix \in Nat \ {0}
  BY CStrings, CConstants
<1>2. q \in Nat /\ l \in Nat /\ q <= l
  BY <1>1, Divided, QuotientOrder
<1> HIDE DEF q, l
<1>3. (1 + q) % CtrRadix = 1 + q
  BY <1>1, <1>2
<1> QED BY <1>3 DEF CByte, C!KeyStream, C!Atom, q

\* The box is that of RFC 8439.
LEMMA CReference ==
    ASSUME C!LengthAssumption, NEW h \in C!Headers, NEW msg \in ChaChaMessages
    PROVE  C!RefBox(h, msg) = CBox(h, msg)
<1> DEFINE t == [i \in 1 .. Len(msg) |->
                  C!Xor(msg[i], C!KeyStream(h, 1 + (i - 1) \div StreamBlock,
                                        ((i - 1) % StreamBlock) + 1))]
           padded(s) == [i \in 1 .. Len(s) + C!Missing(Len(s), MacBlock) |->
                         IF i <= Len(s) THEN s[i] ELSE C!Zero]
           otk == [i \in 1 .. OtkSize |-> C!KeyStream(h, 0, i)]
           lens == << {C!Atom("le64", "ad", Len(h.ad))}, {C!Atom("le64", "ct", Len(t))} >>
           in == padded(h.ad) \o padded(t) \o lens
<1>1. C!RefBox(h, msg) = t \o [i \in 1 .. TagSize |-> {C!Atom("tag", <<otk, in>>, i)}]
  BY DEF C!RefBox
<1>2. t = CText(h, msg)
  <2>1. \A i \in 1 .. Len(msg) :
           C!Xor(msg[i], C!KeyStream(h, 1 + (i - 1) \div StreamBlock, ((i - 1) % StreamBlock) + 1))
             = Xor(msg[i], CByte(h, i))
    BY CStream, XorBasics
  <2> QED BY <2>1 DEF CText
<1>3. otk = COtk(h)
  BY DEF COtk, C!KeyStream, C!Atom
<1>4. Array(h.ad, Len(h.ad)) /\ Array(t, Len(msg)) /\ Len(h.ad) \in Nat /\ Len(msg) \in Nat
  <2>1. h.ad \in Ads
    BY DEF C!Headers
  <2>2. Array(h.ad, Len(h.ad)) /\ Len(h.ad) \in Nat
    BY <2>1, CStrings
  <2>3. Array(CText(h, msg), Len(msg)) /\ Len(msg) \in Nat
    BY CParts
  <2> QED BY <1>2, <2>2, <2>3
<1> HIDE DEF t
<1>5. Len(t) = Len(msg)
  BY <1>4, ArrayLen
<1> DEFINE a == h.ad
           y == C!Zeros(C!Missing(Len(a), MacBlock))
           z == C!Zeros(C!Missing(Len(t), MacBlock))
<1>6. padded(a) = a \o y /\ padded(t) = t \o z
  BY <1>4, CPadded
<1>7. Array(y, C!Missing(Len(a), MacBlock)) /\ Array(z, C!Missing(Len(t), MacBlock))
  BY <1>4, <1>5, CPadding
<1>8. Array(lens, 2)
  BY DEF Array
<1>9. C!MacInput(a, t) = (((a \o y) \o t) \o z) \o lens
  BY DEF C!MacInput
<1>10. in = (padded(a) \o padded(t)) \o lens
  OBVIOUS
<1> HIDE DEF padded, y, z, lens, a
<1>11. in = ((a \o y) \o (t \o z)) \o lens
  BY <1>6, <1>10
<1>12. ((a \o y) \o t) \o z = (a \o y) \o (t \o z)
  <2> DEFINE ay == a \o y
  <2>1. Joined(ay, a, Len(a), y, C!Missing(Len(a), MacBlock))
    BY <1>4, <1>7, ArrayJoin DEF a
  <2> HIDE DEF ay
  <2>2. Array(ay, Len(a) + C!Missing(Len(a), MacBlock))
    BY <2>1 DEF Joined
  <2>3. (ay \o t) \o z = ay \o (t \o z)
    BY <1>4, <1>7, <2>2, ArrayThree
  <2> QED BY <2>3 DEF ay
<1>13. in = C!MacInput(h.ad, t)
  BY <1>9, <1>11, <1>12 DEF a
<1> HIDE DEF in, otk
<1>14. [i \in 1 .. TagSize |-> {C!Atom("tag", <<otk, in>>, i)}] = CTag(CSource(h, t))
  BY <1>3, <1>13 DEF CTag, CSource, C!Atom
<1> QED BY <1>1, <1>2, <1>14 DEF CBox

(***************************************************************************)
(* What reaches the receiver.                                              *)
(***************************************************************************)

\* Nothing of a message shows in a byte: it is zero, or has an atom of another
\* kind,
Foreign(b) == b = Zero \/ \E a \in b : a[1] # "msg"

\* has the atoms of one tag at most,
CSafe(x, b) == Foreign(b) /\ \A a \in b : a[1] = "tag" => a[2] = x

\* and on the wire it has atoms of the key stream or of the tag.
CStrong(x, b) == CSafe(x, b) /\ \E a \in b : a[1] \in {"stream", "tag"}

CShaped(x, s, n) == Array(s, n) /\ \A i \in 1 .. n : CSafe(x, s[i])

\* The bytes of the box.
LEMMA CBoxBytes ==
    ASSUME C!LengthAssumption, NEW h, NEW msg \in ChaChaMessages
    PROVE  /\ Array(CBox(h, msg), Len(msg) + TagSize)
           /\ \A i \in 1 .. Len(msg) + TagSize :
                 CStrong(CSource(h, CText(h, msg)), CBox(h, msg)[i])
<1> DEFINE x == CSource(h, CText(h, msg))
           t == CText(h, msg)
           c == CBox(h, msg)
           g == CTag(x)
           n == Len(msg)
<1>1. n \in Nat /\ TagSize \in Nat /\ Joined(c, t, n, g, TagSize)
  BY CConstants, CParts
<1>2. \A i \in 1 .. n : t[i] = Xor(msg[i], CByte(h, i))
  BY DEF CText
<1>3. \A i \in 1 .. TagSize : g[i] = {<<"tag", x, i>>}
  BY DEF CTag
<1>4. \A i \in 1 .. n : \A a \in msg[i] : a[1] = "msg"
  BY CStrings
<1> HIDE DEF x, t, c, g, n
<1>5. ASSUME NEW i \in 1 .. n
      PROVE  CStrong(x, c[i])
  <2>1. PICK a : CByte(h, i) = {a} /\ a[1] = "stream"
    <3> DEFINE u == [C!State0(h) EXCEPT !.ctr = (1 + (i - 1) \div StreamBlock) % CtrRadix]
               v == ((i - 1) % StreamBlock) + 1
    <3>1. CByte(h, i) = {<<"stream", u, v>>}
      BY DEF CByte
    <3> HIDE DEF u, v
    <3>2. <<"stream", u, v>>[1] = "stream"
      OBVIOUS
    <3> QED BY <3>1, <3>2
  <2>2. a \notin msg[i]
    BY <1>4, <2>1
  <2>3. c[i] = Xor(msg[i], {a})
    BY <1>1, <1>2, <2>1 DEF Joined
  <2>4. c[i] = msg[i] \cup {a}
    BY <2>2, <2>3 DEF Xor
  <2> QED BY <1>4, <2>1, <2>4 DEF CStrong, CSafe, Foreign
<1>6. ASSUME NEW i \in 1 .. TagSize
      PROVE  CStrong(x, c[n + i])
  <2>1. c[n + i] = {<<"tag", x, i>>}
    BY <1>1, <1>3 DEF Joined
  <2> QED BY <2>1 DEF CStrong, CSafe, Foreign
<1>7. \A i \in 1 .. n + TagSize : CStrong(x, c[i])
  <2>1. \A i \in 1 .. n + TagSize : i \in 1 .. n \/ (i - n \in 1 .. TagSize /\ n + (i - n) = i)
    BY <1>1
  <2> QED BY <1>5, <1>6, <2>1
<1> QED BY <1>1, <1>7 DEF Joined, x, t, c, n

\* Of what reaches the receiver decrypt accepts only what was sent.
LEMMA CAuthentic ==
    ASSUME C!LengthAssumption, NEW h \in C!Headers, NEW msg \in ChaChaMessages,
           NEW g \in C!Headers, NEW box, NEW k,
           CShaped(CSource(h, CText(h, msg)), box, k)
    PROVE  C!Authentic(g, box) <=> g = h /\ box = CBox(h, msg)
<1> DEFINE x == CSource(h, CText(h, msg))
           n == Len(msg)
           ct == SubSeq(box, 1, k - TagSize)
           tag == SubSeq(box, Len(box) - TagSize + 1, Len(box))
           y == CSource(g, ct)
<1>1. k \in Nat /\ Len(box) = k /\ n \in Nat /\ TagSize \in Nat \ {0} /\ Array(box, k)
  BY CConstants, CParts, ArrayLen DEF CShaped, Array
<1>2. C!Authentic(g, box) <=> k >= TagSize /\ CTag(y) = tag
  <2>1. \A otk, in : C!poly1305(otk, in) = CTag(<<otk, in>>)
    BY DEF C!poly1305, C!BytesOf, C!Atom, CTag
  <2>2. C!poly1305(C!OneTimeKey(g), C!MacInput(g.ad, ct)) = CTag(y)
    BY <2>1, CKey DEF CSource
  <2> QED BY <1>1, <2>2 DEF C!Authentic, C!First, C!Last
<1>3. k >= TagSize =>
        /\ Array(ct, k - TagSize) /\ Array(tag, TagSize)
        /\ tag[1] = box[k - TagSize + 1]
        /\ Joined(box, ct, k - TagSize, tag, TagSize)
  <2> SUFFICES ASSUME k >= TagSize
               PROVE  /\ Array(ct, k - TagSize) /\ Array(tag, TagSize)
                      /\ tag[1] = box[k - TagSize + 1]
                      /\ Joined(box, ct, k - TagSize, tag, TagSize)
    OBVIOUS
  <2>1. k - TagSize \in Nat /\ k - TagSize <= k /\ 1 \in 1 .. TagSize
    BY <1>1
  <2>2. Array(ct, k - TagSize)
    BY <1>1, <2>1, ArrayEnds
  <2>3. Array(tag, TagSize) /\ \A i \in 1 .. TagSize : tag[i] = box[k - TagSize + i]
    BY <1>1, ArrayEnds
  <2>4. box = ct \o tag
    BY <1>1, ArrayHalves
  <2> HIDE DEF ct, tag
  <2>5. Joined(ct \o tag, ct, k - TagSize, tag, TagSize)
    BY <2>2, <2>3, ArrayJoin
  <2>6. Joined(box, ct, k - TagSize, tag, TagSize)
    BY <2>4, <2>5
  <2> QED BY <2>1, <2>2, <2>3, <2>6
<1>4. /\ Array(CText(h, msg), n) /\ Array(CTag(x), TagSize)
      /\ Joined(CBox(h, msg), CText(h, msg), n, CTag(x), TagSize)
  BY CParts
<1>5. ASSUME C!Authentic(g, box)
      PROVE  g = h /\ box = CBox(h, msg)
  <2>1. k >= TagSize /\ CTag(y) = tag
    BY <1>2, <1>5
  <2>2. x = y
    <3>1. CTag(y)[1] = {<<"tag", y, 1>>}
      BY <1>1 DEF CTag
    <3>2. box[k - TagSize + 1] = {<<"tag", y, 1>>}
      BY <1>3, <2>1, <3>1
    <3>3. CSafe(x, box[k - TagSize + 1])
      BY <1>1, <2>1 DEF CShaped
    <3> HIDE DEF x, y
    <3>4. <<"tag", y, 1>> \in box[k - TagSize + 1]
      BY <3>2
    <3> QED BY <3>3, <3>4 DEF CSafe
  <2>3. g = h /\ ct = CText(h, msg)
    <3>1. CSource(g, ct) = CSource(h, CText(h, msg))
      BY <2>2
    <3> HIDE DEF ct, x, y, n
    <3>2. Array(ct, k - TagSize) /\ Array(CText(h, msg), n)
      BY <1>3, <1>4, <2>1
    <3> QED BY <3>1, <3>2, CSourceTells
  <2>4. box = ct \o tag
    BY <1>1, <2>1, ArrayHalves
  <2> QED BY <2>1, <2>2, <2>3, <2>4 DEF CBox
<1>6. ASSUME g = h, box = CBox(h, msg)
      PROVE  C!Authentic(g, box)
  <2>1. k = n + TagSize
    BY <1>1, <1>4, <1>6, ArrayLen DEF Joined
  <2>2. k >= TagSize
    BY <1>1, <2>1
  <2>3. ct = CText(h, msg) /\ tag = CTag(x)
    <3> HIDE DEF ct, tag, x, n
    <3>1. Joined(box, CText(h, msg), n, CTag(x), TagSize)
      BY <1>4, <1>6
    <3> QED BY <1>3, <1>4, <2>2, <3>1, JoinedTells
  <2> QED BY <1>2, <1>6, <2>2, <2>3
<1> QED BY <1>5, <1>6

\* The receiver's buffer has room for every message.
LEMMA CBuffer ==
    ASSUME C!LengthAssumption
    PROVE  /\ C!BufSize \in Nat
           /\ \A msg \in ChaChaMessages : Len(msg) <= C!BufSize
           /\ Array(C!Stale, C!BufSize)
           /\ \A i \in 1 .. C!BufSize : Foreign(C!Stale[i])
<1> DEFINE T == {Len(m) : m \in ChaChaMessages}
           l == C!Longest
<1>1. T \subseteq Nat /\ T # {} /\ UintRadix \in Nat /\ \A x \in T : x <= UintRadix
  <2>1. ChaChaMessages # {} /\ UintRadix \in Nat /\ MacBlock \in Nat /\ TagSize \in Nat
    BY CConstants DEF C!LengthAssumption
  <2>2. \A m \in ChaChaMessages : Len(m) \in Nat /\ Len(m) + MacBlock + TagSize < UintRadix
    BY CStrings
  <2>3. \A m \in ChaChaMessages : Len(m) \in Nat /\ Len(m) <= UintRadix
    BY <2>1, <2>2
  <2> QED BY <2>1, <2>3
<1>2. \E x \in T : \A y \in T : y <= x
  <2> HIDE DEF T
  <2> QED BY <1>1, GreatestNumber
<1>3. l \in T /\ \A m \in ChaChaMessages : Len(m) <= l
  <2>1. \E x \in T : \A m \in ChaChaMessages : Len(m) <= x
    BY <1>2
  <2>2. l = CHOOSE x \in T : \A m \in ChaChaMessages : Len(m) <= x
    BY DEF C!Longest
  <2> HIDE DEF l, T
  <2> QED BY <2>1, <2>2
<1>4. l \in Nat
  BY <1>1, <1>3
<1> HIDE DEF l
<1>5. C!BufSize \in Nat /\ l <= C!BufSize
  BY <1>4, CConstants DEF C!BufSize, l
<1>6. \A m \in ChaChaMessages : Len(m) <= C!BufSize
  BY <1>3, <1>4, <1>5, CStrings
<1> DEFINE k == C!BufSize
<1>7. C!Stale = [i \in 1 .. k |-> {<<"stale", 0, i>>}]
  BY DEF C!Stale, C!BytesOf, C!Atom
<1>8. k \in Nat
  BY <1>5
<1> HIDE DEF k
<1>9. Array(C!Stale, k) /\ \A i \in 1 .. k : C!Stale[i] = {<<"stale", 0, i>>}
  BY <1>7, <1>8 DEF Array
<1>10. \A i \in 1 .. k : Foreign({<<"stale", 0, i>>})
  BY DEF Foreign
<1> QED BY <1>5, <1>6, <1>9, <1>10 DEF k

\* There is a call.
LEMMA CNoCall ==
    ASSUME C!LengthAssumption
    PROVE  C!NoCall \in [header : C!Headers, msg : ChaChaMessages]
<1>1. C!Headers # {} /\ ChaChaMessages # {}
  <2>1. PICK x \in NonceWords, y \in Ads : ChaChaMessages # {}
    BY DEF C!LengthAssumption
  <2>2. [kind |-> "chacha", hi |-> x, lo |-> x, ad |-> y] \in C!Headers
    BY <2>1 DEF C!Headers
  <2> QED BY <2>1, <2>2
<1>2. \E s \in [header : C!Headers, msg : ChaChaMessages] : TRUE
  <2>1. PICK h \in C!Headers, m \in ChaChaMessages : TRUE
    BY <1>1
  <2>2. [header |-> h, msg |-> m] \in [header : C!Headers, msg : ChaChaMessages]
    BY <2>1
  <2> QED BY <2>2
<1>3. C!NoCall = CHOOSE s \in [header : C!Headers, msg : ChaChaMessages] : TRUE
  BY DEF C!NoCall
<1> QED BY <1>2, <1>3

\* What was sent is between the two; what reaches the receiver has no atoms of
\* any other tag; and a rejection has given nothing out.
CWire(s) == CBox(s.header, s.msg)
CKnown(s) == CSource(s.header, CText(s.header, s.msg))

CInv ==
    /\ verdict \in {"idle", "sent", "accepted", "rejected"}
    /\ sent \in [header : C!Headers, msg : ChaChaMessages]
    /\ wire.header \in C!Headers /\ given.header \in C!Headers
    /\ given = [header |-> given.header, box |-> given.box]
    /\ verdict # "idle" =>
          /\ wire = [header |-> sent.header, box |-> CWire(sent)]
          /\ CShaped(CKnown(sent), given.box, Len(given.box))
    /\ Array(dst, C!BufSize)
    /\ verdict \in {"idle", "sent"} => dst = C!Stale
    /\ verdict = "rejected" => \A i \in 1 .. C!BufSize : Foreign(dst[i])

\* The invariant of ChaCha20-Poly1305 holds at first.
LEMMA CInit ==
    ASSUME C!LengthAssumption, C!Init
    PROVE  CInv
<1>1. C!NoCall.header \in C!Headers
  BY CNoCall
<1>2. verdict = "idle" /\ sent = C!NoCall /\ dst = C!Stale
      /\ wire = [header |-> C!NoCall.header, box |-> <<>>] /\ given = wire
  BY DEF C!Init, C!NoBox
<1> QED BY <1>1, <1>2, CNoCall, CBuffer DEF CInv

\* What the wire carries is of the shape the receiver relies on,
LEMMA CWireShaped ==
    ASSUME C!LengthAssumption, NEW s \in [header : C!Headers, msg : ChaChaMessages]
    PROVE  /\ Array(CWire(s), Len(s.msg) + TagSize)
           /\ Len(CWire(s)) = Len(s.msg) + TagSize
           /\ \A i \in 1 .. Len(s.msg) + TagSize : CStrong(CKnown(s), CWire(s)[i])
           /\ CShaped(CKnown(s), CWire(s), Len(s.msg) + TagSize)
<1>1. s.msg \in ChaChaMessages
  OBVIOUS
<1>2. /\ Array(CWire(s), Len(s.msg) + TagSize)
      /\ \A i \in 1 .. Len(s.msg) + TagSize : CStrong(CKnown(s), CWire(s)[i])
  BY <1>1, CBoxBytes DEF CWire, CKnown
<1>3. Len(CWire(s)) = Len(s.msg) + TagSize
  BY <1>2, ArrayLen
<1> QED BY <1>2, <1>3 DEF CShaped, CStrong

\* and stays so: with a wrong byte,
LEMMA CFlipped ==
    ASSUME NEW x, NEW w, NEW n, Array(w, n), \A i \in 1 .. n : CStrong(x, w[i]),
           NEW box \in C!Flipped(w)
    PROVE  CShaped(x, box, n)
<1>1. Len(w) = n /\ n \in Nat
  BY ArrayLen DEF Array
<1>2. PICK p \in 1 .. n : box = [w EXCEPT ![p] = C!Xor(w[p], {C!Atom("error", 0, 0)})]
  BY <1>1 DEF C!Flipped
<1> DEFINE e == C!Atom("error", 0, 0)
           b == C!Xor(w[p], {e})
<1>3. CSafe(x, b)
  <2>1. e[1] = "error"
    BY DEF C!Atom
  <2> HIDE DEF e
  <2>2. b = (w[p] \ {e}) \cup ({e} \ w[p])
    BY DEF C!Xor
  <2>3. CStrong(x, w[p])
    OBVIOUS
  <2>4. PICK a \in w[p] : a[1] \in {"stream", "tag"}
    BY <2>3 DEF CStrong
  <2>5. a # e
    BY <2>1, <2>4
  <2>6. a \in b /\ a[1] # "msg"
    BY <2>2, <2>4, <2>5
  <2> HIDE DEF b
  <2> QED BY <2>1, <2>2, <2>3, <2>6 DEF CStrong, CSafe, Foreign
<1> HIDE DEF b, e
<1>4. w = [i \in 1 .. n |-> w[i]]
  BY DEF Array
<1>5. box = [i \in 1 .. n |-> IF i = p THEN b ELSE w[i]]
  BY <1>2, <1>4 DEF b, e
<1>6. Array(box, n)
  BY <1>1, <1>5 DEF Array
<1>7. \A i \in 1 .. n : CSafe(x, box[i])
  BY <1>3, <1>5 DEF CStrong
<1> QED BY <1>6, <1>7 DEF CShaped

\* with bytes missing,
LEMMA CShortened ==
    ASSUME NEW x, NEW w, NEW n, CShaped(x, w, n), NEW box \in C!Shortened(w)
    PROVE  \E k : CShaped(x, box, k)
<1>1. Array(w, n) /\ Len(w) = n /\ n \in Nat
  BY ArrayLen DEF Array, CShaped
<1>2. PICK i \in {1, 2}, j \in 0 .. n : box = SubSeq(w, i, j)
  BY <1>1 DEF C!Shortened
<1>3. CASE i <= j
  <2> DEFINE o == i - 1
             v == j - o
  <2>1. o \in Nat /\ v \in Nat /\ o + v <= n /\ o + 1 = i /\ o + v = j
    BY <1>1, <1>2, <1>3
  <2> HIDE DEF o, v
  <2>2. Array(SubSeq(w, o + 1, o + v), v) /\ \A y \in 1 .. v : SubSeq(w, o + 1, o + v)[y] = w[o + y]
    BY <1>1, <2>1, ArrayPart
  <2>3. Array(box, v) /\ \A y \in 1 .. v : box[y] = w[o + y]
    BY <1>2, <2>1, <2>2
  <2>4. \A y \in 1 .. v : o + y \in 1 .. n
    BY <1>1, <2>1
  <2>5. CShaped(x, box, v)
    BY <2>3, <2>4 DEF CShaped
  <2> QED BY <2>5
<1>4. CASE ~(i <= j)
  <2> DEFINE S == {w[y] : y \in 1 .. n}
  <2>1. w \in Seq(S)
    BY <1>1, ArrayLen
  <2> HIDE DEF S
  <2>2. box = << >>
    BY <1>1, <1>2, <1>4, <2>1
  <2>3. CShaped(x, box, 0)
    BY <2>2 DEF CShaped, Array
  <2> QED BY <2>3
<1> QED BY <1>3, <1>4

\* or behind something that is safe.
LEMMA CShapedJoin ==
    ASSUME NEW x, NEW s, NEW n, CShaped(x, s, n), NEW t, NEW m, CShaped(x, t, m)
    PROVE  CShaped(x, s \o t, n + m)
<1> DEFINE c == s \o t
<1>1. Joined(c, s, n, t, m)
  BY ArrayJoin DEF CShaped
<1> HIDE DEF c
<1>2. \A i \in 1 .. n : CSafe(x, c[i])
  BY <1>1 DEF CShaped, Joined
<1>3. \A i \in 1 .. m : CSafe(x, c[n + i])
  BY <1>1 DEF CShaped, Joined
<1>4. \A i \in 1 .. n + m : CSafe(x, c[i])
  <2>1. n \in Nat /\ m \in Nat
    BY <1>1 DEF Joined
  <2>2. \A i \in 1 .. n + m : i \in 1 .. n \/ (i - n \in 1 .. m /\ n + (i - n) = i)
    BY <2>1
  <2> QED BY <1>2, <1>3, <2>2
<1> QED BY <1>1, <1>4 DEF CShaped, Joined, c

\* What arrives with a byte more is shaped like a box.
LEMMA CLengthened ==
    ASSUME NEW x, NEW w, NEW n, CShaped(x, w, n), TagSize \in Nat, TagSize <= n,
           NEW box \in C!Lengthened(w)
    PROVE  \E k : CShaped(x, box, k)
<1>1. Array(w, n) /\ Len(w) = n /\ n \in Nat
  BY ArrayLen DEF Array, CShaped
<1> DEFINE s == SubSeq(w, 1, n - TagSize)
           t == SubSeq(w, Len(w) - TagSize + 1, Len(w))
           z == << Zero >>
           o == n - TagSize
<1>2. box = (s \o z) \o t
  BY <1>1 DEF C!Lengthened, C!First, C!Last, C!Zero, Zero
<1>3. o \in Nat /\ o <= n
  BY <1>1
<1>4. Array(s, o) /\ \A i \in 1 .. o : s[i] = w[i]
  BY <1>1, <1>3, ArrayEnds
<1>5. Array(t, TagSize) /\ \A i \in 1 .. TagSize : t[i] = w[o + i]
  BY <1>1, ArrayEnds
<1>6. CShaped(x, z, 1)
  BY DEF CShaped, Array, CSafe, Foreign, Zero
<1> HIDE DEF s, t, z
<1>7. CShaped(x, s, o) /\ CShaped(x, t, TagSize)
  <2>1. \A i \in 1 .. o : i \in 1 .. n
    BY <1>1, <1>3
  <2>2. \A i \in 1 .. TagSize : o + i \in 1 .. n
    BY <1>1, <1>3
  <2> HIDE DEF o
  <2> QED BY <1>4, <1>5, <2>1, <2>2 DEF CShaped
<1>8. CShaped(x, s \o z, o + 1)
  BY <1>6, <1>7, CShapedJoin
<1> HIDE DEF o
<1> DEFINE sz == s \o z
<1>9. CShaped(x, sz, o + 1)
  BY <1>8
<1> HIDE DEF sz
<1>10. CShaped(x, sz \o t, (o + 1) + TagSize)
  BY <1>7, <1>9, CShapedJoin
<1> QED BY <1>2, <1>10 DEF sz

\* The last byte of additional data is safe.
LEMMA CLastByte ==
    ASSUME C!LengthAssumption, NEW x, NEW ad \in Ads, ad # <<>>
    PROVE  CShaped(x, C!Last(ad, 1), 1)
<1> DEFINE n == Len(ad)
<1>1. n \in Nat /\ Array(ad, n) /\ \A i \in 1 .. n : \A a \in ad[i] : a[1] = "ad"
  BY CStrings
<1> HIDE DEF n
<1>2. n # 0
  BY <1>1, ArrayEmpty
<1>3. C!Last(ad, 1) = SubSeq(ad, Len(ad) - 1 + 1, Len(ad))
  BY DEF C!Last
<1> DEFINE t == SubSeq(ad, Len(ad) - 1 + 1, Len(ad))
           v == 2 - 1
<1>4. Array(t, 1) /\ \A i \in 1 .. 1 : t[i] = ad[n - 1 + i]
  <2>1. v = 1 /\ v \in Nat /\ v <= n
    BY <1>1, <1>2
  <2> HIDE DEF v
  <2>2. /\ Array(SubSeq(ad, Len(ad) - v + 1, Len(ad)), v)
        /\ \A i \in 1 .. v : SubSeq(ad, Len(ad) - v + 1, Len(ad))[i] = ad[n - v + i]
    BY <1>1, <2>1, ArrayEnds
  <2> QED BY <2>1, <2>2
<1> HIDE DEF t
<1>5. t[1] = ad[n]
  BY <1>1, <1>4
<1>6. CSafe(x, ad[n])
  <2>1. \A a \in ad[n] : a[1] = "ad"
    BY <1>1, <1>2
  <2> QED BY <2>1 DEF CSafe, Foreign, Zero
<1>7. CShaped(x, t, 1)
  BY <1>4, <1>5, <1>6 DEF CShaped
<1> QED BY <1>3, <1>7 DEF t

\* Encryption keeps the invariant.
LEMMA CSeal ==
    ASSUME C!LengthAssumption, CInv, NEW h \in C!Headers, NEW msg \in ChaChaMessages,
           C!Seal(h, msg)
    PROVE  CInv'
<1>1. /\ verdict = "idle" /\ verdict' = "sent" /\ dst' = dst
      /\ sent' = [header |-> h, msg |-> msg]
      /\ wire' = [header |-> h, box |-> C!Encrypted(h, msg)]
      /\ given' = wire'
  BY DEF C!Seal
<1>2. sent' \in [header : C!Headers, msg : ChaChaMessages]
  BY <1>1
<1>3. wire' = [header |-> sent'.header, box |-> CWire(sent')]
  BY <1>1, CEncrypted DEF CWire
<1>4. CShaped(CKnown(sent'), CWire(sent'), Len(CWire(sent')))
  BY <1>2, CWireShaped
<1>5. given' = [header |-> h, box |-> CWire(sent')]
  BY <1>1, <1>3
<1>6. Array(dst', C!BufSize) /\ dst' = C!Stale
  BY <1>1 DEF CInv
<1> QED BY <1>1, <1>2, <1>3, <1>4, <1>5, <1>6 DEF CInv

\* Whatever arrives keeps the invariant.
LEMMA CArrive ==
    ASSUME C!LengthAssumption, CInv, C!Arrive
    PROVE  CInv'
<1> DEFINE x == CKnown(sent)
           w == CWire(sent)
           n == Len(sent.msg) + TagSize
<1>1. verdict = "sent" /\ sent' = sent /\ wire' = wire /\ verdict' = verdict /\ dst' = dst
  BY DEF C!Arrive
<1>2. sent \in [header : C!Headers, msg : ChaChaMessages] /\ wire = [header |-> sent.header, box |-> w]
  BY <1>1 DEF CInv
<1>3. CShaped(x, w, n) /\ Array(w, n) /\ Len(w) = n /\ (\A i \in 1 .. n : CStrong(x, w[i]))
  BY <1>2, CWireShaped
<1>4. TagSize \in Nat /\ TagSize <= n
  <2>1. TagSize \in Nat /\ Len(sent.msg) \in Nat
    BY <1>2, CConstants, CStrings
  <2> QED BY <2>1
<1>5. sent.header \in C!Headers /\ sent.header.ad \in Ads
  BY <1>2 DEF C!Headers
<1> HIDE DEF x, w, n
<1>6. \E g \in C!Headers : \E box, k : given' = [header |-> g, box |-> box] /\ CShaped(x, box, k)
  <2>1. ASSUME NEW box \in C!Flipped(wire.box) \cup C!Shortened(wire.box) \cup C!Lengthened(wire.box),
               given' = [wire EXCEPT !.box = box]
        PROVE  \E g \in C!Headers : \E bx, k : given' = [header |-> g, box |-> bx] /\ CShaped(x, bx, k)
    <3>1. given' = [header |-> sent.header, box |-> box]
      BY <1>2, <2>1
    <3>2. wire.box = w
      BY <1>2
    <3>3. \E k : CShaped(x, box, k)
      <4>1. CASE box \in C!Flipped(w)
        BY <1>3, <4>1, CFlipped
      <4>2. CASE box \in C!Shortened(w)
        BY <1>3, <4>2, CShortened
      <4>3. CASE box \in C!Lengthened(w)
        BY <1>3, <1>4, <4>3, CLengthened
      <4> QED BY <2>1, <3>2, <4>1, <4>2, <4>3
    <3> QED BY <1>5, <3>1, <3>3
  <2>2. ASSUME NEW g \in C!Headers, given' = [wire EXCEPT !.header = g]
        PROVE  \E h \in C!Headers : \E bx, k : given' = [header |-> h, box |-> bx] /\ CShaped(x, bx, k)
    <3>1. given' = [header |-> g, box |-> w]
      BY <1>2, <2>2
    <3> QED BY <1>3, <3>1
  <2>3. ASSUME /\ wire.header.ad # <<>>
               /\ C!First(wire.header.ad, Len(wire.header.ad) - 1) \in Ads
               /\ given' = [header |-> [wire.header EXCEPT !.ad = C!First(@, Len(@) - 1)],
                            box |-> C!Last(wire.header.ad, 1) \o wire.box]
        PROVE  \E h \in C!Headers : \E bx, k : given' = [header |-> h, box |-> bx] /\ CShaped(x, bx, k)
    <3> DEFINE ad == sent.header.ad
               f == C!First(ad, Len(ad) - 1)
               g == [sent.header EXCEPT !.ad = f]
               l == C!Last(ad, 1)
    <3>1. given' = [header |-> g, box |-> l \o w] /\ f \in Ads /\ ad # <<>>
      BY <1>2, <2>3
    <3>2. g \in C!Headers
      <4> HIDE DEF f
      <4> QED BY <1>5, <3>1 DEF C!Headers
    <3>3. CShaped(x, l, 1)
      <4> HIDE DEF l
      <4> QED BY <1>5, <3>1, CLastByte DEF l
    <3> HIDE DEF l, g
    <3>4. CShaped(x, l \o w, 1 + n)
      BY <1>3, <3>3, CShapedJoin
    <3> QED BY <3>1, <3>2, <3>4
  <2> QED BY <2>1, <2>2, <2>3 DEF C!Arrive
<1>7. PICK g, box, k : g \in C!Headers /\ given' = [header |-> g, box |-> box] /\ CShaped(x, box, k)
  BY <1>6
<1>8. CShaped(x, box, Len(box))
  <2>1. Len(box) = k
    BY <1>7, ArrayLen DEF CShaped
  <2> QED BY <1>7, <2>1
<1>9. /\ given'.header \in C!Headers /\ given' = [header |-> given'.header, box |-> given'.box]
      /\ CShaped(CKnown(sent'), given'.box, Len(given'.box))
  BY <1>1, <1>7, <1>8 DEF x
<1> QED BY <1>1, <1>9 DEF CInv

\* The receiver's buffer before decrypt, in place or not.
CBefore(inplace) == IF inplace THEN C!Overwrite(C!Stale, given.box) ELSE C!Stale

\* What decrypt does: it accepts what encrypt wrote, gives out that message, and
\* keeps the invariant.
LEMMA COpen ==
    ASSUME C!LengthAssumption, CInv, NEW inplace \in BOOLEAN, C!Open(inplace)
    PROVE  /\ CInv'
           /\ verdict' = IF given.header = sent.header /\ given.box = CWire(sent)
                         THEN "accepted" ELSE "rejected"
           /\ verdict' = "accepted" => SubSeq(dst', 1, Len(sent.msg)) = sent.msg
<1> DEFINE b == CBefore(inplace)
           k == C!BufSize
           n == Len(sent.msg)
           yes == C!Authentic(given.header, given.box)
<1>1. /\ verdict = "sent" /\ sent' = sent /\ wire' = wire /\ given' = given
      /\ dst' = C!Decrypted(given.header, given.box, b)
      /\ verdict' = IF yes THEN "accepted" ELSE "rejected"
  BY DEF C!Open, CBefore
<1>2. /\ sent \in [header : C!Headers, msg : ChaChaMessages] /\ given.header \in C!Headers
      /\ CShaped(CKnown(sent), given.box, Len(given.box))
  BY <1>1 DEF CInv
<1>3. yes <=> given.header = sent.header /\ given.box = CWire(sent)
  <2>1. sent.header \in C!Headers /\ sent.msg \in ChaChaMessages
    BY <1>2
  <2> QED BY <1>2, <2>1, CAuthentic DEF CWire, CKnown
<1>4. k \in Nat /\ n \in Nat /\ n <= k /\ Array(C!Stale, k) /\ (\A i \in 1 .. k : Foreign(C!Stale[i]))
  BY <1>2, CBuffer, CStrings
<1>5. Array(b, k) /\ \A i \in 1 .. k : Foreign(b[i])
  <2>1. CASE inplace
    <3>1. b = [i \in 1 .. Len(C!Stale) |-> IF i <= Len(given.box) THEN given.box[i] ELSE C!Stale[i]]
      BY <2>1 DEF CBefore, C!Overwrite
    <3>2. Len(C!Stale) = k
      BY <1>4, ArrayLen
    <3> HIDE DEF k, b
    <3>3. Len(given.box) \in Nat
      BY <1>2, ArrayLen DEF CShaped, Array
    <3>4. Array(b, k)
      BY <1>4, <3>1, <3>2 DEF Array
    <3>5. ASSUME NEW i \in 1 .. k PROVE Foreign(b[i])
      <4>1. CASE i <= Len(given.box)
        <5>1. i \in 1 .. Len(given.box) /\ b[i] = given.box[i]
          BY <1>4, <3>1, <3>2, <3>3, <4>1
        <5> QED BY <1>2, <5>1 DEF CShaped, CSafe
      <4>2. CASE ~(i <= Len(given.box))
        <5>1. b[i] = C!Stale[i]
          BY <3>1, <3>2, <4>2
        <5> QED BY <1>4, <5>1
      <4> QED BY <4>1, <4>2
    <3> QED BY <3>4, <3>5
  <2>2. CASE ~inplace
    BY <1>4, <2>2 DEF CBefore
  <2> QED BY <2>1, <2>2
<1> HIDE DEF b, k, n
<1>6. CASE yes
  <2>1. given.box = CWire(sent) /\ given.header = sent.header
    BY <1>3, <1>6
  <2> DEFINE t == CText(sent.header, sent.msg)
             g == CTag(CSource(sent.header, t))
  <2>2. Joined(given.box, t, n, g, TagSize) /\ Array(t, n) /\ Array(g, TagSize)
    BY <1>2, <2>1, CParts DEF CWire, n
  <2>3. C!First(given.box, Len(given.box) - TagSize) = t
    <3> HIDE DEF t, g
    <3>1. TagSize \in Nat
      BY CConstants
    <3>2. Array(given.box, n + TagSize) /\ Len(given.box) = n + TagSize
      BY <2>2, ArrayLen DEF Joined
    <3>3. Len(given.box) - TagSize = n /\ n <= n + TagSize
      BY <1>4, <3>1, <3>2
    <3>4. Array(SubSeq(given.box, 1, n), n) /\ \A i \in 1 .. n : SubSeq(given.box, 1, n)[i] = given.box[i]
      BY <1>4, <3>2, <3>3, ArrayEnds
    <3>5. \A i \in 1 .. n : given.box[i] = t[i]
      BY <2>2 DEF Joined
    <3> DEFINE f == SubSeq(given.box, 1, n)
    <3>6. Array(f, n) /\ \A i \in 1 .. n : f[i] = t[i]
      BY <3>4, <3>5
    <3> HIDE DEF f
    <3>7. f = t
      BY <2>2, <3>6, ArrayEqual
    <3> QED BY <3>3, <3>7 DEF f, C!First
  <2>4. dst' = C!Overwrite(b, sent.msg)
    <3>1. C!chacha20_crypt(C!DataState(sent.header), t) = sent.msg
      BY <1>2, CInverse
    <3> HIDE DEF t, yes
    <3>2. C!Decrypted(given.header, given.box, b) =
            C!Overwrite(b, C!chacha20_crypt(C!DataState(given.header), C!First(given.box, Len(given.box) - TagSize)))
      BY <1>6 DEF C!Decrypted, yes
    <3> QED BY <1>1, <2>1, <2>3, <3>1, <3>2
  <2>5. dst' = [i \in 1 .. k |-> IF i <= n THEN sent.msg[i] ELSE b[i]]
    <3>1. Len(b) = k
      BY <1>5, ArrayLen
    <3> QED BY <2>4, <3>1 DEF C!Overwrite, n
  <2>6. Array(dst', k) /\ \A i \in 1 .. n : dst'[i] = sent.msg[i]
    <3>1. \A i \in 1 .. n : i \in 1 .. k
      BY <1>4
    <3> QED BY <1>4, <2>5, <3>1 DEF Array
  <2>7. SubSeq(dst', 1, n) = sent.msg
    <3> DEFINE d == dst'
               f == SubSeq(d, 1, n)
    <3>1. Array(d, k) /\ \A i \in 1 .. n : d[i] = sent.msg[i]
      BY <2>6
    <3> HIDE DEF d
    <3>2. Array(f, n) /\ \A i \in 1 .. n : f[i] = d[i]
      BY <1>4, <3>1, ArrayEnds
    <3> HIDE DEF f
    <3>3. Array(sent.msg, n)
      BY <1>2, CStrings DEF n
    <3>4. f = sent.msg
      BY <3>1, <3>2, <3>3, ArrayEqual
    <3> QED BY <3>4 DEF f, d
  <2>8. verdict' = "accepted"
    BY <1>1, <1>6
  <2>9. CInv'
    BY <1>1, <2>6, <2>8 DEF CInv, k
  <2> QED BY <1>3, <1>6, <2>7, <2>8, <2>9 DEF n
<1>7. CASE ~yes
  <2>1. verdict' = "rejected"
    BY <1>1, <1>7
  <2>2. dst' = b
    BY <1>1, <1>7 DEF C!Decrypted
  <2>3. CInv'
    BY <1>1, <1>5, <2>1, <2>2 DEF CInv, k
  <2> QED BY <1>3, <1>7, <2>1, <2>3
<1> QED BY <1>6, <1>7

\* Every step of ChaCha20-Poly1305 keeps the invariant.
LEMMA CNext ==
    ASSUME C!LengthAssumption, CInv, C!Next
    PROVE  CInv'
<1>1. ASSUME C!Finish PROVE CInv'
  <2>1. C!NoCall.header \in C!Headers
    BY CNoCall
  <2>2. verdict' = "idle" /\ sent' = C!NoCall /\ dst' = C!Stale
        /\ wire' = [header |-> C!NoCall.header, box |-> <<>>] /\ given' = wire'
    BY <1>1 DEF C!Finish, C!NoBox
  <2> QED BY <2>1, <2>2, CNoCall, CBuffer DEF CInv
<1> QED BY <1>1, CSeal, CArrive, COpen DEF C!Next

\* What it says of the buffer and of a rejection.
LEMMA CSafety ==
    ASSUME C!LengthAssumption, CInv
    PROVE  C!TypeOK /\ C!NothingReleased
<1>1. /\ sent \in [header : C!Headers, msg : ChaChaMessages]
      /\ wire.header \in C!Headers /\ given.header \in C!Headers
      /\ verdict \in {"idle", "sent", "accepted", "rejected"}
      /\ Array(dst, C!BufSize)
  BY DEF CInv
<1>2. Len(dst) = C!BufSize
  BY <1>1, ArrayLen
<1>3. verdict = "idle" \/ Len(wire.box) = Len(sent.msg) + TagSize
  <2> SUFFICES ASSUME verdict # "idle" PROVE Len(wire.box) = Len(sent.msg) + TagSize
    OBVIOUS
  <2>1. wire.box = CWire(sent)
    BY DEF CInv
  <2> QED BY <1>1, <2>1, CWireShaped
<1>4. C!NothingReleased
  <2> SUFFICES ASSUME verdict = "rejected", NEW i \in 1 .. C!BufSize, NEW j \in 1 .. Len(sent.msg),
                      dst[i] = sent.msg[j]
               PROVE  dst[i] = Zero
    BY DEF C!NothingReleased, C!Zero, Zero
  <2>1. Foreign(dst[i])
    BY DEF CInv
  <2>2. \A a \in sent.msg[j] : a[1] = "msg"
    BY <1>1, CStrings
  <2> QED BY <2>1, <2>2 DEF Foreign
<1> QED BY <1>1, <1>2, <1>3, <1>4 DEF C!TypeOK

\* ChaCha20-Poly1305 implements authenticated encryption.
LEMMA CImplements ==
    ASSUME C!LengthAssumption, unit = "chacha20poly1305", CInv, C!Next, unit' = unit
    PROVE  Abstract!Next
<1>0. "chacha20poly1305" # "mgm"
  OBVIOUS
<1> DEFINE T(x) == [x EXCEPT !.header = <<unit, x.header>>]
<1>1. /\ Tagged(sent) = T(sent) /\ Tagged(given) = T(given)
      /\ Tagged(sent)' = T(sent') /\ Tagged(given)' = T(given')
  BY <1>0 DEF Tagged
<1>2. \A h, y : /\ T([header |-> h, box |-> y]) = [header |-> <<unit, h>>, box |-> y]
                /\ T([header |-> h, msg |-> y]) = [header |-> <<unit, h>>, msg |-> y]
  OBVIOUS
<1>3. sent \in [header : C!Headers, msg : ChaChaMessages]
  BY DEF CInv
<1>4. ASSUME NEW h \in C!Headers, NEW msg \in ChaChaMessages
      PROVE  RefBox(<<unit, h>>, msg) = CBox(h, msg)
  <2>1. RefBox(<<unit, h>>, msg) = C!RefBox(h, msg)
    BY DEF RefBox
  <2> QED BY <2>1, CReference
<1> HIDE DEF T
<1>5. ASSUME NEW h \in C!Headers, NEW msg \in ChaChaMessages, C!Seal(h, msg)
      PROVE  Abstract!Seal
  <2>1. verdict = "idle" /\ verdict' = "sent"
        /\ sent' = [header |-> h, msg |-> msg]
        /\ given' = [header |-> h, box |-> CBox(h, msg)]
    BY <1>5, CEncrypted DEF C!Seal
  <2>2. /\ Tagged(sent)' = [header |-> <<unit, h>>, msg |-> msg]
        /\ Tagged(given)' = [header |-> <<unit, h>>, box |-> CBox(h, msg)]
    BY <1>1, <1>2, <2>1
  <2>3. <<unit, h>> \in AllHeaders /\ msg \in (ChaChaMessages \cup MgmMessages) \cup E!Messages
    BY DEF AllHeaders
  <2> QED BY <1>4, <2>1, <2>2, <2>3 DEF Abstract!Seal, Abstract!SealedBy, Abstract!Sent
<1>6. ASSUME C!Arrive PROVE Abstract!Arrive
  <2>1. verdict = "sent" /\ sent' = sent /\ verdict' = verdict /\ dst' = dst
    BY <1>6 DEF C!Arrive
  <2>2. Tagged(sent)' = Tagged(sent)
    BY <1>1, <2>1
  <2> QED BY <2>1, <2>2 DEF Abstract!Arrive
<1>7. ASSUME NEW inplace \in BOOLEAN, C!Open(inplace) PROVE Abstract!Open
  <2>1. verdict = "sent" /\ sent' = sent /\ given' = given
    BY <1>7 DEF C!Open
  <2>2. /\ verdict' = IF given.header = sent.header /\ given.box = CWire(sent)
                      THEN "accepted" ELSE "rejected"
        /\ verdict' = "accepted" => SubSeq(dst', 1, Len(sent.msg)) = sent.msg
    BY <1>7, COpen
  <2>3. Tagged(sent)' = Tagged(sent) /\ Tagged(given)' = Tagged(given)
    BY <1>1, <2>1
  <2> DEFINE h == sent.header
             m == sent.msg
             g == given.header
             y == given.box
  <2>4. sent = [header |-> h, msg |-> m] /\ given = [header |-> g, box |-> y]
        /\ h \in C!Headers /\ m \in ChaChaMessages
    BY <1>3 DEF CInv
  <2>5. CWire(sent) = CBox(h, m)
    BY DEF CWire
  <2> HIDE DEF h, m, g, y
  <2>6. Tagged(sent) = [header |-> <<unit, h>>, msg |-> m] /\ Tagged(given) = [header |-> <<unit, g>>, box |-> y]
    BY <1>1, <1>2, <2>4
  <2>7. Abstract!SealedBy(Tagged(sent)) = [header |-> <<unit, h>>, box |-> CBox(h, m)]
    BY <1>4, <2>4, <2>6 DEF Abstract!SealedBy
  <2>8. Tagged(given) = Abstract!SealedBy(Tagged(sent)) <=> g = h /\ y = CBox(h, m)
    BY <2>6, <2>7
  <2>9. verdict' = IF Tagged(given) = Abstract!SealedBy(Tagged(sent)) THEN "accepted" ELSE "rejected"
    BY <2>2, <2>5, <2>8 DEF h, g, y
  <2>10. Tagged(sent).msg = sent.msg
    BY <2>6 DEF m
  <2> QED BY <2>1, <2>2, <2>3, <2>9, <2>10 DEF Abstract!Open
<1>8. ASSUME C!Finish PROVE Abstract!Finish
  BY <1>8 DEF C!Finish, Abstract!Finish
<1> QED BY <1>5, <1>6, <1>7, <1>8 DEF C!Next, Abstract!Next

-----------------------------------------------------------------------------
(***************************************************************************)
(* KExp15 and KImp15.                                                      *)
(***************************************************************************)

\* The MAC of a key, what is encrypted, the key stream, and what is written.
EMac(h, k) == [p \in 1 .. MacSize |-> {<<"omac", <<h.mac_key, h.iv \o k>>, p>>}]
EIn(h, k) == k \o EMac(h, k)
EStream(h, p) == {<<"stream", <<h.enc_key, h.iv>>, p>>}
EBox(h, k) == [p \in 1 .. KeySize + MacSize |-> Xor(EIn(h, k)[p], EStream(h, p))]

\* The sizes and strings of KExp15.
LEMMA EConstants ==
    ASSUME E!SizeAssumption
    PROVE  /\ KeySize \in Nat \ {0} /\ MacSize \in Nat \ {0}
           /\ \A v \in IvBytes, w \in IvBytes :
                 Len(v) \in Nat /\ Array(v, Len(v)) /\ Len(v) = Len(w)
           /\ \A k \in E!Messages : Array(k, KeySize)
<1>1. \A kind, s : E!MadeOf(kind, s) <=> MadeOf(kind, s)
  BY DEF E!MadeOf, MadeOf
<1>2. /\ KeySize \in Nat \ {0} /\ MacSize \in Nat \ {0}
      /\ \A v \in IvBytes : E!MadeOf("iv", v)
      /\ \A v \in IvBytes, w \in IvBytes : Len(v) = Len(w)
  BY DEF E!SizeAssumption
<1>3. \A v \in IvBytes : Len(v) \in Nat /\ Array(v, Len(v))
  BY <1>1, <1>2, MadeArray
<1>4. \A k \in E!Messages : Array(k, KeySize)
  <2> SUFFICES ASSUME NEW k \in E!Messages PROVE Array(k, KeySize)
    OBVIOUS
  <2>1. PICK u : k = [i \in 1 .. KeySize |-> {<<"key", u, i>>}]
    BY DEF E!Messages, E!BytesOf, E!Atom
  <2> QED BY <1>2, <2>1 DEF Array
<1> QED BY <1>2, <1>3, <1>4

\* What is encrypted.
LEMMA EParts ==
    ASSUME E!SizeAssumption, NEW h, NEW k \in E!Messages
    PROVE  /\ Array(k, KeySize) /\ Array(EMac(h, k), MacSize)
           /\ Joined(EIn(h, k), k, KeySize, EMac(h, k), MacSize)
           /\ Array(EBox(h, k), KeySize + MacSize)
<1>1. KeySize \in Nat /\ MacSize \in Nat /\ Array(k, KeySize)
  BY EConstants
<1> DEFINE m == EMac(h, k)
<1>2. Array(m, MacSize)
  BY <1>1 DEF EMac, Array
<1> HIDE DEF m
<1>3. Joined(k \o m, k, KeySize, m, MacSize)
  BY <1>1, <1>2, ArrayJoin
<1>4. Array(EBox(h, k), KeySize + MacSize)
  <2>1. KeySize + MacSize \in Nat
    BY <1>1
  <2> QED BY <2>1 DEF EBox, Array
<1> QED BY <1>1, <1>2, <1>3, <1>4 DEF EIn, m

\* Counter mode adds the key stream, byte by byte.
LEMMA ECtr ==
    ASSUME NEW h, NEW s, NEW n, Array(s, n)
    PROVE  E!ctr(h.enc_key, h.iv, s) = [p \in 1 .. n |-> Xor(s[p], EStream(h, p))]
<1>1. Len(s) = n
  BY ArrayLen
<1>2. E!ctr(h.enc_key, h.iv, s)
        = [p \in 1 .. n |-> E!Xor(s[p], [q \in 1 .. n |-> {<<"stream", <<h.enc_key, h.iv>>, q>>}][p])]
  BY <1>1 DEF E!ctr, E!XorBytes, E!BytesOf, E!Atom
<1>3. \A p \in 1 .. n : [q \in 1 .. n |-> {<<"stream", <<h.enc_key, h.iv>>, q>>}][p] = EStream(h, p)
  BY DEF EStream
<1>4. E!ctr(h.enc_key, h.iv, s) = [p \in 1 .. n |-> E!Xor(s[p], EStream(h, p))]
  BY <1>2, <1>3
<1> QED BY <1>4, XorBasics

\* What kexp15 writes, and that it is what RFC 9189 has.
LEMMA EExported ==
    ASSUME E!SizeAssumption, NEW h, NEW k \in E!Messages
    PROVE  E!Exported(h, k) = EBox(h, k) /\ E!RefBox(h, k) = EBox(h, k)
<1>1. Array(EIn(h, k), KeySize + MacSize)
  BY EParts DEF Joined
<1>2. k \o E!omac(h.mac_key, h.iv \o k) = EIn(h, k)
  BY DEF E!omac, E!BytesOf, E!Atom, EIn, EMac
<1>3. E!Exported(h, k) = EBox(h, k)
  BY <1>1, <1>2, ECtr DEF E!Exported, EBox
<1>4. E!RefBox(h, k) = [p \in 1 .. KeySize + MacSize |-> E!Xor(EIn(h, k)[p], EStream(h, p))]
  BY DEF E!RefBox, E!Atom, EIn, EMac, EStream
<1>5. E!RefBox(h, k) = EBox(h, k)
  BY <1>4, XorBasics DEF EBox
<1> QED BY <1>3, <1>5

(***************************************************************************)
(* What reaches the receiver: the box with errors in some bytes.           *)
(***************************************************************************)
EShaped(box, s) ==
    /\ Array(box, KeySize + MacSize)
    /\ \A p \in 1 .. KeySize + MacSize :
          \E d : box[p] = Xor(EBox(s.header, s.msg)[p], d) /\ \A a \in d : a[1] = "error"

\* Of that kimp15 accepts only what was sent, and only with its keys and its iv.
LEMMA EAuthentic ==
    ASSUME E!SizeAssumption, NEW s \in [header : E!Headers, msg : E!Messages],
           NEW g \in E!Headers, NEW box, EShaped(box, s)
    PROVE  /\ E!Authentic(g, box) <=> g = s.header /\ box = EBox(s.header, s.msg)
           /\ E!Authentic(g, box) => E!First(E!Plain(g, box), KeySize) = s.msg
<1> DEFINE h == s.header
           k == s.msg
           n == KeySize + MacSize
           x == E!Plain(g, box)
           f == SubSeq(x, 1, KeySize)
           l == SubSeq(x, Len(x) - MacSize + 1, Len(x))
<1>1. h \in E!Headers /\ k \in E!Messages
  OBVIOUS
<1>2. KeySize \in Nat \ {0} /\ MacSize \in Nat \ {0} /\ n \in Nat /\ Array(k, KeySize)
      /\ KeySize <= n /\ MacSize <= n /\ n - MacSize = KeySize
  BY <1>1, EConstants
<1>3. x = [p \in 1 .. n |-> Xor(box[p], EStream(g, p))]
  BY ECtr DEF E!Plain, EShaped
<1>4. Array(x, n) /\ \A p \in 1 .. n : x[p] = Xor(box[p], EStream(g, p))
  BY <1>2, <1>3 DEF Array
<1> DEFINE mac == EMac(g, f)
<1>5. E!Authentic(g, box) <=> mac = l
  BY DEF E!Authentic, E!First, E!Last, E!omac, E!BytesOf, E!Atom, EMac
<1>6. /\ Array(EMac(h, k), MacSize)
      /\ Joined(EIn(h, k), k, KeySize, EMac(h, k), MacSize)
      /\ Array(EBox(h, k), n)
  BY <1>1, EParts
<1>7. \A p \in 1 .. n : EBox(h, k)[p] = Xor(EIn(h, k)[p], EStream(h, p))
  BY DEF EBox
<1> HIDE DEF x, h, k, n
<1>8. Array(f, KeySize) /\ \A i \in 1 .. KeySize : f[i] = x[i]
  BY <1>2, <1>4, ArrayEnds
<1>9. Array(l, MacSize) /\ \A i \in 1 .. MacSize : l[i] = x[KeySize + i]
  <2>1. MacSize \in Nat /\ MacSize <= n
    BY <1>2
  <2>2. Array(l, MacSize) /\ \A i \in 1 .. MacSize : l[i] = x[n - MacSize + i]
    BY <1>4, <2>1, ArrayEnds
  <2> QED BY <1>2, <2>2
<1>10. x = f \o l
  BY <1>2, <1>4, ArrayHalves
<1>11. Joined(x, f, KeySize, l, MacSize)
  <2> HIDE DEF f, l
  <2>1. Joined(f \o l, f, KeySize, l, MacSize)
    BY <1>8, <1>9, ArrayJoin
  <2> QED BY <1>10, <2>1
<1> HIDE DEF f, l
<1>12. Array(EMac(g, f), MacSize) /\ EMac(g, f)[1] = {<<"omac", <<g.mac_key, g.iv \o f>>, 1>>}
  BY <1>2 DEF EMac, Array
<1>13. ASSUME mac = l
       PROVE  g = h /\ box = EBox(h, k) /\ f = k
  <2> DEFINE q == KeySize + 1
             og == <<"omac", <<g.mac_key, g.iv \o f>>, 1>>
             oh == <<"omac", <<h.mac_key, h.iv \o k>>, 1>>
             sg == <<"stream", <<g.enc_key, g.iv>>, q>>
             sh == <<"stream", <<h.enc_key, h.iv>>, q>>
  <2>1. q \in 1 .. n /\ 1 \in 1 .. MacSize
    BY <1>2 DEF n
  <2>2. x[q] = {og}
    BY <1>9, <1>12, <1>13, <2>1
  <2>3. EIn(h, k)[q] = {oh}
    <3>1. EIn(h, k)[q] = EMac(h, k)[1]
      BY <1>6, <2>1 DEF Joined
    <3>2. EMac(h, k)[1] = {oh}
      BY <2>1 DEF EMac
    <3> QED BY <3>1, <3>2
  <2>4. EStream(g, q) = {sg} /\ EStream(h, q) = {sh}
    BY DEF EStream
  <2>5. PICK d : box[q] = Xor(EBox(h, k)[q], d) /\ \A a \in d : a[1] = "error"
    BY <2>1 DEF EShaped, h, k, n
  <2>6. og[1] = "omac" /\ oh[1] = "omac" /\ sg[1] = "stream" /\ sh[1] = "stream"
    OBVIOUS
  <2>7. og = oh => g.mac_key = h.mac_key /\ g.iv \o f = h.iv \o k
    OBVIOUS
  <2>8. sg = sh => g.enc_key = h.enc_key
    OBVIOUS
  <2> HIDE DEF q, og, oh, sg, sh
  <2>9. {og} = Xor(Xor(Xor({oh}, {sh}), d), {sg})
    BY <1>4, <1>7, <2>1, <2>2, <2>3, <2>4, <2>5
  <2>10. og = oh /\ sg = sh
    <3>1. "omac" # "stream" /\ "omac" # "error" /\ "stream" # "error"
      OBVIOUS
    <3>2. og # sg /\ og # sh /\ oh # sg /\ oh # sh /\ og \notin d /\ oh \notin d /\ sg \notin d /\ sh \notin d
      BY <2>5, <2>6, <3>1
    <3>3. og \in Xor(Xor(Xor({oh}, {sh}), d), {sg}) /\ (sg # sh => sg \in Xor(Xor(Xor({oh}, {sh}), d), {sg}))
      <4>1. og \in Xor(Xor(Xor({oh}, {sh}), d), {sg})
        BY <2>9
      <4>2. sg # sh => sg \in Xor(Xor(Xor({oh}, {sh}), d), {sg})
        BY <3>2 DEF Xor
      <4> QED BY <4>1, <4>2
    <3>4. og = oh
      BY <3>2, <3>3 DEF Xor
    <3>5. sg = sh
      BY <2>9, <3>2, <3>3
    <3> QED BY <3>4, <3>5
  <2>11. g.iv = h.iv /\ f = k
    <3>1. g.iv \in IvBytes /\ h.iv \in IvBytes
      BY <1>1 DEF E!Headers
    <3> DEFINE v == g.iv
               w == h.iv
               m == Len(v)
               c == v \o f
               e == w \o k
    <3>2. Array(v, m) /\ Array(w, m)
      <4>1. Len(w) = m
        BY <3>1, EConstants
      <4>2. Array(w, Len(w)) /\ Array(v, Len(v))
        BY <3>1, EConstants
      <4> QED BY <4>1, <4>2
    <3>3. c = e
      BY <2>7, <2>10
    <3> HIDE DEF v, w, m, c, e
    <3>4. Joined(c, v, m, f, KeySize)
      BY <1>8, <3>2, ArrayJoin DEF c
    <3>5. Joined(e, w, m, k, KeySize)
      BY <1>2, <3>2, ArrayJoin DEF e
    <3>6. Joined(c, w, m, k, KeySize) /\ m = m
      BY <3>3, <3>5
    <3>7. v = w /\ f = k
      BY <1>2, <1>8, <3>2, <3>4, <3>6, JoinedTells
    <3> QED BY <3>7 DEF v, w
  <2>12. g = h
    BY <1>1, <2>7, <2>8, <2>10, <2>11 DEF E!Headers
  <2>13. box = EBox(h, k)
    <3>1. x = EIn(h, k)
      <4>1. l = EMac(h, k)
        BY <1>13, <2>11, <2>12
      <4> QED BY <1>10, <2>11, <4>1 DEF EIn
    <3>2. \A p \in 1 .. n : Xor(x[p], EStream(h, p)) = box[p]
      BY <1>4, <2>12, XorBasics
    <3>3. \A p \in 1 .. n : box[p] = EBox(h, k)[p]
      BY <1>7, <3>1, <3>2
    <3>4. Array(box, n)
      BY DEF EShaped, n
    <3> QED BY <1>6, <3>3, <3>4, ArrayEqual
  <2> QED BY <2>11, <2>12, <2>13
<1>14. ASSUME g = h, box = EBox(h, k)
       PROVE  mac = l
  <2>1. \A p \in 1 .. n : x[p] = EIn(h, k)[p]
    BY <1>4, <1>7, <1>14, XorBasics
  <2>2. Array(EIn(h, k), n)
    BY <1>6 DEF Joined, n
  <2>3. x = EIn(h, k)
    BY <1>4, <2>1, <2>2, ArrayEqual
  <2>4. Joined(x, k, KeySize, EMac(h, k), MacSize)
    BY <1>6, <2>3
  <2>5. f = k /\ l = EMac(h, k)
    BY <1>2, <1>6, <1>8, <1>9, <1>11, <2>4, JoinedTells
  <2> QED BY <1>14, <2>5
<1>15. E!Authentic(g, box) <=> g = h /\ box = EBox(h, k)
  BY <1>5, <1>13, <1>14
<1>16. E!Authentic(g, box) => f = k
  BY <1>5, <1>13
<1> QED BY <1>15, <1>16 DEF f, h, k, x, E!First

\* Before the first export there is a call of some kind.
LEMMA ENoCall ==
    ASSUME E!SizeAssumption
    PROVE  E!NoCall \in [header : E!Headers, msg : E!Messages]
<1>1. \E s \in [header : E!Headers, msg : E!Messages] : TRUE
  <2>1. PICK w \in WrapKeys, v \in IvBytes, k \in Keys : TRUE
    BY DEF E!SizeAssumption
  <2> DEFINE h == [mac_key |-> w, enc_key |-> w, iv |-> v]
             m == E!BytesOf("key", k, KeySize)
  <2>2. h \in E!Headers /\ m \in E!Messages
    BY <2>1 DEF E!Headers, E!Messages
  <2> HIDE DEF h, m
  <2>3. [header |-> h, msg |-> m] \in [header : E!Headers, msg : E!Messages]
    BY <2>2
  <2> QED BY <2>3
<1>2. E!NoCall = CHOOSE s \in [header : E!Headers, msg : E!Messages] : TRUE
  BY DEF E!NoCall
<1> QED BY <1>1, <1>2

\* The invariant of KExp15.
EInv ==
    /\ verdict \in {"idle", "sent", "accepted", "rejected"}
    /\ sent \in [header : E!Headers, msg : E!Messages]
    /\ wire.header \in E!Headers /\ given.header \in E!Headers
    /\ given = [header |-> given.header, box |-> given.box]
    /\ Array(wire.box, KeySize + MacSize)
    /\ verdict # "idle" =>
          /\ wire = [header |-> sent.header, box |-> EBox(sent.header, sent.msg)]
          /\ EShaped(given.box, sent)
    /\ Array(dst, KeySize)
    /\ verdict # "accepted" => dst = E!Old

\* What the receiver's key was before.
LEMMA EOld ==
    ASSUME E!SizeAssumption
    PROVE  Array(E!Old, KeySize)
<1>1. KeySize \in Nat
  BY EConstants
<1> QED BY <1>1 DEF E!Old, E!BytesOf, Array

\* An empty container.
LEMMA ENoBox ==
    ASSUME E!SizeAssumption
    PROVE  /\ E!NoBox.header \in E!Headers
           /\ E!NoBox = [header |-> E!NoBox.header, box |-> E!NoBox.box]
           /\ Array(E!NoBox.box, KeySize + MacSize)
<1>1. E!NoCall.header \in E!Headers
  BY ENoCall
<1>2. E!NoBox = [header |-> E!NoCall.header, box |-> E!Zeros(KeySize + MacSize)]
  BY DEF E!NoBox
<1>3. KeySize + MacSize \in Nat
  BY EConstants
<1>4. Array(E!Zeros(KeySize + MacSize), KeySize + MacSize)
  BY <1>3 DEF E!Zeros, Array
<1> QED BY <1>1, <1>2, <1>4

\* The invariant of KExp15 holds at first.
LEMMA EInit ==
    ASSUME E!SizeAssumption, E!Init
    PROVE  EInv
<1>1. verdict = "idle" /\ sent = E!NoCall /\ wire = E!NoBox /\ given = E!NoBox /\ dst = E!Old
  BY DEF E!Init
<1> QED BY <1>1, ENoCall, ENoBox, EOld DEF EInv

\* gost_kexp15 keeps the invariant.
LEMMA ESeal ==
    ASSUME E!SizeAssumption, EInv, NEW h \in E!Headers, NEW k \in E!Messages,
           E!kuznyechik_kexp15(h, k)
    PROVE  EInv'
<1>1. /\ verdict = "idle" /\ verdict' = "sent" /\ dst' = dst
      /\ sent' = [header |-> h, msg |-> k]
      /\ wire' = [header |-> h, box |-> EBox(h, k)]
      /\ given' = wire'
  BY EExported DEF E!kuznyechik_kexp15
<1>2. Array(EBox(h, k), KeySize + MacSize)
  BY EParts
<1>3. EShaped(EBox(h, k), sent')
  <2>1. \A p : EBox(h, k)[p] = Xor(EBox(h, k)[p], {})
    BY XorBasics DEF Zero
  <2>2. \A a \in {} : a[1] = "error"
    OBVIOUS
  <2>3. sent'.header = h /\ sent'.msg = k
    BY <1>1
  <2> QED BY <1>2, <2>1, <2>2, <2>3 DEF EShaped
<1> QED BY <1>1, <1>2, <1>3 DEF EInv

\* A wrong byte more is not more than wrong bytes.
LEMMA EFlip ==
    ASSUME E!SizeAssumption, NEW s, NEW box, EShaped(box, s),
           NEW q \in 1 .. KeySize + MacSize, NEW e
    PROVE  EShaped(E!Flip(box, q, e), s)
<1> DEFINE n == KeySize + MacSize
           er == <<"error", e, 0>>
           w == EBox(s.header, s.msg)
           b == Xor(box[q], {er})
           c == E!Flip(box, q, e)
<1>1. Array(box, n) /\ \A p \in 1 .. n : \E d : box[p] = Xor(w[p], d) /\ \A a \in d : a[1] = "error"
  BY DEF EShaped
<1>2. er[1] = "error"
  OBVIOUS
<1>3. c = [box EXCEPT ![q] = b]
  BY XorBasics DEF E!Flip, E!Atom
<1>4. n \in Nat /\ q \in 1 .. n /\ box = [p \in 1 .. n |-> box[p]]
  BY <1>1 DEF Array
<1> HIDE DEF er, w, b, c, n
<1>5. c = [p \in 1 .. n |-> IF p = q THEN b ELSE box[p]]
  BY <1>3, <1>4
<1>6. Array(c, n)
  BY <1>4, <1>5 DEF Array
<1>7. ASSUME NEW p \in 1 .. n
      PROVE  \E d : c[p] = Xor(w[p], d) /\ \A a \in d : a[1] = "error"
  <2>1. PICK d : box[p] = Xor(w[p], d) /\ \A a \in d : a[1] = "error"
    BY <1>1
  <2>2. CASE p = q
    <3>1. c[p] = Xor(Xor(w[p], d), {er})
      BY <1>5, <2>1, <2>2 DEF b
    <3>2. Xor(Xor(w[p], d), {er}) = Xor(w[p], Xor(d, {er}))
      BY DEF Xor
    <3>3. \A a \in Xor(d, {er}) : a[1] = "error"
      BY <1>2, <2>1 DEF Xor
    <3> QED BY <3>1, <3>2, <3>3
  <2>3. CASE p # q
    <3>1. c[p] = box[p]
      BY <1>5, <2>3
    <3> QED BY <2>1, <3>1
  <2> QED BY <2>2, <2>3
<1> QED BY <1>6, <1>7 DEF EShaped, c, n, w

\* Whatever arrives keeps the invariant.
LEMMA EArrive ==
    ASSUME E!SizeAssumption, EInv, E!Arrive
    PROVE  EInv'
<1>1. verdict = "sent" /\ sent' = sent /\ wire' = wire /\ verdict' = verdict /\ dst' = dst
  BY DEF E!Arrive
<1>2. sent \in [header : E!Headers, msg : E!Messages]
      /\ wire = [header |-> sent.header, box |-> EBox(sent.header, sent.msg)]
  BY <1>1 DEF EInv
<1> DEFINE w == EBox(sent.header, sent.msg)
<1>3. EShaped(w, sent)
  <2>1. \A p : w[p] = Xor(w[p], {})
    BY XorBasics DEF Zero
  <2>2. Array(w, KeySize + MacSize)
    BY <1>2, EParts
  <2>3. \A a \in {} : a[1] = "error"
    OBVIOUS
  <2> QED BY <2>1, <2>2, <2>3 DEF EShaped
<1> HIDE DEF w
<1>4. \E g \in E!Headers : \E box : given' = [header |-> g, box |-> box] /\ EShaped(box, sent)
  <2>1. ASSUME NEW p \in 1 .. KeySize + MacSize, NEW q \in 1 .. KeySize + MacSize, NEW e \in {1, 2},
               given' = [wire EXCEPT !.box = E!Flip(E!Flip(@, p, 1), q, e)]
        PROVE  \E g \in E!Headers : \E box : given' = [header |-> g, box |-> box] /\ EShaped(box, sent)
    <3> DEFINE b == E!Flip(E!Flip(w, p, 1), q, e)
    <3>1. given' = [header |-> sent.header, box |-> b]
      BY <1>2, <2>1 DEF w
    <3>2. EShaped(b, sent)
      <4> DEFINE c == E!Flip(w, p, 1)
      <4>1. EShaped(c, sent)
        BY <1>3, EFlip
      <4> HIDE DEF c
      <4>2. EShaped(E!Flip(c, q, e), sent)
        BY <4>1, EFlip
      <4> QED BY <4>2 DEF c
    <3> HIDE DEF b
    <3> QED BY <1>2, <3>1, <3>2
  <2>2. ASSUME NEW g \in E!Headers, given' = [wire EXCEPT !.header = g]
        PROVE  \E h \in E!Headers : \E box : given' = [header |-> h, box |-> box] /\ EShaped(box, sent)
    <3>1. given' = [header |-> g, box |-> w]
      BY <1>2, <2>2 DEF w
    <3> QED BY <1>3, <3>1
  <2> QED BY <2>1, <2>2 DEF E!Arrive
<1>5. PICK g, box : g \in E!Headers /\ given' = [header |-> g, box |-> box] /\ EShaped(box, sent)
  BY <1>4
<1> QED BY <1>1, <1>5 DEF EInv

\* What gost_kimp15 does: it accepts what gost_kexp15 wrote under the same keys
\* and iv, gives out that key, and keeps the invariant.
LEMMA EOpen ==
    ASSUME E!SizeAssumption, EInv, E!kuznyechik_kimp15
    PROVE  /\ EInv'
           /\ verdict' = IF given.header = sent.header /\ given.box = EBox(sent.header, sent.msg)
                         THEN "accepted" ELSE "rejected"
           /\ verdict' = "accepted" => SubSeq(dst', 1, Len(sent.msg)) = sent.msg
<1> DEFINE yes == E!Authentic(given.header, given.box)
<1>1. /\ verdict = "sent" /\ sent' = sent /\ wire' = wire /\ given' = given
      /\ dst' = E!Imported(given.header, given.box, dst)
      /\ verdict' = IF yes THEN "accepted" ELSE "rejected"
  BY DEF E!kuznyechik_kimp15
<1>2. /\ sent \in [header : E!Headers, msg : E!Messages] /\ given.header \in E!Headers
      /\ EShaped(given.box, sent) /\ dst = E!Old
  BY <1>1 DEF EInv
<1>3. /\ yes <=> given.header = sent.header /\ given.box = EBox(sent.header, sent.msg)
      /\ yes => E!First(E!Plain(given.header, given.box), KeySize) = sent.msg
  BY <1>2, EAuthentic
<1>4. Array(sent.msg, KeySize)
  BY <1>2, EConstants
<1>5. CASE yes
  <2>1. dst' = sent.msg /\ verdict' = "accepted"
    BY <1>1, <1>3, <1>5 DEF E!Imported
  <2>2. SubSeq(dst', 1, Len(sent.msg)) = sent.msg
    <3> DEFINE k == sent.msg
               f == SubSeq(k, 1, KeySize)
    <3>1. Array(k, KeySize) /\ Len(k) = KeySize /\ KeySize \in Nat
      BY <1>4, ArrayLen, EConstants
    <3> HIDE DEF k
    <3>2. Array(f, KeySize) /\ \A i \in 1 .. KeySize : f[i] = k[i]
      BY <3>1, ArrayEnds
    <3> HIDE DEF f
    <3>3. f = k
      BY <3>1, <3>2, ArrayEqual
    <3> QED BY <2>1, <3>1, <3>3 DEF f, k
  <2>3. EInv'
    BY <1>1, <1>4, <2>1 DEF EInv
  <2> QED BY <1>3, <1>5, <2>1, <2>2, <2>3
<1>6. CASE ~yes
  <2>1. dst' = dst /\ verdict' = "rejected"
    BY <1>1, <1>6 DEF E!Imported
  <2>2. EInv'
    BY <1>1, <2>1 DEF EInv
  <2> QED BY <1>3, <1>6, <2>1, <2>2
<1> QED BY <1>5, <1>6

\* Every step of KExp15 keeps the invariant.
LEMMA ENext ==
    ASSUME E!SizeAssumption, EInv, E!Next
    PROVE  EInv'
<1>1. ASSUME E!Finish PROVE EInv'
  <2>1. verdict' = "idle" /\ sent' = E!NoCall /\ wire' = E!NoBox /\ given' = E!NoBox /\ dst' = E!Old
    BY <1>1 DEF E!Finish
  <2> QED BY <2>1, ENoCall, ENoBox, EOld DEF EInv
<1> QED BY <1>1, ESeal, EArrive, EOpen DEF E!Next

\* What it says of the key and of a rejection.
LEMMA ESafety ==
    ASSUME E!SizeAssumption, EInv
    PROVE  E!TypeOK /\ E!KeyOnlyIfAuthentic
<1>1. Len(wire.box) = KeySize + MacSize /\ Len(dst) = KeySize
  BY ArrayLen DEF EInv
<1> QED BY <1>1 DEF EInv, E!TypeOK, E!KeyOnlyIfAuthentic

\* KExp15 implements authenticated encryption.
LEMMA EImplements ==
    ASSUME E!SizeAssumption, unit = "kexp15", EInv, E!Next, unit' = unit
    PROVE  Abstract!Next
<1> DEFINE T(x) == [x EXCEPT !.header = <<unit, x.header>>]
<1>1. /\ Tagged(sent) = T(sent) /\ Tagged(given) = T(given)
      /\ Tagged(sent)' = T(sent') /\ Tagged(given)' = T(given')
  BY DEF Tagged
<1>2. \A h, y : /\ T([header |-> h, box |-> y]) = [header |-> <<unit, h>>, box |-> y]
                /\ T([header |-> h, msg |-> y]) = [header |-> <<unit, h>>, msg |-> y]
  OBVIOUS
<1>3. sent \in [header : E!Headers, msg : E!Messages]
  BY DEF EInv
<1>4. ASSUME NEW h \in E!Headers, NEW msg \in E!Messages
      PROVE  RefBox(<<unit, h>>, msg) = EBox(h, msg)
  <2>1. RefBox(<<unit, h>>, msg) = E!RefBox(h, msg)
    BY DEF RefBox
  <2> QED BY <2>1, EExported
<1> HIDE DEF T
<1>5. ASSUME NEW h \in E!Headers, NEW msg \in E!Messages, E!kuznyechik_kexp15(h, msg)
      PROVE  Abstract!Seal
  <2>1. verdict = "idle" /\ verdict' = "sent"
        /\ sent' = [header |-> h, msg |-> msg]
        /\ given' = [header |-> h, box |-> EBox(h, msg)]
    BY <1>5, EExported DEF E!kuznyechik_kexp15
  <2>2. /\ Tagged(sent)' = [header |-> <<unit, h>>, msg |-> msg]
        /\ Tagged(given)' = [header |-> <<unit, h>>, box |-> EBox(h, msg)]
    BY <1>1, <1>2, <2>1
  <2>3. <<unit, h>> \in AllHeaders /\ msg \in (ChaChaMessages \cup MgmMessages) \cup E!Messages
    BY DEF AllHeaders
  <2> QED BY <1>4, <2>1, <2>2, <2>3 DEF Abstract!Seal, Abstract!SealedBy, Abstract!Sent
<1>6. ASSUME E!Arrive PROVE Abstract!Arrive
  <2>1. verdict = "sent" /\ sent' = sent /\ verdict' = verdict /\ dst' = dst
    BY <1>6 DEF E!Arrive
  <2>2. Tagged(sent)' = Tagged(sent)
    BY <1>1, <2>1
  <2> QED BY <2>1, <2>2 DEF Abstract!Arrive
<1>7. ASSUME E!kuznyechik_kimp15 PROVE Abstract!Open
  <2>1. verdict = "sent" /\ sent' = sent /\ given' = given
    BY <1>7 DEF E!kuznyechik_kimp15
  <2>2. /\ verdict' = IF given.header = sent.header /\ given.box = EBox(sent.header, sent.msg)
                      THEN "accepted" ELSE "rejected"
        /\ verdict' = "accepted" => SubSeq(dst', 1, Len(sent.msg)) = sent.msg
    BY <1>7, EOpen
  <2>3. Tagged(sent)' = Tagged(sent) /\ Tagged(given)' = Tagged(given)
    BY <1>1, <2>1
  <2> DEFINE h == sent.header
             m == sent.msg
             g == given.header
             y == given.box
  <2>4. sent = [header |-> h, msg |-> m] /\ given = [header |-> g, box |-> y]
        /\ h \in E!Headers /\ m \in E!Messages
    BY <1>3 DEF EInv
  <2>5. verdict' = IF g = h /\ y = EBox(h, m) THEN "accepted" ELSE "rejected"
    BY <2>2
  <2> HIDE DEF h, m, g, y
  <2>6. Tagged(sent) = [header |-> <<unit, h>>, msg |-> m] /\ Tagged(given) = [header |-> <<unit, g>>, box |-> y]
    BY <1>1, <1>2, <2>4
  <2>7. Abstract!SealedBy(Tagged(sent)) = [header |-> <<unit, h>>, box |-> EBox(h, m)]
    BY <1>4, <2>4, <2>6 DEF Abstract!SealedBy
  <2>8. Tagged(given) = Abstract!SealedBy(Tagged(sent)) <=> g = h /\ y = EBox(h, m)
    BY <2>6, <2>7
  <2>9. verdict' = IF Tagged(given) = Abstract!SealedBy(Tagged(sent)) THEN "accepted" ELSE "rejected"
    BY <2>5, <2>8
  <2>10. Tagged(sent).msg = sent.msg
    BY <2>6 DEF m
  <2> QED BY <2>1, <2>2, <2>3, <2>9, <2>10 DEF Abstract!Open
<1>8. ASSUME E!Finish PROVE Abstract!Finish
  BY <1>8 DEF E!Finish, Abstract!Finish
<1> QED BY <1>5, <1>6, <1>7, <1>8 DEF E!Next, Abstract!Next

-----------------------------------------------------------------------------
(***************************************************************************)
(* MGM.  First the counters, the key stream and the sum.                   *)
(***************************************************************************)

\* The sizes and strings of MGM.
LEMMA MConstants ==
    ASSUME M!LengthAssumption
    PROVE  /\ BlockSize \in Nat \ {0} /\ BlockSize > 1 /\ TagSize \in Nat \ {0} /\ HalfRadix \in Nat \ {0}
           /\ \A s \in Ads \cup MgmMessages : Len(s) \in Nat /\ Array(s, Len(s))
           /\ \A s \in Ads : \A i \in 1 .. Len(s) : \A a \in s[i] : a[1] = "ad"
           /\ \A s \in MgmMessages : \A i \in 1 .. Len(s) : \A a \in s[i] : a[1] = "msg"
           /\ \A x \in Ads, m \in MgmMessages :
                 Len(x) \div BlockSize + Len(m) \div BlockSize + 3 < HalfRadix
<1>1. /\ {BlockSize, TagSize, HalfRadix} \subseteq Nat \ {0} /\ BlockSize > 1
      /\ \A s \in Ads : M!MadeOf("ad", s)
      /\ \A s \in MgmMessages : M!MadeOf("msg", s)
      /\ \A x \in Ads, m \in MgmMessages :
            Len(x) \div BlockSize + Len(m) \div BlockSize + 3 < HalfRadix
  BY DEF M!LengthAssumption
<1>2. \A k, s : M!MadeOf(k, s) <=> MadeOf(k, s)
  BY DEF M!MadeOf, MadeOf
<1>3. ASSUME NEW s \in Ads
      PROVE  /\ Len(s) \in Nat /\ Array(s, Len(s))
             /\ \A i \in 1 .. Len(s) : \A a \in s[i] : a[1] = "ad"
  <2>1. MadeOf("ad", s)
    BY <1>1, <1>2
  <2>2. Len(s) \in Nat /\ Array(s, Len(s)) /\ DOMAIN s = 1 .. Len(s)
    BY <2>1, MadeArray
  <2> QED BY <2>1, <2>2 DEF MadeOf
<1>4. ASSUME NEW s \in MgmMessages
      PROVE  /\ Len(s) \in Nat /\ Array(s, Len(s))
             /\ \A i \in 1 .. Len(s) : \A a \in s[i] : a[1] = "msg"
  <2>1. MadeOf("msg", s)
    BY <1>1, <1>2
  <2>2. Len(s) \in Nat /\ Array(s, Len(s)) /\ DOMAIN s = 1 .. Len(s)
    BY <2>1, MadeArray
  <2> QED BY <2>1, <2>2 DEF MadeOf
<1> QED BY <1>1, <1>3, <1>4

\* The number of blocks, and where a byte is in them.
LEMMA MBlocksIn ==
    ASSUME M!LengthAssumption, NEW n \in Nat
    PROVE  /\ M!BlocksIn(n) \in Nat
           /\ M!BlocksIn(n) <= n \div BlockSize + 1
           /\ M!BlocksIn(n + 1) = n \div BlockSize + 1
           /\ \A p \in 1 .. n : (p - 1) \div BlockSize + 1 \in 1 .. M!BlocksIn(n)
<1> DEFINE q == n \div BlockSize
           r == n % BlockSize
           B == BlockSize
<1>1. B \in Nat \ {0} /\ B - 1 \in Nat
  BY MConstants
<1>2. q \in Nat /\ r \in 0 .. B - 1 /\ n = q * B + r
  BY <1>1, Divided
<1> DEFINE qb == q * B
<1>3. qb \in Nat
  BY <1>1, <1>2
<1>4. (q + 1) * B = qb + B
  BY <1>1, <1>2
<1>5. (n + B) \div B = q + 1
  <2>1. n + B = (q + 1) * B + r /\ q + 1 \in Nat
    <3> HIDE DEF q, r, B
    <3>1. n = qb + r
      BY <1>2
    <3> HIDE DEF qb
    <3> QED BY <1>1, <1>2, <1>3, <1>4, <3>1
  <2> HIDE DEF q, r, B
  <2> QED BY <1>1, <1>2, <2>1, Quotient
<1> HIDE DEF q, r, B, qb
<1>6. n + B - 1 \in Nat /\ n + B - 1 <= n + B /\ n + B \in Nat
  BY <1>1
<1>7. (n + B - 1) \div B \in Nat
  BY <1>1, <1>6, Divided
<1>8. (n + B - 1) \div B <= q + 1
  BY <1>1, <1>5, <1>6, QuotientOrder
<1>9. (n + 1) + B - 1 = n + B
  BY <1>1
<1>10. ASSUME NEW p \in 1 .. n
       PROVE  (p - 1) \div B + 1 \in 1 .. (n + B - 1) \div B
  <2> DEFINE u == (p - 1) \div B
             v == (p - 1) % B
             ub == u * B
             l == (n + B - 1) \div B
  <2>1. p - 1 \in Nat /\ (p - 1) + B \in Nat /\ (p - 1) + B <= n + B - 1
    BY <1>1
  <2>2. u \in Nat /\ v \in 0 .. B - 1 /\ p - 1 = ub + v
    BY <1>1, <2>1, Divided
  <2>3. ub \in Nat /\ (u + 1) * B = ub + B
    BY <1>1, <2>2
  <2>4. ((p - 1) + B) \div B = u + 1
    <3> HIDE DEF u, v
    <3>1. (p - 1) + B = (u + 1) * B + v
      <4> HIDE DEF ub
      <4> QED BY <1>1, <2>1, <2>2, <2>3
    <3>2. u + 1 \in Nat
      BY <2>2
    <3> QED BY <1>1, <2>2, <3>1, <3>2, Quotient
  <2>5. ((p - 1) + B) \div B <= l
    <3> HIDE DEF u, v, ub
    <3> QED BY <1>1, <1>6, <2>1, QuotientOrder
  <2> HIDE DEF u, l
  <2>6. u + 1 \in 1 .. l
    BY <1>7, <2>2, <2>4, <2>5 DEF l
  <2> QED BY <2>6 DEF u, l
<1>11. M!BlocksIn(n) = (n + B - 1) \div B /\ M!BlocksIn(n + 1) = ((n + 1) + B - 1) \div B
  BY DEF M!BlocksIn, B
<1> QED BY <1>5, <1>7, <1>8, <1>9, <1>10, <1>11 DEF q, B

\* The counters, none of which wraps.
MY(nonce, k) == [of |-> [nonce EXCEPT !.top = 0], left |-> 0, right |-> k - 1]
MZ(nonce, k) == [of |-> [nonce EXCEPT !.top = 1], left |-> k - 1, right |-> 0]

\* The key stream and the text.
MByte(nonce, p) ==
    {<<"stream", MY(nonce, (p - 1) \div BlockSize + 1), ((p - 1) % BlockSize) + 1>>}
MText(nonce, s) == [p \in 1 .. Len(s) |-> Xor(s[p], MByte(nonce, p))]

\* A text under the counters y, byte by byte.
LEMMA MCrypt ==
    ASSUME M!LengthAssumption, NEW nonce, NEW s, NEW n, Array(s, n), M!BlocksIn(n) < HalfRadix
    PROVE  M!Crypt(nonce, s) = MText(nonce, s)
<1>1. n \in Nat /\ Len(s) = n /\ HalfRadix \in Nat /\ BlockSize \in Nat \ {0}
  BY ArrayLen, MConstants DEF Array
<1> DEFINE l == M!BlocksIn(n)
           y[k \in 1 .. l + 1] ==
             IF k = 1 THEN M!Y(nonce) ELSE M!mgm_incr_r(y[k - 1])
<1>2. l \in Nat /\ l < HalfRadix
  BY <1>1, MBlocksIn
<1>3. M!Crypt(nonce, s) =
        [p \in 1 .. n |-> M!Xor(s[p],
            M!BytesOf("stream", y[(p - 1) \div BlockSize + 1], BlockSize)[((p - 1) % BlockSize) + 1])]
  BY <1>1 DEF M!Crypt
<1> DEFINE F == [k \in 1 .. l + 1 |-> MY(nonce, k)]
<1> HIDE DEF l
<1>4. MY(nonce, 1) = M!Y(nonce)
  BY DEF MY, M!Y, M!E0
<1>5. \A k \in 1 .. l + 1 : k # 1 => MY(nonce, k) = M!mgm_incr_r(MY(nonce, k - 1))
  <2> SUFFICES ASSUME NEW k \in 1 .. l + 1, k # 1
               PROVE  MY(nonce, k) = M!mgm_incr_r(MY(nonce, k - 1))
    OBVIOUS
  <2>1. ((k - 1) - 1) + 1 = k - 1 /\ k - 1 \in Nat /\ k - 1 < HalfRadix
    BY <1>1, <1>2
  <2>2. (((k - 1) - 1) + 1) % HalfRadix = k - 1
    BY <1>1, <2>1
  <2> QED BY <2>2 DEF MY, M!mgm_incr_r
<1>6. F = [k \in 1 .. l + 1 |-> IF k = 1 THEN M!Y(nonce) ELSE M!mgm_incr_r(F[k - 1])]
  <2>1. \A k \in 1 .. l + 1 : k # 1 => k - 1 \in 1 .. l + 1
    BY <1>2
  <2> QED BY <1>4, <1>5, <2>1
<1>7. y = [k \in 1 .. l + 1 |-> IF k = 1 THEN M!Y(nonce) ELSE M!mgm_incr_r(y[k - 1])]
  <2> HIDE DEF F
  <2> QED BY <1>6
<1> HIDE DEF y
<1>8. \A k \in Nat : k + 1 \in 1 .. l + 1 => y[k + 1] = MY(nonce, k + 1)
  <2> DEFINE S == {k \in Nat : k + 1 \in 1 .. l + 1 => y[k + 1] = MY(nonce, k + 1)}
  <2>1. 0 \in S
    BY <1>2, <1>4, <1>7
  <2>2. ASSUME NEW k \in Nat, k \in S PROVE k + 1 \in S
    <3> SUFFICES ASSUME (k + 1) + 1 \in 1 .. l + 1
                 PROVE  y[(k + 1) + 1] = MY(nonce, (k + 1) + 1)
      OBVIOUS
    <3>1. k + 1 \in 1 .. l + 1 /\ (k + 1) + 1 # 1 /\ ((k + 1) + 1) - 1 = k + 1
      BY <1>2
    <3>2. y[k + 1] = MY(nonce, k + 1)
      BY <2>2, <3>1
    <3>3. y[(k + 1) + 1] = M!mgm_incr_r(y[k + 1])
      BY <1>7, <3>1
    <3> QED BY <1>5, <3>1, <3>2, <3>3
  <2> HIDE DEF S
  <2>3. \A k \in Nat : k \in S
    BY <2>1, <2>2, CountUp
  <2> QED BY <2>3 DEF S
<1>9. ASSUME NEW p \in 1 .. n
      PROVE  M!Xor(s[p], M!BytesOf("stream", y[(p - 1) \div BlockSize + 1], BlockSize)[((p - 1) % BlockSize) + 1])
                = Xor(s[p], MByte(nonce, p))
  <2> DEFINE u == (p - 1) \div BlockSize
             v == (p - 1) % BlockSize
  <2>1. p - 1 \in Nat
    BY <1>1
  <2>2. u \in Nat /\ v \in 0 .. BlockSize - 1
    BY <1>1, <2>1, Divided
  <2>3. u + 1 \in 1 .. l
    BY <1>1, MBlocksIn DEF l
  <2> HIDE DEF u, v
  <2>4. y[u + 1] = MY(nonce, u + 1)
    BY <1>2, <1>8, <2>2, <2>3
  <2>5. v + 1 \in 1 .. BlockSize
    BY <1>1, <2>2
  <2>6. M!BytesOf("stream", y[u + 1], BlockSize)[v + 1] = {<<"stream", MY(nonce, u + 1), v + 1>>}
    BY <2>4, <2>5 DEF M!BytesOf, M!Atom
  <2>7. MByte(nonce, p) = {<<"stream", MY(nonce, u + 1), v + 1>>}
    BY DEF MByte, u, v
  <2>8. M!Xor(s[p], M!BytesOf("stream", y[u + 1], BlockSize)[v + 1]) = Xor(s[p], MByte(nonce, p))
    BY <2>6, <2>7, XorBasics
  <2> QED BY <2>8 DEF u, v
<1>10. M!Crypt(nonce, s) = [p \in 1 .. n |-> Xor(s[p], MByte(nonce, p))]
  BY <1>3, <1>9
<1> QED BY <1>1, <1>10 DEF MText

\* The blocks of a string.
LEMMA MBlocksOf ==
    ASSUME M!LengthAssumption, NEW s, NEW n, Array(s, n)
    PROVE  /\ Array(M!BlocksOf(s), M!BlocksIn(n))
           /\ \A k \in 1 .. M!BlocksIn(n), j \in 1 .. BlockSize :
                 M!BlocksOf(s)[k][j] =
                    IF (k - 1) * BlockSize + j <= n THEN s[(k - 1) * BlockSize + j] ELSE Zero
           /\ \A p \in 1 .. n : \E k \in 1 .. M!BlocksIn(n), j \in 1 .. BlockSize :
                 p = (k - 1) * BlockSize + j
<1>1. n \in Nat /\ Len(s) = n /\ M!Zero = Zero /\ BlockSize \in Nat \ {0}
  BY ArrayLen, MConstants DEF Array, M!Zero, Zero
<1>2. M!BlocksOf(s) = [k \in 1 .. M!BlocksIn(n) |-> [j \in 1 .. BlockSize |->
          IF (k - 1) * BlockSize + j <= n THEN s[(k - 1) * BlockSize + j] ELSE Zero]]
  BY <1>1 DEF M!BlocksOf
<1> DEFINE l == M!BlocksIn(n)
<1>3. l \in Nat /\ \A p \in 1 .. n : (p - 1) \div BlockSize + 1 \in 1 .. l
  BY <1>1, MBlocksIn
<1> HIDE DEF l
<1>4. Array(M!BlocksOf(s), l)
  BY <1>2, <1>3 DEF Array, l
<1>5. \A k \in 1 .. l, j \in 1 .. BlockSize :
         M!BlocksOf(s)[k][j] =
            IF (k - 1) * BlockSize + j <= n THEN s[(k - 1) * BlockSize + j] ELSE Zero
  BY <1>2 DEF l
<1>6. ASSUME NEW p \in 1 .. n
      PROVE  \E k \in 1 .. l, j \in 1 .. BlockSize : p = (k - 1) * BlockSize + j
  <2> DEFINE u == (p - 1) \div BlockSize
             v == (p - 1) % BlockSize
  <2>1. p - 1 \in Nat
    BY <1>1
  <2>2. u \in Nat /\ v \in 0 .. BlockSize - 1 /\ p - 1 = u * BlockSize + v
    BY <1>1, <2>1, Divided
  <2>3. u + 1 \in 1 .. l
    BY <1>3
  <2> HIDE DEF u, v
  <2>4. v + 1 \in 1 .. BlockSize /\ (u + 1) - 1 = u
    BY <1>1, <2>2
  <2> DEFINE ub == u * BlockSize
  <2>5. ub \in Nat /\ p - 1 = ub + v
    BY <1>1, <2>2
  <2> HIDE DEF ub
  <2>6. p = ub + (v + 1)
    BY <1>1, <2>2, <2>5
  <2>7. p = ((u + 1) - 1) * BlockSize + (v + 1)
    BY <2>4, <2>6 DEF ub
  <2> QED BY <2>3, <2>4, <2>7
<1> QED BY <1>4, <1>5, <1>6 DEF l

\* What is hashed, one block after the other, and the sum up to block n.
MHashed(ad, ct) == (M!BlocksOf(ad) \o M!BlocksOf(ct)) \o << M!LenBlock(ad, ct) >>
MTotal(nonce, hashed, n) == UNION {M!gf128_mul(MZ(nonce, k), hashed[k]) : k \in 1 .. n}
MBlocks(n, m) == (M!BlocksIn(n) + M!BlocksIn(m)) + 1

\* The blocks that are hashed: the data, the text, their lengths.
LEMMA MHashedParts ==
    ASSUME M!LengthAssumption, NEW ad, NEW n, Array(ad, n), NEW ct, NEW m, Array(ct, m)
    PROVE  /\ Array(MHashed(ad, ct), MBlocks(n, m)) /\ Len(MHashed(ad, ct)) = MBlocks(n, m)
           /\ \A k \in 1 .. M!BlocksIn(n) : MHashed(ad, ct)[k] = M!BlocksOf(ad)[k]
           /\ \A k \in 1 .. M!BlocksIn(m) : MHashed(ad, ct)[M!BlocksIn(n) + k] = M!BlocksOf(ct)[k]
           /\ MHashed(ad, ct)[MBlocks(n, m)] = M!LenBlock(ad, ct)
<1> DEFINE a == M!BlocksOf(ad)
           b == M!BlocksOf(ct)
           c == << M!LenBlock(ad, ct) >>
           ab == a \o b
           abc == ab \o c
           u == M!BlocksIn(n)
           v == M!BlocksIn(m)
<1>1. Array(a, u) /\ Array(b, v)
  BY MBlocksOf
<1>2. Array(c, 1) /\ c[1] = M!LenBlock(ad, ct)
  BY DEF Array
<1>3. MHashed(ad, ct) = abc
  BY DEF MHashed
<1> HIDE DEF a, b, c, ab, abc, u, v
<1>4. Joined(ab, a, u, b, v)
  BY <1>1, ArrayJoin DEF ab
<1>5. Array(ab, u + v)
  BY <1>4 DEF Joined
<1>6. Joined(abc, ab, u + v, c, 1)
  BY <1>2, <1>5, ArrayJoin DEF abc
<1>7. Array(abc, (u + v) + 1) /\ Len(abc) = (u + v) + 1
  BY <1>6, ArrayLen DEF Joined
<1>8. u \in Nat /\ v \in Nat
  BY <1>4 DEF Joined
<1>9. \A k \in 1 .. u : abc[k] = a[k]
  BY <1>4, <1>6, <1>8 DEF Joined
<1>10. \A k \in 1 .. v : abc[u + k] = b[k]
  BY <1>4, <1>6, <1>8 DEF Joined
<1>11. abc[(u + v) + 1] = c[1]
  BY <1>6 DEF Joined
<1> QED BY <1>2, <1>3, <1>7, <1>9, <1>10, <1>11 DEF MBlocks, u, v, a, b

\* A product has an atom for every atom of the block.
LEMMA MProduct ==
    ASSUME NEW h, NEW b, NEW x
    PROVE  x \in M!gf128_mul(h, b) <=>
              \E j \in 1 .. BlockSize : \E a \in b[j] : x = <<"product", <<h, j>>, a>>
BY DEF M!gf128_mul, M!Atom

\* The sum: nothing cancels out.
LEMMA MSum ==
    ASSUME M!LengthAssumption, NEW nonce, NEW ad, NEW n, Array(ad, n), NEW ct, NEW m, Array(ct, m),
           MBlocks(n, m) < HalfRadix
    PROVE  M!Sum(nonce, ad, ct) = MTotal(nonce, MHashed(ad, ct), MBlocks(n, m))
<1> DEFINE hashed == M!BlocksOf(ad) \o M!BlocksOf(ct) \o << M!LenBlock(ad, ct) >>
           turn[k \in 0 .. Len(hashed)] ==
             IF k = 0 THEN [z |-> M!Z(nonce), sum |-> M!Zero]
             ELSE [z |-> M!mgm_incr_l(turn[k - 1].z),
                   sum |-> M!Xor(turn[k - 1].sum, M!gf128_mul(turn[k - 1].z, hashed[k]))]
<1>1. M!Sum(nonce, ad, ct) = turn[Len(hashed)].sum
  BY DEF M!Sum
<1>2. hashed = MHashed(ad, ct)
  BY DEF MHashed
<1>3. Len(hashed) = MBlocks(n, m) /\ Array(hashed, MBlocks(n, m))
  <2>1. /\ Array(MHashed(ad, ct), MBlocks(n, m)) /\ Len(MHashed(ad, ct)) = MBlocks(n, m)
    <3> HIDE DEF hashed, turn
    <3> QED BY MHashedParts
  <2> HIDE DEF hashed, turn
  <2> QED BY <1>2, <2>1
<1> HIDE DEF hashed
<1> DEFINE l == MBlocks(n, m)
           tot(k) == MTotal(nonce, hashed, k)
           val(k) == [z |-> MZ(nonce, k + 1), sum |-> tot(k)]
           F == [k \in 0 .. l |-> val(k)]
<1>4. l \in Nat /\ l < HalfRadix /\ HalfRadix \in Nat
  BY <1>3, MConstants DEF Array
<1> HIDE DEF l
<1>5. val(0) = [z |-> M!Z(nonce), sum |-> M!Zero]
  <2>1. tot(0) = M!Zero
    <3>1. 1 .. 0 = {}
      OBVIOUS
    <3> QED BY <3>1 DEF MTotal, M!Zero
  <2>2. MZ(nonce, 0 + 1) = M!Z(nonce)
    BY DEF MZ, M!Z, M!E0
  <2> QED BY <2>1, <2>2
<1>6. \A k \in 1 .. l :
         val(k) = [z |-> M!mgm_incr_l(val(k - 1).z),
                   sum |-> M!Xor(val(k - 1).sum, M!gf128_mul(val(k - 1).z, hashed[k]))]
  <2> SUFFICES ASSUME NEW k \in 1 .. l
               PROVE  val(k) = [z |-> M!mgm_incr_l(val(k - 1).z),
                        sum |-> M!Xor(val(k - 1).sum, M!gf128_mul(val(k - 1).z, hashed[k]))]
    OBVIOUS
  <2> DEFINE i == k - 1
  <2>1. i \in Nat /\ i + 1 = k /\ i < HalfRadix /\ k < HalfRadix /\ k \in Nat
    BY <1>4
  <2>2. val(i).z = MZ(nonce, k) /\ val(i).sum = tot(i)
    BY <2>1
  <2>3. M!mgm_incr_l(MZ(nonce, k)) = MZ(nonce, k + 1)
    <3>1. ((k - 1) + 1) % HalfRadix = (k + 1) - 1
      BY <1>4, <2>1
    <3> QED BY <3>1 DEF MZ, M!mgm_incr_l
  <2>4. tot(k) = M!Xor(tot(i), M!gf128_mul(MZ(nonce, k), hashed[k]))
    <3> DEFINE g == M!gf128_mul(MZ(nonce, k), hashed[k])
    <3>1. 1 .. k = 1 .. i \cup {k}
      BY <2>1
    <3>2. tot(k) = tot(i) \cup g
      <4> HIDE DEF i
      <4> QED BY <3>1 DEF MTotal
    <3>3. \A a \in tot(i) : a \notin g
      <4> SUFFICES ASSUME NEW a \in tot(i), a \in g PROVE FALSE
        OBVIOUS
      <4>1. PICK j \in 1 .. i : a \in M!gf128_mul(MZ(nonce, j), hashed[j])
        BY DEF MTotal
      <4>2. PICK y, x : a = <<"product", <<MZ(nonce, j), y>>, x>>
        BY <4>1, MProduct
      <4>3. PICK v, w : a = <<"product", <<MZ(nonce, k), v>>, w>>
        BY MProduct
      <4>4. MZ(nonce, j) = MZ(nonce, k)
        BY <4>2, <4>3
      <4>5. j - 1 = k - 1
        BY <4>4 DEF MZ
      <4> QED BY <2>1, <4>5
    <3> HIDE DEF g, tot, i
    <3>4. tot(i) \cup g = (tot(i) \ g) \cup (g \ tot(i))
      BY <3>3
    <3> QED BY <3>2, <3>4 DEF M!Xor, g
  <2> HIDE DEF tot
  <2>5. val(k) = [z |-> MZ(nonce, k + 1), sum |-> tot(k)]
    OBVIOUS
  <2> HIDE DEF val
  <2> QED BY <2>2, <2>3, <2>4, <2>5 DEF i
<1> HIDE DEF val
<1>7. F = [k \in 0 .. l |-> IF k = 0 THEN [z |-> M!Z(nonce), sum |-> M!Zero]
             ELSE [z |-> M!mgm_incr_l(F[k - 1].z),
                   sum |-> M!Xor(F[k - 1].sum, M!gf128_mul(F[k - 1].z, hashed[k]))]]
  <2>1. \A k \in 0 .. l : k # 0 => k \in 1 .. l /\ F[k - 1] = val(k - 1)
    BY <1>4
  <2>2. \A k \in 0 .. l : val(k) =
             IF k = 0 THEN [z |-> M!Z(nonce), sum |-> M!Zero]
             ELSE [z |-> M!mgm_incr_l(F[k - 1].z),
                   sum |-> M!Xor(F[k - 1].sum, M!gf128_mul(F[k - 1].z, hashed[k]))]
    <3> HIDE DEF F
    <3> QED BY <1>5, <1>6, <2>1
  <2> QED BY <2>2
<1>8. turn = [k \in 0 .. l |-> IF k = 0 THEN [z |-> M!Z(nonce), sum |-> M!Zero]
             ELSE [z |-> M!mgm_incr_l(turn[k - 1].z),
                   sum |-> M!Xor(turn[k - 1].sum, M!gf128_mul(turn[k - 1].z, hashed[k]))]]
  <2> HIDE DEF F
  <2>1. Len(hashed) = l
    BY <1>3 DEF l
  <2> QED BY <1>7, <2>1
<1> HIDE DEF turn
<1>9. \A k \in Nat : k <= l => turn[k] = val(k)
  <2> DEFINE S == {k \in Nat : k <= l => turn[k] = val(k)}
  <2>1. 0 \in S
    BY <1>4, <1>5, <1>8
  <2>2. ASSUME NEW k \in Nat, k \in S PROVE k + 1 \in S
    <3> SUFFICES ASSUME k + 1 <= l PROVE turn[k + 1] = val(k + 1)
      OBVIOUS
    <3>1. k <= l /\ k + 1 \in 0 .. l /\ k + 1 \in 1 .. l /\ k + 1 # 0 /\ (k + 1) - 1 = k
      BY <1>4
    <3>2. turn[k] = val(k)
      BY <2>2, <3>1
    <3>3. turn[k + 1] = [z |-> M!mgm_incr_l(turn[k].z),
                         sum |-> M!Xor(turn[k].sum, M!gf128_mul(turn[k].z, hashed[k + 1]))]
      BY <1>8, <3>1
    <3> QED BY <1>6, <3>1, <3>2, <3>3
  <2> HIDE DEF S
  <2>3. \A k \in Nat : k \in S
    BY <2>1, <2>2, CountUp
  <2> QED BY <2>3 DEF S
<1>10. turn[l] = val(l)
  BY <1>4, <1>9
<1>11. val(l).sum = MTotal(nonce, hashed, l)
  BY DEF val
<1> QED BY <1>1, <1>2, <1>3, <1>10, <1>11 DEF l

\* What is in one sum and in another too is at the same place, under the same
\* nonce.
LEMMA MTotalTells ==
    ASSUME NEW nonce, NEW H, NEW K \in Nat, NEW other, NEW G, NEW L \in Nat,
           MTotal(nonce, H, K) \subseteq MTotal(other, G, L),
           NEW k \in 1 .. K, NEW j \in 1 .. BlockSize, NEW a \in H[k][j]
    PROVE  k \in 1 .. L /\ a \in G[k][j] /\ [nonce EXCEPT !.top = 1] = [other EXCEPT !.top = 1]
<1> DEFINE x == <<"product", <<MZ(nonce, k), j>>, a>>
<1>1. x \in M!gf128_mul(MZ(nonce, k), H[k])
  BY MProduct
<1>2. x \in MTotal(nonce, H, K)
  <2> HIDE DEF x
  <2> QED BY <1>1 DEF MTotal
<1>3. PICK i \in 1 .. L : x \in M!gf128_mul(MZ(other, i), G[i])
  <2> HIDE DEF x
  <2> QED BY <1>2 DEF MTotal
<1>4. PICK v \in 1 .. BlockSize : \E b \in G[i][v] : x = <<"product", <<MZ(other, i), v>>, b>>
  BY <1>3, MProduct
<1>5. PICK b \in G[i][v] : x = <<"product", <<MZ(other, i), v>>, b>>
  BY <1>4
<1>6. MZ(nonce, k) = MZ(other, i) /\ j = v /\ a = b
  BY <1>5
<1>7. k - 1 = i - 1 /\ [nonce EXCEPT !.top = 1] = [other EXCEPT !.top = 1]
  BY <1>6 DEF MZ
<1>8. k = i
  BY <1>7
<1> QED BY <1>5, <1>6, <1>7, <1>8

\* The block of the lengths.
MLens(b, n, m) ==
    /\ b[1] = IF n = 0 THEN {} ELSE {<<"bits", "ad", n>>}
    /\ b[2] = IF m = 0 THEN {} ELSE {<<"bits", "ct", m>>}

\* The block of the lengths.
LEMMA MLenBlock ==
    ASSUME M!LengthAssumption, NEW ad, NEW n, Array(ad, n), NEW ct, NEW m, Array(ct, m)
    PROVE  MLens(M!LenBlock(ad, ct), n, m) /\ 1 \in 1 .. BlockSize /\ 2 \in 1 .. BlockSize
<1>1. Len(ad) = n /\ Len(ct) = m /\ 1 \in 1 .. BlockSize /\ 2 \in 1 .. BlockSize
  <2>1. Len(ad) = n /\ Len(ct) = m
    BY ArrayLen
  <2>2. BlockSize \in Nat /\ BlockSize > 1
    BY MConstants
  <2> QED BY <2>1, <2>2
<1>2. M!LenBlock(ad, ct)[1] = M!Bits("ad", n) /\ M!LenBlock(ad, ct)[2] = M!Bits("ct", m)
  BY <1>1 DEF M!LenBlock
<1> QED BY <1>1, <1>2 DEF MLens, M!Bits, M!Zero, M!Atom

\* A string with no length in it; neither are its blocks.
MClean(s, n) == Array(s, n) /\ \A i \in 1 .. n : \A a \in s[i] : a[1] # "bits"

\* It is the only one with lengths in it.
LEMMA MNoBits ==
    ASSUME M!LengthAssumption, NEW s, NEW n, MClean(s, n),
           NEW k \in 1 .. M!BlocksIn(n), NEW j \in 1 .. BlockSize, NEW a \in M!BlocksOf(s)[k][j]
    PROVE  a[1] # "bits"
<1> DEFINE p == (k - 1) * BlockSize + j
<1>1. M!BlocksOf(s)[k][j] = IF p <= n THEN s[p] ELSE Zero
  BY MBlocksOf DEF MClean
<1>2. p \in Nat \ {0}
  <2> DEFINE w == (k - 1) * BlockSize
  <2>1. M!BlocksIn(n) \in Nat /\ BlockSize \in Nat /\ n \in Nat
    BY MBlocksIn, MConstants DEF MClean, Array
  <2>2. w \in Nat
    BY <2>1
  <2> HIDE DEF w
  <2> QED BY <2>1, <2>2 DEF w
<1> HIDE DEF p
<1>3. n \in Nat
  BY DEF MClean, Array
<1> QED BY <1>1, <1>2, <1>3 DEF MClean, Zero

\* The blocks of a string tell the string, if one knows how long it is.
LEMMA MBlocksTell ==
    ASSUME M!LengthAssumption, NEW s, NEW t, NEW n, Array(s, n), Array(t, n),
           \A k \in 1 .. M!BlocksIn(n), j \in 1 .. BlockSize : \A a :
              a \in M!BlocksOf(s)[k][j] <=> a \in M!BlocksOf(t)[k][j]
    PROVE  s = t
<1>1. ASSUME NEW p \in 1 .. n
      PROVE  s[p] = t[p]
  <2>1. PICK k \in 1 .. M!BlocksIn(n), j \in 1 .. BlockSize : p = (k - 1) * BlockSize + j
    BY MBlocksOf
  <2>2. n \in Nat
    BY DEF Array
  <2>3. M!BlocksOf(s)[k][j] = IF p <= n THEN s[p] ELSE Zero
    BY <2>1, MBlocksOf
  <2>4. M!BlocksOf(t)[k][j] = IF p <= n THEN t[p] ELSE Zero
    BY <2>1, MBlocksOf
  <2>5. M!BlocksOf(s)[k][j] = s[p] /\ M!BlocksOf(t)[k][j] = t[p]
    BY <2>2, <2>3, <2>4
  <2> DEFINE b == M!BlocksOf(s)[k][j]
             c == M!BlocksOf(t)[k][j]
  <2>6. \A a : a \in b <=> a \in c
    OBVIOUS
  <2>7. b = s[p] /\ c = t[p]
    BY <2>5
  <2> HIDE DEF b, c
  <2>8. \A a : a \in s[p] <=> a \in t[p]
    BY <2>6, <2>7
  <2> QED BY <2>8
<1> QED BY <1>1, ArrayEqual

\* Data and a text without a length in them, not both empty, and the nonce but
\* for its first bit can be told from the sum.
LEMMA MSumTells ==
    ASSUME M!LengthAssumption,
           NEW nonce, NEW ad, NEW n, MClean(ad, n), NEW ct, NEW m, MClean(ct, m),
           NEW other, NEW bd, NEW k, MClean(bd, k), NEW dt, NEW l, MClean(dt, l),
           MBlocks(n, m) < HalfRadix, MBlocks(k, l) < HalfRadix,
           n # 0 \/ m # 0,
           M!Sum(nonce, ad, ct) = M!Sum(other, bd, dt)
    PROVE  [nonce EXCEPT !.top = 1] = [other EXCEPT !.top = 1] /\ ad = bd /\ ct = dt
<1> DEFINE H == MHashed(ad, ct)
           G == MHashed(bd, dt)
           hk == MBlocks(n, m)
           gk == MBlocks(k, l)
           an == M!BlocksIn(n)
           cn == M!BlocksIn(m)
           bn == M!BlocksIn(k)
           dn == M!BlocksIn(l)
           one == [nonce EXCEPT !.top = 1]
           two == [other EXCEPT !.top = 1]
<1>0. Array(ad, n) /\ Array(ct, m) /\ Array(bd, k) /\ Array(dt, l)
  BY DEF MClean
<1>1. n \in Nat /\ m \in Nat /\ k \in Nat /\ l \in Nat
  BY <1>0 DEF Array
<1>2. an \in Nat /\ cn \in Nat /\ bn \in Nat /\ dn \in Nat
      /\ hk = (an + cn) + 1 /\ gk = (bn + dn) + 1
  BY <1>1, MBlocksIn DEF MBlocks
<1>3. MTotal(nonce, H, hk) = MTotal(other, G, gk)
  BY <1>0, MSum
<1>4. /\ \A i \in 1 .. an : H[i] = M!BlocksOf(ad)[i]
      /\ \A i \in 1 .. cn : H[an + i] = M!BlocksOf(ct)[i]
      /\ H[hk] = M!LenBlock(ad, ct)
  BY <1>0, MHashedParts
<1>5. /\ \A i \in 1 .. bn : G[i] = M!BlocksOf(bd)[i]
      /\ \A i \in 1 .. dn : G[bn + i] = M!BlocksOf(dt)[i]
      /\ G[gk] = M!LenBlock(bd, dt)
  BY <1>0, MHashedParts
<1>6. \A i \in 1 .. an : \A j \in 1 .. BlockSize : \A a \in M!BlocksOf(ad)[i][j] : a[1] # "bits"
  BY MNoBits
<1>7. \A i \in 1 .. cn : \A j \in 1 .. BlockSize : \A a \in M!BlocksOf(ct)[i][j] : a[1] # "bits"
  BY MNoBits
<1>8. \A i \in 1 .. bn : \A j \in 1 .. BlockSize : \A a \in M!BlocksOf(bd)[i][j] : a[1] # "bits"
  BY MNoBits
<1>9. \A i \in 1 .. dn : \A j \in 1 .. BlockSize : \A a \in M!BlocksOf(dt)[i][j] : a[1] # "bits"
  BY MNoBits
<1>10. /\ 1 \in 1 .. BlockSize /\ 2 \in 1 .. BlockSize
       /\ M!LenBlock(ad, ct)[1] = IF n = 0 THEN {} ELSE {<<"bits", "ad", n>>}
       /\ M!LenBlock(ad, ct)[2] = IF m = 0 THEN {} ELSE {<<"bits", "ct", m>>}
       /\ M!LenBlock(bd, dt)[1] = IF k = 0 THEN {} ELSE {<<"bits", "ad", k>>}
       /\ M!LenBlock(bd, dt)[2] = IF l = 0 THEN {} ELSE {<<"bits", "ct", l>>}
  <2>1. MLens(M!LenBlock(ad, ct), n, m) /\ 1 \in 1 .. BlockSize /\ 2 \in 1 .. BlockSize
    BY <1>0, MLenBlock
  <2>2. MLens(M!LenBlock(bd, dt), k, l)
    BY <1>0, MLenBlock
  <2> QED BY <2>1, <2>2 DEF MLens
<1>11. hk \in Nat \ {0} /\ gk \in Nat \ {0} /\ hk \in 1 .. hk
  BY <1>2
<1> HIDE DEF H, G, hk, gk, an, cn, bn, dn, one, two
<1>12. ASSUME NEW i \in 1 .. hk, NEW j \in 1 .. BlockSize, NEW a \in H[i][j]
       PROVE  i \in 1 .. gk /\ a \in G[i][j] /\ one = two
  BY <1>3, <1>11, MTotalTells DEF one, two
<1>13. ASSUME NEW i \in 1 .. gk, NEW j \in 1 .. BlockSize, NEW a \in G[i][j]
       PROVE  i \in 1 .. hk /\ a \in H[i][j]
  BY <1>3, <1>11, MTotalTells
<1>14. PICK j, a : j \in 1 .. BlockSize /\ a \in H[hk][j] /\ a[1] = "bits"
  <2>1. CASE n # 0
    <3> DEFINE x == <<"bits", "ad", n>>
    <3>1. x[1] = "bits"
      OBVIOUS
    <3> HIDE DEF x
    <3>2. x \in H[hk][1]
      BY <1>4, <1>10, <2>1 DEF x
    <3> QED BY <1>10, <3>1, <3>2
  <2>2. CASE n = 0
    <3> DEFINE x == <<"bits", "ct", m>>
    <3>1. x[1] = "bits" /\ m # 0
      BY <2>2
    <3> HIDE DEF x
    <3>2. x \in H[hk][2]
      BY <1>4, <1>10, <3>1 DEF x
    <3> QED BY <1>10, <3>1, <3>2
  <2> QED BY <2>1, <2>2
<1>15. hk \in 1 .. gk /\ a \in G[hk][j] /\ one = two
  BY <1>11, <1>12, <1>14
<1>16. hk = gk
  <2> SUFFICES ASSUME hk # gk PROVE FALSE
    OBVIOUS
  <2>1. hk \in 1 .. bn \/ (hk - bn \in 1 .. dn /\ bn + (hk - bn) = hk)
    BY <1>2, <1>11, <1>15
  <2>2. CASE hk \in 1 .. bn
    BY <1>5, <1>8, <1>14, <1>15, <2>2
  <2>3. CASE hk - bn \in 1 .. dn /\ bn + (hk - bn) = hk
    <3> DEFINE i == hk - bn
    <3>1. i \in 1 .. dn /\ G[hk] = M!BlocksOf(dt)[i]
      BY <1>5, <2>3
    <3> HIDE DEF i
    <3> QED BY <1>9, <1>14, <1>15, <3>1
  <2> QED BY <2>1, <2>2, <2>3
<1>17. \A i \in 1 .. hk, u \in 1 .. BlockSize : \A x : x \in H[i][u] <=> x \in G[i][u]
  BY <1>12, <1>13, <1>16
<1>18. n = k /\ m = l
  <2>1. \A x : x \in M!LenBlock(ad, ct)[1] <=> x \in M!LenBlock(bd, dt)[1]
    BY <1>4, <1>5, <1>10, <1>11, <1>16, <1>17
  <2>2. \A x : x \in M!LenBlock(ad, ct)[2] <=> x \in M!LenBlock(bd, dt)[2]
    BY <1>4, <1>5, <1>10, <1>11, <1>16, <1>17
  <2>3. n = k
    <3>1. CASE n = 0
      <4>1. <<"bits", "ad", k>> \notin M!LenBlock(ad, ct)[1]
        BY <1>10, <3>1
      <4>2. k # 0 => <<"bits", "ad", k>> \in M!LenBlock(bd, dt)[1]
        BY <1>10
      <4> QED BY <2>1, <3>1, <4>1, <4>2
    <3>2. CASE n # 0
      <4>1. <<"bits", "ad", n>> \in M!LenBlock(ad, ct)[1]
        BY <1>10, <3>2
      <4>2. <<"bits", "ad", n>> \in IF k = 0 THEN {} ELSE {<<"bits", "ad", k>>}
        BY <1>10, <2>1, <4>1
      <4>3. <<"bits", "ad", n>> = <<"bits", "ad", k>>
        BY <4>2
      <4> QED BY <4>3
    <3> QED BY <3>1, <3>2
  <2>4. m = l
    <3>1. CASE m = 0
      <4>1. <<"bits", "ct", l>> \notin M!LenBlock(ad, ct)[2]
        BY <1>10, <3>1
      <4>2. l # 0 => <<"bits", "ct", l>> \in M!LenBlock(bd, dt)[2]
        BY <1>10
      <4> QED BY <2>2, <3>1, <4>1, <4>2
    <3>2. CASE m # 0
      <4>1. <<"bits", "ct", m>> \in M!LenBlock(ad, ct)[2]
        BY <1>10, <3>2
      <4>2. <<"bits", "ct", m>> \in IF l = 0 THEN {} ELSE {<<"bits", "ct", l>>}
        BY <1>10, <2>2, <4>1
      <4>3. <<"bits", "ct", m>> = <<"bits", "ct", l>>
        BY <4>2
      <4> QED BY <4>3
    <3> QED BY <3>1, <3>2
  <2> QED BY <2>3, <2>4
<1>19. an = bn /\ cn = dn
  BY <1>18 DEF an, bn, cn, dn
<1>20. ad = bd
  <2>1. \A i \in 1 .. an : i \in 1 .. hk
    BY <1>2
  <2>2. \A i \in 1 .. an, u \in 1 .. BlockSize : \A x :
           x \in M!BlocksOf(ad)[i][u] <=> x \in M!BlocksOf(bd)[i][u]
    BY <1>4, <1>5, <1>17, <1>19, <2>1
  <2>3. Array(bd, n)
    BY <1>0, <1>18
  <2> QED BY <2>2, <2>3, <1>0, MBlocksTell DEF an
<1>21. ct = dt
  <2>1. \A i \in 1 .. cn : an + i \in 1 .. hk
    BY <1>2
  <2>2. \A i \in 1 .. cn, u \in 1 .. BlockSize : \A x :
           x \in M!BlocksOf(ct)[i][u] <=> x \in M!BlocksOf(dt)[i][u]
    BY <1>4, <1>5, <1>17, <1>19, <2>1
  <2>3. Array(dt, m)
    BY <1>0, <1>18
  <2> QED BY <2>2, <2>3, <1>0, MBlocksTell DEF cn
<1> QED BY <1>15, <1>20, <1>21 DEF one, two

\* The tag, what it is made from, and the box.
MTag(x) == [p \in 1 .. TagSize |-> {<<"tag", x, p>>}]
MKnown(h, msg) == M!Sum(h.nonce, h.ad, MText(h.nonce, msg))
MBox(h, msg) == MText(h.nonce, msg) \o MTag(MKnown(h, msg))

\* The longest message, and that nothing the receiver hashes has too many
\* blocks.
LEMMA MLongest ==
    ASSUME M!LengthAssumption
    PROVE  /\ M!Longest \in {Len(m) : m \in MgmMessages}
           /\ \A m \in MgmMessages : Len(m) <= M!Longest
           /\ M!Longest \in Nat
<1> DEFINE T == {Len(m) : m \in MgmMessages}
           l == M!Longest
           b == HalfRadix * BlockSize
<1>1. T \subseteq Nat /\ T # {} /\ HalfRadix \in Nat /\ BlockSize \in Nat \ {0}
  <2>1. MgmMessages # {}
    BY DEF M!LengthAssumption
  <2>2. \A m \in MgmMessages : Len(m) \in Nat
    BY MConstants
  <2>3. HalfRadix \in Nat /\ BlockSize \in Nat \ {0}
    BY MConstants
  <2> QED BY <2>1, <2>2, <2>3
<1>2. b \in Nat
  BY <1>1
<1>3. ASSUME NEW x \in T PROVE x <= b
  <2> DEFINE q == x \div BlockSize
             r == x % BlockSize
  <2>1. PICK m \in MgmMessages : x = Len(m)
    OBVIOUS
  <2>2. PICK a \in Ads : TRUE
    BY DEF M!LengthAssumption
  <2>3. Len(a) \div BlockSize + q + 3 < HalfRadix /\ Len(a) \in Nat /\ x \in Nat
    BY <2>1, <2>2, MConstants
  <2>4. Len(a) \div BlockSize \in Nat
    BY <1>1, <2>3, Divided
  <2>5. q \in Nat /\ r \in 0 .. BlockSize - 1 /\ x = q * BlockSize + r
    BY <1>1, <2>3, Divided
  <2> HIDE DEF q, r
  <2>6. HalfRadix - q - 1 \in Nat
    BY <1>1, <2>3, <2>4, <2>5
  <2> DEFINE w == (HalfRadix - q - 1) * BlockSize
             qb == q * BlockSize
  <2>7. w \in Nat /\ qb \in Nat /\ b = qb + BlockSize + w
    BY <1>1, <2>5, <2>6
  <2> HIDE DEF w, b
  <2>8. x = qb + r
    BY <2>5
  <2> HIDE DEF qb
  <2> QED BY <1>1, <2>5, <2>7, <2>8
<1> HIDE DEF b
<1>4. \E x \in T : \A y \in T : y <= x
  <2> HIDE DEF T
  <2> QED BY <1>1, <1>2, <1>3, GreatestNumber
<1>5. l \in T /\ \A m \in MgmMessages : Len(m) <= l
  <2>1. \E x \in T : \A m \in MgmMessages : Len(m) <= x
    BY <1>4
  <2>2. l = CHOOSE x \in T : \A m \in MgmMessages : Len(m) <= x
    BY DEF M!Longest
  <2> HIDE DEF l, T
  <2> QED BY <2>1, <2>2
<1> QED BY <1>1, <1>5

\* Headers and whatever arrives have fewer blocks than a counter has values.
LEMMA MSizes ==
    ASSUME M!LengthAssumption, NEW ad \in Ads, NEW n \in Nat, n <= M!BufSize
    PROVE  MBlocks(Len(ad), n) < HalfRadix /\ M!BlocksIn(n) < HalfRadix
<1> DEFINE l == M!Longest
           a == Len(ad)
           x == a \div BlockSize
           y == l \div BlockSize
<1>1. l \in Nat /\ n <= l + 1 /\ a \in Nat /\ BlockSize \in Nat \ {0} /\ HalfRadix \in Nat
  BY MLongest, MConstants DEF M!BufSize
<1>2. x + y + 3 < HalfRadix
  <2>1. PICK m \in MgmMessages : l = Len(m)
    BY MLongest
  <2> HIDE DEF l
  <2> QED BY <2>1, MConstants
<1>3. x \in Nat /\ y \in Nat
  <2> HIDE DEF l, a
  <2> QED BY <1>1, Divided
<1>4. M!BlocksIn(a) \in Nat /\ M!BlocksIn(a) <= x + 1
  BY <1>1, MBlocksIn
<1>5. M!BlocksIn(n) \in Nat
  BY MBlocksIn
<1>6. M!BlocksIn(n) <= y + 1
  <2>1. M!BlocksIn(l + 1) = y + 1
    BY <1>1, MBlocksIn
  <2>2. n + BlockSize - 1 \in Nat /\ (l + 1) + BlockSize - 1 \in Nat
        /\ n + BlockSize - 1 <= (l + 1) + BlockSize - 1
    BY <1>1
  <2> HIDE DEF l, y
  <2>3. (n + BlockSize - 1) \div BlockSize <= ((l + 1) + BlockSize - 1) \div BlockSize
    BY <1>1, <2>2, QuotientOrder
  <2> QED BY <2>1, <2>3 DEF M!BlocksIn
<1> HIDE DEF x, y, a
<1>7. MBlocks(a, n) < HalfRadix /\ M!BlocksIn(n) < HalfRadix
  BY <1>1, <1>2, <1>3, <1>4, <1>5, <1>6 DEF MBlocks
<1> QED BY <1>7 DEF a

\* The text and the tag as arrays.
LEMMA MParts ==
    ASSUME M!LengthAssumption, NEW h, NEW msg \in MgmMessages
    PROVE  /\ Len(msg) \in Nat /\ Len(msg) <= M!BufSize
           /\ Array(MText(h.nonce, msg), Len(msg)) /\ Array(MTag(MKnown(h, msg)), TagSize)
           /\ Joined(MBox(h, msg), MText(h.nonce, msg), Len(msg), MTag(MKnown(h, msg)), TagSize)
<1>1. Len(msg) \in Nat /\ TagSize \in Nat
  BY MConstants
<1>2. Len(msg) <= M!BufSize
  BY <1>1, MLongest DEF M!BufSize
<1> DEFINE t == MText(h.nonce, msg)
           g == MTag(MKnown(h, msg))
<1>3. Array(t, Len(msg)) /\ Array(g, TagSize)
  BY <1>1 DEF MText, MTag, Array
<1> HIDE DEF t, g
<1>4. Joined(t \o g, t, Len(msg), g, TagSize)
  BY <1>3, ArrayJoin
<1> QED BY <1>1, <1>2, <1>3, <1>4 DEF MBox, t, g

\* What encrypt writes, and that decrypting it gives the message under either
\* first bit of the nonce.
LEMMA MEncrypted ==
    ASSUME M!LengthAssumption, NEW h \in M!Headers, NEW msg \in MgmMessages
    PROVE  M!Encrypted(h, msg) = MBox(h, msg)
<1>1. Array(msg, Len(msg)) /\ h.ad \in Ads
  BY MConstants DEF M!Headers
<1>2. M!BlocksIn(Len(msg)) < HalfRadix
  BY <1>1, MParts, MSizes
<1>3. M!Crypt(h.nonce, msg) = MText(h.nonce, msg)
  BY <1>1, <1>2, MCrypt
<1>4. \A u, v, w : M!Tag(u, v, w) = MTag(M!Sum(u, v, w))
  BY DEF M!Tag, M!BytesOf, M!Atom, MTag
<1> QED BY <1>3, <1>4 DEF M!Encrypted, MBox, MKnown

\* Decryption undoes encryption, whatever the first bit of the nonce.
LEMMA MInverse ==
    ASSUME M!LengthAssumption, NEW ad \in Ads, NEW nonce, NEW other, NEW msg \in MgmMessages,
           [nonce EXCEPT !.top = 0] = [other EXCEPT !.top = 0]
    PROVE  M!Crypt(other, MText(nonce, msg)) = msg
<1> DEFINE t == MText(nonce, msg)
           n == Len(msg)
<1>1. n \in Nat /\ Array(msg, n) /\ n <= M!BufSize
  BY MConstants, MParts
<1>2. Array(t, n) /\ \A p \in 1 .. n : t[p] = Xor(msg[p], MByte(nonce, p))
  BY <1>1 DEF MText, Array
<1>3. M!BlocksIn(n) < HalfRadix
  BY <1>1, MSizes
<1> HIDE DEF t, n
<1>4. M!Crypt(other, t) = [p \in 1 .. n |-> Xor(t[p], MByte(other, p))]
  <2>1. Len(t) = n
    BY <1>2, ArrayLen
  <2> QED BY <1>2, <1>3, <2>1, MCrypt DEF MText
<1>5. \A p : MByte(other, p) = MByte(nonce, p)
  BY DEF MByte, MY
<1>6. \A p \in 1 .. n : Xor(t[p], MByte(other, p)) = msg[p]
  BY <1>2, <1>5, XorBasics
<1>7. msg = [p \in 1 .. n |-> msg[p]]
  BY <1>1 DEF Array
<1>8. M!Crypt(other, t) = msg
  BY <1>4, <1>6, <1>7
<1> QED BY <1>8 DEF t

\* A header is known by what Canonical leaves of it.
LEMMA MCanonical ==
    ASSUME NEW h \in M!Headers, NEW g \in M!Headers
    PROVE  /\ M!Canonical(h) = [nonce |-> [top |-> 0, rest |-> h.nonce.rest], ad |-> h.ad]
           /\ [h.nonce EXCEPT !.top = 0] = [top |-> 0, rest |-> h.nonce.rest]
           /\ [h.nonce EXCEPT !.top = 1] = [top |-> 1, rest |-> h.nonce.rest]
           /\ M!Canonical(h) = M!Canonical(g) <=> h.nonce.rest = g.nonce.rest /\ h.ad = g.ad
<1>1. \A x \in M!Headers : M!Canonical(x) = [nonce |-> [top |-> 0, rest |-> x.nonce.rest], ad |-> x.ad]
  BY DEF M!Headers, M!Canonical
<1>2. \A x \in M!Headers : /\ [x.nonce EXCEPT !.top = 0] = [top |-> 0, rest |-> x.nonce.rest]
                           /\ [x.nonce EXCEPT !.top = 1] = [top |-> 1, rest |-> x.nonce.rest]
  BY DEF M!Headers
<1>3. M!Canonical(h) = M!Canonical(g) <=> h.nonce.rest = g.nonce.rest /\ h.ad = g.ad
  BY <1>1
<1> QED BY <1>1, <1>2, <1>3

\* The box is that of RFC 9058.
LEMMA MReference ==
    ASSUME M!LengthAssumption, NEW h \in M!Headers, NEW msg \in MgmMessages
    PROVE  M!RefBox(M!Canonical(h), msg) = MBox(h, msg)
<1> DEFINE c == M!Canonical(h)
           rest == c.nonce.rest
           y(k) == [of |-> [top |-> 0, rest |-> rest], left |-> 0, right |-> k - 1]
           z(k) == [of |-> [top |-> 1, rest |-> rest], left |-> k - 1, right |-> 0]
           ct == [p \in 1 .. Len(msg) |->
                     M!Xor(msg[p], {M!Atom("stream", y((p - 1) \div BlockSize + 1),
                                           ((p - 1) % BlockSize) + 1)})]
           hashed == M!BlocksOf(c.ad) \o M!BlocksOf(ct) \o << M!LenBlock(c.ad, ct) >>
           sum == UNION {M!gf128_mul(z(k), hashed[k]) : k \in 1 .. Len(hashed)}
<1>1. M!RefBox(c, msg) = ct \o [p \in 1 .. TagSize |-> {M!Atom("tag", sum, p)}]
  BY DEF M!RefBox
<1>2. c.ad = h.ad /\ rest = h.nonce.rest
  <2>1. c = [nonce |-> [top |-> 0, rest |-> h.nonce.rest], ad |-> h.ad]
    BY MCanonical
  <2> HIDE DEF c
  <2> QED BY <2>1
<1>3. \A k : y(k) = MY(h.nonce, k) /\ z(k) = MZ(h.nonce, k)
  <2>1. /\ [h.nonce EXCEPT !.top = 0] = [top |-> 0, rest |-> h.nonce.rest]
        /\ [h.nonce EXCEPT !.top = 1] = [top |-> 1, rest |-> h.nonce.rest]
    BY MCanonical
  <2> QED BY <1>2, <2>1 DEF MY, MZ
<1> HIDE DEF y, z
<1>4. ct = MText(h.nonce, msg)
  <2>1. \A p \in 1 .. Len(msg) :
           M!Xor(msg[p], {M!Atom("stream", y((p - 1) \div BlockSize + 1), ((p - 1) % BlockSize) + 1)})
             = Xor(msg[p], MByte(h.nonce, p))
    BY <1>3, XorBasics DEF MByte, M!Atom
  <2> QED BY <2>1 DEF MText
<1> HIDE DEF ct, c
<1>5. hashed = MHashed(h.ad, ct)
  BY <1>2 DEF MHashed
<1>6. /\ Array(h.ad, Len(h.ad)) /\ Array(ct, Len(msg)) /\ MBlocks(Len(h.ad), Len(msg)) < HalfRadix
  <2>1. h.ad \in Ads
    BY DEF M!Headers
  <2> QED BY <1>4, <2>1, MConstants, MParts, MSizes
<1> HIDE DEF hashed
<1>7. Len(hashed) = MBlocks(Len(h.ad), Len(msg))
  BY <1>5, <1>6, MHashedParts
<1>8. sum = MTotal(h.nonce, hashed, MBlocks(Len(h.ad), Len(msg)))
  BY <1>3, <1>7 DEF MTotal
<1> HIDE DEF sum
<1>9. sum = MKnown(h, msg)
  BY <1>4, <1>5, <1>6, <1>8, MSum DEF MKnown
<1>10. [p \in 1 .. TagSize |-> {M!Atom("tag", sum, p)}] = MTag(MKnown(h, msg))
  BY <1>9 DEF MTag, M!Atom
<1> QED BY <1>1, <1>4, <1>10 DEF MBox, c

(***************************************************************************)
(* What reaches the receiver.                                              *)
(***************************************************************************)

\* A byte has the atoms of one tag at most and is no length.
MSafe(x, b) == \A a \in b : a[1] # "bits" /\ (a[1] = "tag" => a[2] = x)

MSafeBytes(x, s, n) == Array(s, n) /\ \A i \in 1 .. n : MSafe(x, s[i])

\* A text that fits in the receiver's buffer, and a tag.
MShaped(x, s, n) == MSafeBytes(x, s, n) /\ TagSize <= n /\ n - TagSize <= M!BufSize

\* The bytes of the box.
LEMMA MBoxBytes ==
    ASSUME M!LengthAssumption, NEW h, NEW msg \in MgmMessages
    PROVE  /\ MShaped(MKnown(h, msg), MBox(h, msg), Len(msg) + TagSize)
           /\ Len(MBox(h, msg)) = Len(msg) + TagSize
<1> DEFINE x == MKnown(h, msg)
           t == MText(h.nonce, msg)
           c == MBox(h, msg)
           g == MTag(x)
           n == Len(msg)
<1>1. n \in Nat /\ TagSize \in Nat /\ n <= M!BufSize /\ Joined(c, t, n, g, TagSize)
  BY MConstants, MParts
<1>2. \A i \in 1 .. n : t[i] = Xor(msg[i], MByte(h.nonce, i))
  BY DEF MText
<1>3. \A i \in 1 .. TagSize : g[i] = {<<"tag", x, i>>}
  BY DEF MTag
<1>4. \A i \in 1 .. n : \A a \in msg[i] : a[1] = "msg"
  BY MConstants
<1> HIDE DEF x, t, c, g, n
<1>5. ASSUME NEW i \in 1 .. n
      PROVE  MSafe(x, c[i])
  <2>1. \A a \in MByte(h.nonce, i) : a[1] = "stream"
    <3> DEFINE u == MY(h.nonce, (i - 1) \div BlockSize + 1)
               v == ((i - 1) % BlockSize) + 1
    <3>1. MByte(h.nonce, i) = {<<"stream", u, v>>}
      BY DEF MByte
    <3> HIDE DEF u, v
    <3>2. <<"stream", u, v>>[1] = "stream"
      OBVIOUS
    <3> QED BY <3>1, <3>2
  <2>2. c[i] = Xor(msg[i], MByte(h.nonce, i))
    BY <1>1, <1>2 DEF Joined
  <2>3. \A a \in c[i] : a[1] = "msg" \/ a[1] = "stream"
    BY <1>4, <2>1, <2>2 DEF Xor
  <2> QED BY <2>3 DEF MSafe
<1>6. ASSUME NEW i \in 1 .. TagSize
      PROVE  MSafe(x, c[n + i])
  <2>1. c[n + i] = {<<"tag", x, i>>}
    BY <1>1, <1>3 DEF Joined
  <2> QED BY <2>1 DEF MSafe
<1>7. \A i \in 1 .. n + TagSize : MSafe(x, c[i])
  <2>1. \A i \in 1 .. n + TagSize : i \in 1 .. n \/ (i - n \in 1 .. TagSize /\ n + (i - n) = i)
    BY <1>1
  <2> QED BY <1>5, <1>6, <2>1
<1>8. Array(c, n + TagSize)
  BY <1>1 DEF Joined
<1>9. Len(c) = n + TagSize
  BY <1>8, ArrayLen
<1>10. TagSize <= n + TagSize /\ (n + TagSize) - TagSize <= M!BufSize
  <2>1. (n + TagSize) - TagSize = n /\ TagSize <= n + TagSize
    BY <1>1
  <2> QED BY <1>1, <2>1
<1>11. MShaped(x, c, n + TagSize)
  BY <1>7, <1>8, <1>10 DEF MShaped, MSafeBytes
<1> QED BY <1>9, <1>11 DEF x, c, n

\* What is cut off, put together or hit by an error stays safe.
LEMMA MEnds ==
    ASSUME NEW x, NEW s, NEW n, MSafeBytes(x, s, n), NEW w \in Nat, w <= n
    PROVE  MSafeBytes(x, SubSeq(s, 1, w), w) /\ MSafeBytes(x, SubSeq(s, Len(s) - w + 1, Len(s)), w)
<1> DEFINE f == SubSeq(s, 1, w)
           l == SubSeq(s, Len(s) - w + 1, Len(s))
<1>1. Array(s, n) /\ n \in Nat
  BY DEF MSafeBytes, Array
<1>2. Array(f, w) /\ \A i \in 1 .. w : f[i] = s[i]
  BY <1>1, ArrayEnds
<1>3. Array(l, w) /\ \A i \in 1 .. w : l[i] = s[n - w + i]
  BY <1>1, ArrayEnds
<1>4. \A i \in 1 .. w : i \in 1 .. n /\ n - w + i \in 1 .. n
  BY <1>1
<1> HIDE DEF f, l
<1>5. MSafeBytes(x, f, w)
  BY <1>2, <1>4 DEF MSafeBytes
<1>6. MSafeBytes(x, l, w)
  BY <1>3, <1>4 DEF MSafeBytes
<1> QED BY <1>5, <1>6 DEF f, l

\* Two safe strings make one.
LEMMA MSafeJoin ==
    ASSUME NEW x, NEW s, NEW n, MSafeBytes(x, s, n), NEW t, NEW m, MSafeBytes(x, t, m)
    PROVE  MSafeBytes(x, s \o t, n + m)
<1> DEFINE c == s \o t
<1>1. Joined(c, s, n, t, m)
  BY ArrayJoin DEF MSafeBytes
<1> HIDE DEF c
<1>2. \A i \in 1 .. n : MSafe(x, c[i])
  BY <1>1 DEF MSafeBytes, Joined
<1>3. \A i \in 1 .. m : MSafe(x, c[n + i])
  BY <1>1 DEF MSafeBytes, Joined
<1>4. \A i \in 1 .. n + m : MSafe(x, c[i])
  <2>1. n \in Nat /\ m \in Nat
    BY <1>1 DEF Joined
  <2>2. \A i \in 1 .. n + m : i \in 1 .. n \/ (i - n \in 1 .. m /\ n + (i - n) = i)
    BY <2>1
  <2> QED BY <1>2, <1>3, <2>2
<1> QED BY <1>1, <1>4 DEF MSafeBytes, Joined, c

\* A box with a wrong byte is safe.
LEMMA MFlipped ==
    ASSUME NEW x, NEW w, NEW n, MSafeBytes(x, w, n), NEW box \in M!Flipped(w)
    PROVE  MSafeBytes(x, box, n)
<1>1. Len(w) = n /\ n \in Nat /\ w = [i \in 1 .. n |-> w[i]]
  BY ArrayLen DEF Array, MSafeBytes
<1> DEFINE e == M!Atom("error", 0, 0)
<1>2. PICK p \in 1 .. n : box = [w EXCEPT ![p] = M!Xor(w[p], {e})]
  BY <1>1 DEF M!Flipped
<1> DEFINE b == M!Xor(w[p], {e})
<1>3. MSafe(x, b)
  <2>1. e[1] = "error"
    BY DEF M!Atom
  <2> HIDE DEF e
  <2>2. MSafe(x, w[p])
    BY DEF MSafeBytes
  <2> QED BY <2>1, <2>2 DEF MSafe, M!Xor
<1> HIDE DEF b, e
<1>4. box = [i \in 1 .. n |-> IF i = p THEN b ELSE w[i]]
  BY <1>1, <1>2 DEF b, e
<1>5. Array(box, n)
  BY <1>1, <1>4 DEF Array
<1>6. \A i \in 1 .. n : MSafe(x, box[i])
  BY <1>3, <1>4 DEF MSafeBytes
<1> QED BY <1>5, <1>6 DEF MSafeBytes

\* A text of another length.
LEMMA MOtherLength ==
    ASSUME M!LengthAssumption, NEW x, NEW w, NEW n, MSafeBytes(x, w, n + TagSize), n \in Nat,
           n < M!BufSize, M!BufSize \in Nat, NEW box \in M!OtherLength(w)
    PROVE  \E k : MShaped(x, box, k)
<1>1. Len(w) = n + TagSize /\ TagSize \in Nat \ {0} /\ TagSize <= n + TagSize
      /\ Len(w) - TagSize = n /\ n <= n + TagSize
  <2>1. Len(w) = n + TagSize
    BY ArrayLen DEF MSafeBytes
  <2>2. TagSize \in Nat \ {0}
    BY MConstants
  <2> QED BY <2>1, <2>2
<1> DEFINE t == SubSeq(w, Len(w) - TagSize + 1, Len(w))
           z == << Zero >>
<1>2. MSafeBytes(x, t, TagSize)
  <2>1. TagSize \in Nat /\ TagSize <= n + TagSize
    BY <1>1
  <2> QED BY <2>1, MEnds
<1>3. MSafeBytes(x, z, 1)
  BY DEF MSafeBytes, Array, MSafe, Zero
<1>4. M!Zero = Zero
  BY DEF M!Zero, Zero
<1> HIDE DEF t, z
<1>5. CASE \E k \in 0 .. n : box = SubSeq(w, 1, k) \o t
  <2>1. PICK k \in 0 .. n : box = SubSeq(w, 1, k) \o t
    BY <1>5
  <2> DEFINE s == SubSeq(w, 1, k)
  <2>2. k \in Nat /\ k <= n + TagSize
    BY <1>1
  <2>3. MSafeBytes(x, s, k)
    BY <2>2, MEnds
  <2> HIDE DEF s
  <2>4. MSafeBytes(x, s \o t, k + TagSize)
    BY <1>2, <2>3, MSafeJoin
  <2>5. TagSize <= k + TagSize /\ (k + TagSize) - TagSize <= M!BufSize
    BY <1>1, <2>2
  <2>6. MShaped(x, box, k + TagSize)
    BY <2>1, <2>4, <2>5 DEF MShaped, s
  <2> QED BY <2>6
<1>6. CASE box = (SubSeq(w, 1, n) \o z) \o t
  <2> DEFINE s == SubSeq(w, 1, n)
             sz == s \o z
  <2>1. MSafeBytes(x, s, n)
    BY <1>1, MEnds
  <2> HIDE DEF s
  <2>2. MSafeBytes(x, sz, n + 1)
    BY <1>3, <2>1, MSafeJoin
  <2> HIDE DEF sz
  <2>3. MSafeBytes(x, sz \o t, (n + 1) + TagSize)
    BY <1>2, <2>2, MSafeJoin
  <2>4. TagSize <= (n + 1) + TagSize /\ ((n + 1) + TagSize) - TagSize <= M!BufSize
    BY <1>1
  <2>5. MShaped(x, box, (n + 1) + TagSize)
    BY <1>6, <2>3, <2>4 DEF MShaped, s, sz
  <2> QED BY <2>5
<1> QED BY <1>1, <1>4, <1>5, <1>6 DEF M!OtherLength, M!First, M!Last, M!Text, t, z

\* The last byte of additional data is safe.
LEMMA MLastByte ==
    ASSUME M!LengthAssumption, NEW x, NEW ad \in Ads, ad # <<>>
    PROVE  MSafeBytes(x, M!Last(ad, 1), 1)
<1> DEFINE n == Len(ad)
           v == 2 - 1
<1>1. n \in Nat /\ Array(ad, n) /\ \A i \in 1 .. n : \A a \in ad[i] : a[1] = "ad"
  BY MConstants
<1> HIDE DEF n
<1>2. n # 0
  BY <1>1, ArrayEmpty
<1>3. MSafeBytes(x, ad, n)
  BY <1>1 DEF MSafeBytes, MSafe
<1>4. v = 1 /\ v \in Nat /\ v <= n
  BY <1>1, <1>2
<1> HIDE DEF v
<1>5. MSafeBytes(x, SubSeq(ad, Len(ad) - v + 1, Len(ad)), v)
  BY <1>3, <1>4, MEnds
<1>6. M!Last(ad, 1) = SubSeq(ad, Len(ad) - 1 + 1, Len(ad))
  BY DEF M!Last
<1> QED BY <1>4, <1>5, <1>6

\* Of what reaches the receiver decrypt accepts only what was sent.
LEMMA MAuthentic ==
    ASSUME M!LengthAssumption, NEW h \in M!Headers, NEW msg \in MgmMessages,
           h.ad # <<>> \/ msg # <<>>,
           NEW g \in M!Headers, NEW box, NEW k, MShaped(MKnown(h, msg), box, k)
    PROVE  M!Authentic(g, box) <=> M!Canonical(g) = M!Canonical(h) /\ box = MBox(h, msg)
<1> DEFINE x == MKnown(h, msg)
           n == Len(msg)
           o == k - TagSize
           ct == SubSeq(box, 1, o)
           tag == SubSeq(box, Len(box) - TagSize + 1, Len(box))
           y == M!Sum(g.nonce, g.ad, ct)
           t == MText(h.nonce, msg)
<1>1. /\ k \in Nat /\ Len(box) = k /\ TagSize \in Nat \ {0} /\ Array(box, k)
      /\ o \in Nat /\ o <= k /\ TagSize <= k /\ o <= M!BufSize
  <2>1. k \in Nat /\ Len(box) = k /\ Array(box, k) /\ TagSize <= k /\ k - TagSize <= M!BufSize
    BY ArrayLen DEF MShaped, MSafeBytes, Array
  <2>2. TagSize \in Nat \ {0}
    BY MConstants
  <2> QED BY <2>1, <2>2
<1>2. M!Authentic(g, box) <=> MTag(y) = tag
  <2>1. \A u, v, w : M!Tag(u, v, w) = MTag(M!Sum(u, v, w))
    BY DEF M!Tag, M!BytesOf, M!Atom, MTag
  <2>2. M!Text(box) = ct
    BY <1>1 DEF M!Text, M!First
  <2> QED BY <2>1, <2>2 DEF M!Authentic, M!secure_equal, M!Last
<1>3. h.ad \in Ads /\ g.ad \in Ads
  BY DEF M!Headers
<1>4. /\ Array(t, n) /\ Array(MTag(x), TagSize) /\ n \in Nat /\ n <= M!BufSize
      /\ Joined(MBox(h, msg), t, n, MTag(x), TagSize)
  BY MParts
<1>5. \A i \in 1 .. k : MSafe(x, box[i])
  BY DEF MShaped, MSafeBytes
<1>6. MShaped(x, MBox(h, msg), n + TagSize)
  BY MBoxBytes
<1> HIDE DEF n, o, x, y, ct, tag, t
<1>7. Array(ct, o) /\ \A i \in 1 .. o : ct[i] = box[i]
  BY <1>1, ArrayEnds DEF ct
<1>8. Array(tag, TagSize) /\ \A i \in 1 .. TagSize : tag[i] = box[k - TagSize + i]
  BY <1>1, ArrayEnds DEF tag
<1>9. box = ct \o tag
  BY <1>1, ArrayHalves DEF ct, tag, o
<1>10. Joined(box, ct, o, tag, TagSize)
  <2>1. Joined(ct \o tag, ct, o, tag, TagSize)
    BY <1>7, <1>8, ArrayJoin
  <2> QED BY <1>9, <2>1
<1>11. ASSUME MTag(y) = tag
       PROVE  M!Canonical(g) = M!Canonical(h) /\ box = MBox(h, msg)
  <2>1. x = y
    <3>1. 1 \in 1 .. TagSize /\ k - TagSize + 1 \in 1 .. k
      BY <1>1
    <3>2. MTag(y)[1] = {<<"tag", y, 1>>}
      BY <3>1 DEF MTag
    <3>3. box[k - TagSize + 1] = {<<"tag", y, 1>>}
      BY <1>8, <1>11, <3>1, <3>2
    <3>4. <<"tag", y, 1>> \in box[k - TagSize + 1] /\ MSafe(x, box[k - TagSize + 1])
      BY <1>5, <3>1, <3>3
    <3> QED BY <3>4 DEF MSafe
  <2>2. M!Sum(h.nonce, h.ad, t) = M!Sum(g.nonce, g.ad, ct)
    BY <2>1 DEF x, y, MKnown, t
  <2>3. MClean(h.ad, Len(h.ad)) /\ MClean(g.ad, Len(g.ad)) /\ Array(h.ad, Len(h.ad))
    <3>1. \A s \in Ads : Array(s, Len(s)) /\ \A i \in 1 .. Len(s) : \A a \in s[i] : a[1] = "ad"
      BY MConstants
    <3>2. \A s \in Ads : \A i \in 1 .. Len(s) : \A a \in s[i] : a[1] # "bits"
      BY <3>1
    <3> QED BY <1>3, <3>1, <3>2 DEF MClean
  <2>4. MClean(t, n)
    <3> SUFFICES ASSUME NEW i \in 1 .. n, NEW a \in t[i] PROVE a[1] # "bits"
      BY <1>4 DEF MClean
    <3>1. MSafe(x, MBox(h, msg)[i])
      <4>1. i \in 1 .. n + TagSize
        BY <1>1, <1>4
      <4> QED BY <1>6, <4>1 DEF MShaped, MSafeBytes
    <3>2. t[i] = MBox(h, msg)[i]
      BY <1>4 DEF Joined
    <3> QED BY <3>1, <3>2 DEF MSafe
  <2>5. MClean(ct, o)
    <3>1. \A i \in 1 .. o : i \in 1 .. k
      BY <1>1
    <3> QED BY <1>5, <1>7, <3>1 DEF MSafe, MClean
  <2>6. MBlocks(Len(h.ad), n) < HalfRadix /\ MBlocks(Len(g.ad), o) < HalfRadix
    BY <1>1, <1>3, <1>4, MSizes
  <2>7. Len(h.ad) # 0 \/ n # 0
    <3>1. Array(msg, n)
      BY MConstants DEF n
    <3> QED BY <2>3, <3>1, ArrayEmpty
  <2>8. [h.nonce EXCEPT !.top = 1] = [g.nonce EXCEPT !.top = 1] /\ h.ad = g.ad /\ t = ct
    BY <2>2, <2>3, <2>4, <2>5, <2>6, <2>7, MSumTells
  <2>9. h.nonce.rest = g.nonce.rest
    <3>1. [top |-> 1, rest |-> h.nonce.rest] = [top |-> 1, rest |-> g.nonce.rest]
      BY <2>8, MCanonical
    <3> QED BY <3>1
  <2>10. M!Canonical(g) = M!Canonical(h)
    BY <2>8, <2>9, MCanonical
  <2>11. MBox(h, msg) = t \o MTag(x)
    BY DEF MBox, t, x
  <2> QED BY <1>9, <1>11, <2>1, <2>8, <2>10, <2>11
<1>12. ASSUME M!Canonical(g) = M!Canonical(h), box = MBox(h, msg)
       PROVE  MTag(y) = tag
  <2>1. ct = t /\ tag = MTag(x)
    <3>1. Joined(box, t, n, MTag(x), TagSize)
      BY <1>4, <1>12
    <3> QED BY <1>4, <1>7, <1>8, <1>10, <3>1, JoinedTells
  <2>2. g.ad = h.ad /\ g.nonce.rest = h.nonce.rest
    BY <1>12, MCanonical
  <2>3. [h.nonce EXCEPT !.top = 1] = [g.nonce EXCEPT !.top = 1]
    BY <2>2, MCanonical
  <2>4. M!Z(g.nonce) = M!Z(h.nonce)
    BY <2>3 DEF M!Z
  <2>5. y = M!Sum(g.nonce, h.ad, t) /\ x = M!Sum(h.nonce, h.ad, t)
    BY <2>1, <2>2 DEF x, y, MKnown, t
  <2>6. M!Sum(g.nonce, h.ad, t) = M!Sum(h.nonce, h.ad, t)
    <3>1. Array(h.ad, Len(h.ad)) /\ MBlocks(Len(h.ad), n) < HalfRadix
      BY <1>3, <1>4, MConstants, MSizes
    <3>2. M!Sum(g.nonce, h.ad, t) = MTotal(g.nonce, MHashed(h.ad, t), MBlocks(Len(h.ad), n))
      BY <1>4, <3>1, MSum
    <3>3. M!Sum(h.nonce, h.ad, t) = MTotal(h.nonce, MHashed(h.ad, t), MBlocks(Len(h.ad), n))
      BY <1>4, <3>1, MSum
    <3>4. \A i : MZ(g.nonce, i) = MZ(h.nonce, i)
      BY <2>3 DEF MZ
    <3> QED BY <3>2, <3>3, <3>4 DEF MTotal
  <2> QED BY <2>1, <2>5, <2>6
<1> QED BY <1>2, <1>11, <1>12

\* Before the first encryption there is a call of some kind.
LEMMA MNoCall ==
    ASSUME M!LengthAssumption
    PROVE  M!NoCall \in [header : M!Headers, msg : MgmMessages]
<1>1. \E s \in [header : M!Headers, msg : MgmMessages] : TRUE
  <2>1. PICK r \in Nonces, a \in Ads, m \in MgmMessages : TRUE
    BY DEF M!LengthAssumption
  <2> DEFINE h == [nonce |-> [top |-> 0, rest |-> r], ad |-> a]
  <2>2. h \in M!Headers
    BY <2>1 DEF M!Headers
  <2> HIDE DEF h
  <2>3. [header |-> h, msg |-> m] \in [header : M!Headers, msg : MgmMessages]
    BY <2>1, <2>2
  <2> QED BY <2>3
<1>2. M!NoCall = CHOOSE s \in [header : M!Headers, msg : MgmMessages] : TRUE
  BY DEF M!NoCall
<1> QED BY <1>1, <1>2

\* The receiver's buffer is an array.
LEMMA MBuffer ==
    ASSUME M!LengthAssumption
    PROVE  M!BufSize \in Nat /\ Array(M!Stale, M!BufSize)
<1>1. M!BufSize \in Nat
  BY MLongest DEF M!BufSize
<1> DEFINE k == M!BufSize
<1>2. M!Stale = [i \in 1 .. k |-> {<<"stale", 0, i>>}]
  BY DEF M!Stale, M!BytesOf, M!Atom
<1>3. k \in Nat
  BY <1>1
<1> HIDE DEF k
<1>4. Array(M!Stale, k)
  BY <1>2, <1>3 DEF Array
<1> QED BY <1>1, <1>4 DEF k

\* The invariant of MGM.
MWire(s) == MBox(s.header, s.msg)
MKnownOf(s) == MKnown(s.header, s.msg)

MInv ==
    /\ verdict \in {"idle", "sent", "accepted", "rejected"}
    /\ sent \in [header : M!Headers, msg : MgmMessages]
    /\ wire.header \in M!Headers /\ given.header \in M!Headers
    /\ given = [header |-> given.header, box |-> given.box]
    /\ verdict # "idle" =>
          /\ sent.header.ad # <<>> \/ sent.msg # <<>>
          /\ wire = [header |-> sent.header, box |-> MWire(sent)]
          /\ MShaped(MKnownOf(sent), given.box, Len(given.box))
    /\ Array(dst, M!BufSize)
    /\ verdict \in {"idle", "sent"} => dst = M!Stale
    /\ verdict \in {"accepted", "rejected"} =>
          \A p \in 1 .. M!BufSize : p > Len(given.box) - TagSize => dst[p] = M!Stale[p]
    /\ verdict = "rejected" => \A p \in 1 .. Len(given.box) - TagSize : dst[p] = M!Zero

\* The invariant of MGM holds at first.
LEMMA MInit ==
    ASSUME M!LengthAssumption, M!Init
    PROVE  MInv
<1>1. M!NoCall.header \in M!Headers
  BY MNoCall
<1>2. verdict = "idle" /\ sent = M!NoCall /\ dst = M!Stale
      /\ wire = [header |-> M!NoCall.header, box |-> M!Zeros(TagSize)] /\ given = wire
  BY DEF M!Init, M!NoBox
<1> QED BY <1>1, <1>2, MNoCall, MBuffer DEF MInv

\* kuznyechik_mgm_encrypt keeps the invariant.
LEMMA MSeal ==
    ASSUME M!LengthAssumption, MInv, NEW h \in M!Headers, NEW msg \in MgmMessages,
           M!kuznyechik_mgm_encrypt(h, msg)
    PROVE  MInv'
<1>1. /\ verdict = "idle" /\ verdict' = "sent" /\ dst' = dst
      /\ h.ad # <<>> \/ msg # <<>>
      /\ sent' = [header |-> h, msg |-> msg]
      /\ wire' = [header |-> h, box |-> M!Encrypted(h, msg)]
      /\ given' = wire'
  BY DEF M!kuznyechik_mgm_encrypt
<1>2. sent' \in [header : M!Headers, msg : MgmMessages]
  BY <1>1
<1>3. wire' = [header |-> sent'.header, box |-> MWire(sent')]
  BY <1>1, MEncrypted DEF MWire
<1>4. MShaped(MKnownOf(sent'), MWire(sent'), Len(MWire(sent')))
  BY <1>1, MBoxBytes DEF MWire, MKnownOf
<1>5. given' = [header |-> h, box |-> MWire(sent')]
  BY <1>1, <1>3
<1>6. Array(dst', M!BufSize) /\ dst' = M!Stale
  BY <1>1 DEF MInv
<1> QED BY <1>1, <1>2, <1>3, <1>4, <1>5, <1>6 DEF MInv

\* Whatever arrives keeps the invariant.
LEMMA MArrive ==
    ASSUME M!LengthAssumption, MInv, M!Arrive
    PROVE  MInv'
<1> DEFINE x == MKnownOf(sent)
           w == MWire(sent)
           n == Len(sent.msg)
<1>1. verdict = "sent" /\ sent' = sent /\ wire' = wire /\ verdict' = verdict /\ dst' = dst
  BY DEF M!Arrive
<1>2. sent \in [header : M!Headers, msg : MgmMessages] /\ wire = [header |-> sent.header, box |-> w]
  BY <1>1 DEF MInv
<1>3. MShaped(x, w, n + TagSize) /\ Len(w) = n + TagSize
  BY <1>2, MBoxBytes DEF MWire, MKnownOf
<1>4. TagSize \in Nat /\ n \in Nat /\ n < M!BufSize /\ M!BufSize \in Nat
  BY <1>2, MConstants, MLongest DEF M!BufSize
<1>5. sent.header \in M!Headers /\ sent.header.ad \in Ads
  BY <1>2 DEF M!Headers
<1>6. MSafeBytes(x, w, n + TagSize)
  BY <1>3 DEF MShaped
<1> HIDE DEF x, w, n
<1>7. \E g \in M!Headers : \E box, k : given' = [header |-> g, box |-> box] /\ MShaped(x, box, k)
  <2>1. ASSUME NEW box \in M!Flipped(wire.box) \cup M!OtherLength(wire.box),
               given' = [wire EXCEPT !.box = box]
        PROVE  \E g \in M!Headers : \E bx, k : given' = [header |-> g, box |-> bx] /\ MShaped(x, bx, k)
    <3>1. given' = [header |-> sent.header, box |-> box]
      BY <1>2, <2>1
    <3>2. wire.box = w
      BY <1>2
    <3>3. \E k : MShaped(x, box, k)
      <4>1. CASE box \in M!Flipped(w)
        <5>1. MSafeBytes(x, box, n + TagSize)
          BY <1>6, <4>1, MFlipped
        <5>2. MShaped(x, box, n + TagSize)
          BY <1>3, <5>1 DEF MShaped
        <5> QED BY <5>2
      <4>2. CASE box \in M!OtherLength(w)
        BY <1>4, <1>6, <4>2, MOtherLength
      <4> QED BY <2>1, <3>2, <4>1, <4>2
    <3> QED BY <1>5, <3>1, <3>3
  <2>2. ASSUME NEW g \in M!Headers, given' = [wire EXCEPT !.header = g]
        PROVE  \E h \in M!Headers : \E bx, k : given' = [header |-> h, box |-> bx] /\ MShaped(x, bx, k)
    <3>1. given' = [header |-> g, box |-> w]
      BY <1>2, <2>2
    <3> QED BY <1>3, <3>1
  <2>3. ASSUME /\ wire.header.ad # <<>> /\ Len(wire.box) - TagSize < M!BufSize
               /\ M!First(wire.header.ad, Len(wire.header.ad) - 1) \in Ads
               /\ given' = [header |-> [wire.header EXCEPT !.ad = M!First(@, Len(@) - 1)],
                            box |-> M!Last(wire.header.ad, 1) \o wire.box]
        PROVE  \E h \in M!Headers : \E bx, k : given' = [header |-> h, box |-> bx] /\ MShaped(x, bx, k)
    <3> DEFINE ad == sent.header.ad
               f == M!First(ad, Len(ad) - 1)
               g == [sent.header EXCEPT !.ad = f]
               l == M!Last(ad, 1)
    <3>1. given' = [header |-> g, box |-> l \o w] /\ f \in Ads /\ ad # <<>>
      BY <1>2, <2>3
    <3>2. g \in M!Headers
      <4> HIDE DEF f
      <4> QED BY <1>5, <3>1 DEF M!Headers
    <3>3. MSafeBytes(x, l, 1)
      <4> HIDE DEF l
      <4> QED BY <1>5, <3>1, MLastByte DEF l
    <3> HIDE DEF l, g
    <3>4. MSafeBytes(x, l \o w, 1 + (n + TagSize))
      BY <1>6, <3>3, MSafeJoin
    <3>5. TagSize <= 1 + (n + TagSize) /\ (1 + (n + TagSize)) - TagSize <= M!BufSize
      BY <1>4
    <3>6. MShaped(x, l \o w, 1 + (n + TagSize))
      BY <3>4, <3>5 DEF MShaped
    <3> QED BY <3>1, <3>2, <3>6
  <2> QED BY <2>1, <2>2, <2>3 DEF M!Arrive
<1>8. PICK g, box, k : g \in M!Headers /\ given' = [header |-> g, box |-> box] /\ MShaped(x, box, k)
  BY <1>7
<1>9. MShaped(x, box, Len(box))
  <2>1. Len(box) = k
    BY <1>8, ArrayLen DEF MShaped, MSafeBytes
  <2> QED BY <1>8, <2>1
<1>10. /\ given'.header \in M!Headers /\ given' = [header |-> given'.header, box |-> given'.box]
       /\ MShaped(MKnownOf(sent'), given'.box, Len(given'.box))
  BY <1>1, <1>8, <1>9 DEF x
<1> QED BY <1>1, <1>10 DEF MInv

\* What is written over the beginning of a buffer leaves the rest alone.
LEMMA MOverwrite ==
    ASSUME NEW b, NEW k, Array(b, k), NEW s, NEW n, Array(s, n), n <= k,
           NEW c, c = M!Overwrite(b, s)
    PROVE  /\ Array(c, k)
           /\ \A i \in 1 .. n : c[i] = s[i]
           /\ \A i \in 1 .. k : i > n => c[i] = b[i]
<1>1. Len(b) = k /\ Len(s) = n /\ k \in Nat /\ n \in Nat
  BY ArrayLen DEF Array
<1>2. c = [i \in 1 .. k |-> IF i <= n THEN s[i] ELSE b[i]]
  BY <1>1 DEF M!Overwrite
<1>3. Array(c, k)
  BY <1>1, <1>2 DEF Array
<1>4. \A i \in 1 .. n : c[i] = s[i]
  BY <1>1, <1>2
<1>5. \A i \in 1 .. k : i > n => c[i] = b[i]
  BY <1>1, <1>2
<1> QED BY <1>3, <1>4, <1>5

\* The receiver's buffer before decrypt, in place or not.
MBefore(inplace) == IF inplace THEN M!Overwrite(M!Stale, M!Text(given.box)) ELSE M!Stale

\* What kuznyechik_mgm_decrypt does: it accepts what encrypt wrote, gives out
\* that message, and keeps the invariant.
LEMMA MOpen ==
    ASSUME M!LengthAssumption, MInv, NEW inplace \in BOOLEAN, M!kuznyechik_mgm_decrypt(inplace)
    PROVE  /\ MInv'
           /\ verdict' = IF /\ M!Canonical(given.header) = M!Canonical(sent.header)
                            /\ given.box = MWire(sent)
                         THEN "accepted" ELSE "rejected"
           /\ verdict' = "accepted" => SubSeq(dst', 1, Len(sent.msg)) = sent.msg
<1> DEFINE b == MBefore(inplace)
           k == M!BufSize
           n == Len(sent.msg)
           o == Len(given.box) - TagSize
           t == M!Text(given.box)
           yes == M!Authentic(given.header, given.box)
<1>1. /\ verdict = "sent" /\ sent' = sent /\ wire' = wire /\ given' = given
      /\ dst' = M!Decrypted(given.header, given.box, b)
      /\ verdict' = IF yes THEN "accepted" ELSE "rejected"
  BY DEF M!kuznyechik_mgm_decrypt, MBefore
<1>2. /\ sent \in [header : M!Headers, msg : MgmMessages] /\ given.header \in M!Headers
      /\ sent.header.ad # <<>> \/ sent.msg # <<>>
      /\ MShaped(MKnownOf(sent), given.box, Len(given.box))
  BY <1>1 DEF MInv
<1>3. yes <=> M!Canonical(given.header) = M!Canonical(sent.header) /\ given.box = MWire(sent)
  <2>1. sent.header \in M!Headers /\ sent.msg \in MgmMessages
    BY <1>2
  <2> QED BY <1>2, <2>1, MAuthentic DEF MWire, MKnownOf
<1>4. k \in Nat /\ n \in Nat /\ Array(M!Stale, k) /\ Array(sent.msg, n) /\ n <= k /\ TagSize \in Nat
  BY <1>2, MBuffer, MConstants, MParts
<1>5. /\ o \in Nat /\ o <= k /\ Array(t, o) /\ \A i \in 1 .. o : t[i] = given.box[i]
  <2>1. Array(given.box, Len(given.box)) /\ TagSize <= Len(given.box) /\ o <= k
    BY <1>2 DEF MShaped, MSafeBytes
  <2>2. o \in Nat /\ o <= Len(given.box)
    BY <1>4, <2>1 DEF Array
  <2>3. t = SubSeq(given.box, 1, o)
    BY DEF M!Text, M!First
  <2> HIDE DEF o, t
  <2> QED BY <2>1, <2>2, <2>3, ArrayEnds
<1> HIDE DEF b, k, n, o, t
<1>6. Array(b, k) /\ \A i \in 1 .. k : i > o => b[i] = M!Stale[i]
  <2>1. CASE inplace
    <3>1. b = M!Overwrite(M!Stale, t)
      BY <2>1 DEF MBefore, b, t
    <3>2. Array(M!Stale, k) /\ Array(t, o) /\ o <= k
      BY <1>4, <1>5
    <3>3. Array(b, k) /\ \A i \in 1 .. k : i > o => b[i] = M!Stale[i]
      BY <3>1, <3>2, MOverwrite
    <3> QED BY <3>3
  <2>2. CASE ~inplace
    BY <1>4, <2>2 DEF MBefore, b
  <2> QED BY <2>1, <2>2
<1>7. CASE yes
  <2>1. given.box = MWire(sent) /\ M!Canonical(given.header) = M!Canonical(sent.header)
    BY <1>3, <1>7
  <2> DEFINE ct == MText(sent.header.nonce, sent.msg)
             g == MTag(MKnownOf(sent))
  <2>2. Joined(given.box, ct, n, g, TagSize) /\ Array(ct, n)
    BY <1>2, <2>1, MParts DEF MWire, MKnownOf, n
  <2> HIDE DEF g
  <2>3. o = n
    <3>1. Array(given.box, n + TagSize)
      BY <2>2 DEF Joined
    <3>2. Len(given.box) = n + TagSize
      BY <3>1, ArrayLen
    <3> QED BY <1>4, <3>2 DEF o
  <2>4. t = ct
    <3> HIDE DEF ct
    <3>1. \A i \in 1 .. n : t[i] = ct[i]
      BY <1>5, <2>2, <2>3 DEF Joined
    <3>2. Array(t, n)
      BY <1>5, <2>3
    <3> QED BY <2>2, <3>1, <3>2, ArrayEqual
  <2>5. M!Crypt(given.header.nonce, t) = sent.msg
    <3> DEFINE h == sent.header
               e == given.header
    <3>4. h \in M!Headers /\ e \in M!Headers /\ M!Canonical(e) = M!Canonical(h)
      BY <1>2, <2>1
    <3> HIDE DEF h, e
    <3>1. e.nonce.rest = h.nonce.rest
      BY <3>4, MCanonical
    <3>5. [h.nonce EXCEPT !.top = 0] = [top |-> 0, rest |-> h.nonce.rest]
      BY <3>4, MCanonical
    <3>6. [e.nonce EXCEPT !.top = 0] = [top |-> 0, rest |-> e.nonce.rest]
      BY <3>4, MCanonical
    <3>7. [h.nonce EXCEPT !.top = 0] = [e.nonce EXCEPT !.top = 0]
      BY <3>1, <3>5, <3>6
    <3>2. [sent.header.nonce EXCEPT !.top = 0] = [given.header.nonce EXCEPT !.top = 0]
      BY <3>7 DEF h, e
    <3>3. sent.header.ad \in Ads /\ sent.msg \in MgmMessages
      BY <1>2 DEF M!Headers
    <3> QED BY <2>4, <3>2, <3>3, MInverse
  <2>6. dst' = M!Overwrite(b, sent.msg)
    <3> HIDE DEF yes, ct
    <3>1. M!Decrypted(given.header, given.box, b) = M!Overwrite(b, M!Crypt(given.header.nonce, t))
      BY <1>7 DEF M!Decrypted, yes, t
    <3> QED BY <1>1, <2>5, <3>1
  <2> DEFINE d == dst'
  <2>7. d = M!Overwrite(b, sent.msg)
    BY <2>6
  <2> HIDE DEF d
  <2>8. /\ Array(d, k) /\ \A i \in 1 .. n : d[i] = sent.msg[i]
        /\ \A i \in 1 .. k : i > n => d[i] = b[i]
    <3>1. Array(sent.msg, n) /\ n <= k /\ Array(b, k)
      BY <1>4, <1>6
    <3> QED BY <2>7, <3>1, MOverwrite
  <2>9. SubSeq(d, 1, n) = sent.msg
    <3> DEFINE f == SubSeq(d, 1, n)
    <3>1. Array(f, n) /\ \A i \in 1 .. n : f[i] = d[i]
      BY <1>4, <2>8, ArrayEnds
    <3> HIDE DEF f
    <3>2. f = sent.msg
      BY <1>4, <2>8, <3>1, ArrayEqual
    <3> QED BY <3>2 DEF f
  <2>10. verdict' = "accepted"
    BY <1>1, <1>7
  <2>11. \A i \in 1 .. k : i > o => d[i] = M!Stale[i]
    BY <1>6, <2>3, <2>8
  <2>12. MInv'
    BY <1>1, <2>8, <2>10, <2>11 DEF MInv, k, o, d
  <2> QED BY <1>3, <1>7, <2>9, <2>10, <2>12 DEF n, d
<1>8. CASE ~yes
  <2> DEFINE d == dst'
             z == M!Zeros(o)
  <2>1. verdict' = "rejected"
    BY <1>1, <1>8
  <2>2. d = M!Overwrite(b, z)
    BY <1>1, <1>8 DEF M!Decrypted, o
  <2>3. Array(z, o) /\ \A i \in 1 .. o : z[i] = M!Zero
    BY <1>5 DEF M!Zeros, Array
  <2> HIDE DEF d, z
  <2>4. /\ Array(d, k) /\ (\A i \in 1 .. o : d[i] = z[i]) /\ \A i \in 1 .. k : i > o => d[i] = b[i]
    BY <1>5, <1>6, <2>2, <2>3, MOverwrite
  <2>5. \A i \in 1 .. k : i > o => d[i] = M!Stale[i]
    BY <1>6, <2>4
  <2>6. \A i \in 1 .. o : d[i] = M!Zero
    BY <2>3, <2>4
  <2>7. MInv'
    BY <1>1, <2>1, <2>4, <2>5, <2>6 DEF MInv, k, o, d
  <2> QED BY <1>3, <1>8, <2>1, <2>7
<1> QED BY <1>7, <1>8

\* Every step of MGM keeps the invariant.
LEMMA MNext ==
    ASSUME M!LengthAssumption, MInv, M!Next
    PROVE  MInv'
<1>1. ASSUME M!Finish PROVE MInv'
  <2>1. M!NoCall.header \in M!Headers
    BY MNoCall
  <2>2. verdict' = "idle" /\ sent' = M!NoCall /\ dst' = M!Stale
        /\ wire' = [header |-> M!NoCall.header, box |-> M!Zeros(TagSize)] /\ given' = wire'
    BY <1>1 DEF M!Finish, M!NoBox
  <2> QED BY <2>1, <2>2, MNoCall, MBuffer DEF MInv
<1> QED BY <1>1, MSeal, MArrive, MOpen DEF M!Next

\* What it says of the buffer and of a rejection.
LEMMA MSafety ==
    ASSUME M!LengthAssumption, MInv
    PROVE  M!TypeOK /\ M!RejectionWipes
<1>1. /\ sent \in [header : M!Headers, msg : MgmMessages]
      /\ wire.header \in M!Headers /\ given.header \in M!Headers
      /\ verdict \in {"idle", "sent", "accepted", "rejected"}
      /\ Array(dst, M!BufSize)
  BY DEF MInv
<1>2. Len(dst) = M!BufSize
  BY <1>1, ArrayLen
<1>3. verdict = "idle" \/ Len(wire.box) = Len(sent.msg) + TagSize
  <2> SUFFICES ASSUME verdict # "idle" PROVE Len(wire.box) = Len(sent.msg) + TagSize
    OBVIOUS
  <2>1. wire.box = MWire(sent)
    BY DEF MInv
  <2> QED BY <1>1, <2>1, MBoxBytes DEF MWire
<1>4. \A p \in 1 .. M!BufSize : p > Len(given.box) - TagSize => dst[p] = M!Stale[p]
  <2>1. CASE verdict \in {"idle", "sent"}
    BY <2>1 DEF MInv
  <2>2. CASE verdict \in {"accepted", "rejected"}
    BY <2>2 DEF MInv
  <2> QED BY <1>1, <2>1, <2>2
<1>5. M!RejectionWipes
  BY DEF MInv, M!RejectionWipes
<1> QED BY <1>1, <1>2, <1>3, <1>4, <1>5 DEF M!TypeOK

\* MGM implements authenticated encryption.
LEMMA MImplements ==
    ASSUME M!LengthAssumption, unit = "mgm", MInv, M!Next, unit' = unit
    PROVE  Abstract!Next
<1> DEFINE T(x) == [x EXCEPT !.header = <<unit, M!Canonical(x.header)>>]
<1>1. /\ Tagged(sent) = T(sent) /\ Tagged(given) = T(given)
      /\ Tagged(sent)' = T(sent') /\ Tagged(given)' = T(given')
  BY DEF Tagged
<1>2. \A h, y : /\ T([header |-> h, box |-> y]) = [header |-> <<unit, M!Canonical(h)>>, box |-> y]
                /\ T([header |-> h, msg |-> y]) = [header |-> <<unit, M!Canonical(h)>>, msg |-> y]
  OBVIOUS
<1>3. sent \in [header : M!Headers, msg : MgmMessages]
  BY DEF MInv
<1>4. ASSUME NEW h \in M!Headers, NEW msg \in MgmMessages
      PROVE  RefBox(<<unit, M!Canonical(h)>>, msg) = MBox(h, msg)
  <2>1. RefBox(<<unit, M!Canonical(h)>>, msg) = M!RefBox(M!Canonical(h), msg)
    BY DEF RefBox
  <2> QED BY <2>1, MReference
<1> HIDE DEF T
<1>5. ASSUME NEW h \in M!Headers, NEW msg \in MgmMessages, M!kuznyechik_mgm_encrypt(h, msg)
      PROVE  Abstract!Seal
  <2>1. verdict = "idle" /\ verdict' = "sent"
        /\ sent' = [header |-> h, msg |-> msg]
        /\ given' = [header |-> h, box |-> MBox(h, msg)]
    BY <1>5, MEncrypted DEF M!kuznyechik_mgm_encrypt
  <2> DEFINE c == M!Canonical(h)
  <2>2. /\ Tagged(sent)' = [header |-> <<unit, c>>, msg |-> msg]
        /\ Tagged(given)' = [header |-> <<unit, c>>, box |-> MBox(h, msg)]
    BY <1>1, <1>2, <2>1
  <2>3. <<unit, c>> \in AllHeaders /\ msg \in (ChaChaMessages \cup MgmMessages) \cup E!Messages
    <3>1. c \in {M!Canonical(x) : x \in M!Headers}
      OBVIOUS
    <3> HIDE DEF c
    <3> QED BY <3>1 DEF AllHeaders
  <2>4. RefBox(<<unit, c>>, msg) = MBox(h, msg)
    BY <1>4
  <2> HIDE DEF c
  <2> QED BY <2>1, <2>2, <2>3, <2>4 DEF Abstract!Seal, Abstract!SealedBy, Abstract!Sent
<1>6. ASSUME M!Arrive PROVE Abstract!Arrive
  <2>1. verdict = "sent" /\ sent' = sent /\ verdict' = verdict /\ dst' = dst
    BY <1>6 DEF M!Arrive
  <2>2. Tagged(sent)' = Tagged(sent)
    BY <1>1, <2>1
  <2> QED BY <2>1, <2>2 DEF Abstract!Arrive
<1>7. ASSUME NEW inplace \in BOOLEAN, M!kuznyechik_mgm_decrypt(inplace) PROVE Abstract!Open
  <2>1. verdict = "sent" /\ sent' = sent /\ given' = given
    BY <1>7 DEF M!kuznyechik_mgm_decrypt
  <2>2. /\ verdict' = IF /\ M!Canonical(given.header) = M!Canonical(sent.header)
                         /\ given.box = MWire(sent)
                      THEN "accepted" ELSE "rejected"
        /\ verdict' = "accepted" => SubSeq(dst', 1, Len(sent.msg)) = sent.msg
    BY <1>7, MOpen
  <2>3. Tagged(sent)' = Tagged(sent) /\ Tagged(given)' = Tagged(given)
    BY <1>1, <2>1
  <2> DEFINE h == sent.header
             m == sent.msg
             g == given.header
             y == given.box
  <2>4. sent = [header |-> h, msg |-> m] /\ given = [header |-> g, box |-> y]
        /\ h \in M!Headers /\ m \in MgmMessages
    BY <1>3 DEF MInv
  <2>5. verdict' = IF M!Canonical(g) = M!Canonical(h) /\ y = MBox(h, m)
                   THEN "accepted" ELSE "rejected"
    BY <2>2 DEF MWire
  <2> HIDE DEF h, m, g, y
  <2>6. /\ Tagged(sent) = [header |-> <<unit, M!Canonical(h)>>, msg |-> m]
        /\ Tagged(given) = [header |-> <<unit, M!Canonical(g)>>, box |-> y]
    BY <1>1, <1>2, <2>4
  <2>7. Abstract!SealedBy(Tagged(sent)) = [header |-> <<unit, M!Canonical(h)>>, box |-> MBox(h, m)]
    BY <1>4, <2>4, <2>6 DEF Abstract!SealedBy
  <2>8. Tagged(given) = Abstract!SealedBy(Tagged(sent))
          <=> M!Canonical(g) = M!Canonical(h) /\ y = MBox(h, m)
    BY <2>6, <2>7
  <2>9. verdict' = IF Tagged(given) = Abstract!SealedBy(Tagged(sent)) THEN "accepted" ELSE "rejected"
    BY <2>5, <2>8
  <2>10. Tagged(sent).msg = sent.msg
    BY <2>6 DEF m
  <2> QED BY <2>1, <2>2, <2>3, <2>9, <2>10 DEF Abstract!Open
<1>8. ASSUME M!Finish PROVE Abstract!Finish
  BY <1>8 DEF M!Finish, Abstract!Finish
<1> QED BY <1>5, <1>6, <1>7, <1>8 DEF M!Next, Abstract!Next

(***************************************************************************)
(* The three modes together.                                               *)
(***************************************************************************)

\* The inductive invariant: the one of the mode that runs.
AInv ==
    /\ unit \in {"chacha20poly1305", "mgm", "kexp15"}
    /\ unit = "chacha20poly1305" => CInv
    /\ unit = "mgm" => MInv
    /\ unit = "kexp15" => EInv

\* The sizes are what each mode assumes of them.
LEMMA AConstants == C!LengthAssumption /\ M!LengthAssumption /\ E!SizeAssumption
BY ConstantsAssumption DEF ConstantsAssumption

\* It holds at first.
LEMMA AInit ==
    ASSUME Init
    PROVE  AInv
<1>1. CASE unit = "chacha20poly1305" /\ C!Init
  <2>1. CInv
    BY <1>1, AConstants, CInit
  <2> QED BY <1>1, <2>1 DEF AInv
<1>2. CASE unit = "mgm" /\ M!Init
  <2>1. MInv
    BY <1>2, AConstants, MInit
  <2> QED BY <1>2, <2>1 DEF AInv
<1>3. CASE unit = "kexp15" /\ E!Init
  <2>1. EInv
    BY <1>3, AConstants, EInit
  <2> QED BY <1>3, <2>1 DEF AInv
<1> QED BY <1>1, <1>2, <1>3 DEF Init

\* Every step preserves it.
LEMMA ANext ==
    ASSUME AInv, [Next]_vars
    PROVE  AInv'
<1>1. CASE ChaCha20Poly1305Step
  <2>1. unit = "chacha20poly1305" /\ C!Next /\ unit' = unit
    BY <1>1 DEF ChaCha20Poly1305Step
  <2>2. CInv
    BY <2>1 DEF AInv
  <2>3. CInv'
    BY <2>1, <2>2, AConstants, CNext
  <2> QED BY <2>1, <2>3 DEF AInv
<1>2. CASE MgmStep
  <2>1. unit = "mgm" /\ M!Next /\ unit' = unit
    BY <1>2 DEF MgmStep
  <2>2. MInv
    BY <2>1 DEF AInv
  <2>3. MInv'
    BY <2>1, <2>2, AConstants, MNext
  <2> QED BY <2>1, <2>3 DEF AInv
<1>3. CASE KeyExportStep
  <2>1. unit = "kexp15" /\ E!Next /\ unit' = unit
    BY <1>3 DEF KeyExportStep
  <2>2. EInv
    BY <2>1 DEF AInv
  <2>3. EInv'
    BY <2>1, <2>2, AConstants, ENext
  <2> QED BY <2>1, <2>3 DEF AInv
<1>4. CASE UNCHANGED vars
  <2>1. unit' = unit /\ sent' = sent /\ wire' = wire /\ given' = given
        /\ verdict' = verdict /\ dst' = dst
    BY <1>4 DEF vars
  <2>2. CInv => CInv'
    BY <2>1 DEF CInv
  <2>3. MInv => MInv'
    BY <2>1 DEF MInv
  <2>4. EInv => EInv'
    BY <2>1 DEF EInv
  <2> QED BY <2>1, <2>2, <2>3, <2>4 DEF AInv
<1> QED BY <1>1, <1>2, <1>3, <1>4 DEF Next

\* It says what a rejection leaves in the receiver's buffer.
LEMMA ASafety ==
    ASSUME AInv
    PROVE  RejectionReleasesNothing
<1>1. unit = "chacha20poly1305" => C!TypeOK /\ C!NothingReleased
  BY AConstants, CSafety DEF AInv
<1>2. unit = "mgm" => M!TypeOK /\ M!RejectionWipes
  BY AConstants, MSafety DEF AInv
<1>3. unit = "kexp15" => E!TypeOK /\ E!KeyOnlyIfAuthentic
  BY AConstants, ESafety DEF AInv
<1> QED BY <1>1, <1>2, <1>3 DEF RejectionReleasesNothing, TypeOK

\* Every step is one of authenticated encryption, or changes nothing that it
\* sees.
LEMMA AStep ==
    ASSUME AInv, [Next]_vars
    PROVE  [Abstract!Next]_(Abstract!vars)
<1>1. CASE ChaCha20Poly1305Step
  <2>1. unit = "chacha20poly1305" /\ C!Next /\ unit' = unit
    BY <1>1 DEF ChaCha20Poly1305Step
  <2>2. CInv
    BY <2>1 DEF AInv
  <2> QED BY <2>1, <2>2, AConstants, CImplements
<1>2. CASE MgmStep
  <2>1. unit = "mgm" /\ M!Next /\ unit' = unit
    BY <1>2 DEF MgmStep
  <2>2. MInv
    BY <2>1 DEF AInv
  <2> QED BY <2>1, <2>2, AConstants, MImplements
<1>3. CASE KeyExportStep
  <2>1. unit = "kexp15" /\ E!Next /\ unit' = unit
    BY <1>3 DEF KeyExportStep
  <2>2. EInv
    BY <2>1 DEF AInv
  <2> QED BY <2>1, <2>2, AConstants, EImplements
<1>4. CASE UNCHANGED vars
  <2>1. unit' = unit /\ sent' = sent /\ given' = given /\ verdict' = verdict /\ dst' = dst
    BY <1>4 DEF vars
  <2>2. Tagged(sent)' = Tagged(sent) /\ Tagged(given)' = Tagged(given)
    BY <2>1 DEF Tagged
  <2> QED BY <2>1, <2>2 DEF Abstract!vars
<1> QED BY <1>1, <1>2, <1>3, <1>4 DEF Next

\* Nothing has been sealed at first.
LEMMA AFirst ==
    ASSUME Init
    PROVE  Abstract!Init
BY DEF Init, C!Init, M!Init, E!Init, Abstract!Init

\* A rejected message releases nothing: chacha20poly1305_decrypt leaves nothing
\* of it, kuznyechik_mgm_decrypt wipes the text, gost_kimp15 leaves the key as
\* it was; and none of them writes beyond the receiver's buffer.
THEOREM RejectionTheorem == Spec => []RejectionReleasesNothing
<1>1. Init => AInv
  BY AInit
<1>2. AInv /\ [Next]_vars => AInv'
  BY ANext
<1>3. AInv => RejectionReleasesNothing
  BY ASafety
<1> QED BY <1>1, <1>2, <1>3, PTL DEF Spec

\* ChaCha20-Poly1305, MGM and KExp15 as the code computes them implement
\* authenticated encryption: whatever arrives, decrypt accepts exactly the
\* header and the box of the last encrypt, and gives out that message.
THEOREM AETheorem == Spec => ImplementsAE
<1>1. Init => AInv
  BY AInit
<1>2. AInv /\ [Next]_vars => AInv'
  BY ANext
<1>3. Init => Abstract!Init
  BY AFirst
<1>4. AInv /\ [Next]_vars => [Abstract!Next]_(Abstract!vars)
  BY AStep
<1> QED BY <1>1, <1>2, <1>3, <1>4, PTL DEF Spec, ImplementsAE, Abstract!Spec
=============================================================================
