--------------------------- MODULE CtrAcpkmProofs ---------------------------
(***************************************************************************)
(* CTR-ACPKM for every size of block, counter, iv and section and every    *)
(* length of text: the loop stays inside the text, every section of whole  *)
(* blocks has the key of its number, no byte of key stream is used twice   *)
(* and the counter keeps out of the iv, in texts that do not count past    *)
(* the counter and the part of it behind the iv.                           *)
(*                                                                         *)
(* First division, then sections, then the counter block as a number and   *)
(* what ctr_inc does to it, at last the key stream.                        *)
(***************************************************************************)
EXTENDS CtrAcpkm, SequenceTheorems, WellFoundedInduction, TLAPS

\* Quotient and remainder: they exist,
LEMMA DivMod ==
    ASSUME NEW n \in Nat, NEW d \in Nat \ {0}
    PROVE  /\ n \div d \in Nat
           /\ n % d \in 0 .. d - 1
           /\ n = (n \div d) * d + (n % d)
OBVIOUS

\* and are unique.
LEMMA DivModUnique ==
    ASSUME NEW d \in Nat \ {0}, NEW k \in Nat, NEW r \in 0 .. d - 1
    PROVE  (k * d + r) \div d = k /\ (k * d + r) % d = r
OBVIOUS

\* The remainder of whole blocks by whole blocks is whole blocks.
LEMMA WholeRemainder ==
    ASSUME NEW b \in Nat \ {0}, NEW n \in Nat, NEW s \in Nat \ {0},
           n % b = 0, s % b = 0
    PROVE  (n % s) % b = 0
<1> DEFINE q == n \div s
           r == n % s
           i == n \div b
           j == s \div b
<1>1. q \in Nat /\ r \in Nat /\ n = q * s + r
  BY DivMod
<1>2. i \in Nat /\ n = i * b
  BY DivMod
<1>3. j \in Nat /\ s = j * b
  BY DivMod
<1> DEFINE m == q * j
<1>4. m \in Nat /\ q * s = m * b
  <2> HIDE DEF q, r, i, j
  <2>1. m \in Nat
    BY <1>1, <1>3
  <2>2. q * (j * b) = (q * j) * b
    BY <1>1, <1>3
  <2> QED BY <2>1, <2>2, <1>3
<1> HIDE DEF q, r, i, j, m
<1>5. r = (i - m) * b
  <2>1. r = i * b - m * b
    BY <1>1, <1>2, <1>4
  <2>2. i * b - m * b = (i - m) * b
    BY <1>2, <1>4
  <2> QED BY <2>1, <2>2
<1>6. i - m \in Nat
  <2>1. CASE i - m < 0
    <3>1. (i - m) * b < 0
      BY <2>1, <1>2, <1>4
    <3> QED BY <3>1, <1>5, <1>1
  <2> QED BY <2>1, <1>2, <1>4
<1>7. ((i - m) * b + 0) % b = 0
  BY <1>6, DivModUnique
<1>8. (i - m) * b + 0 = r
  BY <1>1, <1>5
<1>9. r % b = 0
  BY <1>7, <1>8
<1> QED BY <1>9 DEF r

\* Inside a block the section does not change: a block begins at n, the bytes
\* of it are those at n + o.
LEMMA SameSection ==
    ASSUME NEW b \in Nat \ {0}, NEW n \in Nat, NEW s \in Nat \ {0},
           n % b = 0, s % b = 0, NEW o \in 0 .. b - 1
    PROVE  (n + o) \div s = n \div s
<1> DEFINE q == n \div s
           r == n % s
           i == r \div b
           j == s \div b
<1>1. q \in Nat /\ r \in 0 .. s - 1 /\ n = q * s + r
  BY DivMod
<1>2. r % b = 0
  BY WholeRemainder
<1>3. i \in Nat /\ r = i * b
  BY <1>1, <1>2, DivMod
<1>4. j \in Nat /\ s = j * b
  BY DivMod
<1> HIDE DEF q, r, i, j
<1>5. i + 1 <= j
  <2>1. CASE i >= j
    <3>1. i * b >= j * b
      BY <2>1, <1>3, <1>4
    <3> QED BY <3>1, <1>1, <1>3, <1>4
  <2> QED BY <2>1, <1>3, <1>4
<1>6. (i + 1) * b <= j * b
  BY <1>5, <1>3, <1>4
<1>7. r + o \in 0 .. s - 1
  BY <1>6, <1>1, <1>3, <1>4
<1>8. (q * s + (r + o)) \div s = q
  BY <1>1, <1>7, DivModUnique
<1>9. q * s + (r + o) = n + o
  BY <1>1
<1> QED BY <1>8, <1>9 DEF q

\* The byte before n is in the section of n, unless n begins one.
LEMMA SectionBefore ==
    ASSUME NEW n \in Nat \ {0}, NEW s \in Nat \ {0}
    PROVE  (n - 1) \div s = IF n % s = 0 THEN (n \div s) - 1 ELSE n \div s
<1> DEFINE q == n \div s
           r == n % s
<1>1. q \in Nat /\ r \in 0 .. s - 1 /\ n = q * s + r
  BY DivMod
<1> HIDE DEF q, r
<1>2. CASE r = 0
  <2>1. q # 0
    BY <1>1, <1>2
  <2>2. q - 1 \in Nat /\ s - 1 \in 0 .. s - 1
    BY <1>1, <2>1
  <2>3. ((q - 1) * s + (s - 1)) \div s = q - 1
    BY <2>2, DivModUnique
  <2>4. (q - 1) * s + (s - 1) = n - 1
    BY <1>1, <1>2
  <2> QED BY <1>2, <2>3, <2>4 DEF q, r
<1>3. CASE r # 0
  <2>1. r - 1 \in 0 .. s - 1
    BY <1>1, <1>3
  <2>2. (q * s + (r - 1)) \div s = q
    BY <1>1, <2>1, DivModUnique
  <2>3. q * s + (r - 1) = n - 1
    BY <1>1
  <2> QED BY <1>3, <2>2, <2>3 DEF q, r
<1> QED BY <1>2, <1>3

-----------------------------------------------------------------------------

\* The inductive invariant: besides the two properties, the key in ctx is that
\* of the section of the last byte.
KeyIsCurrent ==
    section_size % BlockSize = 0 =>
        key = IF section_size = 0 \/ done = 0 THEN 0 ELSE (done - 1) \div section_size

IInv == TypeOK /\ SectionsRekeyed /\ KeyIsCurrent

LEMMA InitInv == Init => IInv
<1> SUFFICES ASSUME Init PROVE IInv
  OBVIOUS
<1> USE SizeAssumption DEF Init, Ivs
<1>1. out = <<>> /\ out \in Seq(StreamByte) /\ Len(out) = 0
  OBVIOUS
<1>2. ctr \in Counters
  BY DEF Counters, CtrIndex
<1>3. TypeOK
  <2>1. active \in BOOLEAN
    BY Zenon
  <2>2. len \in 0 .. MaxLen /\ iv \in Ivs /\ section_size \in Sections \cup {0} /\ key \in Nat
    OBVIOUS
  <2>3. done \in 0 .. len /\ Len(out) = done /\ done = len
    BY <1>1
  <2> QED BY <1>1, <1>2, <2>1, <2>2, <2>3 DEF TypeOK
<1>4. SectionsRekeyed
  BY <1>1 DEF SectionsRekeyed
<1>5. KeyIsCurrent
  BY DEF KeyIsCurrent
<1> QED BY <1>3, <1>4, <1>5 DEF IInv

\* A call starts with nothing done.
LEMMA CallInv ==
    ASSUME IInv, NEW n \in 0 .. MaxLen, NEW v \in Ivs, NEW s \in Sections,
           kuznyechik_ctr_acpkm(n, v, s)
    PROVE  IInv'
<1> USE SizeAssumption DEF kuznyechik_ctr_acpkm, Ivs
<1>1. out' = <<>> /\ out' \in Seq(StreamByte) /\ Len(out') = 0
  OBVIOUS
<1>2. ctr' \in Counters
  <2>1. v \in [0 .. IvSize - 1 -> 0 .. Radix - 1]
    OBVIOUS
  <2>2. ASSUME NEW i \in CtrIndex
        PROVE  (IF i < IvSize THEN v[i] ELSE 0) \in 0 .. Radix - 1
    BY <2>1 DEF CtrIndex
  <2> QED BY <2>2 DEF Counters
<1>3. TypeOK'
  BY <1>1, <1>2 DEF TypeOK
<1>4. SectionsRekeyed'
  BY <1>1 DEF SectionsRekeyed
<1>5. KeyIsCurrent'
  BY DEF KeyIsCurrent
<1> QED BY <1>3, <1>4, <1>5 DEF IInv

LEMMA IncType == ASSUME NEW c \in Counters PROVE ctr_inc(c) \in Counters
<1>1. ASSUME NEW i \in CtrIndex
      PROVE  (IF \A j \in i + 1 .. CtrSize - 1 : c[j] = Radix - 1
              THEN (c[i] + 1) % Radix ELSE c[i]) \in 0 .. Radix - 1
  <2>1. c[i] \in 0 .. Radix - 1
    BY DEF Counters
  <2>2. (c[i] + 1) % Radix \in 0 .. Radix - 1
    BY <2>1, SizeAssumption
  <2> QED BY <2>1, <2>2
<1> QED BY <1>1 DEF ctr_inc, Counters

\* A turn handles a part of one section: the key it leaves in ctx is that of
\* the section in which all of its bytes are.
LEMMA TurnInv ==
    ASSUME IInv, Turn
    PROVE  IInv'
<1> DEFINE take == Least(len - done, BlockSize)
           more == [i \in 1 .. take |-> [key |-> key', ctr |-> ctr, at |-> i - 1]]
<1>1. /\ len \in Nat /\ done \in Nat /\ done < len /\ done % BlockSize = 0
      /\ take \in 1 .. BlockSize /\ done + take <= len
      /\ take = BlockSize \/ done + take = len
  BY SizeAssumption DEF IInv, TypeOK, Turn, Least
<1>2. /\ done' = done + take /\ out' = out \o more
      /\ key' = IF Rekeys THEN key + 1 ELSE key
      /\ ctr' = ctr_inc(ctr)
      /\ UNCHANGED <<active, len, iv, section_size>>
  BY DEF Turn, acpkm_next
<1>3. /\ key \in Nat /\ key' \in Nat /\ ctr \in Counters /\ section_size \in Nat
      /\ out \in Seq(StreamByte) /\ Len(out) = done
  BY <1>2, SizeAssumption DEF IInv, Ivs, TypeOK
<1> HIDE DEF take
<1>4. more \in Seq(StreamByte) /\ Len(more) = take /\ \A i \in 1 .. take : more[i].key = key'
  <2>1. \A i \in 1 .. take : [key |-> key', ctr |-> ctr, at |-> i - 1] \in StreamByte
    BY <1>1, <1>3, SizeAssumption DEF StreamByte
  <2> QED BY <2>1, <1>1
<1> HIDE DEF more
<1>5. /\ out' \in Seq(StreamByte) /\ Len(out') = done + take
      /\ \A i \in 1 .. done : out'[i] = out[i]
      /\ \A i \in done + 1 .. done + take : out'[i] = more[i - done]
  <2> DEFINE longer == out \o more
  <2>1. longer \in Seq(StreamByte) /\ Len(longer) = done + take
    BY <1>3, <1>4, ConcatProperties
  <2>2. \A i \in 1 .. done + take :
           longer[i] = IF i <= done THEN out[i] ELSE more[i - done]
    BY <1>3, <1>4, ConcatProperties
  <2>3. out' = longer
    BY <1>2
  <2> HIDE DEF longer
  <2>4. \A i \in 1 .. done : longer[i] = out[i]
    BY <2>2, <1>1
  <2>5. \A i \in done + 1 .. done + take : longer[i] = more[i - done]
    BY <2>2, <1>1
  <2> QED BY <2>1, <2>3, <2>4, <2>5
<1>6. TypeOK'
  <2>1. (done + take = len) \/ (done + take) % BlockSize = 0
    <3>1. CASE take = BlockSize
      <4>1. /\ done \div BlockSize \in Nat
            /\ done = (done \div BlockSize) * BlockSize
        BY <1>1, DivMod, SizeAssumption
      <4> DEFINE q == done \div BlockSize
      <4>2. q + 1 \in Nat /\ done + take = (q + 1) * BlockSize + 0
        <5> HIDE DEF q
        <5>1. q \in Nat /\ done = q * BlockSize
          BY <4>1 DEF q
        <5> QED BY <5>1, <3>1, SizeAssumption
      <4> HIDE DEF q
      <4>3. ((q + 1) * BlockSize + 0) % BlockSize = 0
        BY <4>2, DivModUnique, SizeAssumption
      <4> QED BY <4>2, <4>3
    <3> QED BY <3>1, <1>1
  <2>2. ctr' \in Counters
    BY <1>2, <1>3, IncType
  <2>3. /\ active' \in BOOLEAN /\ len' \in 0 .. MaxLen /\ iv' \in Ivs
        /\ section_size' \in Sections \cup {0}
    BY <1>2 DEF IInv, TypeOK
  <2>4. done' \in 0 .. len' /\ (done' = len' \/ done' % BlockSize = 0)
    BY <1>1, <1>2, <2>1
  <2> QED BY <2>2, <2>3, <2>4, <1>2, <1>3, <1>5 DEF TypeOK
<1>7. ASSUME section_size % BlockSize = 0, section_size # 0, NEW o \in 0 .. take - 1
      PROVE  (done + o) \div section_size = key'
  <2>1. (done + o) \div section_size = done \div section_size
    <3>1. o \in 0 .. BlockSize - 1
      BY <1>1, SizeAssumption
    <3>2. section_size \in Nat \ {0} /\ BlockSize \in Nat \ {0}
      BY <1>3, <1>7, SizeAssumption
    <3>3. done \in Nat /\ done % BlockSize = 0 /\ section_size % BlockSize = 0
      BY <1>1, <1>7
    <3> QED BY <3>1, <3>2, <3>3, SameSection
  <2>2. CASE done = 0
    <3>1. key = 0 /\ key' = 0
      BY <2>2, <1>2, <1>7 DEF IInv, KeyIsCurrent, Rekeys
    <3>2. (0 * section_size + 0) \div section_size = 0
      BY <1>3, <1>7, DivModUnique
    <3> QED BY <2>1, <2>2, <3>1, <3>2, <1>3
  <2>3. CASE done # 0
    <3>1. key = (done - 1) \div section_size
      BY <2>3, <1>7 DEF IInv, KeyIsCurrent
    <3>2. (done - 1) \div section_size =
             IF done % section_size = 0 THEN (done \div section_size) - 1
             ELSE done \div section_size
      BY <1>1, <1>3, <1>7, <2>3, SectionBefore
    <3>3. done \div section_size \in Nat
      BY <1>1, <1>3, <1>7, DivMod
    <3>4. key' = done \div section_size
      BY <3>1, <3>2, <3>3, <1>2, <1>7, <2>3 DEF Rekeys
    <3> QED BY <2>1, <3>4
  <2> QED BY <2>2, <2>3
<1>8. ASSUME section_size = 0
      PROVE  key' = 0
  <2>1. 0 % BlockSize = 0
    BY SizeAssumption
  <2> QED BY <1>8, <2>1, <1>2 DEF IInv, KeyIsCurrent, Rekeys
<1>9. SectionsRekeyed'
  <2> SUFFICES ASSUME section_size % BlockSize = 0, NEW i \in 1 .. done + take
               PROVE  out'[i].key = IF section_size = 0 THEN 0 ELSE (i - 1) \div section_size
    BY <1>2, <1>5 DEF SectionsRekeyed
  <2>1. CASE i <= done
    BY <2>1, <1>1, <1>3, <1>5 DEF IInv, SectionsRekeyed
  <2>2. CASE i > done
    <3>1. i - done \in 1 .. take /\ i - done - 1 \in 0 .. take - 1
      BY <2>2, <1>1
    <3>2. out'[i].key = key'
      <4>1. i \in done + 1 .. done + take
        BY <2>2, <1>1
      <4>2. out'[i] = more[i - done]
        BY <4>1, <1>5
      <4> QED BY <3>1, <4>2, <1>4
    <3>3. done + (i - done - 1) = i - 1
      BY <1>1
    <3>4. section_size # 0 => (i - 1) \div section_size = key'
      BY <1>7, <3>1, <3>3
    <3> QED BY <3>2, <3>4, <1>8
  <2> QED BY <2>1, <2>2, <1>1
<1>10. KeyIsCurrent'
  <2>1. section_size' = section_size /\ done' = done + take /\ done + take # 0
    BY <1>1, <1>2
  <2>2. take - 1 \in 0 .. take - 1 /\ done + (take - 1) = done + take - 1
    BY <1>1
  <2>3. section_size % BlockSize = 0 /\ section_size # 0 =>
            (done + take - 1) \div section_size = key'
    BY <1>7, <2>2
  <2>4. section_size % BlockSize = 0 =>
            key' = IF section_size = 0 THEN 0 ELSE (done + take - 1) \div section_size
    BY <2>3, <1>8
  <2>5. section_size' % BlockSize = 0 =>
            key' = IF section_size' = 0 \/ done' = 0 THEN 0
                   ELSE (done' - 1) \div section_size'
    BY <2>1, <2>4, <1>1, <1>3
  <2> QED BY <2>5 DEF KeyIsCurrent
<1> QED BY <1>6, <1>9, <1>10 DEF IInv

LEMMA StepInv == IInv /\ [Next]_vars => IInv'
<1> SUFFICES ASSUME IInv, [Next]_vars PROVE IInv'
  OBVIOUS
<1>1. ASSUME NEW n \in 0 .. MaxLen, NEW v \in Ivs, NEW s \in Sections,
             kuznyechik_ctr_acpkm(n, v, s)
      PROVE  IInv'
  BY <1>1, CallInv
<1>2. CASE Turn
  BY <1>2, TurnInv
<1>3. CASE Return
  BY <1>3 DEF Return, IInv, TypeOK, SectionsRekeyed, KeyIsCurrent
<1>4. CASE UNCHANGED vars
  BY <1>4 DEF vars, IInv, TypeOK, SectionsRekeyed, KeyIsCurrent
<1> QED BY <1>1, <1>2, <1>3, <1>4 DEF Next

\* The loop of kuznyechik_ctr_acpkm stays inside the text, for every size.
THEOREM TypeCorrect == Spec => []TypeOK
<1>1. IInv => TypeOK
  BY DEF IInv
<1> QED BY <1>1, InitInv, StepInv, PTL DEF Spec

\* For every size of section of whole blocks, every byte is encrypted under
\* the key of its section.
THEOREM SectionTheorem == Spec => []SectionsRekeyed
<1>1. IInv => SectionsRekeyed
  BY DEF IInv
<1> QED BY <1>1, InitInv, StepInv, PTL DEF Spec

-----------------------------------------------------------------------------

\* A set of numbers that is not empty has a least element.
LEMMA LeastNumber ==
    ASSUME NEW T, T \subseteq Nat, T # {}
    PROVE  \E x \in T : \A y \in T : x <= y
<1> DEFINE R == OpToRel(<, Nat)
<1>1. IsWellFoundedOn(R, Nat)
  BY NatLessThanWellFounded
<1>2. \A x, y \in Nat : <<x, y>> \in R <=> x < y
  BY DEF OpToRel
<1> HIDE DEF R
<1>3. PICK x \in T : \A y \in T : <<y, x>> \notin R
  BY <1>1, WFMin
<1>4. ASSUME NEW y \in T PROVE x <= y
  <2>1. x \in Nat /\ y \in Nat
    OBVIOUS
  <2>2. ~ (y < x)
    BY <1>2, <1>3, <2>1
  <2> QED BY <2>1, <2>2
<1> QED BY <1>4

\* Induction up to n, for a set in the place of a predicate.
LEMMA Induction ==
    ASSUME NEW n \in Nat, NEW S, 0 \in S, \A k \in 0 .. n - 1 : k \in S => k + 1 \in S
    PROVE  \A k \in 0 .. n : k \in S
<1> DEFINE T == {k \in 0 .. n : k \notin S}
<1> SUFFICES ASSUME T # {} PROVE FALSE
  OBVIOUS
<1>1. T \subseteq Nat
  OBVIOUS
<1>2. PICK x \in T : \A y \in T : x <= y
  <2> HIDE DEF T
  <2> QED BY <1>1, LeastNumber
<1>3. x \in 1 .. n
  OBVIOUS
<1>4. x - 1 \in 0 .. n - 1 /\ x - 1 \notin T
  BY <1>2, <1>3
<1>5. (x - 1) + 1 \in S
  BY <1>4
<1> QED BY <1>5, <1>3

LEMMA ProductType == ASSUME NEW x \in Nat, NEW y \in Nat PROVE x * y \in Nat
OBVIOUS

\* v is what Horner's scheme makes of z and the digits d.
Horner(v, n, z, d) ==
    /\ v \in [0 .. n -> Nat]
    /\ \A k \in 0 .. n : v[k] = IF k = 0 THEN z ELSE Radix * v[k - 1] + d[k]

\* There is such a v.
LEMMA HornerExists ==
    ASSUME NEW n \in Nat, NEW z \in Nat, NEW d \in [1 .. n -> Nat]
    PROVE  \E v : Horner(v, n, z, d)
<1> DEFINE S == {k \in 0 .. n : \E v : Horner(v, k, z, d)}
<1>1. 0 \in S
  <2> DEFINE v == [m \in 0 .. 0 |-> z]
  <2>1. Horner(v, 0, z, d)
    BY DEF Horner
  <2>2. 0 \in 0 .. n
    OBVIOUS
  <2> QED BY <2>1, <2>2
<1>2. ASSUME NEW k \in 0 .. n - 1, k \in S PROVE k + 1 \in S
  <2>1. PICK v : Horner(v, k, z, d)
    BY <1>2
  <2> DEFINE last == Radix * v[k] + d[k + 1]
             w == [m \in 0 .. k + 1 |-> IF m = k + 1 THEN last ELSE v[m]]
  <2>2. last \in Nat
    <3>1. v[k] \in Nat /\ d[k + 1] \in Nat /\ Radix \in Nat
      BY <2>1, SizeAssumption DEF Horner
    <3>2. Radix * v[k] \in Nat
      BY <3>1, ProductType
    <3> QED BY <3>1, <3>2
  <2>3. w \in [0 .. k + 1 -> Nat]
    <3>1. ASSUME NEW m \in 0 .. k + 1, m # k + 1 PROVE v[m] \in Nat
      <4>1. m \in 0 .. k
        BY <3>1
      <4> QED BY <4>1, <2>1 DEF Horner
    <3> HIDE DEF last
    <3> QED BY <2>2, <3>1
  <2>4. ASSUME NEW m \in 0 .. k + 1
        PROVE  w[m] = IF m = 0 THEN z ELSE Radix * w[m - 1] + d[m]
    <3>1. CASE m = k + 1
      BY <3>1
    <3>2. CASE m # k + 1
      <4>1. m \in 0 .. k /\ (m # 0 => m - 1 \in 0 .. k)
        BY <3>2
      <4> QED BY <4>1, <2>1 DEF Horner
    <3> QED BY <3>1, <3>2
  <2>5. Horner(w, k + 1, z, d)
    BY <2>3, <2>4 DEF Horner
  <2>6. k + 1 \in 0 .. n
    OBVIOUS
  <2> HIDE DEF w
  <2> QED BY <2>5, <2>6
<1>3. n \in S
  <2> HIDE DEF S
  <2>1. n \in 0 .. n
    OBVIOUS
  <2> QED BY <1>1, <1>2, <2>1, Induction
<1> QED BY <1>3

\* What the definition of Period says.
LEMMA PeriodDef ==
    /\ Period \in [0 .. CtrSize -> Nat]
    /\ \A n \in 0 .. CtrSize : Period[n] = IF n = 0 THEN 1 ELSE Radix * Period[n - 1]
<1> USE SizeAssumption
<1> DEFINE d == [k \in 1 .. CtrSize |-> 0]
<1>1. PICK v : Horner(v, CtrSize, 1, d)
  <2>1. d \in [1 .. CtrSize -> Nat]
    OBVIOUS
  <2> HIDE DEF d
  <2> QED BY <2>1, HornerExists
<1>2. ASSUME NEW n \in 0 .. CtrSize PROVE v[n] = IF n = 0 THEN 1 ELSE Radix * v[n - 1]
  <2>1. CASE n = 0
    BY <2>1, <1>1 DEF Horner
  <2>2. CASE n # 0
    <3>1. d[n] = 0 /\ n - 1 \in 0 .. CtrSize
      BY <2>2
    <3>2. v[n - 1] \in Nat
      BY <3>1, <1>1 DEF Horner
    <3>3. Radix * v[n - 1] \in Nat
      BY <3>2, ProductType
    <3>4. v[n] = Radix * v[n - 1] + d[n]
      BY <1>1, <2>2 DEF Horner
    <3> QED BY <3>1, <3>3, <3>4, <2>2
  <2> QED BY <2>1, <2>2
<1>3. v = [n \in 0 .. CtrSize |-> IF n = 0 THEN 1 ELSE Radix * v[n - 1]]
  BY <1>1, <1>2 DEF Horner
<1> HIDE DEF d
<1>4. Period = [n \in 0 .. CtrSize |-> IF n = 0 THEN 1 ELSE Radix * Period[n - 1]]
  BY <1>3 DEF Period
<1> DEFINE P == Period
<1>5. P = [n \in 0 .. CtrSize |-> IF n = 0 THEN 1 ELSE Radix * P[n - 1]]
  BY <1>4
<1> HIDE DEF P
<1>6. \A n \in 0 .. CtrSize : P[n] = IF n = 0 THEN 1 ELSE Radix * P[n - 1]
  BY <1>5
<1>7. \A n \in 0 .. CtrSize : P[n] \in Nat
  <2> DEFINE S == {n \in 0 .. CtrSize : P[n] \in Nat}
  <2>1. 0 \in S
    BY <1>6
  <2>2. ASSUME NEW n \in 0 .. CtrSize - 1, n \in S PROVE n + 1 \in S
    <3>1. n + 1 \in 0 .. CtrSize /\ n + 1 # 0 /\ (n + 1) - 1 = n
      OBVIOUS
    <3>2. Radix * P[n] \in Nat
      BY <2>2, ProductType
    <3> QED BY <3>1, <3>2, <1>6
  <2> HIDE DEF S
  <2>3. \A n \in 0 .. CtrSize : n \in S
    BY <2>1, <2>2, Induction
  <2> QED BY <2>3 DEF S
<1>8. P \in [0 .. CtrSize -> Nat]
  BY <1>5, <1>7
<1> QED BY <1>6, <1>8 DEF P

\* One more byte: the period grows by the factor Radix.
LEMMA PeriodStep ==
    ASSUME NEW k \in Nat, k < CtrSize
    PROVE  /\ Period[k] \in Nat /\ Period[k + 1] \in Nat
           /\ Period[k + 1] = Radix * Period[k]
  BY PeriodDef, SizeAssumption

-----------------------------------------------------------------------------

\* Value(c, o)[k] is the number that the k bytes from byte o of a counter spell.
Bytes(c, o) == [k \in 1 .. CtrSize - o |-> c[o + k - 1]]

Value(c, o) == CHOOSE v : Horner(v, CtrSize - o, 0, Bytes(c, o))

LEMMA ValueDef ==
    ASSUME NEW c \in Counters, NEW o \in 0 .. CtrSize
    PROVE  /\ Value(c, o) \in [0 .. CtrSize - o -> Nat]
           /\ Value(c, o)[0] = 0
           /\ \A k \in 0 .. CtrSize - o - 1 :
                 Value(c, o)[k + 1] = Radix * Value(c, o)[k] + c[o + k]
<1> USE SizeAssumption
<1>1. Bytes(c, o) \in [1 .. CtrSize - o -> Nat]
  BY DEF Bytes, Counters, CtrIndex
<1>2. Horner(Value(c, o), CtrSize - o, 0, Bytes(c, o))
  <2>1. CtrSize - o \in Nat
    OBVIOUS
  <2>2. \E v : Horner(v, CtrSize - o, 0, Bytes(c, o))
    BY <1>1, <2>1, HornerExists
  <2> QED BY <2>2 DEF Value
<1> DEFINE v == Value(c, o)
<1> HIDE DEF v
<1>3. /\ v \in [0 .. CtrSize - o -> Nat]
      /\ \A k \in 0 .. CtrSize - o :
            v[k] = IF k = 0 THEN 0 ELSE Radix * v[k - 1] + Bytes(c, o)[k]
  BY <1>2 DEF v, Horner
<1>4. v[0] = 0
  BY <1>3
<1>5. ASSUME NEW k \in 0 .. CtrSize - o - 1
      PROVE  v[k + 1] = Radix * v[k] + c[o + k]
  <2>1. k + 1 \in 1 .. CtrSize - o /\ k + 1 \in 0 .. CtrSize - o /\ (k + 1) - 1 = k /\ k + 1 # 0
    OBVIOUS
  <2>2. Bytes(c, o)[k + 1] = c[o + k]
    <3>1. Bytes(c, o)[k + 1] = c[o + (k + 1) - 1]
      BY <2>1 DEF Bytes
    <3>2. o + (k + 1) - 1 = o + k
      OBVIOUS
    <3> QED BY <3>1, <3>2
  <2> QED BY <2>1, <2>2, <1>3
<1> QED BY <1>3, <1>4, <1>5 DEF v

\* One more byte of a counter, with the types at hand.
LEMMA ValueStep ==
    ASSUME NEW c \in Counters, NEW o \in 0 .. CtrSize, NEW k \in 0 .. CtrSize - o - 1
    PROVE  /\ Value(c, o)[k] \in Nat /\ Value(c, o)[k + 1] \in Nat
           /\ c[o + k] \in 0 .. Radix - 1
           /\ Value(c, o)[k + 1] = Radix * Value(c, o)[k] + c[o + k]
<1>1. k \in 0 .. CtrSize - o /\ k + 1 \in 0 .. CtrSize - o /\ o + k \in CtrIndex
  BY SizeAssumption DEF CtrIndex
<1>2. c[o + k] \in 0 .. Radix - 1
  BY <1>1 DEF Counters
<1> DEFINE v == Value(c, o)
<1>3. v \in [0 .. CtrSize - o -> Nat] /\ v[k + 1] = Radix * v[k] + c[o + k]
  BY ValueDef
<1> HIDE DEF v
<1>4. v[k] \in Nat /\ v[k + 1] \in Nat
  BY <1>1, <1>3
<1> QED BY <1>2, <1>3, <1>4 DEF v

\* k bytes spell a number below the period.
LEMMA ValueBound ==
    ASSUME NEW c \in Counters, NEW o \in 0 .. CtrSize
    PROVE  \A k \in 0 .. CtrSize - o : Value(c, o)[k] + 1 <= Period[k]
<1> USE SizeAssumption
<1> DEFINE S == {k \in 0 .. CtrSize - o : Value(c, o)[k] + 1 <= Period[k]}
<1>1. 0 \in S
  BY ValueDef, PeriodDef
<1>2. ASSUME NEW k \in 0 .. CtrSize - o - 1, k \in S PROVE k + 1 \in S
  <2> DEFINE v == Value(c, o)[k]
             w == Value(c, o)[k + 1]
             p == Period[k]
             q == Period[k + 1]
             d == c[o + k]
  <2>1. v \in Nat /\ w \in Nat /\ d \in 0 .. Radix - 1 /\ w = Radix * v + d
    BY ValueStep
  <2>2. p \in Nat /\ q \in Nat /\ q = Radix * p
    BY PeriodStep
  <2>3. v + 1 <= p
    BY <1>2
  <2>4. k + 1 \in 0 .. CtrSize - o
    OBVIOUS
  <2> HIDE DEF v, w, p, q, d
  <2>5. Radix * (v + 1) <= Radix * p
    BY <2>1, <2>2, <2>3
  <2>6. Radix * (v + 1) = Radix * v + Radix
    BY <2>1
  <2>7. w + 1 <= q
    <3>1. Radix * v \in Nat
      BY <2>1, ProductType
    <3> HIDE DEF v
    <3> QED BY <2>1, <2>2, <2>5, <2>6, <3>1
  <2> QED BY <2>4, <2>7 DEF w, q
<1>3. CtrSize - o \in Nat
  OBVIOUS
<1> HIDE DEF S
<1>4. \A k \in 0 .. CtrSize - o : k \in S
  BY <1>1, <1>2, <1>3, Induction
<1> QED BY <1>4 DEF S

\* The bytes from i to the end are at their maximum.
AllMax(c, i) == \A j \in i .. CtrSize - 1 : c[j] = Radix - 1

\* All bytes from o at their maximum spell the last number of the period.
LEMMA MaxIsLast ==
    ASSUME NEW c \in Counters, NEW o \in 0 .. CtrSize, AllMax(c, o)
    PROVE  \A k \in 0 .. CtrSize - o : Value(c, o)[k] + 1 = Period[k]
<1> USE SizeAssumption
<1> DEFINE S == {k \in 0 .. CtrSize - o : Value(c, o)[k] + 1 = Period[k]}
<1>1. 0 \in S
  BY ValueDef, PeriodDef
<1>2. ASSUME NEW k \in 0 .. CtrSize - o - 1, k \in S PROVE k + 1 \in S
  <2> DEFINE v == Value(c, o)[k]
             w == Value(c, o)[k + 1]
             p == Period[k]
             q == Period[k + 1]
  <2>1. v \in Nat /\ w \in Nat /\ w = Radix * v + c[o + k]
    BY ValueStep
  <2>2. p \in Nat /\ q \in Nat /\ q = Radix * p
    BY PeriodStep
  <2>3. v + 1 = p
    BY <1>2
  <2>4. c[o + k] = Radix - 1
    <3>1. o + k \in o .. CtrSize - 1
      OBVIOUS
    <3> QED BY <3>1 DEF AllMax
  <2>5. k + 1 \in 0 .. CtrSize - o
    OBVIOUS
  <2> HIDE DEF v, w, p, q
  <2>6. w + 1 = Radix * (v + 1)
    BY <2>1, <2>4
  <2> QED BY <2>2, <2>3, <2>5, <2>6 DEF w, q
<1>3. CtrSize - o \in Nat
  OBVIOUS
<1> HIDE DEF S
<1>4. \A k \in 0 .. CtrSize - o : k \in S
  BY <1>1, <1>2, <1>3, Induction
<1> QED BY <1>4 DEF S

\* What ctr_inc does to one byte.
LEMMA IncByte ==
    ASSUME NEW c \in Counters, NEW i \in CtrIndex
    PROVE  ctr_inc(c)[i] = IF ~ AllMax(c, i + 1) THEN c[i]
                           ELSE IF c[i] = Radix - 1 THEN 0 ELSE c[i] + 1
<1>1. c[i] \in 0 .. Radix - 1
  BY DEF Counters
<1>2. (c[i] + 1) % Radix = IF c[i] = Radix - 1 THEN 0 ELSE c[i] + 1
  <2>1. CASE c[i] = Radix - 1
    <3>1. Radix % Radix = 0
      BY SizeAssumption
    <3> QED BY <2>1, <3>1, SizeAssumption
  <2>2. CASE c[i] # Radix - 1
    BY <1>1, <2>2, SizeAssumption
  <2> QED BY <2>1, <2>2
<1> QED BY <1>2 DEF ctr_inc, AllMax

\* Counting one up in a period.
Counted(v, n) == IF v + 1 = Period[n] THEN 0 ELSE v + 1

\* ctr_inc counts: the k bytes from byte o count when all the bytes behind them
\* wrap, and else they stay.
LEMMA IncCounts ==
    ASSUME NEW c \in Counters, NEW o \in 0 .. CtrSize
    PROVE  \A k \in 0 .. CtrSize - o :
              Value(ctr_inc(c), o)[k] = IF AllMax(c, o + k) THEN Counted(Value(c, o)[k], k)
                                        ELSE Value(c, o)[k]
<1> USE SizeAssumption
<1> DEFINE n == ctr_inc(c)
           S == {k \in 0 .. CtrSize - o :
                    Value(n, o)[k] = IF AllMax(c, o + k) THEN Counted(Value(c, o)[k], k)
                                     ELSE Value(c, o)[k]}
<1>0. n \in Counters
  BY IncType
<1> HIDE DEF n
<1>1. 0 \in S
  <2>1. Value(n, o)[0] = 0 /\ Value(c, o)[0] = 0 /\ Period[0] = 1
    BY <1>0, ValueDef, PeriodDef
  <2>2. Counted(0, 0) = 0
    BY <2>1 DEF Counted
  <2> QED BY <2>1, <2>2
<1>2. ASSUME NEW k \in 0 .. CtrSize - o - 1, k \in S PROVE k + 1 \in S
  <2> DEFINE v == Value(c, o)[k]
             v1 == Value(c, o)[k + 1]
             w == Value(n, o)[k]
             w1 == Value(n, o)[k + 1]
             p == Period[k]
             p1 == Period[k + 1]
             d == c[o + k]
             e == n[o + k]
             m == AllMax(c, o + k)
             m1 == AllMax(c, o + k + 1)
  <2>1. v \in Nat /\ v1 \in Nat /\ d \in 0 .. Radix - 1 /\ v1 = Radix * v + d
    BY ValueStep
  <2>2. w \in Nat /\ w1 \in Nat /\ e \in 0 .. Radix - 1 /\ w1 = Radix * w + e
    BY <1>0, ValueStep
  <2>3. p \in Nat /\ p1 \in Nat /\ p1 = Radix * p
    BY PeriodStep
  <2>4. v + 1 <= p
    BY ValueBound
  <2>5. w = IF m THEN Counted(v, k) ELSE v
    BY <1>2
  <2>6. e = IF ~ m1 THEN d ELSE IF d = Radix - 1 THEN 0 ELSE d + 1
    <3>1. o + k \in CtrIndex
      BY DEF CtrIndex
    <3> QED BY <3>1, IncByte DEF n
  <2>7. m <=> m1 /\ d = Radix - 1
    <3>1. o + k \in o + k .. CtrSize - 1
      OBVIOUS
    <3>2. \A j : j \in o + k .. CtrSize - 1 <=> j = o + k \/ j \in o + k + 1 .. CtrSize - 1
      OBVIOUS
    <3> QED BY <3>1, <3>2, Zenon DEF AllMax
  <2>8. k + 1 \in 0 .. CtrSize - o /\ o + (k + 1) = o + k + 1
    OBVIOUS
  <2> SUFFICES w1 = IF m1 THEN Counted(v1, k + 1) ELSE v1
    BY <2>8
  <2>9. Counted(v, k) = (IF v + 1 = p THEN 0 ELSE v + 1) /\ Counted(v1, k + 1) = (IF v1 + 1 = p1 THEN 0 ELSE v1 + 1)
    BY DEF Counted
  <2> HIDE DEF v, v1, w, w1, p, p1, d, e, m, m1
  <2>10. CASE ~ m1
    BY <2>10, <2>1, <2>2, <2>5, <2>6, <2>7
  <2>11. CASE m1 /\ d = Radix - 1
    <3>1. v1 + 1 = Radix * (v + 1) /\ w1 = Radix * w
      BY <2>11, <2>1, <2>2, <2>6
    <3>2. CASE v + 1 = p
      BY <3>1, <3>2, <2>11, <2>2, <2>3, <2>5, <2>7, <2>9
    <3>3. CASE v + 1 # p
      <4>1. w = v + 1
        BY <3>3, <2>5, <2>7, <2>9, <2>11
      <4>2. Radix * (v + 1) # Radix * p
        <5>1. v + 1 < p
          BY <3>3, <2>4, <2>1, <2>3
        <5>2. Radix * (v + 1) < Radix * p
          BY <5>1, <2>1, <2>3
        <5> QED BY <5>2, <2>1, <2>3
      <4> QED BY <3>1, <4>1, <4>2, <2>3, <2>9, <2>11
    <3> QED BY <3>2, <3>3
  <2>12. CASE m1 /\ d # Radix - 1
    <3>1. w = v /\ e = d + 1
      BY <2>12, <2>5, <2>6, <2>7
    <3>2. w1 = v1 + 1
      BY <3>1, <2>1, <2>2
    <3>3. v1 + 1 # p1
      <4>1. Radix * v + Radix <= Radix * p
        <5>1. Radix * (v + 1) <= Radix * p
          BY <2>1, <2>3, <2>4
        <5> QED BY <5>1, <2>1
      <4>2. d + 1 < Radix
        BY <2>1, <2>12
      <4>3. Radix * v \in Nat
        BY <2>1, ProductType
      <4> QED BY <4>1, <4>2, <4>3, <2>1, <2>3
    <3> QED BY <3>2, <3>3, <2>9, <2>12
  <2> QED BY <2>10, <2>11, <2>12
<1>3. CtrSize - o \in Nat
  OBVIOUS
<1> HIDE DEF S
<1>4. \A k \in 0 .. CtrSize - o : k \in S
  BY <1>1, <1>2, <1>3, Induction
<1> QED BY <1>4 DEF S, n

-----------------------------------------------------------------------------

\* The counter block a call with the iv v begins with.
Start(v) == [i \in CtrIndex |-> IF i < IvSize THEN v[i] ELSE 0]

\* c is counter block n (from 0) of a call with the iv v: n counts ahead of the
\* first as a number, and while the bytes behind the iv can hold n they hold it.
IsBlock(v, c, n) ==
    /\ Value(c, 0)[CtrSize] = (Value(Start(v), 0)[CtrSize] + n) % Period[CtrSize]
    /\ n < Period[CtrSize - IvSize] =>
          /\ Value(c, IvSize)[CtrSize - IvSize] = n
          /\ \A k \in 0 .. IvSize - 1 : c[k] = v[k]

LEMMA PeriodPositive ==
    ASSUME NEW k \in 0 .. CtrSize
    PROVE  Period[k] \in Nat \ {0}
<1> DEFINE z == [i \in CtrIndex |-> 0]
<1>1. z \in Counters
  BY SizeAssumption DEF Counters, CtrIndex
<1> HIDE DEF z
<1>2. 0 \in 0 .. CtrSize /\ k \in 0 .. CtrSize - 0
  BY SizeAssumption
<1>3. Value(z, 0)[k] + 1 <= Period[k]
  BY <1>1, <1>2, ValueBound
<1>4. Value(z, 0)[k] \in Nat
  BY <1>1, <1>2, ValueDef
<1>5. Period[k] \in Nat
  BY PeriodDef
<1> QED BY <1>3, <1>4, <1>5

\* A number grown by one, modulo p.
LEMMA NextModulo ==
    ASSUME NEW p \in Nat \ {0}, NEW x \in Nat
    PROVE  (x + 1) % p = IF (x % p) + 1 = p THEN 0 ELSE (x % p) + 1
<1> DEFINE q == x \div p
           r == x % p
<1>1. q \in Nat /\ r \in 0 .. p - 1 /\ x = q * p + r
  BY DivMod
<1> SUFFICES (x + 1) % p = IF r + 1 = p THEN 0 ELSE r + 1
  OBVIOUS
<1> HIDE DEF q, r
<1>2. CASE r + 1 = p
  <2>1. ((q + 1) * p + 0) % p = 0
    BY <1>1, DivModUnique
  <2>2. (q + 1) * p + 0 = x + 1
    BY <1>1, <1>2
  <2> QED BY <1>2, <2>1, <2>2
<1>3. CASE r + 1 # p
  <2>1. r + 1 \in 0 .. p - 1
    BY <1>1, <1>3
  <2>2. (q * p + (r + 1)) % p = r + 1
    BY <1>1, <2>1, DivModUnique
  <2>3. q * p + (r + 1) = x + 1
    BY <1>1
  <2> QED BY <1>3, <2>2, <2>3
<1> QED BY <1>2, <1>3

\* Two numbers less than p apart and equal modulo p are the same.
LEMMA SameModulo ==
    ASSUME NEW p \in Nat \ {0}, NEW v \in Nat, NEW x \in 0 .. p - 1, NEW y \in 0 .. p - 1,
           (v + x) % p = (v + y) % p
    PROVE  x = y
<1> DEFINE r == (v + x) % p
           a == (v + x) \div p
           b == (v + y) \div p
<1>0. v + x \in Nat /\ v + y \in Nat
  OBVIOUS
<1>1. a \in Nat /\ r \in 0 .. p - 1 /\ v + x = a * p + r
  BY <1>0, DivMod
<1>2. b \in Nat /\ v + y = b * p + r
  <2>1. v + y = b * p + ((v + y) % p)
    BY <1>0, DivMod
  <2> QED BY <1>0, <2>1, DivMod
<1> HIDE DEF r, a, b
<1>3. x - y = (a - b) * p
  BY <1>1, <1>2
<1>4. CASE a > b
  <2>1. (a - b) * p >= 1 * p
    BY <1>1, <1>2, <1>4
  <2> QED BY <2>1, <1>3
<1>5. CASE a < b
  <2>1. (b - a) * p >= 1 * p
    BY <1>1, <1>2, <1>5
  <2>2. y - x = (b - a) * p
    BY <1>1, <1>2
  <2> QED BY <2>1, <2>2
<1>6. CASE a = b
  <2>1. v + x = v + y
    BY <1>1, <1>2, <1>6
  <2> QED BY <2>1
<1> QED BY <1>1, <1>2, <1>4, <1>5, <1>6

\* A call begins with counter block 0.
LEMMA StartIsBlock ==
    ASSUME NEW v \in Ivs
    PROVE  Start(v) \in Counters /\ IsBlock(v, Start(v), 0)
<1> USE SizeAssumption
<1> DEFINE c == Start(v)
           low == CtrSize - IvSize
<1>1. c \in Counters
  <2>1. ASSUME NEW i \in CtrIndex
        PROVE  (IF i < IvSize THEN v[i] ELSE 0) \in 0 .. Radix - 1
    BY DEF CtrIndex, Ivs
  <2> QED BY <2>1 DEF Start, Counters
<1>2. \A k \in 0 .. IvSize - 1 : c[k] = v[k]
  BY DEF Start, CtrIndex
<1>3. \A k \in 0 .. low - 1 : c[IvSize + k] = 0
  BY DEF Start, CtrIndex
<1>4. low \in 0 .. CtrSize /\ low \in Nat /\ IvSize \in 0 .. CtrSize
  OBVIOUS
<1> HIDE DEF c
<1>5. Value(c, IvSize)[low] = 0
  <2> DEFINE S == {k \in 0 .. low : Value(c, IvSize)[k] = 0}
  <2>1. 0 \in S
    BY <1>1, ValueDef
  <2>2. ASSUME NEW k \in 0 .. low - 1, k \in S PROVE k + 1 \in S
    <3>1. Value(c, IvSize)[k + 1] = Radix * Value(c, IvSize)[k] + c[IvSize + k]
      BY <1>1, <1>4, ValueStep
    <3>2. Value(c, IvSize)[k] = 0 /\ c[IvSize + k] = 0 /\ k + 1 \in 0 .. low
      BY <2>2, <1>3
    <3> QED BY <3>1, <3>2
  <2> HIDE DEF S, low
  <2>3. \A k \in 0 .. low : k \in S
    BY <2>1, <2>2, <1>4, Induction
  <2> QED BY <2>3, <1>4 DEF S
<1>6. Value(c, 0)[CtrSize] = (Value(c, 0)[CtrSize] + 0) % Period[CtrSize]
  <2> DEFINE x == Value(c, 0)[CtrSize]
             p == Period[CtrSize]
  <2>1. 0 \in 0 .. CtrSize /\ CtrSize \in 0 .. CtrSize - 0
    OBVIOUS
  <2>2. x \in Nat /\ x + 1 <= p /\ p \in Nat \ {0}
    BY <1>1, <2>1, ValueDef, ValueBound, PeriodPositive
  <2> HIDE DEF x, p
  <2>3. (0 * p + x) % p = x
    <3>1. x \in 0 .. p - 1
      BY <2>2
    <3> QED BY <2>2, <3>1, DivModUnique
  <2>4. 0 * p + x = x + 0
    BY <2>2
  <2>5. x = (x + 0) % p
    BY <2>3, <2>4
  <2> QED BY <2>5 DEF x, p
<1> QED BY <1>1, <1>2, <1>5, <1>6 DEF IsBlock, c

\* ctr_inc goes from one block to the next.
LEMMA NextIsBlock ==
    ASSUME NEW v \in Ivs, NEW c \in Counters, NEW n \in Nat, IsBlock(v, c, n)
    PROVE  IsBlock(v, ctr_inc(c), n + 1)
<1> USE SizeAssumption
<1> DEFINE low == CtrSize - IvSize
           d == ctr_inc(c)
           s == Value(Start(v), 0)[CtrSize]
           p == Period[CtrSize]
<1>1. /\ IvSize \in 0 .. CtrSize /\ low \in 0 .. CtrSize - IvSize /\ low \in 0 .. CtrSize
      /\ 0 \in 0 .. CtrSize /\ CtrSize \in 0 .. CtrSize - 0 /\ CtrSize \in 0 .. CtrSize
      /\ 0 + CtrSize = CtrSize /\ IvSize + low = CtrSize
  OBVIOUS
<1>2. AllMax(c, CtrSize)
  BY DEF AllMax
<1>3. Value(d, 0)[CtrSize] = Counted(Value(c, 0)[CtrSize], CtrSize)
  BY <1>1, <1>2, IncCounts
<1>4. Value(d, IvSize)[low] = Counted(Value(c, IvSize)[low], low)
  BY <1>1, <1>2, IncCounts
<1>5. s \in Nat /\ p \in Nat \ {0}
  <2>1. Start(v) \in Counters
    BY StartIsBlock
  <2> QED BY <1>1, <2>1, ValueDef, PeriodPositive
<1> HIDE DEF low
<1>6. Value(d, 0)[CtrSize] = (s + (n + 1)) % p
  <2>1. Value(c, 0)[CtrSize] = (s + n) % p
    BY DEF IsBlock
  <2> HIDE DEF s, p
  <2>2. ((s + n) + 1) % p = IF ((s + n) % p) + 1 = p THEN 0 ELSE ((s + n) % p) + 1
    <3>1. s + n \in Nat
      BY <1>5
    <3> QED BY <1>5, <3>1, NextModulo
  <2>3. (s + n) + 1 = s + (n + 1)
    BY <1>5
  <2> QED BY <1>3, <2>1, <2>2, <2>3 DEF Counted, p
<1>7. ASSUME n + 1 < Period[low]
      PROVE  /\ Value(d, IvSize)[low] = n + 1
             /\ \A k \in 0 .. IvSize - 1 : d[k] = v[k]
  <2>1. Period[low] \in Nat
    BY <1>1, PeriodPositive
  <2>2. n < Period[low] /\ n + 1 # Period[low]
    BY <1>7, <2>1
  <2>3. Value(c, IvSize)[low] = n /\ \A k \in 0 .. IvSize - 1 : c[k] = v[k]
    BY <2>2 DEF IsBlock, low
  <2>4. ~ AllMax(c, IvSize)
    BY <1>1, <2>2, <2>3, MaxIsLast
  <2>5. ASSUME NEW k \in 0 .. IvSize - 1 PROVE d[k] = v[k]
    <3>1. k \in CtrIndex /\ \A j \in IvSize .. CtrSize - 1 : j \in k + 1 .. CtrSize - 1
      BY DEF CtrIndex
    <3>2. ~ AllMax(c, k + 1)
      BY <2>4, <3>1 DEF AllMax
    <3>3. d[k] = c[k]
      BY <3>1, <3>2, IncByte
    <3> QED BY <2>3, <3>3
  <2> QED BY <1>4, <2>2, <2>3, <2>5 DEF Counted
<1> QED BY <1>6, <1>7 DEF IsBlock, low, s, p, d

-----------------------------------------------------------------------------

\* The inductive invariant of the key stream: every byte of it comes from the
\* place of its block that its place in the text calls for, and while the text
\* goes on ctr is the next block.
Places ==
    /\ \A i \in 1 .. Len(out) :
          /\ out[i].at = (i - 1) % BlockSize
          /\ IsBlock(iv, out[i].ctr, (i - 1) \div BlockSize)
    /\ done < len => IsBlock(iv, ctr, done \div BlockSize)

LEMMA InitPlaces == Init => Places
  BY DEF Init, Places

LEMMA CallPlaces ==
    ASSUME NEW n \in 0 .. MaxLen, NEW v \in Ivs, NEW s \in Sections,
           kuznyechik_ctr_acpkm(n, v, s)
    PROVE  Places'
<1>1. /\ iv' = v /\ done' = 0 /\ out' = <<>>
      /\ ctr' = Start(v)
  BY DEF kuznyechik_ctr_acpkm, Start
<1>2. IsBlock(v, Start(v), 0)
  BY StartIsBlock
<1>3. 0 \div BlockSize = 0
  BY SizeAssumption
<1>4. IsBlock(iv', ctr', done' \div BlockSize)
  BY <1>1, <1>2, <1>3
<1>5. Len(out') = 0
  BY <1>1
<1> QED BY <1>4, <1>5 DEF Places

LEMMA TurnPlaces ==
    ASSUME IInv, Places, Turn
    PROVE  Places'
<1> DEFINE take == Least(len - done, BlockSize)
           more == [i \in 1 .. take |-> [key |-> key', ctr |-> ctr, at |-> i - 1]]
           q == done \div BlockSize
<1>1. /\ len \in Nat /\ done \in Nat /\ done < len /\ done % BlockSize = 0
      /\ take \in 1 .. BlockSize /\ done + take <= len
      /\ take = BlockSize \/ done + take = len
  BY SizeAssumption DEF IInv, TypeOK, Turn, Least
<1>2. /\ done' = done + take /\ out' = out \o more
      /\ ctr' = ctr_inc(ctr) /\ iv' = iv /\ len' = len
  BY DEF Turn
<1>3. /\ key' \in Nat /\ ctr \in Counters /\ iv \in Ivs
      /\ out \in Seq(StreamByte) /\ Len(out) = done
  <2>1. key \in Nat
    BY DEF IInv, TypeOK
  <2>2. key' \in Nat
    BY <2>1 DEF Turn, acpkm_next
  <2> QED BY <2>2 DEF IInv, TypeOK
<1> HIDE DEF take
<1>4. more \in Seq(StreamByte) /\ Len(more) = take
  <2>1. \A i \in 1 .. take : [key |-> key', ctr |-> ctr, at |-> i - 1] \in StreamByte
    BY <1>1, <1>3, SizeAssumption DEF StreamByte
  <2> QED BY <2>1, <1>1
<1>5. \A i \in 1 .. take : more[i].ctr = ctr /\ more[i].at = i - 1
  OBVIOUS
<1> HIDE DEF more
<1>6. /\ Len(out \o more) = done + take
      /\ \A i \in 1 .. done + take :
            (out \o more)[i] = IF i <= done THEN out[i] ELSE more[i - done]
  BY <1>3, <1>4, ConcatProperties
<1>7. q \in Nat /\ done = q * BlockSize
  BY <1>1, DivMod, SizeAssumption
<1>8. IsBlock(iv, ctr, q)
  BY <1>1 DEF Places
<1> HIDE DEF q
<1>9. ASSUME NEW i \in 1 .. done + take
      PROVE  /\ out'[i].at = (i - 1) % BlockSize
             /\ IsBlock(iv, out'[i].ctr, (i - 1) \div BlockSize)
  <2>1. CASE i <= done
    <3>1. out'[i] = out[i] /\ i \in 1 .. Len(out)
      BY <2>1, <1>1, <1>2, <1>3, <1>6
    <3> QED BY <3>1 DEF Places
  <2>2. CASE i > done
    <3> DEFINE o == i - done - 1
    <3>1. o \in 0 .. BlockSize - 1 /\ i - done \in 1 .. take /\ q * BlockSize + o = i - 1
      BY <2>2, <1>1, <1>7, SizeAssumption
    <3>2. out'[i] = more[i - done]
      BY <2>2, <1>1, <1>2, <1>6
    <3>3. out'[i].ctr = ctr /\ out'[i].at = o
      BY <3>1, <3>2, <1>5
    <3> HIDE DEF o
    <3>4. (i - 1) \div BlockSize = q /\ (i - 1) % BlockSize = o
      BY <3>1, <1>7, DivModUnique, SizeAssumption
    <3> QED BY <3>3, <3>4, <1>8
  <2> QED BY <2>1, <2>2, <1>1
<1>10. ASSUME done + take < len
       PROVE  IsBlock(iv, ctr_inc(ctr), (done + take) \div BlockSize)
  <2>1. (q + 1) * BlockSize + 0 = done + take
    BY <1>1, <1>7, <1>10, SizeAssumption
  <2>2. ((q + 1) * BlockSize + 0) \div BlockSize = q + 1
    BY <1>7, DivModUnique, SizeAssumption
  <2>3. IsBlock(iv, ctr_inc(ctr), q + 1)
    BY <1>3, <1>7, <1>8, NextIsBlock
  <2> QED BY <2>1, <2>2, <2>3
<1> QED BY <1>2, <1>6, <1>9, <1>10 DEF Places

LEMMA StepPlaces == IInv /\ Places /\ [Next]_vars => Places'
<1> SUFFICES ASSUME IInv, Places, [Next]_vars PROVE Places'
  OBVIOUS
<1>1. ASSUME NEW n \in 0 .. MaxLen, NEW v \in Ivs, NEW s \in Sections,
             kuznyechik_ctr_acpkm(n, v, s)
      PROVE  Places'
  BY <1>1, CallPlaces
<1>2. CASE Turn
  BY <1>2, TurnPlaces
<1>3. CASE Return
  BY <1>3 DEF Return, Places
<1>4. CASE UNCHANGED vars
  BY <1>4 DEF vars, Places
<1> QED BY <1>1, <1>2, <1>3, <1>4 DEF Next

\* A byte within the first p blocks of a text is in a block below p.
LEMMA BlockBelow ==
    ASSUME NEW b \in Nat \ {0}, NEW p \in Nat, NEW i \in Nat \ {0}, i <= b * p
    PROVE  (i - 1) \div b \in 0 .. p - 1
<1> DEFINE q == (i - 1) \div b
<1>1. q \in Nat /\ (i - 1) % b \in 0 .. b - 1 /\ i - 1 = q * b + ((i - 1) % b)
  <2>1. i - 1 \in Nat
    OBVIOUS
  <2> QED BY <2>1, DivMod
<1> HIDE DEF q
<1>2. CASE q >= p
  <2>1. q * b >= p * b
    BY <1>1, <1>2
  <2>2. p * b = b * p
    OBVIOUS
  <2> QED BY <1>1, <2>1, <2>2
<1>3. q < p
  BY <1>1, <1>2
<1> QED BY <1>1, <1>3 DEF q

LEMMA NoReuse ==
    ASSUME MaxLen <= BlockSize * Period[CtrSize], IInv, Places
    PROVE  NoStreamReuse
<1> USE SizeAssumption
<1> SUFFICES ASSUME NEW i \in 1 .. Len(out), NEW j \in 1 .. Len(out), out[i] = out[j]
             PROVE  i = j
  BY Zenon DEF NoStreamReuse
<1> DEFINE a == (i - 1) \div BlockSize
           b == (j - 1) \div BlockSize
           p == Period[CtrSize]
           s == Value(Start(iv), 0)[CtrSize]
<1>1. Len(out) \in Nat /\ Len(out) <= MaxLen /\ iv \in Ivs
  BY DEF IInv, TypeOK
<1>2. p \in Nat \ {0} /\ s \in Nat
  <2>1. Start(iv) \in Counters
    BY <1>1, StartIsBlock
  <2>2. 0 \in 0 .. CtrSize /\ CtrSize \in 0 .. CtrSize - 0 /\ CtrSize \in 0 .. CtrSize
    OBVIOUS
  <2> QED BY <2>1, <2>2, ValueDef, PeriodPositive
<1>3. BlockSize * p \in Nat
  BY <1>2, ProductType
<1>4. a \in 0 .. p - 1 /\ b \in 0 .. p - 1
  <2>1. i \in Nat \ {0} /\ j \in Nat \ {0} /\ i <= BlockSize * p /\ j <= BlockSize * p
    BY <1>1, <1>3
  <2> HIDE DEF p
  <2> QED BY <2>1, <1>2, BlockBelow
<1>5. (s + a) % p = (s + b) % p /\ (i - 1) % BlockSize = (j - 1) % BlockSize
  BY DEF Places, IsBlock
<1>6. a = b
  <2> HIDE DEF a, b, s, p
  <2> QED BY <1>2, <1>4, <1>5, SameModulo
<1>7. /\ i - 1 = a * BlockSize + ((i - 1) % BlockSize)
      /\ j - 1 = b * BlockSize + ((j - 1) % BlockSize)
  <2>1. i - 1 \in Nat /\ j - 1 \in Nat
    BY <1>1
  <2> QED BY <2>1, DivMod
<1>8. i - 1 = j - 1
  BY <1>5, <1>6, <1>7
<1> QED BY <1>1, <1>8

LEMMA IvKept ==
    ASSUME IInv, Places
    PROVE  IvSeparates
<1> USE SizeAssumption
<1> SUFFICES ASSUME done <= BlockSize * Period[CtrSize - IvSize],
                    NEW i \in 1 .. Len(out), NEW k \in 0 .. IvSize - 1
             PROVE  out[i].ctr[k] = iv[k]
  BY DEF IvSeparates
<1> DEFINE p == Period[CtrSize - IvSize]
<1>1. CtrSize - IvSize \in 0 .. CtrSize
  OBVIOUS
<1>2. p \in Nat
  BY <1>1, PeriodPositive
<1>3. i \in Nat \ {0} /\ i <= done /\ done \in Nat
  BY DEF IInv, TypeOK
<1>4. BlockSize * p \in Nat
  BY <1>2, ProductType
<1>5. i <= BlockSize * p
  BY <1>3, <1>4
<1> HIDE DEF p
<1>6. (i - 1) \div BlockSize \in 0 .. p - 1
  BY <1>2, <1>3, <1>5, BlockBelow
<1>7. (i - 1) \div BlockSize < p
  BY <1>2, <1>6
<1> QED BY <1>7 DEF Places, IsBlock, p

\* For every size of block, counter and iv: a text no longer than one round of
\* the counter meets no byte of key stream twice, whatever the sections.
THEOREM StreamTheorem ==
    ASSUME MaxLen <= BlockSize * Period[CtrSize]
    PROVE  Spec => []NoStreamReuse
<1>1. IInv /\ Places => NoStreamReuse
  BY NoReuse
<1> QED BY <1>1, InitInv, InitPlaces, StepInv, StepPlaces, PTL DEF Spec

\* For every size of block, counter and iv: while the counter has not come
\* round in the bytes behind the iv, every counter block holds the iv.
THEOREM IvTheorem == Spec => []IvSeparates
<1>1. IInv /\ Places => IvSeparates
  BY IvKept
<1> QED BY <1>1, InitInv, InitPlaces, StepInv, StepPlaces, PTL DEF Spec

=============================================================================
