------------------------- MODULE KeyDerivationProofs ------------------------
(***************************************************************************)
(* The proofs about KeyDerivation: that all properties its run checks      *)
(* hold for every hash length, radix, block size and set of strings.       *)
(*                                                                         *)
(* First strings of any elements, chains of MACs and division; then the    *)
(* five groups, each with its inductive invariant, what a step does to it  *)
(* and what it says of the properties; at the end the composition.         *)
(***************************************************************************)
EXTENDS KeyDerivation, SequenceTheorems, WellFoundedInduction, TLAPS

-----------------------------------------------------------------------------
\* Strings, whatever they are made of.
String(s) == s \in Seq({s[i] : i \in DOMAIN s})

\* A sequence over any set is a string.
LEMMA StringOf ==
    ASSUME NEW S, NEW s \in Seq(S)
    PROVE  String(s) /\ Len(s) \in Nat /\ DOMAIN s = 1 .. Len(s)
<1>1. Len(s) \in Nat /\ DOMAIN s = 1 .. Len(s) /\ s = [i \in 1 .. Len(s) |-> s[i]]
  OBVIOUS
<1> DEFINE V == {s[i] : i \in DOMAIN s}
<1>2. \A i \in 1 .. Len(s) : s[i] \in V
  BY <1>1
<1> HIDE DEF V
<1>3. [i \in 1 .. Len(s) |-> s[i]] \in Seq(V)
  BY <1>1, <1>2
<1>4. s \in Seq(V)
  BY <1>1, <1>3
<1> QED BY <1>1, <1>4 DEF String, V

\* A string is a sequence over some set.
LEMMA StringSeq ==
    ASSUME NEW s, String(s)
    PROVE  \E S : s \in Seq(S)
BY DEF String

\* So is an array of known length.
LEMMA StringArray ==
    ASSUME NEW n \in Nat, NEW s, s = [i \in 1 .. n |-> s[i]]
    PROVE  String(s) /\ Len(s) = n
<1> DEFINE V == {s[i] : i \in 1 .. n}
<1>1. \A i \in 1 .. n : s[i] \in V
  OBVIOUS
<1> HIDE DEF V
<1>2. [i \in 1 .. n |-> s[i]] \in Seq(V)
  BY <1>1
<1>3. s \in Seq(V)
  BY <1>2
<1>4. Len(s) = n
  <2> DEFINE t == [i \in 1 .. n |-> s[i]]
  <2>1. Len(t) = n
    OBVIOUS
  <2> HIDE DEF t
  <2>2. s = t
    BY DEF t
  <2> QED BY <2>1, <2>2
<1> QED BY <1>3, <1>4, StringOf

\* Three strings are also strings of one set.
LEMMA OneSet ==
    ASSUME NEW s, NEW t, NEW u, String(s), String(t), String(u)
    PROVE  \E S : s \in Seq(S) /\ t \in Seq(S) /\ u \in Seq(S)
<1>1. PICK A : s \in Seq(A)
  BY StringSeq
<1>2. PICK B : t \in Seq(B)
  BY StringSeq
<1>3. PICK C : u \in Seq(C)
  BY StringSeq
<1> DEFINE S == (A \cup B) \cup C
<1>4. A \subseteq S /\ B \subseteq S /\ C \subseteq S
  OBVIOUS
<1> HIDE DEF S
<1>5. s \in Seq(S) /\ t \in Seq(S) /\ u \in Seq(S)
  BY <1>1, <1>2, <1>3, <1>4
<1> QED BY <1>5

\* x is s and t in a row.
Joins(s, t, x) ==
    /\ String(x) /\ Len(x) = Len(s) + Len(t)
    /\ Len(s) \in Nat /\ Len(t) \in Nat
    /\ \A i \in 1 .. Len(s) : x[i] = s[i]
    /\ \A i \in 1 .. Len(t) : x[Len(s) + i] = t[i]

\* Two strings in a row are a string, and it does not matter which two of three
\* are put together first.
LEMMA StringCat ==
    ASSUME NEW s, NEW t, String(s), String(t)
    PROVE  Joins(s, t, s \o t)
<1>1. PICK S : s \in Seq(S) /\ t \in Seq(S)
  BY OneSet
<1>2. s \o t \in Seq(S) /\ Len(s \o t) = Len(s) + Len(t)
  BY <1>1, ConcatProperties
<1>3. \A i \in 1 .. Len(s) + Len(t) : (s \o t)[i] = IF i <= Len(s) THEN s[i] ELSE t[i - Len(s)]
  BY <1>1, ConcatProperties
<1>4. Len(s) \in Nat /\ Len(t) \in Nat
  BY <1>1
<1>5. String(s \o t)
  BY <1>2, StringOf
<1> DEFINE x == s \o t
<1>6. \A i \in 1 .. Len(s) + Len(t) : x[i] = IF i <= Len(s) THEN s[i] ELSE t[i - Len(s)]
  BY <1>3
<1> HIDE DEF x
<1>7. \A i \in 1 .. Len(s) : x[i] = s[i]
  BY <1>4, <1>6
<1>8. ASSUME NEW i \in 1 .. Len(t)
      PROVE  x[Len(s) + i] = t[i]
  <2> DEFINE k == Len(s) + i
  <2>1. k \in 1 .. Len(s) + Len(t) /\ ~ (k <= Len(s)) /\ k - Len(s) = i
    BY <1>4
  <2> HIDE DEF k
  <2>2. x[k] = t[i]
    BY <1>6, <2>1
  <2> QED BY <2>2 DEF k
<1>9. String(x) /\ Len(x) = Len(s) + Len(t)
  BY <1>2, <1>5, Zenon DEF x
<1>10. Joins(s, t, x)
  BY <1>4, <1>7, <1>8, <1>9, Zenon DEF Joins
<1> QED BY <1>10, Zenon DEF x

\* Nothing before a string.
LEMMA StringEmpty ==
    ASSUME NEW s, String(s)
    PROVE  <<>> \o s = s
<1>1. PICK S : s \in Seq(S)
  BY StringSeq
<1> QED BY <1>1, ConcatEmptySeq

\* It does not matter which two of three strings are put together first.
LEMMA StringAssociative ==
    ASSUME NEW s, NEW t, NEW u, String(s), String(t), String(u)
    PROVE  (s \o t) \o u = s \o (t \o u)
<1>1. PICK S : s \in Seq(S) /\ t \in Seq(S) /\ u \in Seq(S)
  BY OneSet
<1> QED BY <1>1, ConcatAssociative

\* Strings of one length with the same elements are the same.
LEMMA StringEqual ==
    ASSUME NEW s, NEW t, String(s), String(t), Len(s) = Len(t), \A i \in 1 .. Len(s) : s[i] = t[i]
    PROVE  s = t
<1>1. PICK S : s \in Seq(S) /\ t \in Seq(S)
  BY OneSet
<1> QED BY <1>1, SeqEqual

\* The same string, cut twice at the same place.
Cut(s, t, u, v) ==
    /\ String(s) /\ String(t) /\ String(u) /\ String(v)
    /\ Len(s) = Len(u) /\ s \o t = u \o v

\* The first parts of a string can be told from the rest if they have the same
\* length.
LEMMA StringCut ==
    ASSUME NEW s, NEW t, NEW u, NEW v, Cut(s, t, u, v)
    PROVE  s = u /\ t = v
<1> DEFINE x == s \o t
           y == u \o v
<1>0. String(s) /\ String(t) /\ String(u) /\ String(v) /\ Len(s) = Len(u) /\ x = y
  BY Zenon DEF Cut
<1>1. Joins(s, t, x)
  BY <1>0, StringCat, Zenon
<1>2. Joins(u, v, y)
  BY <1>0, StringCat, Zenon
<1> HIDE DEF x, y
<1>4. Len(t) = Len(v)
  BY <1>0, <1>1, <1>2 DEF Joins
<1>5. \A i \in 1 .. Len(s) : s[i] = u[i]
  BY <1>0, <1>1, <1>2 DEF Joins
<1>6. \A i \in 1 .. Len(t) : t[i] = v[i]
  BY <1>0, <1>1, <1>2, <1>4 DEF Joins
<1>7. s = u
  BY <1>0, <1>5, StringEqual
<1>8. t = v
  BY <1>0, <1>4, <1>6, StringEqual
<1> QED BY <1>7, <1>8

\* A MAC of n bytes.
Mac(n, x) == [k \in 1 .. n |-> {<<"hmac", x, k>>}]

\* A set of numbers has a least one.
LEMMA LeastNumber ==
    ASSUME NEW T, T \subseteq Nat, T # {}
    PROVE  \E x \in T : \A y \in T : x <= y
<1> DEFINE R == OpToRel(<, Nat)
<1>1. IsWellFoundedOn(R, Nat)
  BY NatLessThanWellFounded
<1>2. \A x, y \in Nat : <<x, y>> \in R <=> x < y
  BY DEF OpToRel
<1> HIDE DEF R
<1>3. PICK x \in T : \A y \in T : <<y, x>> \notin R
  BY <1>1, WFMin
<1>4. ASSUME NEW y \in T PROVE x <= y
  <2>1. x \in Nat /\ y \in Nat
    OBVIOUS
  <2>2. ~ (y < x)
    BY <1>2, <1>3, <2>1
  <2> QED BY <2>1, <2>2
<1> QED BY <1>4

\* A set of numbers that has 0 and with every number its successor has them all.
LEMMA CountUp ==
    ASSUME NEW S, 0 \in S, \A k \in Nat : k \in S => k + 1 \in S
    PROVE  \A k \in Nat : k \in S
<1> DEFINE T == {k \in Nat : k \notin S}
<1> SUFFICES ASSUME T # {} PROVE FALSE
  OBVIOUS
<1>1. PICK x \in T : \A y \in T : x <= y
  <2> HIDE DEF T
  <2>1. T \subseteq Nat
    BY DEF T
  <2> QED BY <2>1, LeastNumber
<1>2. x - 1 \in Nat /\ x - 1 \notin T
  BY <1>1
<1>3. (x - 1) + 1 \in S
  BY <1>2
<1> QED BY <1>3

\* f is the chain of MACs that begins with x, up to number m.
IsChain(n, x, f, m) == f = [j \in 0 .. m |-> IF j = 0 THEN x ELSE Mac(n, f[j - 1])]

\* There is such a chain of every length.
LEMMA ChainExists ==
    ASSUME NEW n, NEW x, NEW m \in Nat
    PROVE  \E f : IsChain(n, x, f, m)
<1> DEFINE S == {k \in Nat : \E f : IsChain(n, x, f, k)}
<1>1. 0 \in S
  <2> DEFINE f == [j \in 0 .. 0 |-> x]
  <2>1. f = [j \in 0 .. 0 |-> IF j = 0 THEN x ELSE Mac(n, f[j - 1])]
    OBVIOUS
  <2> HIDE DEF f
  <2>2. IsChain(n, x, f, 0)
    BY <2>1 DEF IsChain
  <2> QED BY <2>2
<1>2. ASSUME NEW k \in Nat, k \in S
      PROVE  k + 1 \in S
  <2>1. PICK f : IsChain(n, x, f, k)
    BY <1>2
  <2> DEFINE g == [j \in 0 .. k + 1 |-> IF j = 0 THEN x ELSE Mac(n, f[j - 1])]
  <2>2. f = [j \in 0 .. k |-> IF j = 0 THEN x ELSE Mac(n, f[j - 1])]
    BY <2>1 DEF IsChain
  <2>3. ASSUME NEW j \in 0 .. k
        PROVE  g[j] = f[j]
    BY <2>2
  <2>4. ASSUME NEW j \in 1 .. k + 1
        PROVE  g[j - 1] = f[j - 1]
    <3>1. j - 1 \in 0 .. k
      OBVIOUS
    <3> HIDE DEF g
    <3> QED BY <2>3, <3>1
  <2>5. g = [j \in 0 .. k + 1 |-> IF j = 0 THEN x ELSE Mac(n, g[j - 1])]
    <3> DEFINE h == g
    <3>1. \A j \in 0 .. k + 1 : (IF j = 0 THEN x ELSE Mac(n, f[j - 1])) = IF j = 0 THEN x ELSE Mac(n, h[j - 1])
      <4> HIDE DEF g
      <4> QED BY <2>4
    <3> HIDE DEF h
    <3>2. g = [j \in 0 .. k + 1 |-> IF j = 0 THEN x ELSE Mac(n, h[j - 1])]
      BY <3>1
    <3> QED BY <3>2 DEF h
  <2>6. IsChain(n, x, g, k + 1)
    <3> HIDE DEF g
    <3> QED BY <2>5 DEF IsChain
  <2> QED BY <2>6
<1> HIDE DEF S
<1>3. m \in S
  BY <1>1, <1>2, CountUp
<1> QED BY <1>3 DEF S

\* Two chains from the same start agree as far as both go.
LEMMA ChainUnique ==
    ASSUME NEW n, NEW x, NEW f, NEW g, NEW l \in Nat, NEW m \in Nat,
           IsChain(n, x, f, l), IsChain(n, x, g, m), NEW j \in Nat, j <= l, j <= m
    PROVE  f[j] = g[j]
<1> DEFINE S == {k \in Nat : k <= l /\ k <= m => f[k] = g[k]}
<1>1. 0 \in S
  BY DEF IsChain
<1>2. ASSUME NEW k \in Nat, k \in S
      PROVE  k + 1 \in S
  <2> SUFFICES ASSUME k + 1 <= l /\ k + 1 <= m PROVE f[k + 1] = g[k + 1]
    OBVIOUS
  <2>1. f[k + 1] = Mac(n, f[k]) /\ g[k + 1] = Mac(n, g[k])
    BY DEF IsChain
  <2> QED BY <1>2, <2>1
<1> HIDE DEF S
<1>3. j \in S
  BY <1>1, <1>2, CountUp
<1> QED BY <1>3 DEF S

\* MAC number k of the chain that begins with x.
Link(n, x, k) == (CHOOSE f : IsChain(n, x, f, k))[k]

\* Every chain consists of the links.
LEMMA ChainLinks ==
    ASSUME NEW n, NEW x, NEW f, NEW m \in Nat, IsChain(n, x, f, m)
    PROVE  \A k \in 0 .. m : f[k] = Link(n, x, k)
<1> TAKE k \in 0 .. m
<1> DEFINE g == CHOOSE g : IsChain(n, x, g, k)
<1>1. IsChain(n, x, g, k)
  BY ChainExists
<1> HIDE DEF g
<1>2. f[k] = g[k]
  BY <1>1, ChainUnique
<1> QED BY <1>2 DEF g, Link

\* The recursion of the links.
LEMMA LinkStep ==
    ASSUME NEW n, NEW x, NEW k \in Nat
    PROVE  Link(n, x, 0) = x /\ Link(n, x, k + 1) = Mac(n, Link(n, x, k))
<1>1. PICK f : IsChain(n, x, f, k + 1)
  BY ChainExists
<1>2. f[0] = Link(n, x, 0) /\ f[k] = Link(n, x, k) /\ f[k + 1] = Link(n, x, k + 1)
  BY <1>1, ChainLinks
<1>3. f[0] = x /\ f[k + 1] = Mac(n, f[k])
  BY <1>1 DEF IsChain
<1> QED BY <1>2, <1>3

\* x is not a MAC.
NoMac(n, x) == \A y : x # Mac(n, y)

\* Two strings do not have the same MAC.
LEMMA MacInjective ==
    ASSUME NEW n \in Nat \ {0}, NEW x, NEW y, Mac(n, x) = Mac(n, y)
    PROVE  x = y
<1>1. Mac(n, x)[1] = {<<"hmac", x, 1>>} /\ Mac(n, y)[1] = {<<"hmac", y, 1>>}
  BY DEF Mac
<1>2. <<"hmac", x, 1>> = <<"hmac", y, 1>>
  BY <1>1
<1> QED BY <1>2

\* A chain that does not begin with a MAC never returns to where it was.
LEMMA LinksDiffer ==
    ASSUME NEW n \in Nat \ {0}, NEW x, NoMac(n, x), NEW k \in Nat, NEW l \in Nat, k < l
    PROVE  Link(n, x, k) # Link(n, x, l)
<1> DEFINE S == {a \in Nat : \A b \in Nat : a < b => Link(n, x, a) # Link(n, x, b)}
<1>1. 0 \in S
  <2>1. ASSUME NEW b \in Nat, 0 < b
        PROVE  Link(n, x, 0) # Link(n, x, b)
    <3>1. b - 1 \in Nat /\ (b - 1) + 1 = b
      BY <2>1
    <3>2. Link(n, x, 0) = x /\ Link(n, x, b) = Mac(n, Link(n, x, b - 1))
      BY <3>1, LinkStep
    <3> QED BY <3>2 DEF NoMac
  <2> QED BY <2>1
<1>2. ASSUME NEW a \in Nat, a \in S
      PROVE  a + 1 \in S
  <2>1. ASSUME NEW b \in Nat, a + 1 < b
        PROVE  Link(n, x, a + 1) # Link(n, x, b)
    <3>1. b - 1 \in Nat /\ (b - 1) + 1 = b /\ a < b - 1
      BY <2>1
    <3>2. Link(n, x, b) = Mac(n, Link(n, x, b - 1)) /\ Link(n, x, a + 1) = Mac(n, Link(n, x, a))
      BY <3>1, LinkStep
    <3>3. Link(n, x, a) # Link(n, x, b - 1)
      BY <1>2, <3>1
    <3> QED BY <3>2, <3>3, MacInjective
  <2> QED BY <2>1
<1> HIDE DEF S
<1>3. k \in S
  BY <1>1, <1>2, CountUp
<1> QED BY <1>3 DEF S

-----------------------------------------------------------------------------
(***************************************************************************)
(* The key expansions: the references for given arguments.                 *)
(***************************************************************************)
ByteOf(k) == {<<"byte", k, 0>>}

\* What the MAC of block k of HKDF is taken of, and the blocks.
ExpandInput(l, prev, k) == (prev \o l) \o << ByteOf(k) >>

\* f is the chain T(0), T(1), ... of HKDF for the info l, up to block m.
IsExpansion(l, f, m) ==
    f = [j \in 0 .. m |-> IF j = 0 THEN <<>> ELSE Mac(HashLen, ExpandInput(l, f[j - 1], j))]

\* T(k) of HKDF for the info l.
Expansion(l, k) == (CHOOSE f : IsExpansion(l, f, k))[k]

\* There is such a chain of every length.
LEMMA ExpansionExists ==
    ASSUME NEW l, NEW m \in Nat
    PROVE  \E f : IsExpansion(l, f, m)
<1> DEFINE S == {k \in Nat : \E f : IsExpansion(l, f, k)}
<1>1. 0 \in S
  <2> DEFINE f == [j \in 0 .. 0 |-> <<>>]
  <2>1. f = [j \in 0 .. 0 |-> IF j = 0 THEN <<>> ELSE Mac(HashLen, ExpandInput(l, f[j - 1], j))]
    OBVIOUS
  <2> HIDE DEF f
  <2>2. IsExpansion(l, f, 0)
    BY <2>1 DEF IsExpansion
  <2> QED BY <2>2
<1>2. ASSUME NEW k \in Nat, k \in S
      PROVE  k + 1 \in S
  <2>1. PICK f : IsExpansion(l, f, k)
    BY <1>2
  <2> DEFINE g == [j \in 0 .. k + 1 |->
                      IF j = 0 THEN <<>> ELSE Mac(HashLen, ExpandInput(l, f[j - 1], j))]
  <2>2. f = [j \in 0 .. k |-> IF j = 0 THEN <<>> ELSE Mac(HashLen, ExpandInput(l, f[j - 1], j))]
    BY <2>1 DEF IsExpansion
  <2>3. ASSUME NEW j \in 0 .. k
        PROVE  g[j] = f[j]
    BY <2>2
  <2>4. ASSUME NEW j \in 1 .. k + 1
        PROVE  g[j - 1] = f[j - 1]
    <3>1. j - 1 \in 0 .. k
      OBVIOUS
    <3> HIDE DEF g
    <3> QED BY <2>3, <3>1
  <2>5. g = [j \in 0 .. k + 1 |->
                IF j = 0 THEN <<>> ELSE Mac(HashLen, ExpandInput(l, g[j - 1], j))]
    <3> DEFINE h == g
    <3>1. \A j \in 0 .. k + 1 :
            (IF j = 0 THEN <<>> ELSE Mac(HashLen, ExpandInput(l, f[j - 1], j)))
              = IF j = 0 THEN <<>> ELSE Mac(HashLen, ExpandInput(l, h[j - 1], j))
      <4> HIDE DEF g
      <4> QED BY <2>4
    <3> HIDE DEF h
    <3>2. g = [j \in 0 .. k + 1 |->
                  IF j = 0 THEN <<>> ELSE Mac(HashLen, ExpandInput(l, h[j - 1], j))]
      BY <3>1
    <3> QED BY <3>2 DEF h
  <2>6. IsExpansion(l, g, k + 1)
    <3> HIDE DEF g
    <3> QED BY <2>5 DEF IsExpansion
  <2> QED BY <2>6
<1> HIDE DEF S
<1>3. m \in S
  BY <1>1, <1>2, CountUp
<1> QED BY <1>3 DEF S

\* Two of them agree as far as both go.
LEMMA ExpansionUnique ==
    ASSUME NEW l, NEW f, NEW g, NEW a \in Nat, NEW b \in Nat,
           IsExpansion(l, f, a), IsExpansion(l, g, b), NEW j \in Nat, j <= a, j <= b
    PROVE  f[j] = g[j]
<1> DEFINE S == {k \in Nat : k <= a /\ k <= b => f[k] = g[k]}
<1>1. 0 \in S
  BY DEF IsExpansion
<1>2. ASSUME NEW k \in Nat, k \in S
      PROVE  k + 1 \in S
  <2> SUFFICES ASSUME k + 1 <= a /\ k + 1 <= b PROVE f[k + 1] = g[k + 1]
    OBVIOUS
  <2>1. /\ f[k + 1] = Mac(HashLen, ExpandInput(l, f[k], k + 1))
        /\ g[k + 1] = Mac(HashLen, ExpandInput(l, g[k], k + 1))
    BY DEF IsExpansion
  <2> QED BY <1>2, <2>1
<1> HIDE DEF S
<1>3. j \in S
  BY <1>1, <1>2, CountUp
<1> QED BY <1>3 DEF S

\* The recursion of T.
LEMMA ExpansionNext ==
    ASSUME NEW l, NEW k \in Nat
    PROVE  /\ Expansion(l, 0) = <<>>
           /\ Expansion(l, k + 1) = Mac(HashLen, ExpandInput(l, Expansion(l, k), k + 1))
<1>1. PICK f : IsExpansion(l, f, k + 1)
  BY ExpansionExists
<1>2. ASSUME NEW j \in 0 .. k + 1
      PROVE  f[j] = Expansion(l, j)
  <2> DEFINE g == CHOOSE g : IsExpansion(l, g, j)
  <2>1. IsExpansion(l, g, j)
    BY ExpansionExists
  <2> HIDE DEF g
  <2>2. f[j] = g[j]
    BY <1>1, <2>1, ExpansionUnique
  <2> QED BY <2>2 DEF g, Expansion
<1>3. f[0] = Expansion(l, 0) /\ f[k] = Expansion(l, k) /\ f[k + 1] = Expansion(l, k + 1)
  BY <1>2
<1>4. f[0] = <<>> /\ f[k + 1] = Mac(HashLen, ExpandInput(l, f[k], k + 1))
  BY <1>1 DEF IsExpansion
<1> QED BY <1>3, <1>4

\* A MAC is a string of its length.
LEMMA MacString ==
    ASSUME NEW n \in Nat, NEW x
    PROVE  String(Mac(n, x)) /\ Len(Mac(n, x)) = n
<1> DEFINE r == Mac(n, x)
<1>1. r = [j \in 1 .. n |-> r[j]]
  BY DEF Mac
<1> HIDE DEF r
<1>2. String(r) /\ Len(r) = n
  BY <1>1, StringArray
<1> QED BY <1>2 DEF r

\* T(0) is empty, every other T(k) has the length of a MAC.
LEMMA ExpansionString ==
    ASSUME HashLen \in Nat, NEW l, NEW k \in Nat
    PROVE  /\ String(Expansion(l, k))
           /\ Len(Expansion(l, k)) = IF k = 0 THEN 0 ELSE HashLen
<1>1. CASE k = 0
  <2>1. Expansion(l, 0) = <<>>
    BY ExpansionNext
  <2>2. String(<<>>) /\ Len(<<>>) = 0
    <3>1. <<>> \in Seq({})
      OBVIOUS
    <3> QED BY <3>1, StringOf
  <2> QED BY <1>1, <2>1, <2>2
<1>2. CASE k # 0
  <2>1. k - 1 \in Nat /\ (k - 1) + 1 = k
    BY <1>2
  <2>2. \E x : Expansion(l, k) = Mac(HashLen, x)
    BY <2>1, ExpansionNext
  <2> QED BY <1>2, <2>2, MacString
<1> QED BY <1>1, <1>2

\* What the MAC of block k is taken of, for each function f of label l, seed s and
\* length n.
TreeInput(l, s, n, k) ==
    (((<< ByteOf(k) >> \o l) \o << K!Byte(0) >>) \o s) \o K!put_be(8 * n)

\* What the MAC of block k of the PRF is taken of.
PrfInput(l, s, k) == (Link(HashLen, l \o s, k) \o l) \o s

\* What the MAC of block k is taken of in function f.
BlockInput(f, l, s, n, k) ==
    IF f = "kdf_tree" THEN TreeInput(l, s, n, k)
    ELSE IF f = "hkdf" THEN ExpandInput(l, Expansion(l, k - 1), k)
    ELSE PrfInput(l, s, k)

\* Byte p of the output of function f.
OutByte(f, l, s, n, p) ==
    Mac(HashLen, BlockInput(f, l, s, n, ((p - 1) \div HashLen) + 1))[((p - 1) % HashLen) + 1]

\* The functions of KeyExpansion.
Functions == {"kdf_tree", "prf", "hkdf"}

\* The MAC of the key expansions.
LEMMA HmacIsMac ==
    ASSUME NEW x
    PROVE  K!hmac(x) = Mac(HashLen, x)
BY DEF K!hmac, K!BytesOf, K!Atom, Mac

\* A and T of the references are these chains.
LEMMA KReferences ==
    ASSUME NEW k \in Nat
    PROVE  K!A(k) = Link(HashLen, label \o seed, k) /\ K!T(k) = Expansion(label, k)
<1>1. K!A(k) = Link(HashLen, label \o seed, k)
  BY Zenon DEF K!A, K!hmac, K!BytesOf, K!Atom, Mac, Link, IsChain
<1>2. K!T(k) = Expansion(label, k)
  BY Zenon DEF K!T, K!hmac, K!BytesOf, K!Atom, Mac, Expansion, IsExpansion, ExpandInput, ByteOf
<1> QED BY <1>1, <1>2

\* The reference output for the arguments of the call.
LEMMA ReferenceExact ==
    ASSUME HashLen \in Nat \ {0}, fn \in Functions, NEW p \in Nat \ {0}
    PROVE  K!Reference(p) = OutByte(fn, label, seed, len, p)
<1> DEFINE k == ((p - 1) \div HashLen) + 1
           h == HashLen
<1>1. k \in Nat /\ k - 1 \in Nat /\ (k - 1) + 1 = k
  <2>1. (p - 1) \div h \in Nat
    <3> HIDE DEF h
    <3>1. p - 1 \in Nat /\ h \in Nat \ {0}
      BY DEF h
    <3> QED BY <3>1
  <2> QED BY <2>1
<1> HIDE DEF k, h
<1>2. K!ReferenceBlock(k) = Mac(HashLen, BlockInput(fn, label, seed, len, k))
  <2>1. CASE fn = "kdf_tree"
    <3>1. K!ReferenceBlock(k) = K!hmac(TreeInput(label, seed, len, k))
      BY <2>1 DEF K!ReferenceBlock, TreeInput, ByteOf, K!Atom
    <3> QED BY <3>1, <2>1, HmacIsMac DEF BlockInput
  <2>2. CASE fn = "hkdf"
    <3>1. K!ReferenceBlock(k) = K!T(k)
      BY <2>2 DEF K!ReferenceBlock
    <3>2. K!T(k) = Expansion(label, (k - 1) + 1)
      BY <1>1, KReferences
    <3>3. Expansion(label, (k - 1) + 1)
            = Mac(HashLen, ExpandInput(label, Expansion(label, k - 1), (k - 1) + 1))
      BY <1>1, ExpansionNext
    <3>4. ExpandInput(label, Expansion(label, k - 1), (k - 1) + 1)
            = BlockInput(fn, label, seed, len, k)
      BY <1>1, <2>2 DEF BlockInput
    <3> QED BY <3>1, <3>2, <3>3, <3>4
  <2>3. CASE fn = "prf"
    <3>1. K!ReferenceBlock(k) = K!hmac((K!A(k) \o label) \o seed)
      BY <2>3 DEF K!ReferenceBlock
    <3>2. K!A(k) = Link(HashLen, label \o seed, k)
      BY <1>1, KReferences
    <3>3. K!ReferenceBlock(k) = K!hmac(PrfInput(label, seed, k))
      BY <3>1, <3>2, Zenon DEF PrfInput
    <3> QED BY <3>3, <2>3, HmacIsMac DEF BlockInput
  <2> QED BY <2>1, <2>2, <2>3 DEF Functions
<1> QED BY <1>2, Zenon DEF K!Reference, OutByte, k

-----------------------------------------------------------------------------
\* A number split into whole multiples and a rest.
LEMMA DivMod ==
    ASSUME NEW n \in Nat \ {0}, NEW a \in Nat, NEW q \in Nat, NEW r \in 0 .. n - 1, a = q * n + r
    PROVE  a \div n = q /\ a % n = r
<1> DEFINE d == a \div n
           e == a % n
<1>1. d \in Nat /\ e \in 0 .. n - 1 /\ a = d * n + e
  OBVIOUS
<1> HIDE DEF d, e
<1>2. d = q
  <2>1. CASE d < q
    <3>1. (d + 1) * n <= q * n
      BY <1>1, <2>1
    <3>2. (d + 1) * n = d * n + n
      BY <1>1
    <3>3. d * n \in Nat /\ q * n \in Nat
      BY <1>1
    <3> HIDE DEF d
    <3> DEFINE dn == d * n
               qn == q * n
    <3>4. dn + n <= qn /\ a = dn + e /\ a = qn + r /\ dn \in Nat /\ qn \in Nat
      BY <1>1, <3>1, <3>2, <3>3
    <3> HIDE DEF dn, qn
    <3> QED BY <3>4, <1>1
  <2>2. CASE q < d
    <3>1. (q + 1) * n <= d * n
      BY <1>1, <2>2
    <3>2. (q + 1) * n = q * n + n
      OBVIOUS
    <3>3. d * n \in Nat /\ q * n \in Nat
      BY <1>1
    <3> DEFINE dn == d * n
               qn == q * n
    <3>4. qn + n <= dn /\ a = dn + e /\ a = qn + r /\ dn \in Nat /\ qn \in Nat
      BY <1>1, <3>1, <3>2, <3>3
    <3> HIDE DEF dn, qn
    <3> QED BY <3>4, <1>1
  <2> QED BY <1>1, <2>1, <2>2
<1>3. e = r
  <2> DEFINE m == q * n
  <2>1. m \in Nat /\ a = m + e /\ a = m + r
    BY <1>1, <1>2
  <2> HIDE DEF m
  <2> QED BY <2>1, <1>1
<1> QED BY <1>2, <1>3 DEF d, e

\* A counter that wraps goes on like the number it is the rest of.
LEMMA CountMod ==
    ASSUME NEW r \in Nat \ {0}, NEW a \in Nat
    PROVE  ((a % r) + 1) % r = (a + 1) % r
<1> DEFINE q == a \div r
           e == a % r
           b == a + 1
<1>1. q \in Nat /\ e \in 0 .. r - 1 /\ a = q * r + e
  OBVIOUS
<1> HIDE DEF q, e
<1>2. CASE e + 1 < r
  <2> DEFINE m == q * r
  <2>1. m \in Nat /\ a = m + e
    BY <1>1
  <2> HIDE DEF m
  <2>2. b = m + (e + 1) /\ e + 1 \in 0 .. r - 1 /\ b \in Nat
    BY <1>1, <1>2, <2>1
  <2> HIDE DEF b
  <2>3. b = q * r + (e + 1)
    BY <2>2 DEF m
  <2>4. b % r = e + 1
    BY <1>1, <2>2, <2>3, DivMod
  <2>5. (e + 1) % r = e + 1
    BY <2>2
  <2> QED BY <2>4, <2>5 DEF b, e
<1>3. CASE ~ (e + 1 < r)
  <2>1. e + 1 = r
    BY <1>1, <1>3
  <2>2. (q + 1) * r = q * r + r /\ q * r \in Nat
    BY <1>1
  <2>3. b = (q + 1) * r + 0 /\ b \in Nat /\ q + 1 \in Nat /\ 0 \in 0 .. r - 1
    <3> DEFINE m == q * r
               l == (q + 1) * r
    <3>1. a = m + e /\ l = m + r /\ m \in Nat
      BY <1>1, <2>2
    <3> HIDE DEF m, l
    <3>2. b = l + 0
      BY <2>1, <3>1, <1>1
    <3> QED BY <1>1, <3>2 DEF l
  <2> HIDE DEF b
  <2>4. b % r = 0
    BY <2>3, DivMod
  <2>5. (e + 1) % r = 0
    <3>1. r = 1 * r + 0
      OBVIOUS
    <3>2. r % r = 0
      BY <3>1, DivMod
    <3> QED BY <2>1, <3>2
  <2> QED BY <2>4, <2>5 DEF b, e
<1> QED BY <1>2, <1>3

\* Byte q of block k + 1 of the output.
LEMMA OutByteExact ==
    ASSUME HashLen \in Nat \ {0}, NEW f, NEW l, NEW s, NEW n,
           NEW k \in Nat, NEW q \in 1 .. HashLen, NEW p, p = k * HashLen + q
    PROVE  OutByte(f, l, s, n, p) = Mac(HashLen, BlockInput(f, l, s, n, k + 1))[q]
<1> DEFINE a == p - 1
           r == q - 1
<1>1. k * HashLen \in Nat
  OBVIOUS
<1>2. a \in Nat /\ r \in 0 .. HashLen - 1 /\ a = k * HashLen + r /\ r + 1 = q
  <2> DEFINE m == k * HashLen
  <2>1. m \in Nat /\ p = m + q
    BY <1>1
  <2> HIDE DEF m
  <2>2. a \in Nat /\ r \in 0 .. HashLen - 1 /\ a = m + r /\ r + 1 = q
    BY <2>1
  <2> QED BY <2>2 DEF m
<1> HIDE DEF a, r
<1>3. a \div HashLen = k /\ a % HashLen = r
  BY <1>2, DivMod
<1> QED BY <1>2, <1>3, Zenon DEF OutByte, a

-----------------------------------------------------------------------------
(***************************************************************************)
(* The inductive invariant of the key expansions: after some turns the     *)
(* counter, the chaining value and the output are those of the reference   *)
(* after as many blocks.                                                   *)
(***************************************************************************)
Turns(k) ==
    /\ counter = (k + 1) % ByteRadix
    /\ done < len => done = k * HashLen
    /\ active /\ fn = "prf" => chain = Link(HashLen, label \o seed, k + 1)
    /\ active /\ fn = "hkdf" => chain = Expansion(label, k)
    /\ fn = "hkdf" /\ k >= 1 => Len(label) + 1 <= InBuf
    /\ fn = "hkdf" /\ k >= 2 => HashLen + Len(label) + 1 <= InBuf

\* The arguments of a call and how far it is.
KArguments ==
    /\ fn \in Functions /\ active \in BOOLEAN /\ ret \in {0, -1}
    /\ len \in 0 .. MaxOut /\ done \in 0 .. len
    /\ label \in Labels \cup {<<>>} /\ seed \in Seeds \cup {<<>>}

\* The buffer with d bytes of the reference output in it.
Filled(buf, f, l, s, n, d) ==
    [p \in 1 .. K!BufSize |-> IF p <= d THEN OutByte(f, l, s, n, p) ELSE buf[p]]

\* The inductive invariant of the key expansions.
KInv ==
    /\ KArguments
    /\ active => ret = 0
    /\ ~active /\ ret = 0 => done = len
    /\ active /\ fn # "prf" => len <= (ByteRadix - 1) * HashLen
    /\ \E k \in Nat : Turns(k)
    /\ fn = "hkdf" => Len(input) <= InBuf
    /\ K!FailureLeavesOneBlock
    /\ out = Filled(K!Stale, fn, label, seed, len, done)

\* What the constants of the key expansions are.
LEMMA KConstants ==
    ASSUME K!SizeAssumption
    PROVE  /\ HashLen \in Nat \ {0} /\ ByteRadix \in Nat \ {0, 1}
           /\ InBuf \in Nat /\ MaxSeed \in Nat /\ MaxOut \in Nat
           /\ K!BufSize = MaxOut + 1 /\ K!BufSize \in Nat
BY DEF K!SizeAssumption, K!BufSize

\* The strings of the arguments, and what a label and a seed cannot begin with.
LEMMA ArgumentStrings ==
    ASSUME K!SizeAssumption, NEW s \in (Labels \cup Seeds) \cup {<<>>}
    PROVE  String(s) /\ Len(s) \in Nat /\ \A k \in DOMAIN s : \A e \in s[k] : e[1] # "hmac"
<1>1. CASE s = <<>>
  <2>1. s \in Seq({})
    BY <1>1
  <2>2. DOMAIN s = {}
    BY <1>1
  <2> QED BY <2>1, <2>2, StringOf
<1>2. CASE s \in Labels \cup Seeds
  <2>1. s \in Seq({s[k] : k \in DOMAIN s})
    BY <1>2 DEF K!SizeAssumption
  <2>2. \A k \in DOMAIN s : \A e \in s[k] : e[1] # "hmac"
    BY <1>2 DEF K!SizeAssumption
  <2> QED BY <2>1, <2>2, StringOf
<1> QED BY <1>1, <1>2

\* A buffer nothing is written to yet.
LEMMA StaleExact ==
    ASSUME K!SizeAssumption, NEW f, NEW l, NEW s, NEW n
    PROVE  K!Stale = Filled(K!Stale, f, l, s, n, 0)
<1>1. K!Stale = [p \in 1 .. K!BufSize |-> K!Stale[p]]
  BY DEF K!Stale, K!BytesOf
<1> DEFINE stale == K!Stale
<1> HIDE DEF stale
<1>2. stale = [p \in 1 .. K!BufSize |-> stale[p]]
  BY <1>1 DEF stale
<1>3. \A p \in 1 .. K!BufSize : ~ (p <= 0)
  BY KConstants
<1>4. stale = [p \in 1 .. K!BufSize |->
                   IF p <= 0 THEN OutByte(f, l, s, n, p) ELSE stale[p]]
  BY <1>2, <1>3
<1> QED BY <1>4, Zenon DEF stale, Filled

\* The invariant holds at the start,
LEMMA KInit ==
    ASSUME K!SizeAssumption, K!Init
    PROVE  KInv
<1>1. KArguments
  <2>1. active \in BOOLEAN
    BY Zenon DEF K!Init
  <2>2. 0 \in 0 .. MaxOut /\ 0 \in 0 .. 0
    BY KConstants
  <2> QED BY <2>1, <2>2 DEF K!Init, KArguments, Functions
<1>2. Turns(0)
  <2>1. 1 % ByteRadix = 1
    BY KConstants
  <2> QED BY <2>1, KConstants DEF K!Init, Turns
<1>3. out = K!Stale /\ done = 0
  BY Zenon DEF K!Init
<1>4. out = Filled(K!Stale, fn, label, seed, len, done)
  BY <1>3, StaleExact
<1>5. ret # -1 /\ ~active /\ fn = "prf" /\ done = len
  BY DEF K!Init
<1> QED BY <1>1, <1>2, <1>4, <1>5 DEF KInv, K!FailureLeavesOneBlock

\* after a call is accepted or refused,
LEMMA KCall ==
    ASSUME K!SizeAssumption, KInv,
           NEW f \in Functions, NEW n \in 0 .. MaxOut, NEW l \in Labels, NEW s \in Seeds,
           K!Call(f, n, l, s)
    PROVE  KInv'
<1>1. /\ fn' = f /\ len' = n /\ label' = l /\ seed' = s /\ done' = 0 /\ counter' = 1
      /\ active' = ~K!Refused(f, n, s) /\ ret' = IF K!Refused(f, n, s) THEN -1 ELSE 0
      /\ chain' = IF f = "prf" THEN K!hmac(l \o s) ELSE <<>>
      /\ input' = IF f = "prf" THEN l \o s ELSE <<>>
      /\ out' = K!Stale
  BY Zenon DEF K!Call
<1>2. KArguments'
  <2>1. active' \in BOOLEAN
    BY <1>1, Zenon
  <2> QED BY <1>1, <2>1, KConstants DEF KArguments
<1>3. Turns(0)'
  <2>1. 1 % ByteRadix = 1 /\ 0 * HashLen = 0
    BY KConstants
  <2>2. f = "prf" => chain' = Link(HashLen, l \o s, 1)
    <3> DEFINE x == l \o s
    <3> HIDE DEF x
    <3>1. Link(HashLen, x, 0) = x /\ Link(HashLen, x, 0 + 1) = Mac(HashLen, Link(HashLen, x, 0))
      BY LinkStep
    <3>2. Link(HashLen, x, 1) = K!hmac(x)
      BY <3>1, HmacIsMac
    <3> QED BY <1>1, <3>2 DEF x
  <2>3. f = "hkdf" => chain' = Expansion(l, 0)
    BY <1>1, ExpansionNext
  <2>4. counter' = (0 + 1) % ByteRadix /\ done' = 0 * HashLen
    BY <1>1, <2>1
  <2>5. fn' = "prf" => chain' = Link(HashLen, (label \o seed)', 0 + 1)
    BY <1>1, <2>2
  <2>6. fn' = "hkdf" => chain' = Expansion(label', 0)
    BY <1>1, <2>3, Zenon
  <2> QED BY <2>4, <2>5, <2>6 DEF Turns
<1>4. out' = Filled(K!Stale, fn', label', seed', len', done')
  <2>1. K!Stale = Filled(K!Stale, f, l, s, n, 0)
    BY StaleExact
  <2> QED BY <1>1, <2>1, Zenon
<1>5. active' /\ fn' # "prf" => len' <= (ByteRadix - 1) * HashLen
  <2> SUFFICES ASSUME f # "prf", ~K!Refused(f, n, s)
               PROVE  n <= (ByteRadix - 1) * HashLen
    BY <1>1, Zenon
  <2>1. CASE f = "hkdf"
    <3>1. ~ (n > (ByteRadix - 1) * HashLen)
      BY <2>1 DEF K!Refused, K!HkdfRefused
    <3>2. (ByteRadix - 1) * HashLen \in Nat
      BY KConstants
    <3> QED BY <3>1, <3>2, KConstants
  <2>2. CASE f = "kdf_tree"
    <3>1. n % HashLen = 0 /\ ~ (n \div HashLen > ByteRadix - 1)
      BY <2>2 DEF K!Refused, K!KdfTreeRefused
    <3> DEFINE d == n \div HashLen
    <3>2. d \in Nat /\ n = d * HashLen
      BY <3>1, KConstants
    <3> HIDE DEF d
    <3>3. d <= ByteRadix - 1
      BY <3>1, <3>2, KConstants DEF d
    <3>4. d * HashLen <= (ByteRadix - 1) * HashLen
      BY <3>2, <3>3, KConstants
    <3> QED BY <3>2, <3>4
  <2> QED BY <2>1, <2>2 DEF Functions
<1>6. fn' = "hkdf" => Len(input)' <= InBuf
  <2>1. fn' = "hkdf" => Len(input') = 0
    BY <1>1
  <2> QED BY <2>1, KConstants
<1>7. active' => ret' = 0
  BY <1>1, Zenon
<1>8. ~active' /\ ret' = 0 => done' = len'
  <2>1. K!Refused(f, n, s) => ret' = -1
    BY <1>1, Zenon
  <2>2. -1 # 0
    OBVIOUS
  <2> QED BY <1>1, <2>1, <2>2, Zenon
<1>9. K!FailureLeavesOneBlock'
  BY <1>1, Zenon DEF K!FailureLeavesOneBlock
<1>10. (\E k \in Nat : Turns(k))'
  BY <1>3
<1> QED BY <1>2, <1>4, <1>5, <1>6, <1>7, <1>8, <1>9, <1>10 DEF KInv, Filled, K!BufSize, K!Stale, K!BytesOf

\* In a turn that is not the last the counter is the number of the block, and the
\* MAC is taken of what the reference takes it of.
LEMMA TurnInput ==
    ASSUME K!SizeAssumption, KInv, active, done < len, NEW k \in Nat, Turns(k)
    PROVE  /\ done = k * HashLen
           /\ fn # "prf" => counter = k + 1
           /\ K!Input = BlockInput(fn, label, seed, len, k + 1)
<1>1. done = k * HashLen /\ len \in Nat /\ fn \in Functions
  BY KConstants DEF Turns, KInv, KArguments
<1>2. ASSUME fn # "prf"
      PROVE  counter = k + 1
  <2>1. len <= (ByteRadix - 1) * HashLen
    BY <1>2 DEF KInv
  <2> DEFINE r == ByteRadix - 1
             h == HashLen
  <2>2. r \in Nat /\ h \in Nat \ {0} /\ ByteRadix = r + 1
    BY KConstants
  <2>3. k * h < r * h
    <3>1. k * h \in Nat /\ r * h \in Nat
      BY <2>2
    <3> QED BY <1>1, <2>1, <3>1
  <2> HIDE DEF r, h
  <2>4. k < r
    <3>1. CASE k >= r
      <4>1. k * h >= r * h
        BY <2>2, <3>1
      <4>2. k * h \in Nat /\ r * h \in Nat
        BY <2>2
      <4> QED BY <2>3, <4>1, <4>2
    <3> QED BY <3>1, <2>2
  <2>5. (k + 1) % ByteRadix = k + 1
    <3>1. k + 1 \in 0 .. ByteRadix - 1
      BY <2>2, <2>4
    <3> QED BY <3>1, KConstants
  <2> QED BY <2>5 DEF Turns
<1>3. CASE fn = "kdf_tree"
  <2>1. counter = k + 1
    BY <1>2, <1>3
  <2>2. K!Input = K!KdfTreeInput
    BY <1>3 DEF K!Input
  <2>3. K!Byte(counter) = ByteOf(k + 1)
    BY <2>1 DEF K!Byte, ByteOf, K!Atom
  <2>4. K!KdfTreeInput = TreeInput(label, seed, len, k + 1)
    BY <2>3, Zenon DEF K!KdfTreeInput, TreeInput
  <2> QED BY <1>1, <1>3, <2>1, <2>2, <2>4 DEF BlockInput
<1>4. CASE fn = "hkdf"
  <2>1. counter = k + 1
    BY <1>2, <1>4
  <2>2. K!Input = K!HkdfInput
    BY <1>4 DEF K!Input
  <2>3. K!Byte(counter) = ByteOf(k + 1)
    BY <2>1 DEF K!Byte, ByteOf, K!Atom
  <2>4. (IF counter = 1 THEN <<>> ELSE chain) = Expansion(label, k)
    <3>1. chain = Expansion(label, k)
      BY <1>4 DEF Turns
    <3>2. counter = 1 => k = 0
      BY <2>1
    <3>3. Expansion(label, 0) = <<>>
      BY ExpansionNext
    <3> QED BY <3>1, <3>2, <3>3
  <2>5. K!HkdfInput = ExpandInput(label, Expansion(label, k), k + 1)
    BY <2>3, <2>4, Zenon DEF K!HkdfInput, ExpandInput
  <2>6. (k + 1) - 1 = k
    OBVIOUS
  <2>7. ExpandInput(label, Expansion(label, k), k + 1) = BlockInput(fn, label, seed, len, k + 1)
    BY <1>4, <2>6 DEF BlockInput
  <2> QED BY <1>1, <1>4, <2>1, <2>2, <2>5, <2>7
<1>5. CASE fn = "prf"
  <2>1. chain = Link(HashLen, label \o seed, k + 1)
    BY <1>5, Zenon DEF Turns
  <2>2. K!Input = K!PrfInput
    BY <1>5 DEF K!Input
  <2>3. K!PrfInput = PrfInput(label, seed, k + 1)
    BY <2>1, Zenon DEF K!PrfInput, PrfInput
  <2>4. PrfInput(label, seed, k + 1) = BlockInput(fn, label, seed, len, k + 1)
    BY <1>5 DEF BlockInput
  <2> QED BY <1>1, <1>5, <2>2, <2>3, <2>4
<1> QED BY <1>1, <1>3, <1>4, <1>5 DEF Functions

\* A turn puts the next block, or what is left of it, into the buffer.
LEMMA WrittenFilled ==
    ASSUME K!SizeAssumption, KInv, done < len, NEW k \in Nat, done = k * HashLen
    PROVE  /\ K!Written(Mac(HashLen, BlockInput(fn, label, seed, len, k + 1)))
                = Filled(K!Stale, fn, label, seed, len, done + K!Take)
           /\ done + K!Take \in 0 .. len
           /\ done + K!Take < len => done + K!Take = (k + 1) * HashLen
<1> DEFINE block == Mac(HashLen, BlockInput(fn, label, seed, len, k + 1))
           take == K!Take
           o(p) == OutByte(fn, label, seed, len, p)
           stale == K!Stale
<1>1. /\ HashLen \in Nat \ {0} /\ len \in Nat /\ done \in Nat /\ K!BufSize \in Nat
      /\ out = Filled(K!Stale, fn, label, seed, len, done)
  BY KConstants DEF KInv, KArguments
<1>2. take \in 1 .. HashLen /\ done + take <= len /\ (take = HashLen \/ done + take = len)
  BY <1>1 DEF K!Take
<1>3. out = [p \in 1 .. K!BufSize |-> IF p <= done THEN o(p) ELSE stale[p]]
  BY <1>1, Zenon DEF Filled
<1>4. K!Written(block) = [j \in 1 .. K!BufSize |->
                             IF j \in done + 1 .. done + take THEN block[j - done] ELSE out[j]]
  BY Zenon DEF K!Written
<1>5. ASSUME NEW q \in 1 .. take
      PROVE  block[q] = o(done + q)
  <2>1. q \in 1 .. HashLen
    BY <1>1, <1>2
  <2>2. o(k * HashLen + q) = block[q]
    BY <1>1, <2>1, OutByteExact
  <2> QED BY <2>2
<1> HIDE DEF block, take, o, stale
<1>6. ASSUME NEW p \in 1 .. K!BufSize
      PROVE  (IF p \in done + 1 .. done + take THEN block[p - done] ELSE out[p])
               = IF p <= done + take THEN o(p) ELSE stale[p]
  <2>1. CASE p \in done + 1 .. done + take
    <3> DEFINE q == p - done
    <3>1. q \in 1 .. take /\ done + q = p
      BY <1>1, <1>2, <2>1
    <3> HIDE DEF q
    <3>2. block[q] = o(p)
      BY <1>5, <3>1
    <3> QED BY <2>1, <3>2, <1>1, <1>2 DEF q
  <2>2. CASE p \notin done + 1 .. done + take
    <3>1. out[p] = IF p <= done THEN o(p) ELSE stale[p]
      BY <1>3
    <3>2. p <= done + take <=> p <= done
      BY <1>1, <1>2, <2>2
    <3> QED BY <2>2, <3>1, <3>2
  <2> QED BY <2>1, <2>2
<1>7. K!Written(block) = [p \in 1 .. K!BufSize |-> IF p <= done + take THEN o(p) ELSE stale[p]]
  BY <1>4, <1>6
<1>8. K!Written(block) = Filled(K!Stale, fn, label, seed, len, done + take)
  BY <1>7, Zenon DEF Filled, o, stale
<1>9. done + take \in 0 .. len
  BY <1>1, <1>2
<1>10. done + take < len => done + take = (k + 1) * HashLen
  <2>1. (k + 1) * HashLen = k * HashLen + HashLen
    BY <1>1
  <2>2. done + take < len => take = HashLen
    BY <1>1, <1>2
  <2> QED BY <2>1, <2>2
<1> QED BY <1>8, <1>9, <1>10 DEF block, take

\* after a turn of the loop,
LEMMA KTurn ==
    ASSUME K!SizeAssumption, KInv, K!Turn
    PROVE  KInv'
<1>1. PICK k \in Nat : Turns(k)
  BY DEF KInv
<1>2. active /\ done < len
  BY Zenon DEF K!Turn
<1>3. /\ done = k * HashLen /\ (fn # "prf" => counter = k + 1)
      /\ K!Input = BlockInput(fn, label, seed, len, k + 1)
  BY <1>1, <1>2, TurnInput
<1>4. /\ fn = "hkdf" => K!Fits
      /\ input' = K!Input /\ out' = K!Written(K!hmac(K!Input))
      /\ chain' = K!Chained /\ done' = done + K!Take
      /\ counter' = (counter + 1) % ByteRadix
      /\ fn' = fn /\ active' = active /\ len' = len /\ label' = label /\ seed' = seed
      /\ ret' = ret
  BY Zenon DEF K!Turn
<1>5. K!hmac(K!Input) = Mac(HashLen, BlockInput(fn, label, seed, len, k + 1))
  BY <1>3, HmacIsMac
<1>6. /\ out' = Filled(K!Stale, fn, label, seed, len, done')
      /\ done' \in 0 .. len
      /\ done' < len => done' = (k + 1) * HashLen
  BY <1>2, <1>3, <1>4, <1>5, WrittenFilled
<1>7. /\ fn \in Functions /\ HashLen \in Nat \ {0} /\ ByteRadix \in Nat \ {0, 1}
      /\ InBuf \in Nat /\ (fn = "hkdf" => Len(label) \in Nat) /\ String(label)
      /\ ret = 0
  <2>1. label \in (Labels \cup Seeds) \cup {<<>>} /\ ret = 0
    BY <1>2 DEF KInv, KArguments
  <2> QED BY <2>1, KConstants, ArgumentStrings DEF KInv, KArguments
<1>8. Turns(k + 1)'
  <2>1. counter' = ((k + 1) + 1) % ByteRadix
    <3>1. counter = (k + 1) % ByteRadix
      BY <1>1 DEF Turns
    <3> DEFINE r == ByteRadix
               a == k + 1
    <3>2. r \in Nat \ {0} /\ a \in Nat
      BY <1>7
    <3> HIDE DEF r, a
    <3>3. ((a % r) + 1) % r = (a + 1) % r
      BY <3>2, CountMod
    <3> QED BY <1>4, <3>1, <3>3 DEF r, a
  <2>2. fn = "prf" => chain' = Link(HashLen, label \o seed, (k + 1) + 1)
    <3> SUFFICES ASSUME fn = "prf"
                 PROVE  chain' = Link(HashLen, label \o seed, (k + 1) + 1)
      OBVIOUS
    <3>1. chain' = K!hmac(chain)
      BY <1>4 DEF K!Chained, K!PrfChained
    <3>2. chain = Link(HashLen, label \o seed, k + 1)
      BY <1>1, <1>2, Zenon DEF Turns
    <3> DEFINE x == label \o seed
    <3> HIDE DEF x
    <3>3. Link(HashLen, x, (k + 1) + 1) = Mac(HashLen, Link(HashLen, x, k + 1))
      BY LinkStep
    <3> QED BY <3>1, <3>2, <3>3, HmacIsMac, Zenon DEF x
  <2>3. fn = "hkdf" => chain' = Expansion(label, k + 1)
    <3> SUFFICES ASSUME fn = "hkdf"
                 PROVE  chain' = Expansion(label, k + 1)
      OBVIOUS
    <3>1. chain' = K!hmac(K!Input)
      BY <1>4 DEF K!Chained, K!HkdfChained
    <3>2. (k + 1) - 1 = k
      OBVIOUS
    <3>3. chain' = Mac(HashLen, ExpandInput(label, Expansion(label, k), k + 1))
      BY <1>5, <3>1, <3>2 DEF BlockInput
    <3> QED BY <3>3, ExpansionNext
  <2>4. ASSUME fn = "hkdf"
        PROVE  Len(label) + 1 <= InBuf /\ (k >= 1 => HashLen + Len(label) + 1 <= InBuf)
    <3>1. counter = k + 1 /\ K!Fits
      BY <1>3, <1>4, <2>4
    <3> DEFINE z == Len(label)
    <3>2. (IF counter = 1 THEN 0 ELSE HashLen) + z + 1 <= InBuf
      BY <3>1, Zenon DEF K!Fits
    <3>3. z \in Nat
      BY <1>7, <2>4
    <3> HIDE DEF z
    <3>4. z + 1 <= InBuf /\ (k >= 1 => HashLen + z + 1 <= InBuf)
      BY <1>7, <3>1, <3>2, <3>3
    <3> QED BY <3>4 DEF z
  <2>5. fn' = "hkdf" /\ k + 1 >= 1 => Len(label') + 1 <= InBuf
    BY <1>4, <2>4
  <2>6. fn' = "hkdf" /\ k + 1 >= 2 => HashLen + Len(label') + 1 <= InBuf
    BY <1>4, <2>4
  <2>7. done' < len' => done' = (k + 1) * HashLen
    BY <1>4, <1>6
  <2>8. fn' = "prf" => chain' = Link(HashLen, (label \o seed)', (k + 1) + 1)
    BY <1>4, <2>2, Zenon
  <2>9. fn' = "hkdf" => chain' = Expansion(label', k + 1)
    BY <1>4, <2>3, Zenon
  <2> QED BY <2>1, <2>5, <2>6, <2>7, <2>8, <2>9 DEF Turns
<1>9. fn' = "hkdf" => Len(input') <= InBuf
  <2> SUFFICES ASSUME fn = "hkdf"
               PROVE  Len(input') <= InBuf
    BY <1>4
  <2>1. input' = K!HkdfInput
    BY <1>4 DEF K!Input
  <2> DEFINE x == IF counter = 1 THEN <<>> ELSE chain
             b == << K!Byte(counter) >>
             xl == x \o label
  <2>2. String(x) /\ Len(x) = IF counter = 1 THEN 0 ELSE HashLen
    <3>1. chain = Expansion(label, k) /\ counter = k + 1
      BY <1>1, <1>2, <1>3 DEF Turns
    <3>2. String(Expansion(label, k)) /\ Len(Expansion(label, k)) = IF k = 0 THEN 0 ELSE HashLen
      BY <1>7, ExpansionString
    <3>3. Expansion(label, 0) = <<>>
      BY ExpansionNext
    <3> QED BY <3>1, <3>2, <3>3
  <2>3. String(b) /\ Len(b) = 1
    <3>1. b \in Seq({K!Byte(counter)}) /\ Len(b) = 1
      OBVIOUS
    <3> HIDE DEF b
    <3> QED BY <3>1, StringOf
  <2>4. input' = xl \o b
    BY <2>1, Zenon DEF K!HkdfInput
  <2> HIDE DEF x, b
  <2>5. Joins(x, label, xl)
    BY <1>7, <2>2, StringCat, Zenon
  <2> HIDE DEF xl
  <2>6. Joins(xl, b, xl \o b)
    <3>1. String(xl)
      BY <2>5, Zenon DEF Joins
    <3> QED BY <2>3, <3>1, StringCat, Zenon
  <2>7. Len(xl \o b) = (Len(x) + Len(label)) + 1
    BY <2>3, <2>5, <2>6 DEF Joins
  <2>8. (IF counter = 1 THEN 0 ELSE HashLen) + Len(label) + 1 <= InBuf
    BY <1>4, Zenon DEF K!Fits
  <2>9. Len(input') = (Len(x) + Len(label)) + 1
    BY <2>4, <2>7, Zenon
  <2> HIDE DEF x
  <2> QED BY <2>2, <2>8, <2>9, Zenon
<1>10. KArguments'
  BY <1>4, <1>6 DEF KInv, KArguments
<1>11. active' => ret' = 0
  BY <1>4, <1>7
<1>12. active'
  BY <1>2, <1>4
<1>13. fn' # "prf" => len' <= (ByteRadix - 1) * HashLen
  BY <1>2, <1>4 DEF KInv
<1>14. out' = Filled(K!Stale, fn', label', seed', len', done')
  BY <1>4, <1>6, Zenon
<1>15. K!FailureLeavesOneBlock'
  <2>1. ret' # -1
    BY <1>4, <1>7
  <2> QED BY <2>1 DEF K!FailureLeavesOneBlock
<1>16. (\E j \in Nat : Turns(j))'
  <2>1. k + 1 \in Nat
    OBVIOUS
  <2> QED BY <1>8, <2>1
<1> QED BY <1>9, <1>10, <1>11, <1>12, <1>13, <1>14, <1>15, <1>16
    DEF KInv, Filled, K!BufSize, K!Stale, K!BytesOf

\* after the error return from inside the loop,
LEMMA KGiveUp ==
    ASSUME K!SizeAssumption, KInv, K!GiveUp
    PROVE  KInv'
<1>1. PICK k \in Nat : Turns(k)
  BY DEF KInv
<1>2. active /\ done < len /\ fn = "hkdf" /\ ~K!Fits
  BY Zenon DEF K!GiveUp
<1>3. done = k * HashLen /\ counter = k + 1
  BY <1>1, <1>2, TurnInput
<1>4. /\ ~active' /\ ret' = -1
      /\ fn' = fn /\ len' = len /\ label' = label /\ seed' = seed /\ done' = done
      /\ counter' = counter /\ chain' = chain /\ input' = input /\ out' = out
  BY Zenon DEF K!GiveUp
<1>5. done = 0 \/ (done = HashLen /\ Len(label) + 1 <= InBuf)
  <2> DEFINE z == Len(label)
  <2>1. /\ HashLen \in Nat \ {0} /\ InBuf \in Nat /\ z \in Nat
    <3>1. label \in (Labels \cup Seeds) \cup {<<>>}
      BY DEF KInv, KArguments
    <3> QED BY <3>1, KConstants, ArgumentStrings
  <2>2. ~ ((IF counter = 1 THEN 0 ELSE HashLen) + z + 1 <= InBuf)
    BY <1>2, Zenon DEF K!Fits
  <2>3. (k >= 1 => z + 1 <= InBuf) /\ (k >= 2 => HashLen + z + 1 <= InBuf)
    BY <1>1, <1>2 DEF Turns
  <2>4. CASE k = 0
    BY <1>3, <2>1, <2>4
  <2>5. CASE k >= 1
    <3>1. ~ (k >= 2)
      BY <1>3, <2>1, <2>2, <2>3, <2>5
    <3>2. k = 1
      BY <3>1, <2>5
    <3> QED BY <1>3, <2>1, <2>3, <3>2
  <2> QED BY <2>4, <2>5
<1>6. K!FailureLeavesOneBlock'
  BY <1>2, <1>4, <1>5 DEF K!FailureLeavesOneBlock
<1>7. Turns(k)'
  BY <1>1, <1>4 DEF Turns
<1>8. KArguments'
  <2>1. active' \in BOOLEAN
    BY Zenon DEF K!GiveUp
  <2> QED BY <1>4, <2>1 DEF KInv, KArguments
<1>9. ret' # 0
  BY <1>4
<1>10. (\E j \in Nat : Turns(j))'
  BY <1>7
<1> QED BY <1>4, <1>6, <1>8, <1>9, <1>10 DEF KInv, Filled, K!BufSize, K!Stale, K!BytesOf

\* and after the return.
LEMMA KReturn ==
    ASSUME K!SizeAssumption, KInv, K!Return
    PROVE  KInv'
<1>1. PICK k \in Nat : Turns(k)
  BY DEF KInv
<1>2. active /\ done >= len
  BY Zenon DEF K!Return
<1>3. /\ ~active'
      /\ fn' = fn /\ len' = len /\ label' = label /\ seed' = seed /\ done' = done
      /\ counter' = counter /\ chain' = chain /\ input' = input /\ out' = out /\ ret' = ret
  BY Zenon DEF K!Return
<1>4. done = len
  BY <1>2 DEF KInv, KArguments
<1>5. Turns(k)'
  BY <1>1, <1>3 DEF Turns
<1>6. KArguments'
  <2>1. active' \in BOOLEAN
    BY Zenon DEF K!Return
  <2> QED BY <1>3, <2>1 DEF KInv, KArguments
<1>7. K!FailureLeavesOneBlock'
  BY <1>3 DEF KInv, K!FailureLeavesOneBlock
<1>8. (\E j \in Nat : Turns(j))'
  BY <1>5
<1> QED BY <1>3, <1>4, <1>6, <1>7, <1>8 DEF KInv, Filled, K!BufSize, K!Stale, K!BytesOf

-----------------------------------------------------------------------------
\* What a number is written as is a string.
IsDigits(f, m) ==
    f = [v \in 0 .. m |-> IF v < ByteRadix THEN << K!Byte(v) >>
                          ELSE Append(f[v \div ByteRadix], K!Byte(v % ByteRadix))]

\* A string with one more element.
LEMMA StringAppend ==
    ASSUME NEW s, String(s), NEW b
    PROVE  String(Append(s, b))
<1>1. PICK S : s \in Seq(S)
  BY StringSeq
<1>2. s \in Seq(S \cup {b})
  BY <1>1
<1>3. Append(s, b) \in Seq(S \cup {b})
  BY <1>2
<1> QED BY <1>3, StringOf

\* A quotient by more than one is smaller than the number.
LEMMA SmallQuotient ==
    ASSUME NEW r \in Nat \ {0, 1}, NEW v \in Nat, v >= r
    PROVE  v \div r \in 0 .. v - 1
<1> DEFINE q == v \div r
           e == v % r
<1>1. q \in Nat /\ e \in 0 .. r - 1 /\ v = q * r + e
  OBVIOUS
<1> HIDE DEF q, e
<1>2. CASE q = 0
  <2>1. q * r = 0
    BY <1>2
  <2> QED BY <1>1, <1>2, <2>1 DEF q
<1>3. CASE q # 0
  <2>1. q * r >= q * 2
    BY <1>1
  <2>2. q * r \in Nat /\ q * 2 = q + q
    BY <1>1
  <2>3. q < v
    BY <1>1, <1>3, <2>1, <2>2
  <2> QED BY <1>1, <2>3 DEF q
<1> QED BY <1>2, <1>3

\* The digits of all numbers up to m.
LEMMA DigitsExist ==
    ASSUME ByteRadix \in Nat \ {0, 1}, NEW m \in Nat
    PROVE  \E f : IsDigits(f, m)
<1> DEFINE e(f, v) == IF v < ByteRadix THEN << K!Byte(v) >>
                      ELSE Append(f[v \div ByteRadix], K!Byte(v % ByteRadix))
           S == {k \in Nat : \E f : IsDigits(f, k)}
<1>1. 0 \in S
  <2> DEFINE f == [v \in 0 .. 0 |-> << K!Byte(v) >>]
  <2>1. \A v \in 0 .. 0 : v < ByteRadix
    OBVIOUS
  <2>2. f = [v \in 0 .. 0 |-> e(f, v)]
    BY <2>1
  <2> HIDE DEF f
  <2>3. IsDigits(f, 0)
    BY <2>2, Zenon DEF IsDigits
  <2> QED BY <2>3
<1>2. ASSUME NEW k \in Nat, k \in S
      PROVE  k + 1 \in S
  <2>1. PICK f : IsDigits(f, k)
    BY <1>2
  <2> DEFINE g == [v \in 0 .. k + 1 |-> e(f, v)]
  <2>2. f = [v \in 0 .. k |-> e(f, v)]
    BY <2>1, Zenon DEF IsDigits
  <2>3. ASSUME NEW v \in 0 .. k
        PROVE  g[v] = f[v]
    <3> HIDE DEF e
    <3> QED BY <2>2
  <2>4. ASSUME NEW v \in 0 .. k + 1
        PROVE  e(f, v) = e(g, v)
    <3>1. CASE v < ByteRadix
      BY <3>1
    <3>2. CASE ~ (v < ByteRadix)
      <4>1. v \div ByteRadix \in 0 .. v - 1
        <5>1. v \in Nat /\ v >= ByteRadix
          BY <3>2
        <5> QED BY <5>1, SmallQuotient
      <4>2. v \div ByteRadix \in 0 .. k
        BY <4>1
      <4> HIDE DEF g
      <4>3. g[v \div ByteRadix] = f[v \div ByteRadix]
        BY <2>3, <4>2
      <4> QED BY <4>3
    <3> QED BY <3>1, <3>2
  <2>5. g = [v \in 0 .. k + 1 |-> e(g, v)]
    <3> DEFINE h == g
    <3>1. \A v \in 0 .. k + 1 : e(f, v) = e(h, v)
      BY <2>4
    <3> HIDE DEF h, e
    <3>2. g = [v \in 0 .. k + 1 |-> e(h, v)]
      BY <3>1
    <3> QED BY <3>2 DEF h
  <2>6. IsDigits(g, k + 1)
    <3> HIDE DEF g
    <3> QED BY <2>5, Zenon DEF IsDigits
  <2> QED BY <2>6
<1> HIDE DEF S
<1>3. m \in S
  BY <1>1, <1>2, CountUp
<1> QED BY <1>3 DEF S

\* They are strings.
LEMMA DigitsString ==
    ASSUME ByteRadix \in Nat \ {0, 1}, NEW m \in Nat, NEW f, IsDigits(f, m)
    PROVE  String(f[m])
<1> DEFINE S == {k \in Nat : \A v \in 0 .. k : v <= m => String(f[v])}
<1>0. ASSUME NEW v \in 0 .. m
      PROVE  /\ v < ByteRadix => String(f[v])
             /\ v >= ByteRadix /\ String(f[v \div ByteRadix]) => String(f[v])
  <2>1. v < ByteRadix => f[v] = << K!Byte(v) >>
    BY DEF IsDigits
  <2>2. v >= ByteRadix => f[v] = Append(f[v \div ByteRadix], K!Byte(v % ByteRadix))
    <3> DEFINE a == << K!Byte(v) >>
               b == Append(f[v \div ByteRadix], K!Byte(v % ByteRadix))
    <3>1. f[v] = IF v < ByteRadix THEN a ELSE b
      BY Zenon DEF IsDigits
    <3> HIDE DEF a, b
    <3>2. v >= ByteRadix => f[v] = b
      BY <3>1
    <3> QED BY <3>2 DEF b
  <2>3. String(<< K!Byte(v) >>)
    <3>1. << K!Byte(v) >> \in Seq({K!Byte(v)})
      OBVIOUS
    <3> QED BY <3>1, StringOf
  <2> QED BY <2>1, <2>2, <2>3, StringAppend
<1>1. 0 \in S
  BY <1>0
<1>2. ASSUME NEW k \in Nat, k \in S
      PROVE  k + 1 \in S
  <2> SUFFICES ASSUME k + 1 <= m PROVE String(f[k + 1])
    BY <1>2
  <2> DEFINE v == k + 1
  <2>1. v \in 0 .. m
    OBVIOUS
  <2>2. CASE v < ByteRadix
    BY <1>0, <2>1, <2>2
  <2>3. CASE v >= ByteRadix
    <3>1. v \div ByteRadix \in 0 .. v - 1
      BY <2>3, SmallQuotient
    <3>2. v \div ByteRadix \in 0 .. k /\ v \div ByteRadix <= m
      BY <2>1, <3>1
    <3>3. String(f[v \div ByteRadix])
      BY <1>2, <3>2
    <3> HIDE DEF v
    <3>4. String(f[v])
      BY <1>0, <2>1, <2>3, <3>3
    <3> QED BY <3>4 DEF v
  <2> QED BY <2>2, <2>3
<1> HIDE DEF S
<1>3. m \in S
  BY <1>1, <1>2, CountUp
<1> QED BY <1>3 DEF S

\* The length KDF_TREE puts at the end of its input is a string of bytes.
LEMMA PutBeString ==
    ASSUME ByteRadix \in Nat \ {0, 1}, NEW m \in Nat
    PROVE  String(K!put_be(m))
<1> DEFINE f == CHOOSE f : IsDigits(f, m)
<1>1. IsDigits(f, m)
  BY DigitsExist
<1>2. K!put_be(m) = f[m]
  BY Zenon DEF K!put_be, IsDigits
<1> HIDE DEF f
<1> QED BY <1>1, <1>2, DigitsString

-----------------------------------------------------------------------------
(***************************************************************************)
(* No two blocks of a call have their MACs taken of the same bytes.        *)
(***************************************************************************)
\* A string that one byte is put before, or behind, tells that byte.
LEMMA FirstByte ==
    ASSUME NEW b, NEW s, String(s)
    PROVE  String(<< b >> \o s) /\ Len(<< b >> \o s) >= 1 /\ (<< b >> \o s)[1] = b
<1> DEFINE x == << b >>
           y == x \o s
<1>1. String(x) /\ Len(x) = 1 /\ x[1] = b
  <2>1. x \in Seq({b})
    OBVIOUS
  <2> QED BY <2>1, StringOf
<1> HIDE DEF x
<1>2. Joins(x, s, y)
  BY <1>1, StringCat, Zenon
<1> HIDE DEF y
<1>3. String(y) /\ Len(y) >= 1 /\ y[1] = b
  BY <1>1, <1>2 DEF Joins
<1> QED BY <1>3, Zenon DEF x, y

\* The last byte of a string that a byte was put behind.
LEMMA LastByte ==
    ASSUME NEW b, NEW s, String(s)
    PROVE  String(s \o << b >>) /\ Len(s \o << b >>) \in Nat /\ (s \o << b >>)[Len(s \o << b >>)] = b
<1> DEFINE x == << b >>
           y == s \o x
<1>1. String(x) /\ Len(x) = 1 /\ x[1] = b
  <2>1. x \in Seq({b})
    OBVIOUS
  <2> QED BY <2>1, StringOf
<1> HIDE DEF x
<1>2. Joins(s, x, y)
  BY <1>1, StringCat, Zenon
<1> HIDE DEF y
<1>3. String(y) /\ Len(y) \in Nat /\ Len(y) = Len(s) + 1 /\ 1 \in 1 .. Len(x)
  BY <1>1, <1>2 DEF Joins
<1>4. y[Len(s) + 1] = b
  BY <1>1, <1>2, <1>3 DEF Joins
<1>5. y[Len(y)] = b
  BY <1>3, <1>4
<1> QED BY <1>3, <1>5, Zenon DEF x, y

\* What comes behind a string does not change its first byte.
LEMMA FirstStays ==
    ASSUME NEW s, NEW t, String(s), String(t), Len(s) >= 1
    PROVE  String(s \o t) /\ Len(s \o t) >= 1 /\ (s \o t)[1] = s[1]
<1> DEFINE y == s \o t
<1>1. Joins(s, t, y)
  BY StringCat, Zenon
<1> HIDE DEF y
<1>2. String(y) /\ Len(y) >= 1 /\ y[1] = s[1]
  BY <1>1 DEF Joins
<1> QED BY <1>2, Zenon DEF y

\* The strings of a call, and the empty one of the start.
KStrings == (Labels \cup Seeds) \cup {<<>>}

\* KDF_TREE: the first byte is the number of the block.
LEMMA TreeInputsDiffer ==
    ASSUME K!SizeAssumption, NEW l \in KStrings, NEW s \in KStrings, NEW n \in Nat,
           NEW j \in Nat, NEW k \in Nat, j # k
    PROVE  TreeInput(l, s, n, j) # TreeInput(l, s, n, k)
<1>1. ASSUME NEW m \in Nat
      PROVE  TreeInput(l, s, n, m)[1] = ByteOf(m)
  <2> DEFINE v == << ByteOf(m) >> \o l
             w == v \o << K!Byte(0) >>
             x == w \o s
             be == K!put_be(8 * n)
             y == x \o be
  <2>1. String(l) /\ String(s)
    BY ArgumentStrings DEF KStrings
  <2>2. String(be)
    <3>1. 8 * n \in Nat
      OBVIOUS
    <3> QED BY <3>1, KConstants, PutBeString
  <2>3. String(v) /\ Len(v) >= 1 /\ v[1] = ByteOf(m)
    BY <2>1, FirstByte, Zenon
  <2> HIDE DEF v
  <2>4. String(w) /\ Len(w) >= 1 /\ w[1] = v[1]
    <3>1. << K!Byte(0) >> \in Seq({K!Byte(0)})
      OBVIOUS
    <3>2. String(<< K!Byte(0) >>)
      BY <3>1, StringOf
    <3> QED BY <2>3, <3>2, FirstStays, Zenon
  <2> HIDE DEF w
  <2>5. String(x) /\ Len(x) >= 1 /\ x[1] = w[1]
    BY <2>1, <2>4, FirstStays, Zenon
  <2> HIDE DEF x
  <2>6. y[1] = x[1]
    BY <2>2, <2>5, FirstStays, Zenon
  <2>7. y[1] = ByteOf(m)
    BY <2>3, <2>4, <2>5, <2>6, Zenon
  <2> QED BY <2>7, Zenon DEF TreeInput, v, w, x
<1>2. ByteOf(j) # ByteOf(k)
  <2>1. <<"byte", j, 0>> # <<"byte", k, 0>>
    OBVIOUS
  <2> QED BY <2>1 DEF ByteOf
<1> QED BY <1>1, <1>2

\* HKDF: the last byte is.
LEMMA ExpandInputsDiffer ==
    ASSUME K!SizeAssumption, NEW l \in KStrings, NEW j \in Nat, NEW k \in Nat, j # k,
           NEW x, NEW y, String(x), String(y)
    PROVE  ExpandInput(l, x, j) # ExpandInput(l, y, k)
<1>1. String(l)
  BY ArgumentStrings DEF KStrings
<1>2. ASSUME NEW z, String(z), NEW m \in Nat
      PROVE  ExpandInput(l, z, m)[Len(ExpandInput(l, z, m))] = ByteOf(m)
  <2> DEFINE zl == z \o l
  <2>1. String(zl)
    BY <1>1, <1>2, StringCat, Zenon DEF Joins
  <2> HIDE DEF zl
  <2>2. ExpandInput(l, z, m) = zl \o << ByteOf(m) >>
    BY Zenon DEF ExpandInput, zl
  <2> QED BY <2>1, <2>2, LastByte, Zenon
<1>3. ByteOf(j) # ByteOf(k)
  <2>1. <<"byte", j, 0>> # <<"byte", k, 0>>
    OBVIOUS
  <2> QED BY <2>1 DEF ByteOf
<1> QED BY <1>2, <1>3, Zenon

\* A label and a seed are no MAC.
LEMMA SeedIsNoMac ==
    ASSUME K!SizeAssumption, NEW l \in KStrings, NEW s \in KStrings
    PROVE  NoMac(HashLen, l \o s)
<1> DEFINE x == l \o s
<1>1. /\ String(l) /\ \A k \in DOMAIN l : \A e \in l[k] : e[1] # "hmac"
      /\ String(s) /\ \A k \in DOMAIN s : \A e \in s[k] : e[1] # "hmac"
  BY ArgumentStrings DEF KStrings
<1>2. Joins(l, s, x)
  BY <1>1, StringCat, Zenon
<1> HIDE DEF x
<1> SUFFICES ASSUME NEW y, x = Mac(HashLen, y)
             PROVE  FALSE
  BY Zenon DEF NoMac, x
<1>3. HashLen \in Nat \ {0}
  BY KConstants
<1>4. Len(x) = HashLen
  BY <1>3, MacString
<1>5. x[1] = {<<"hmac", y, 1>>}
  <2>1. 1 \in 1 .. HashLen
    BY <1>3
  <2> QED BY <2>1 DEF Mac
<1>6. <<"hmac", y, 1>> \in x[1] /\ <<"hmac", y, 1>>[1] = "hmac"
  BY <1>5
<1>7. DOMAIN l = 1 .. Len(l) /\ DOMAIN s = 1 .. Len(s)
  <2>1. l \in Seq({l[k] : k \in DOMAIN l}) /\ s \in Seq({s[k] : k \in DOMAIN s})
    BY <1>1, Zenon DEF String
  <2> QED BY <2>1, StringOf
<1>8. CASE Len(l) >= 1
  <2>1. x[1] = l[1] /\ 1 \in DOMAIN l
    BY <1>2, <1>7, <1>8 DEF Joins
  <2> QED BY <1>1, <1>6, <2>1, Zenon
<1>9. CASE ~ (Len(l) >= 1)
  <2>1. Len(l) = 0 /\ Len(s) >= 1
    BY <1>2, <1>3, <1>4, <1>9 DEF Joins
  <2>2. x[0 + 1] = s[1]
    BY <1>2, <2>1 DEF Joins
  <2>3. x[1] = s[1] /\ 1 \in DOMAIN s
    BY <1>7, <2>1, <2>2
  <2> QED BY <1>1, <1>6, <2>3, Zenon
<1> QED BY <1>8, <1>9

\* The PRF: the chaining values are all different.
LEMMA PrfInputsDiffer ==
    ASSUME K!SizeAssumption, NEW l \in KStrings, NEW s \in KStrings,
           NEW j \in Nat \ {0}, NEW k \in Nat, j < k
    PROVE  PrfInput(l, s, j) # PrfInput(l, s, k)
<1> DEFINE x == Link(HashLen, l \o s, j)
           y == Link(HashLen, l \o s, k)
           xl == x \o l
           yl == y \o l
<1>1. String(l) /\ String(s)
  BY ArgumentStrings DEF KStrings
<1>2. HashLen \in Nat \ {0}
  BY KConstants
<1>3. ASSUME NEW m \in Nat \ {0}
      PROVE  String(Link(HashLen, l \o s, m)) /\ Len(Link(HashLen, l \o s, m)) = HashLen
  <2> DEFINE z == l \o s
  <2> HIDE DEF z
  <2>1. m - 1 \in Nat /\ (m - 1) + 1 = m
    OBVIOUS
  <2>2. Link(HashLen, z, m) = Mac(HashLen, Link(HashLen, z, m - 1))
    BY <2>1, LinkStep
  <2>3. String(Link(HashLen, z, m)) /\ Len(Link(HashLen, z, m)) = HashLen
    BY <1>2, <2>2, MacString
  <2> QED BY <2>3, Zenon DEF z
<1>4. x # y
  <2> DEFINE z == l \o s
  <2>1. NoMac(HashLen, z)
    BY SeedIsNoMac
  <2> HIDE DEF z
  <2>2. Link(HashLen, z, j) # Link(HashLen, z, k)
    BY <1>2, <2>1, LinksDiffer
  <2> QED BY <2>2, Zenon DEF z
<1>5. String(x) /\ String(y) /\ Len(x) = Len(y)
  <2>1. j \in Nat \ {0} /\ k \in Nat \ {0}
    OBVIOUS
  <2> QED BY <1>3, <2>1, Zenon
<1> HIDE DEF x, y
<1>6. Joins(x, l, xl) /\ Joins(y, l, yl)
  BY <1>1, <1>5, StringCat, Zenon
<1>7. String(xl) /\ String(yl) /\ Len(xl) = Len(yl)
  <2> HIDE DEF xl, yl
  <2> QED BY <1>5, <1>6 DEF Joins
<1>8. ASSUME xl \o s = yl \o s
      PROVE  FALSE
  <2>1. Cut(xl, s, yl, s)
    BY <1>1, <1>7, <1>8, Zenon DEF Cut
  <2>2. xl = yl
    BY <2>1, StringCut, Zenon
  <2>3. Cut(x, l, y, l)
    BY <1>1, <1>5, <2>2, Zenon DEF Cut
  <2>4. x = y
    BY <2>3, StringCut, Zenon
  <2> QED BY <2>4, <1>4 DEF x, y
<1>9. PrfInput(l, s, j) = xl \o s /\ PrfInput(l, s, k) = yl \o s
  BY Zenon DEF PrfInput, x, y
<1> QED BY <1>8, <1>9, Zenon

\* No two blocks of a call have the same input, whatever the function.
LEMMA BlockInputsDiffer ==
    ASSUME K!SizeAssumption, NEW f \in Functions, NEW l \in KStrings, NEW s \in KStrings,
           NEW n \in Nat, NEW j \in Nat \ {0}, NEW k \in Nat \ {0}, j # k
    PROVE  BlockInput(f, l, s, n, j) # BlockInput(f, l, s, n, k)
<1>1. CASE f = "kdf_tree"
  <2>1. TreeInput(l, s, n, j) # TreeInput(l, s, n, k)
    BY TreeInputsDiffer
  <2> QED BY <1>1, <2>1 DEF BlockInput
<1>2. CASE f = "hkdf"
  <2> DEFINE x == Expansion(l, j - 1)
             y == Expansion(l, k - 1)
  <2>1. j - 1 \in Nat /\ k - 1 \in Nat
    OBVIOUS
  <2>2. String(x) /\ String(y)
    BY <2>1, KConstants, ExpansionString
  <2> HIDE DEF x, y
  <2>3. ExpandInput(l, x, j) # ExpandInput(l, y, k)
    BY <2>2, ExpandInputsDiffer
  <2> QED BY <1>2, <2>3 DEF BlockInput, x, y
<1>3. CASE f = "prf"
  <2>1. PrfInput(l, s, j) # PrfInput(l, s, k)
    <3>1. CASE j < k
      BY <3>1, PrfInputsDiffer
    <3>2. CASE k < j
      BY <3>2, PrfInputsDiffer
    <3> QED BY <3>1, <3>2
  <2> QED BY <1>3, <2>1 DEF BlockInput
<1> QED BY <1>1, <1>2, <1>3 DEF Functions

-----------------------------------------------------------------------------
\* What the invariant says of the properties.
LEMMA KTypes ==
    ASSUME K!SizeAssumption, KInv
    PROVE  K!TypeOK
<1>1. PICK k \in Nat : Turns(k)
  BY DEF KInv
<1>2. counter \in 0 .. ByteRadix - 1
  <2>1. (k + 1) % ByteRadix \in 0 .. ByteRadix - 1
    BY KConstants
  <2> QED BY <1>1, <2>1 DEF Turns
<1>3. Len(out) = K!BufSize
  <2> DEFINE e(p) == IF p <= done THEN OutByte(fn, label, seed, len, p) ELSE K!Stale[p]
             b == K!BufSize
  <2>1. out = [p \in 1 .. b |-> e(p)] /\ b \in Nat
    BY KConstants, Zenon DEF KInv, Filled
  <2> HIDE DEF e, b
  <2>2. Len(out) = b
    BY <2>1
  <2> QED BY <2>2 DEF b
<1> QED BY <1>2, <1>3 DEF KInv, KArguments, K!TypeOK

\* The buffer holds the reference output as far as it is written.
LEMMA KOutput ==
    ASSUME K!SizeAssumption, KInv
    PROVE  K!OutputIsPrefix
<1>1. ASSUME NEW p \in 1 .. K!BufSize
      PROVE  out[p] = IF p <= done THEN K!Reference(p) ELSE K!Stale[p]
  <2>1. out = [q \in 1 .. K!BufSize |->
                  IF q <= done THEN OutByte(fn, label, seed, len, q) ELSE K!Stale[q]]
    BY Zenon DEF KInv, Filled
  <2> DEFINE e(q) == IF q <= done THEN OutByte(fn, label, seed, len, q) ELSE K!Stale[q]
  <2>2. out[p] = e(p)
    <3>1. out = [q \in 1 .. K!BufSize |-> e(q)]
      BY <2>1, Zenon
    <3> HIDE DEF e
    <3> QED BY <3>1
  <2>3. K!Reference(p) = OutByte(fn, label, seed, len, p)
    <3>1. p \in Nat \ {0}
      BY KConstants
    <3> QED BY <3>1, KConstants, ReferenceExact DEF KInv, KArguments
  <2> QED BY <2>2, <2>3, Zenon
<1> QED BY <1>1 DEF KInv, K!OutputIsPrefix

\* No two blocks of it are the same.
LEMMA KDiffer ==
    ASSUME K!SizeAssumption, KInv
    PROVE  K!BlocksDiffer
<1> DEFINE h == HashLen
           x(j) == BlockInput(fn, label, seed, len, j)
<1>1. /\ h \in Nat \ {0} /\ done \in Nat /\ done <= K!BufSize /\ K!BufSize \in Nat
      /\ len \in Nat /\ fn \in Functions /\ label \in KStrings /\ seed \in KStrings
  BY KConstants DEF KInv, KArguments, KStrings
<1>2. ASSUME NEW j \in 1 .. done \div h
      PROVE  out[j * h] = Mac(h, x(j))[h]
  <2> DEFINE p == j * h
             d == done \div h
  <2>1. d \in Nat /\ d * h <= done
    <3> DEFINE r == done % h
    <3>1. d \in Nat /\ r \in Nat /\ done = d * h + r
      BY <1>1
    <3> HIDE DEF d, r
    <3>2. d * h \in Nat
      BY <1>1, <3>1
    <3> QED BY <3>1, <3>2, <1>1
  <2>2. p \in 1 .. done
    <3>1. j \in 1 .. d
      OBVIOUS
    <3> HIDE DEF d
    <3>2. j * h <= d * h /\ j * h >= 1 * h /\ j * h \in Nat /\ d * h \in Nat
      BY <1>1, <2>1, <3>1
    <3> QED BY <1>1, <2>1, <3>2
  <2>3. out[p] = OutByte(fn, label, seed, len, p)
    <3> DEFINE e(q) == IF q <= done THEN OutByte(fn, label, seed, len, q) ELSE K!Stale[q]
    <3>1. out = [q \in 1 .. K!BufSize |-> e(q)]
      BY Zenon DEF KInv, Filled
    <3>2. p \in 1 .. K!BufSize /\ p <= done
      BY <1>1, <2>2
    <3> HIDE DEF p
    <3>3. e(p) = OutByte(fn, label, seed, len, p)
      BY <3>2
    <3> HIDE DEF e
    <3> QED BY <3>1, <3>2, <3>3
  <2>4. OutByte(fn, label, seed, len, p) = Mac(h, x((j - 1) + 1))[h]
    <3>1. j - 1 \in Nat /\ h \in 1 .. h
      BY <1>1
    <3>2. p = (j - 1) * h + h
      <4>1. (j - 1) * h = j * h - h
        BY <1>1
      <4>2. j * h \in Nat
        BY <1>1
      <4> QED BY <1>1, <4>1, <4>2
    <3> DEFINE i == j - 1
    <3>3. HashLen \in Nat \ {0} /\ i \in Nat /\ h \in 1 .. HashLen /\ p = i * HashLen + h
      BY <1>1, <3>1, <3>2
    <3> HIDE DEF i, p, h, x
    <3>4. OutByte(fn, label, seed, len, p) = Mac(HashLen, BlockInput(fn, label, seed, len, i + 1))[h]
      BY <3>3, OutByteExact
    <3> QED BY <3>4, Zenon DEF i, h, x
  <2>5. (j - 1) + 1 = j
    OBVIOUS
  <2> QED BY <2>3, <2>4, <2>5
<1>3. ASSUME NEW j \in 1 .. done \div h, NEW k \in 1 .. done \div h, j # k
      PROVE  out[j * h] # out[k * h]
  <2>1. x(j) # x(k)
    <3>1. j \in Nat \ {0} /\ k \in Nat \ {0}
      OBVIOUS
    <3> QED BY <1>1, <1>3, <3>1, BlockInputsDiffer
  <2> HIDE DEF x
  <2>2. Mac(h, x(j))[h] = {<<"hmac", x(j), h>>} /\ Mac(h, x(k))[h] = {<<"hmac", x(k), h>>}
    <3>1. h \in 1 .. h
      BY <1>1
    <3> QED BY <3>1 DEF Mac
  <2>3. <<"hmac", x(j), h>> # <<"hmac", x(k), h>>
    BY <2>1
  <2>4. out[j * h] = {<<"hmac", x(j), h>>} /\ out[k * h] = {<<"hmac", x(k), h>>}
    BY <1>2, <2>2, Zenon
  <2> QED BY <2>3, <2>4
<1> QED BY <1>3, Zenon DEF K!BlocksDiffer

-----------------------------------------------------------------------------
(***************************************************************************)
(* PBKDF2.  The block numbers: the powers of the radix, and that a number  *)
(* below the largest of them is told by its digits.                        *)
(***************************************************************************)
IsPower(f, m) == f = [k \in 0 .. m |-> IF k = 0 THEN 1 ELSE NumberRadix * f[k - 1]]

\* The powers of the radix exist up to any exponent.
LEMMA PowerExists ==
    ASSUME NEW m \in Nat
    PROVE  \E f : IsPower(f, m)
<1> DEFINE S == {k \in Nat : \E f : IsPower(f, k)}
<1>1. 0 \in S
  <2> DEFINE f == [j \in 0 .. 0 |-> 1]
  <2>1. f = [j \in 0 .. 0 |-> IF j = 0 THEN 1 ELSE NumberRadix * f[j - 1]]
    OBVIOUS
  <2> HIDE DEF f
  <2>2. IsPower(f, 0)
    BY <2>1 DEF IsPower
  <2> QED BY <2>2
<1>2. ASSUME NEW k \in Nat, k \in S
      PROVE  k + 1 \in S
  <2>1. PICK f : IsPower(f, k)
    BY <1>2
  <2> DEFINE g == [j \in 0 .. k + 1 |-> IF j = 0 THEN 1 ELSE NumberRadix * f[j - 1]]
  <2>2. f = [j \in 0 .. k |-> IF j = 0 THEN 1 ELSE NumberRadix * f[j - 1]]
    BY <2>1 DEF IsPower
  <2>3. ASSUME NEW j \in 0 .. k
        PROVE  g[j] = f[j]
    BY <2>2
  <2>4. ASSUME NEW j \in 1 .. k + 1
        PROVE  g[j - 1] = f[j - 1]
    <3>1. j - 1 \in 0 .. k
      OBVIOUS
    <3> HIDE DEF g
    <3> QED BY <2>3, <3>1
  <2>5. g = [j \in 0 .. k + 1 |-> IF j = 0 THEN 1 ELSE NumberRadix * g[j - 1]]
    <3> DEFINE h == g
    <3>1. \A j \in 0 .. k + 1 :
            (IF j = 0 THEN 1 ELSE NumberRadix * f[j - 1])
              = IF j = 0 THEN 1 ELSE NumberRadix * h[j - 1]
      <4> HIDE DEF g
      <4> QED BY <2>4
    <3> HIDE DEF h
    <3>2. g = [j \in 0 .. k + 1 |-> IF j = 0 THEN 1 ELSE NumberRadix * h[j - 1]]
      BY <3>1
    <3> QED BY <3>2 DEF h
  <2>6. IsPower(g, k + 1)
    <3> HIDE DEF g
    <3> QED BY <2>5 DEF IsPower
  <2> QED BY <2>6
<1> HIDE DEF S
<1>3. m \in S
  BY <1>1, <1>2, CountUp
<1> QED BY <1>3 DEF S

\* What PBKDF2's constants are.
LEMMA PConstants ==
    ASSUME P!SizeAssumption
    PROVE  /\ PbkdfLen \in Nat \ {0} /\ BeSize \in Nat \ {0} /\ MaxIter \in Nat \ {0}
           /\ NumberRadix \in Nat \ {0, 1} /\ MaxOut \in Nat
           /\ P!BufSize = MaxOut + 1 /\ P!BufSize \in Nat
BY DEF P!SizeAssumption, P!BufSize

\* Power is what its recursion says, at every exponent up to the size of a number.
LEMMA PowerStep ==
    ASSUME P!SizeAssumption
    PROVE  /\ P!Power[0] = 1
           /\ \A k \in 0 .. BeSize - 1 : P!Power[k + 1] = NumberRadix * P!Power[k]
<1> DEFINE f == CHOOSE f : IsPower(f, BeSize)
<1>1. IsPower(f, BeSize)
  BY PConstants, PowerExists
<1>2. P!Power = f
  BY Zenon DEF P!Power, IsPower
<1> HIDE DEF f
<1>3. f = [k \in 0 .. BeSize |-> IF k = 0 THEN 1 ELSE NumberRadix * f[k - 1]]
  BY <1>1 DEF IsPower
<1>4. f[0] = 1
  BY <1>3, PConstants
<1>5. ASSUME NEW k \in 0 .. BeSize - 1
      PROVE  f[k + 1] = NumberRadix * f[k]
  <2> DEFINE j == k + 1
  <2>1. j \in 0 .. BeSize /\ j # 0 /\ j - 1 = k
    BY PConstants
  <2> HIDE DEF j
  <2>2. f[j] = NumberRadix * f[j - 1]
    BY <1>3, <2>1
  <2> QED BY <2>1, <2>2 DEF j
<1> QED BY <1>2, <1>4, <1>5

\* A power is a positive number, and the largest is at least the radix.
LEMMA PowerPositive ==
    ASSUME P!SizeAssumption
    PROVE  /\ \A k \in 0 .. BeSize : P!Power[k] \in Nat \ {0}
           /\ P!BlockRadix \in Nat \ {0, 1}
<1> DEFINE f == P!Power
           S == {k \in Nat : k <= BeSize => f[k] \in Nat \ {0}}
<1>1. f[0] = 1 /\ \A k \in 0 .. BeSize - 1 : f[k + 1] = NumberRadix * f[k]
  BY PowerStep
<1> HIDE DEF f
<1>2. 0 \in S
  BY <1>1
<1>3. ASSUME NEW k \in Nat, k \in S
      PROVE  k + 1 \in S
  <2> SUFFICES ASSUME k + 1 <= BeSize PROVE f[k + 1] \in Nat \ {0}
    OBVIOUS
  <2>1. k \in 0 .. BeSize - 1 /\ k <= BeSize
    BY PConstants
  <2>2. f[k] \in Nat \ {0}
    BY <1>3, <2>1
  <2>3. f[k + 1] = NumberRadix * f[k]
    BY <1>1, <2>1
  <2> QED BY <2>2, <2>3, PConstants
<1> HIDE DEF S
<1>4. \A k \in Nat : k \in S
  BY <1>2, <1>3, CountUp
<1>5. \A k \in 0 .. BeSize : f[k] \in Nat \ {0}
  BY <1>4 DEF S
<1>6. f[BeSize] \in Nat \ {0, 1}
  <2> DEFINE k == BeSize - 1
  <2>1. k \in 0 .. BeSize - 1 /\ k + 1 = BeSize /\ k \in 0 .. BeSize
    BY PConstants
  <2> HIDE DEF k
  <2>2. f[BeSize] = NumberRadix * f[k] /\ f[k] \in Nat \ {0}
    BY <1>1, <1>5, <2>1
  <2> DEFINE x == f[k]
  <2>3. x \in Nat \ {0}
    BY <2>2
  <2> HIDE DEF x
  <2>4. NumberRadix * x >= 2 /\ NumberRadix * x \in Nat
    <3>1. NumberRadix * x >= 2 * x /\ NumberRadix * x \in Nat
      BY <2>3, PConstants
    <3> QED BY <2>3, <3>1
  <2>5. f[BeSize] = NumberRadix * x
    BY <2>2 DEF x
  <2> QED BY <2>4, <2>5
<1> QED BY <1>5, <1>6, Zenon DEF P!BlockRadix, f

\* A number's rest by r * p is put together from its rest by p and the next digit.
LEMMA NextDigit ==
    ASSUME NEW r \in Nat \ {0}, NEW p \in Nat \ {0}, NEW a \in Nat
    PROVE  a % (r * p) = ((a \div p) % r) * p + (a % p)
<1> DEFINE q == a \div p
           e == a % p
           d == q \div r
           c == q % r
           n == r * p
<1>1. q \in Nat /\ e \in 0 .. p - 1 /\ a = q * p + e
  OBVIOUS
<1> HIDE DEF q, e
<1>2. d \in Nat /\ c \in 0 .. r - 1 /\ q = d * r + c
  BY <1>1
<1> HIDE DEF d, c
<1>3. n \in Nat \ {0}
  OBVIOUS
<1> DEFINE m == c * p + e
<1>4. m \in 0 .. n - 1
  <2>1. c * p <= (r - 1) * p
    BY <1>2
  <2>2. (r - 1) * p = r * p - p
    OBVIOUS
  <2>3. c * p \in Nat /\ r * p \in Nat
    BY <1>2
  <2> DEFINE x == c * p
             y == r * p
  <2>4. x <= y - p /\ x \in Nat /\ y \in Nat
    BY <2>1, <2>2, <2>3
  <2> HIDE DEF x, y
  <2>5. x + e \in 0 .. y - 1
    BY <1>1, <2>4
  <2> QED BY <2>5 DEF x, y
<1>5. a = d * n + m
  <2>1. q * p = (d * r + c) * p
    BY <1>2
  <2>2. (d * r + c) * p = d * (r * p) + c * p
    BY <1>2
  <2>3. q * p = d * n + c * p
    BY <2>1, <2>2
  <2>4. d * n \in Nat /\ c * p \in Nat /\ q * p \in Nat
    BY <1>1, <1>2, <1>3
  <2> DEFINE x == q * p
             y == d * n
             z == c * p
  <2>5. a = x + e /\ x = y + z /\ x \in Nat /\ y \in Nat /\ z \in Nat
    BY <1>1, <2>3, <2>4
  <2> HIDE DEF x, y, z
  <2>6. a = y + (z + e)
    BY <1>1, <2>5
  <2> QED BY <2>6 DEF y, z
<1> HIDE DEF n, m
<1>6. a % n = m
  BY <1>2, <1>3, <1>4, <1>5, DivMod
<1> QED BY <1>6 DEF n, m, c, q, e

\* The digit of a with weight Power[k].
Digit(a, k) == (a \div P!Power[k]) % NumberRadix

\* Numbers below the largest power with the same digits are the same.
LEMMA DigitsTell ==
    ASSUME P!SizeAssumption, NEW a \in 0 .. P!BlockRadix - 1, NEW b \in 0 .. P!BlockRadix - 1,
           \A k \in 0 .. BeSize - 1 : Digit(a, k) = Digit(b, k)
    PROVE  a = b
<1> DEFINE f == P!Power
           S == {k \in Nat : k <= BeSize => a % f[k] = b % f[k]}
<1>1. /\ f[0] = 1 /\ \A k \in 0 .. BeSize - 1 : f[k + 1] = NumberRadix * f[k]
      /\ \A k \in 0 .. BeSize : f[k] \in Nat \ {0}
      /\ \A k \in 0 .. BeSize - 1 : (a \div f[k]) % NumberRadix = (b \div f[k]) % NumberRadix
  BY PowerStep, PowerPositive, Zenon DEF Digit
<1>2. a \in Nat /\ b \in Nat /\ a < f[BeSize] /\ b < f[BeSize]
  <2>1. f[BeSize] = P!BlockRadix
    BY Zenon DEF P!BlockRadix
  <2> QED BY <2>1, PowerPositive
<1> HIDE DEF f
<1>3. 0 \in S
  <2>1. a % 1 = 0 /\ b % 1 = 0
    BY <1>2
  <2> QED BY <1>1, <2>1
<1>4. ASSUME NEW k \in Nat, k \in S
      PROVE  k + 1 \in S
  <2> SUFFICES ASSUME k + 1 <= BeSize PROVE a % f[k + 1] = b % f[k + 1]
    OBVIOUS
  <2>1. k \in 0 .. BeSize - 1 /\ k \in 0 .. BeSize /\ k <= BeSize
    BY PConstants
  <2> DEFINE p == f[k]
             r == NumberRadix
  <2>2. p \in Nat \ {0} /\ r \in Nat \ {0} /\ f[k + 1] = r * p
    BY <1>1, <2>1, PConstants
  <2>3. a % p = b % p /\ (a \div p) % r = (b \div p) % r
    BY <1>1, <1>4, <2>1
  <2> HIDE DEF p, r
  <2>4. /\ a % (r * p) = ((a \div p) % r) * p + (a % p)
        /\ b % (r * p) = ((b \div p) % r) * p + (b % p)
    BY <1>2, <2>2, NextDigit
  <2> QED BY <2>2, <2>3, <2>4, Zenon
<1> HIDE DEF S
<1>5. BeSize \in S
  BY <1>3, <1>4, PConstants, CountUp
<1>6. a % f[BeSize] = b % f[BeSize]
  BY <1>5, PConstants DEF S
<1>7. f[BeSize] \in Nat
  BY <1>1, PConstants
<1> DEFINE n == f[BeSize]
<1> HIDE DEF n
<1>8. n \in Nat \ {0} /\ a < n /\ b < n /\ a % n = b % n
  BY <1>1, <1>2, <1>6, PConstants DEF n
<1>9. a % n = a /\ b % n = b
  BY <1>2, <1>8
<1> QED BY <1>8, <1>9

\* Two block numbers that are written alike are the same.
LEMMA NumberTells ==
    ASSUME P!SizeAssumption, NEW a \in 0 .. P!BlockRadix - 1, NEW b \in 0 .. P!BlockRadix - 1,
           P!Number(a) = P!Number(b)
    PROVE  a = b
<1>1. ASSUME NEW k \in 0 .. BeSize - 1
      PROVE  Digit(a, k) = Digit(b, k)
  <2> DEFINE j == BeSize - k
  <2>1. j \in 1 .. BeSize /\ BeSize - j = k
    BY PConstants
  <2> HIDE DEF j
  <2>2. P!Number(a)[j] = {<<"byte", Digit(a, k), 0>>} /\ P!Number(b)[j] = {<<"byte", Digit(b, k), 0>>}
    <3>1. P!Number(a)[j] = {<<"byte", Digit(a, BeSize - j), 0>>}
      BY <2>1, Zenon DEF P!Number, P!Atom, Digit
    <3>2. P!Number(b)[j] = {<<"byte", Digit(b, BeSize - j), 0>>}
      BY <2>1, Zenon DEF P!Number, P!Atom, Digit
    <3> QED BY <2>1, <3>1, <3>2, Zenon
  <2> DEFINE x == Digit(a, k)
             y == Digit(b, k)
  <2> HIDE DEF x, y
  <2>3. {<<"byte", x, 0>>} = {<<"byte", y, 0>>}
    BY <2>2, Zenon DEF x, y
  <2>4. <<"byte", x, 0>> = <<"byte", y, 0>>
    BY <2>3
  <2>5. x = y
    BY <2>4
  <2> QED BY <2>5 DEF x, y
<1> QED BY <1>1, DigitsTell

\* A block number is a string of its size, and its last byte is no byte of a MAC.
LEMMA NumberString ==
    ASSUME P!SizeAssumption, NEW n
    PROVE  /\ String(P!Number(n)) /\ Len(P!Number(n)) = BeSize
           /\ \E v : P!Number(n)[BeSize] = {<<"byte", v, 0>>}
<1> DEFINE x == P!Number(n)
<1>1. x = [k \in 1 .. BeSize |-> x[k]]
  BY Zenon DEF P!Number
<1>2. x[BeSize] = {<<"byte", (n \div P!Power[BeSize - BeSize]) % NumberRadix, 0>>}
  <2>1. BeSize \in 1 .. BeSize
    BY PConstants
  <2> QED BY <2>1, Zenon DEF P!Number, P!Atom
<1> HIDE DEF x
<1>3. String(x) /\ Len(x) = BeSize
  BY <1>1, PConstants, StringArray
<1> QED BY <1>2, <1>3, Zenon DEF x

-----------------------------------------------------------------------------
(***************************************************************************)
(* The blocks of PBKDF2: a chain of MACs and the sum of them.              *)
(***************************************************************************)
Base(s, n) == s \o P!Number(n)

\* The sum of the first m MACs of the chain that begins with x.
SumOf(x, m) == [p \in 1 .. PbkdfLen |-> UNION {Link(PbkdfLen, x, k)[p] : k \in 1 .. m}]

\* Byte p of the output for the salt s and c iterations.
SumByte(s, c, p) == SumOf(Base(s, ((p - 1) \div PbkdfLen) + 1), c)[((p - 1) % PbkdfLen) + 1]

\* The MAC of the PBKDF2 instance.
LEMMA PHmac ==
    ASSUME NEW x
    PROVE  P!hmac(x) = Mac(PbkdfLen, x)
BY DEF P!hmac, P!BytesOf, P!Atom, Mac

\* f is U_1, ..., U_m of the reference.
IsIteration(x, f, m) ==
    f = [k \in 1 .. m |-> IF k = 1 THEN Mac(PbkdfLen, x) ELSE Mac(PbkdfLen, f[k - 1])]

\* The chain of the reference is the chain of the links.
LEMMA IterationLinks ==
    ASSUME NEW x, NEW f, NEW m \in Nat, IsIteration(x, f, m)
    PROVE  \A k \in 1 .. m : f[k] = Link(PbkdfLen, x, k)
<1> DEFINE S == {k \in Nat : k \in 1 .. m => f[k] = Link(PbkdfLen, x, k)}
<1>1. 0 \in S
  OBVIOUS
<1>2. ASSUME NEW k \in Nat, k \in S
      PROVE  k + 1 \in S
  <2> SUFFICES ASSUME k + 1 \in 1 .. m PROVE f[k + 1] = Link(PbkdfLen, x, k + 1)
    OBVIOUS
  <2>1. Link(PbkdfLen, x, 0) = x /\ Link(PbkdfLen, x, k + 1) = Mac(PbkdfLen, Link(PbkdfLen, x, k))
    BY LinkStep
  <2>2. CASE k = 0
    <3>1. f[1] = Mac(PbkdfLen, x)
      BY <2>2 DEF IsIteration
    <3> QED BY <2>1, <2>2, <3>1
  <2>3. CASE k # 0
    <3>1. k \in 1 .. m /\ (k + 1) - 1 = k /\ k + 1 # 1
      BY <2>3
    <3>2. f[k + 1] = Mac(PbkdfLen, f[k])
      BY <3>1 DEF IsIteration
    <3>3. f[k] = Link(PbkdfLen, x, k)
      BY <1>2, <3>1
    <3> QED BY <2>1, <3>2, <3>3
  <2> QED BY <2>2, <2>3
<1> HIDE DEF S
<1>3. \A k \in Nat : k \in S
  BY <1>1, <1>2, CountUp
<1> QED BY <1>3 DEF S

\* There is such a chain of every length.
LEMMA IterationExists ==
    ASSUME NEW x, NEW m \in Nat
    PROVE  \E f : IsIteration(x, f, m)
<1> DEFINE f == [k \in 1 .. m |-> Link(PbkdfLen, x, k)]
<1>1. ASSUME NEW k \in 1 .. m
      PROVE  Link(PbkdfLen, x, k) = IF k = 1 THEN Mac(PbkdfLen, x) ELSE Mac(PbkdfLen, f[k - 1])
  <2> DEFINE j == k - 1
  <2>1. j \in Nat /\ j + 1 = k
    OBVIOUS
  <2> HIDE DEF j
  <2>2. Link(PbkdfLen, x, 0) = x /\ Link(PbkdfLen, x, j + 1) = Mac(PbkdfLen, Link(PbkdfLen, x, j))
    BY <2>1, LinkStep
  <2>3. Link(PbkdfLen, x, k) = Mac(PbkdfLen, Link(PbkdfLen, x, j))
    BY <2>1, <2>2
  <2>4. k = 1 => j = 0
    BY <2>1
  <2>5. k # 1 => f[j] = Link(PbkdfLen, x, j)
    <3>1. k # 1 => j \in 1 .. m
      BY <2>1
    <3> QED BY <3>1
  <2> HIDE DEF f
  <2>6. Link(PbkdfLen, x, k) = IF k = 1 THEN Mac(PbkdfLen, x) ELSE Mac(PbkdfLen, f[j])
    BY <2>2, <2>3, <2>4, <2>5
  <2> QED BY <2>6 DEF j
<1>2. f = [k \in 1 .. m |-> IF k = 1 THEN Mac(PbkdfLen, x) ELSE Mac(PbkdfLen, f[k - 1])]
  <2> DEFINE g == f
  <2>1. \A k \in 1 .. m :
          Link(PbkdfLen, x, k) = IF k = 1 THEN Mac(PbkdfLen, x) ELSE Mac(PbkdfLen, g[k - 1])
    BY <1>1
  <2> HIDE DEF g
  <2>2. f = [k \in 1 .. m |-> IF k = 1 THEN Mac(PbkdfLen, x) ELSE Mac(PbkdfLen, g[k - 1])]
    BY <2>1
  <2> QED BY <2>2 DEF g
<1> HIDE DEF f
<1>3. IsIteration(x, f, m)
  BY <1>2 DEF IsIteration
<1> QED BY <1>3

\* Block n of the reference is the sum of a chain.
LEMMA FExact ==
    ASSUME iter \in Nat, NEW n
    PROVE  P!F(n) = SumOf(Base(seed, n), iter)
<1> DEFINE x == Base(seed, n)
           f == CHOOSE f : IsIteration(x, f, iter)
<1>1. IsIteration(x, f, iter)
  BY IterationExists
<1>2. P!F(n) = [p \in 1 .. PbkdfLen |-> UNION {f[k][p] : k \in 1 .. iter}]
  BY Zenon DEF P!F, P!hmac, P!BytesOf, P!Atom, Mac, IsIteration, Base
<1> HIDE DEF x, f
<1>3. \A k \in 1 .. iter : f[k] = Link(PbkdfLen, x, k)
  BY <1>1, IterationLinks
<1>4. \A p \in 1 .. PbkdfLen :
        UNION {f[k][p] : k \in 1 .. iter} = UNION {Link(PbkdfLen, x, k)[p] : k \in 1 .. iter}
  BY <1>3
<1>5. P!F(n) = [p \in 1 .. PbkdfLen |-> UNION {Link(PbkdfLen, x, k)[p] : k \in 1 .. iter}]
  BY <1>2, <1>4
<1> QED BY <1>5, Zenon DEF SumOf, x

\* The reference output for the arguments of the call.
LEMMA PReferenceExact ==
    ASSUME iter \in Nat, NEW p
    PROVE  P!Reference(p) = SumByte(seed, iter, p)
BY FExact, Zenon DEF P!Reference, SumByte

\* Byte q of block c + 1.
LEMMA SumByteExact ==
    ASSUME PbkdfLen \in Nat \ {0}, NEW s, NEW m,
           NEW k \in Nat, NEW q \in 1 .. PbkdfLen, NEW p, p = k * PbkdfLen + q
    PROVE  SumByte(s, m, p) = SumOf(Base(s, k + 1), m)[q]
<1> DEFINE a == p - 1
           r == q - 1
<1>1. k * PbkdfLen \in Nat
  OBVIOUS
<1>2. a \in Nat /\ r \in 0 .. PbkdfLen - 1 /\ a = k * PbkdfLen + r /\ r + 1 = q
  <2> DEFINE n == k * PbkdfLen
  <2>1. n \in Nat /\ p = n + q
    BY <1>1
  <2> HIDE DEF n
  <2>2. a \in Nat /\ r \in 0 .. PbkdfLen - 1 /\ a = n + r /\ r + 1 = q
    BY <2>1
  <2> QED BY <2>2 DEF n
<1> HIDE DEF a, r
<1>3. a \div PbkdfLen = k /\ a % PbkdfLen = r
  BY <1>2, DivMod
<1> QED BY <1>2, <1>3, Zenon DEF SumByte, a

\* The salts of a call, and the empty one of the start.
PSalts == Salts \cup {<<>>}

\* What the chain of a block begins with is a string and no MAC, and its last byte
\* is a byte of the block number.
LEMMA BaseString ==
    ASSUME P!SizeAssumption, NEW s \in PSalts, NEW n
    PROVE  /\ String(s) /\ NoMac(PbkdfLen, Base(s, n))
<1>1. String(s)
  <2>1. CASE s = <<>>
    <3>1. s \in Seq({})
      BY <2>1
    <3> QED BY <3>1, StringOf
  <2>2. CASE s \in Salts
    BY <2>2 DEF P!SizeAssumption, String
  <2> QED BY <2>1, <2>2 DEF PSalts
<1> DEFINE b == P!Number(n)
           x == s \o b
<1>2. PICK v : b[BeSize] = {<<"byte", v, 0>>}
  BY NumberString
<1>3. String(b) /\ Len(b) = BeSize
  BY NumberString
<1> HIDE DEF b
<1>4. Joins(s, b, x)
  BY <1>1, <1>3, StringCat, Zenon
<1> HIDE DEF x
<1>5. Len(x) \in Nat /\ x[Len(x)] = {<<"byte", v, 0>>}
  <2>1. BeSize \in 1 .. Len(b) /\ Len(x) = Len(s) + BeSize /\ Len(s) \in Nat
    BY <1>3, <1>4, PConstants DEF Joins
  <2>2. x[Len(s) + BeSize] = b[BeSize]
    BY <1>4, <2>1 DEF Joins
  <2> QED BY <1>2, <2>1, <2>2, PConstants
<1>6. ASSUME NEW y, x = Mac(PbkdfLen, y)
      PROVE  FALSE
  <2>1. Len(x) = PbkdfLen /\ PbkdfLen \in 1 .. PbkdfLen
    BY <1>6, PConstants, MacString
  <2>2. x[PbkdfLen] = {<<"hmac", y, PbkdfLen>>}
    BY <1>6, <2>1 DEF Mac
  <2>3. {<<"hmac", y, PbkdfLen>>} = {<<"byte", v, 0>>}
    BY <1>5, <2>1, <2>2
  <2>4. <<"hmac", y, PbkdfLen>> = <<"byte", v, 0>>
    BY <2>3
  <2>5. "hmac" = "byte"
    BY <2>4
  <2> QED BY <2>5
<1> QED BY <1>1, <1>6, Zenon DEF NoMac, Base, x, b

\* The bases of two block numbers are different.
LEMMA BasesDiffer ==
    ASSUME P!SizeAssumption, NEW s \in PSalts,
           NEW j \in 0 .. P!BlockRadix - 1, NEW k \in 0 .. P!BlockRadix - 1, j # k
    PROVE  Base(s, j) # Base(s, k)
<1> DEFINE a == P!Number(j)
           b == P!Number(k)
<1>1. a # b
  BY NumberTells
<1>2. String(s)
  BY BaseString
<1>3. String(a) /\ String(b)
  BY NumberString, Zenon
<1> HIDE DEF a, b
<1>4. ASSUME s \o a = s \o b
      PROVE  FALSE
  <2>1. Cut(s, a, s, b)
    BY <1>2, <1>3, <1>4, Zenon DEF Cut
  <2>2. a = b
    BY <2>1, StringCut, Zenon
  <2> QED BY <1>1, <2>2
<1> QED BY <1>4, Zenon DEF Base, a, b

\* A byte of a link.
LEMMA LinkByte ==
    ASSUME NEW n \in Nat, NEW x, NEW k \in Nat, NEW p \in 1 .. n
    PROVE  Link(n, x, k + 1)[p] = {<<"hmac", Link(n, x, k), p>>}
<1>1. Link(n, x, k + 1) = Mac(n, Link(n, x, k))
  BY LinkStep
<1> DEFINE y == Link(n, x, k)
<1> HIDE DEF y
<1>2. Mac(n, y)[p] = {<<"hmac", y, p>>}
  BY DEF Mac
<1> QED BY <1>1, <1>2 DEF y

\* Adding the next MAC of a chain to the sum of those before: no byte cancels.
LEMMA SumNext ==
    ASSUME P!SizeAssumption, NEW x, NoMac(PbkdfLen, x), NEW m \in Nat
    PROVE  P!XorBytes(SumOf(x, m), Link(PbkdfLen, x, m + 1)) = SumOf(x, m + 1)
<1> DEFINE h == PbkdfLen
           n == m + 1
           s == SumOf(x, m)
           l == Link(PbkdfLen, x, n)
           u(p) == UNION {Link(h, x, k)[p] : k \in 1 .. m}
           v(p) == UNION {Link(h, x, k)[p] : k \in 1 .. n}
<1>1. h \in Nat \ {0}
  BY PConstants
<1>2. s = [p \in 1 .. h |-> u(p)]
  BY Zenon DEF SumOf
<1>3. SumOf(x, n) = [p \in 1 .. h |-> v(p)]
  BY Zenon DEF SumOf
<1>4. ASSUME NEW p \in 1 .. h
      PROVE  (u(p) \ l[p]) \cup (l[p] \ u(p)) = v(p)
  <2> DEFINE e == <<"hmac", Link(h, x, m), p>>
  <2>1. l[p] = {e}
    BY <1>1, LinkByte
  <2>2. e \notin u(p)
    <3> SUFFICES ASSUME NEW k \in 1 .. m, e \in Link(h, x, k)[p]
                 PROVE  FALSE
      OBVIOUS
    <3> DEFINE j == k - 1
    <3>1. j \in Nat /\ j + 1 = k /\ j < m
      OBVIOUS
    <3> HIDE DEF j
    <3>2. Link(h, x, j + 1)[p] = {<<"hmac", Link(h, x, j), p>>}
      BY <1>1, <3>1, LinkByte
    <3>3. e = <<"hmac", Link(h, x, j), p>>
      BY <3>1, <3>2
    <3>4. Link(h, x, j) # Link(h, x, m)
      BY <1>1, <3>1, LinksDiffer
    <3> DEFINE y == Link(h, x, j)
               z == Link(h, x, m)
    <3> HIDE DEF y, z
    <3>5. <<"hmac", z, p>> = <<"hmac", y, p>>
      BY <3>3 DEF y, z
    <3>6. z = y
      BY <3>5
    <3> QED BY <3>4, <3>6 DEF y, z
  <2>3. v(p) = u(p) \cup l[p]
    <3>1. 1 .. n = (1 .. m) \cup {n}
      OBVIOUS
    <3> DEFINE g(k) == Link(h, x, k)[p]
               I == 1 .. m
    <3>2. v(p) = UNION {g(k) : k \in I \cup {n}} /\ u(p) = UNION {g(k) : k \in I} /\ l[p] = g(n)
      BY <3>1
    <3> HIDE DEF g, I, n
    <3>3. UNION {g(k) : k \in I \cup {n}} = (UNION {g(k) : k \in I}) \cup g(n)
      BY Zenon
    <3> QED BY <3>2, <3>3, Zenon
  <2> HIDE DEF e, u, v, l
  <2> QED BY <2>1, <2>2, <2>3
<1>5. Len(s) = h
  <2> HIDE DEF u, h, s
  <2> QED BY <1>1, <1>2
<1>6. P!XorBytes(s, l) = [p \in 1 .. h |-> (s[p] \ l[p]) \cup (l[p] \ s[p])]
  <2> HIDE DEF s, l, h
  <2> QED BY <1>5, Zenon DEF P!XorBytes, P!Xor
<1> HIDE DEF u, v, l, s, h
<1>7. \A p \in 1 .. h : (s[p] \ l[p]) \cup (l[p] \ s[p]) = v(p)
  BY <1>2, <1>4
<1>8. P!XorBytes(s, l) = [p \in 1 .. h |-> v(p)]
  BY <1>6, <1>7
<1> QED BY <1>3, <1>8, Zenon DEF s, l, n

-----------------------------------------------------------------------------
(***************************************************************************)
(* The inductive invariant of PBKDF2: c blocks are done; inside the loop   *)
(* over the iterations the last MAC and the sum are those of the chain of  *)
(* block c + 1.                                                            *)
(***************************************************************************)
Blocks(c) ==
    /\ counter = (c + 1) % P!BlockRadix
    /\ done < len => done = c * PbkdfLen
    /\ at = "chain" => /\ mac = Link(PbkdfLen, Base(seed, c + 1), turn)
                       /\ sum = SumOf(Base(seed, c + 1), turn)

\* The arguments of a call and how far it is.
PArguments ==
    /\ at \in {"idle", "block", "chain"} /\ ret \in {0, -1}
    /\ len \in 0 .. MaxOut /\ done \in 0 .. len
    /\ seed \in PSalts /\ iter \in 0 .. MaxIter

\* The buffer with d bytes of the reference output in it.
Summed(buf, s, m, d) ==
    [p \in 1 .. P!BufSize |-> IF p <= d THEN SumByte(s, m, p) ELSE buf[p]]

\* The inductive invariant of PBKDF2.
PInv ==
    /\ PArguments
    /\ at # "idle" => ret = 0
    /\ at # "idle" \/ done > 0 => iter >= 1 /\ len <= (P!BlockRadix - 1) * PbkdfLen
    /\ at = "idle" => done = IF ret = 0 THEN len ELSE 0
    /\ at = "chain" => done < len /\ turn \in 1 .. iter
    /\ \E c \in Nat : Blocks(c)
    /\ out = Summed(P!Stale, seed, iter, done)

\* The buffer before the first block.
LEMMA PStaleExact ==
    ASSUME P!SizeAssumption, NEW s, NEW m
    PROVE  P!Stale = Summed(P!Stale, s, m, 0)
<1>1. P!Stale = [p \in 1 .. P!BufSize |-> P!Stale[p]]
  BY DEF P!Stale, P!BytesOf
<1> DEFINE stale == P!Stale
<1> HIDE DEF stale
<1>2. stale = [p \in 1 .. P!BufSize |-> stale[p]]
  BY <1>1 DEF stale
<1>3. \A p \in 1 .. P!BufSize : ~ (p <= 0)
  BY PConstants
<1>4. stale = [p \in 1 .. P!BufSize |-> IF p <= 0 THEN SumByte(s, m, p) ELSE stale[p]]
  BY <1>2, <1>3
<1> QED BY <1>4, Zenon DEF stale, Summed

\* In a block that is not done the counter is its number and has not wrapped.
LEMMA BlockNumber ==
    ASSUME P!SizeAssumption, PInv, at # "idle", done < len, NEW c \in Nat, Blocks(c)
    PROVE  done = c * PbkdfLen /\ counter = c + 1 /\ c + 1 \in 1 .. P!BlockRadix - 1
<1> DEFINE r == P!BlockRadix - 1
           h == PbkdfLen
<1>1. done = c * h /\ len <= r * h /\ len \in Nat
  BY PConstants DEF Blocks, PInv, PArguments
<1>2. r \in Nat /\ h \in Nat \ {0} /\ P!BlockRadix = r + 1
  BY PConstants, PowerPositive
<1>3. c * h < r * h
  <2>1. c * h \in Nat /\ r * h \in Nat
    BY <1>2
  <2> QED BY <1>1, <2>1
<1>4. counter = (c + 1) % P!BlockRadix
  BY DEF Blocks
<1> DEFINE b == P!BlockRadix
<1> HIDE DEF r, h, b
<1>5. c < r
  <2>1. CASE c >= r
    <3>1. c * h >= r * h
      BY <1>2, <2>1
    <3>2. c * h \in Nat /\ r * h \in Nat
      BY <1>2
    <3> QED BY <1>3, <3>1, <3>2
  <2> QED BY <2>1, <1>2
<1>6. b = r + 1 /\ counter = (c + 1) % b
  BY <1>2, <1>4 DEF b
<1>7. (c + 1) % b = c + 1
  <2>1. c + 1 \in 0 .. b - 1 /\ b \in Nat \ {0}
    BY <1>2, <1>5, <1>6
  <2> QED BY <2>1
<1> QED BY <1>1, <1>2, <1>5, <1>6, <1>7 DEF r, h, b

\* The invariant holds at the start,
LEMMA PInit ==
    ASSUME P!SizeAssumption, P!Init
    PROVE  PInv
<1>1. /\ at = "idle" /\ len = 0 /\ seed = <<>> /\ iter = 1 /\ counter = 1 /\ done = 0
      /\ out = P!Stale /\ ret = 0
  BY Zenon DEF P!Init
<1>2. PArguments
  BY <1>1, PConstants DEF PArguments, PSalts
<1>3. Blocks(0)
  <2>1. 1 % P!BlockRadix = 1
    BY PowerPositive
  <2> QED BY <1>1, <2>1 DEF Blocks
<1>4. out = Summed(P!Stale, seed, iter, done)
  BY <1>1, PStaleExact
<1> QED BY <1>1, <1>2, <1>3, <1>4 DEF PInv

\* after a call is accepted or refused,
LEMMA PCall ==
    ASSUME P!SizeAssumption, PInv,
           NEW null \in BOOLEAN, NEW n \in 0 .. MaxOut, NEW s \in Salts, NEW c \in 0 .. MaxIter,
           P!pbkdf2_streebog512(null, n, s, c)
    PROVE  PInv'
<1>1. /\ len' = n /\ seed' = s /\ iter' = c /\ counter' = 1 /\ done' = 0 /\ turn' = 1
      /\ at' = IF P!Refused(null, n, c) THEN "idle" ELSE "block"
      /\ ret' = IF P!Refused(null, n, c) THEN -1 ELSE 0
      /\ out' = P!Stale
  BY Zenon DEF P!pbkdf2_streebog512
<1>2. PArguments'
  BY <1>1, PConstants DEF PArguments, PSalts
<1>3. Blocks(0)'
  <2>1. 1 % P!BlockRadix = 1
    BY PowerPositive
  <2>2. counter' = (0 + 1) % P!BlockRadix /\ done' = 0 * PbkdfLen /\ at' # "chain"
    BY <1>1, <2>1, PConstants
  <2> QED BY <2>2 DEF Blocks, P!BlockRadix, P!Power
<1>4. out' = Summed(P!Stale, seed', iter', done')
  <2>1. P!Stale = Summed(P!Stale, s, c, 0)
    BY PStaleExact
  <2> QED BY <1>1, <2>1, Zenon
<1>5. at' # "idle" => iter' >= 1 /\ len' <= (P!BlockRadix - 1) * PbkdfLen /\ ret' = 0
  <2> SUFFICES ASSUME ~P!Refused(null, n, c)
               PROVE  c >= 1 /\ n <= (P!BlockRadix - 1) * PbkdfLen
    BY <1>1, Zenon
  <2> DEFINE m == (P!BlockRadix - 1) * PbkdfLen
  <2>1. ~ (c = 0) /\ ~ (n > m)
    BY Zenon DEF P!Refused
  <2>2. m \in Nat
    BY PowerPositive, PConstants
  <2> HIDE DEF m
  <2>3. c >= 1 /\ n <= m
    BY <2>1, <2>2, PConstants
  <2> QED BY <2>3 DEF m
<1>6. at' = "idle" => done' = IF ret' = 0 THEN len' ELSE 0
  <2>1. at' = "idle" => ret' = -1
    BY <1>1
  <2> QED BY <1>1, <2>1
<1>7. ~ (done' > 0) /\ at' # "chain"
  BY <1>1
<1>8. (\E k \in Nat : Blocks(k))'
  BY <1>3
<1> QED BY <1>2, <1>4, <1>5, <1>6, <1>7, <1>8
    DEF PInv, Summed, P!BufSize, P!Stale, P!BytesOf, P!BlockRadix, P!Power

\* after the first MAC of a block,
LEMMA PFirstTurn ==
    ASSUME P!SizeAssumption, PInv, P!FirstTurn
    PROVE  PInv'
<1>1. PICK c \in Nat : Blocks(c)
  BY DEF PInv
<1>2. /\ at = "block" /\ done < len
      /\ mac' = P!hmac(seed \o P!be(counter)) /\ sum' = mac' /\ turn' = 1 /\ at' = "chain"
      /\ len' = len /\ seed' = seed /\ iter' = iter /\ counter' = counter /\ done' = done
      /\ out' = out /\ ret' = ret
  BY Zenon DEF P!FirstTurn
<1>3. done = c * PbkdfLen /\ counter = c + 1
  BY <1>1, <1>2, BlockNumber
<1> DEFINE x == Base(seed, c + 1)
<1>4. mac' = Mac(PbkdfLen, x)
  <2>1. seed \o P!be(counter) = x
    BY <1>3, Zenon DEF P!be, P!Number, Base
  <2> QED BY <1>2, <2>1, PHmac
<1> HIDE DEF x
<1>5. mac' = Link(PbkdfLen, x, 1)
  <2>1. Link(PbkdfLen, x, 0) = x /\ Link(PbkdfLen, x, 0 + 1) = Mac(PbkdfLen, Link(PbkdfLen, x, 0))
    BY LinkStep
  <2> QED BY <1>4, <2>1
<1>6. mac' = SumOf(x, 1)
  <2> DEFINE y == Mac(PbkdfLen, x)
  <2>1. y = [p \in 1 .. PbkdfLen |-> y[p]]
    BY DEF Mac
  <2>2. y = Link(PbkdfLen, x, 1)
    BY <1>4, <1>5
  <2> HIDE DEF y
  <2>3. \A p \in 1 .. PbkdfLen : UNION {Link(PbkdfLen, x, k)[p] : k \in 1 .. 1} = y[p]
    <3>1. 1 .. 1 = {1}
      OBVIOUS
    <3> QED BY <2>2, <3>1
  <2>4. y = [p \in 1 .. PbkdfLen |-> UNION {Link(PbkdfLen, x, k)[p] : k \in 1 .. 1}]
    BY <2>1, <2>3
  <2>5. y = SumOf(x, 1)
    BY <2>4, Zenon DEF SumOf
  <2> QED BY <1>4, <2>5 DEF y
<1>7. Blocks(c)'
  <2>1. counter' = (c + 1) % P!BlockRadix /\ (done' < len' => done' = c * PbkdfLen)
    BY <1>1, <1>2 DEF Blocks
  <2>2. mac' = Link(PbkdfLen, Base(seed', c + 1), turn') /\ sum' = SumOf(Base(seed', c + 1), turn')
    BY <1>2, <1>5, <1>6, Zenon DEF x
  <2> QED BY <2>1, <2>2, Zenon DEF Blocks, P!BlockRadix, P!Power, Base, P!Number, P!Atom
<1>8. turn' \in 1 .. iter'
  <2>1. iter \in Nat /\ iter >= 1
    BY <1>2, PConstants DEF PInv, PArguments
  <2> QED BY <1>2, <2>1
<1>9. PArguments'
  BY <1>2 DEF PInv, PArguments
<1>10. (\E k \in Nat : Blocks(k))'
  BY <1>7
<1>11. ret' = 0 /\ iter' >= 1 /\ len' <= (P!BlockRadix - 1) * PbkdfLen /\ at' = "chain" /\ done' < len'
  BY <1>2 DEF PInv
<1>12. out' = Summed(P!Stale, seed', iter', done')
  BY <1>2, Zenon DEF PInv
<1> QED BY <1>8, <1>9, <1>10, <1>11, <1>12
    DEF PInv, Summed, P!BufSize, P!Stale, P!BytesOf, P!BlockRadix, P!Power

\* after a turn of the inner loop,
LEMMA PChainTurn ==
    ASSUME P!SizeAssumption, PInv, P!ChainTurn
    PROVE  PInv'
<1>1. PICK c \in Nat : Blocks(c)
  BY DEF PInv
<1>2. /\ at = "chain" /\ turn < iter
      /\ mac' = P!hmac(mac) /\ sum' = P!XorBytes(sum, mac') /\ turn' = turn + 1
      /\ at' = at /\ len' = len /\ seed' = seed /\ iter' = iter /\ counter' = counter
      /\ done' = done /\ out' = out /\ ret' = ret
  BY Zenon DEF P!ChainTurn
<1> DEFINE x == Base(seed, c + 1)
           m == turn
<1>3. /\ mac = Link(PbkdfLen, x, m) /\ sum = SumOf(x, m)
      /\ iter \in Nat /\ m \in Nat /\ m \in 1 .. iter /\ seed \in PSalts
  BY <1>1, <1>2, PConstants DEF Blocks, PInv, PArguments
<1>4. NoMac(PbkdfLen, x)
  BY <1>3, BaseString
<1> HIDE DEF x, m
<1>5. mac' = Link(PbkdfLen, x, m + 1)
  <2>1. Link(PbkdfLen, x, m + 1) = Mac(PbkdfLen, Link(PbkdfLen, x, m))
    BY <1>3, LinkStep
  <2> QED BY <1>2, <1>3, <2>1, PHmac
<1>6. sum' = SumOf(x, m + 1)
  <2>1. P!XorBytes(SumOf(x, m), Link(PbkdfLen, x, m + 1)) = SumOf(x, m + 1)
    BY <1>3, <1>4, SumNext
  <2> QED BY <1>2, <1>3, <1>5, <2>1, Zenon
<1>7. Blocks(c)'
  <2>1. counter' = (c + 1) % P!BlockRadix /\ (done' < len' => done' = c * PbkdfLen)
    BY <1>1, <1>2 DEF Blocks
  <2>2. mac' = Link(PbkdfLen, Base(seed', c + 1), turn') /\ sum' = SumOf(Base(seed', c + 1), turn')
    BY <1>2, <1>5, <1>6, Zenon DEF x, m
  <2> QED BY <2>1, <2>2, Zenon DEF Blocks, P!BlockRadix, P!Power, Base, P!Number, P!Atom
<1>8. turn' \in 1 .. iter'
  BY <1>2, <1>3 DEF m
<1>9. PArguments'
  BY <1>2 DEF PInv, PArguments
<1>10. (\E k \in Nat : Blocks(k))'
  BY <1>7
<1>11. ret' = 0 /\ iter' >= 1 /\ len' <= (P!BlockRadix - 1) * PbkdfLen /\ at' = "chain" /\ done' < len'
  BY <1>2 DEF PInv
<1>12. out' = Summed(P!Stale, seed', iter', done')
  BY <1>2, Zenon DEF PInv
<1> QED BY <1>8, <1>9, <1>10, <1>11, <1>12
    DEF PInv, Summed, P!BufSize, P!Stale, P!BytesOf, P!BlockRadix, P!Power

\* after a block is written,
LEMMA PEndBlock ==
    ASSUME P!SizeAssumption, PInv, P!EndBlock
    PROVE  PInv'
<1>1. PICK c \in Nat : Blocks(c)
  BY DEF PInv
<1> DEFINE room == P!Room
           stale == P!Stale
           o(p) == SumByte(seed, iter, p)
           x == Base(seed, c + 1)
<1>2. /\ at = "chain" /\ turn >= iter
      /\ out' = [p \in 1 .. P!BufSize |-> IF p \in done + 1 .. done + room THEN sum[p - done] ELSE out[p]]
      /\ done' = done + room /\ counter' = (counter + 1) % P!BlockRadix /\ at' = "block"
      /\ len' = len /\ seed' = seed /\ iter' = iter /\ ret' = ret
  BY Zenon DEF P!EndBlock
<1>3. /\ PbkdfLen \in Nat \ {0} /\ len \in Nat /\ done \in Nat /\ P!BufSize \in Nat
      /\ done < len /\ turn \in 1 .. iter /\ iter \in Nat
  BY <1>2, PConstants DEF PInv, PArguments
<1>4. done = c * PbkdfLen /\ counter = (c + 1) % P!BlockRadix /\ sum = SumOf(x, iter)
  <2>1. turn = iter
    BY <1>2, <1>3
  <2> QED BY <1>1, <1>2, <1>3, <2>1 DEF Blocks
<1>5. room \in 1 .. PbkdfLen /\ done + room <= len /\ (room = PbkdfLen \/ done + room = len)
  BY <1>3 DEF P!Room
<1>6. out = [p \in 1 .. P!BufSize |-> IF p <= done THEN o(p) ELSE stale[p]]
  BY Zenon DEF PInv, Summed
<1>7. ASSUME NEW q \in 1 .. room
      PROVE  sum[q] = o(done + q)
  <2>1. q \in 1 .. PbkdfLen
    BY <1>3, <1>5
  <2>2. o(c * PbkdfLen + q) = SumOf(x, iter)[q]
    BY <1>3, <2>1, SumByteExact
  <2> QED BY <1>4, <2>2
<1> HIDE DEF room, stale, o, x
<1>8. ASSUME NEW p \in 1 .. P!BufSize
      PROVE  (IF p \in done + 1 .. done + room THEN sum[p - done] ELSE out[p])
               = IF p <= done + room THEN o(p) ELSE stale[p]
  <2>1. CASE p \in done + 1 .. done + room
    <3> DEFINE q == p - done
    <3>1. q \in 1 .. room /\ done + q = p
      BY <1>3, <1>5, <2>1
    <3> HIDE DEF q
    <3>2. sum[q] = o(p)
      BY <1>7, <3>1
    <3> QED BY <2>1, <3>2, <1>3, <1>5 DEF q
  <2>2. CASE p \notin done + 1 .. done + room
    <3>1. out[p] = IF p <= done THEN o(p) ELSE stale[p]
      BY <1>6
    <3>2. p <= done + room <=> p <= done
      BY <1>3, <1>5, <2>2
    <3> QED BY <2>2, <3>1, <3>2
  <2> QED BY <2>1, <2>2
<1>9. out' = [p \in 1 .. P!BufSize |-> IF p <= done + room THEN o(p) ELSE stale[p]]
  BY <1>2, <1>8
<1>10. out' = Summed(P!Stale, seed', iter', done')
  BY <1>2, <1>9, Zenon DEF Summed, o, stale
<1>11. done' \in 0 .. len
  BY <1>2, <1>3, <1>5
<1>12. Blocks(c + 1)'
  <2>1. counter' = ((c + 1) + 1) % P!BlockRadix
    <3> DEFINE r == P!BlockRadix
               a == c + 1
    <3>1. r \in Nat \ {0} /\ a \in Nat
      BY PowerPositive
    <3>2. counter' = ((a % r) + 1) % r
      BY <1>2, <1>4
    <3> HIDE DEF r, a
    <3>3. ((a % r) + 1) % r = (a + 1) % r
      BY <3>1, CountMod
    <3> QED BY <3>2, <3>3 DEF r, a
  <2>2. done' < len' => done' = (c + 1) * PbkdfLen
    <3>1. (c + 1) * PbkdfLen = c * PbkdfLen + PbkdfLen
      BY <1>3
    <3>2. done' < len' => room = PbkdfLen
      BY <1>2, <1>3, <1>5
    <3> QED BY <1>2, <1>4, <3>1, <3>2
  <2>3. at' # "chain"
    BY <1>2
  <2> QED BY <2>1, <2>2, <2>3, Zenon DEF Blocks, P!BlockRadix, P!Power
<1>13. PArguments'
  BY <1>2, <1>11 DEF PInv, PArguments
<1>14. (\E k \in Nat : Blocks(k))'
  <2>1. c + 1 \in Nat
    OBVIOUS
  <2> QED BY <1>12, <2>1
<1>15. ret' = 0 /\ iter' >= 1 /\ len' <= (P!BlockRadix - 1) * PbkdfLen /\ at' = "block"
  BY <1>2 DEF PInv
<1> QED BY <1>10, <1>13, <1>14, <1>15
    DEF PInv, Summed, P!BufSize, P!Stale, P!BytesOf, P!BlockRadix, P!Power

\* and after the return.
LEMMA PReturn ==
    ASSUME P!SizeAssumption, PInv, P!Return
    PROVE  PInv'
<1>1. PICK c \in Nat : Blocks(c)
  BY DEF PInv
<1>2. /\ at = "block" /\ done >= len /\ at' = "idle"
      /\ len' = len /\ seed' = seed /\ iter' = iter /\ counter' = counter /\ done' = done
      /\ turn' = turn /\ out' = out /\ ret' = ret
  BY Zenon DEF P!Return
<1>3. done = len /\ ret = 0
  BY <1>2, PConstants DEF PInv, PArguments
<1>4. Blocks(c)'
  <2>1. counter' = (c + 1) % P!BlockRadix /\ (done' < len' => done' = c * PbkdfLen) /\ at' # "chain"
    BY <1>1, <1>2 DEF Blocks
  <2> QED BY <2>1, Zenon DEF Blocks, P!BlockRadix, P!Power
<1>5. PArguments'
  BY <1>2 DEF PInv, PArguments
<1>6. (\E k \in Nat : Blocks(k))'
  BY <1>4
<1>7. /\ at' = "idle" /\ done' = len' /\ ret' = 0
      /\ iter' >= 1 /\ len' <= (P!BlockRadix - 1) * PbkdfLen
  BY <1>2, <1>3 DEF PInv
<1>8. out' = Summed(P!Stale, seed', iter', done')
  BY <1>2, Zenon DEF PInv
<1> QED BY <1>5, <1>6, <1>7, <1>8
    DEF PInv, Summed, P!BufSize, P!Stale, P!BytesOf, P!BlockRadix, P!Power

-----------------------------------------------------------------------------
\* What the invariant says of the properties.
LEMMA PTypes ==
    ASSUME P!SizeAssumption, PInv
    PROVE  P!TypeOK
<1>1. PICK c \in Nat : Blocks(c)
  BY DEF PInv
<1>2. counter \in 0 .. P!BlockRadix - 1
  <2> DEFINE b == P!BlockRadix
  <2>1. b \in Nat \ {0}
    BY PowerPositive
  <2>2. counter = (c + 1) % b
    BY <1>1 DEF Blocks
  <2> HIDE DEF b
  <2>3. counter \in 0 .. b - 1
    BY <2>1, <2>2
  <2> QED BY <2>3 DEF b
<1>3. at = "chain" => counter > 0 /\ turn \in 1 .. iter
  <2> SUFFICES ASSUME at = "chain" PROVE counter > 0 /\ turn \in 1 .. iter
    OBVIOUS
  <2>1. done < len /\ turn \in 1 .. iter /\ at # "idle"
    BY DEF PInv
  <2>2. counter = c + 1
    BY <1>1, <2>1, BlockNumber
  <2> QED BY <2>1, <2>2
<1>4. Len(out) = P!BufSize
  <2> DEFINE e(p) == IF p <= done THEN SumByte(seed, iter, p) ELSE P!Stale[p]
             b == P!BufSize
  <2>1. out = [p \in 1 .. b |-> e(p)] /\ b \in Nat
    BY PConstants, Zenon DEF PInv, Summed
  <2> HIDE DEF e, b
  <2>2. Len(out) = b
    BY <2>1
  <2> QED BY <2>2 DEF b
<1> QED BY <1>2, <1>3, <1>4 DEF PInv, PArguments, PSalts, P!TypeOK

\* The buffer holds the reference output as far as it is written.
LEMMA POutput ==
    ASSUME P!SizeAssumption, PInv
    PROVE  P!OutputIsPrefix
<1>0. iter \in Nat
  BY PConstants DEF PInv, PArguments
<1>1. ASSUME NEW p \in 1 .. P!BufSize
      PROVE  out[p] = IF p <= done THEN P!Reference(p) ELSE P!Stale[p]
  <2> DEFINE e(q) == IF q <= done THEN SumByte(seed, iter, q) ELSE P!Stale[q]
  <2>1. out[p] = e(p)
    <3>1. out = [q \in 1 .. P!BufSize |-> e(q)]
      BY Zenon DEF PInv, Summed
    <3> HIDE DEF e
    <3> QED BY <3>1
  <2>2. P!Reference(p) = SumByte(seed, iter, p)
    BY <1>0, PReferenceExact
  <2> QED BY <2>1, <2>2, Zenon
<1> QED BY <1>1, Zenon DEF PInv, P!OutputIsPrefix

\* No two blocks of it are the same: the first MAC of a block is not one of any
\* other.
LEMMA PDiffer ==
    ASSUME P!SizeAssumption, PInv
    PROVE  P!BlocksDiffer
<1> DEFINE h == PbkdfLen
           d == done \div h
           b(j) == Base(seed, j)
           r == P!BlockRadix
<1>1. /\ h \in Nat \ {0} /\ done \in Nat /\ done <= P!BufSize /\ P!BufSize \in Nat
      /\ len \in Nat /\ done <= len /\ seed \in PSalts /\ iter \in Nat /\ r \in Nat \ {0, 1}
      /\ (done > 0 => iter >= 1 /\ len <= (r - 1) * h)
  BY PConstants, PowerPositive DEF PInv, PArguments
<1>2. d \in Nat /\ d * h <= done
  <2> DEFINE e == done % h
  <2>1. d \in Nat /\ e \in Nat /\ done = d * h + e
    BY <1>1
  <2> HIDE DEF d, e
  <2>2. d * h \in Nat
    BY <1>1, <2>1
  <2> QED BY <2>1, <2>2, <1>1
<1> HIDE DEF d, h, r
<1>3. ASSUME NEW j \in 1 .. d
      PROVE  /\ out[j * h] = SumOf(b(j), iter)[h]
             /\ j \in 0 .. r - 1 /\ iter >= 1
  <2> DEFINE p == j * h
             i == j - 1
  <2>1. p \in 1 .. done
    <3>1. j * h <= d * h /\ j * h >= 1 * h /\ j * h \in Nat /\ d * h \in Nat
      BY <1>1, <1>2
    <3> QED BY <1>1, <1>2, <3>1
  <2>2. iter >= 1 /\ len <= (r - 1) * h
    BY <1>1, <2>1
  <2>3. j \in 0 .. r - 1
    <3>1. CASE j > r - 1
      <4>1. j * h >= r * h /\ r * h = (r - 1) * h + h /\ r * h \in Nat /\ (r - 1) * h \in Nat
        BY <1>1, <3>1
      <4>2. p <= len
        BY <1>1, <2>1
      <4> DEFINE y == r * h
                 z == (r - 1) * h
      <4>3. p >= y /\ y = z + h /\ y \in Nat /\ z \in Nat /\ len <= z
        BY <2>2, <4>1
      <4> HIDE DEF p, y, z
      <4> QED BY <1>1, <2>1, <4>2, <4>3
    <3> QED BY <3>1, <1>1
  <2>4. i \in Nat /\ h \in 1 .. h /\ p = i * h + h /\ i + 1 = j
    <3>1. (j - 1) * h = j * h - h /\ j * h \in Nat
      BY <1>1
    <3> QED BY <1>1, <3>1
  <2> HIDE DEF p, i
  <2>5. out[p] = SumByte(seed, iter, p)
    <3> DEFINE e(q) == IF q <= done THEN SumByte(seed, iter, q) ELSE P!Stale[q]
    <3>1. out = [q \in 1 .. P!BufSize |-> e(q)]
      BY Zenon DEF PInv, Summed
    <3>2. p \in 1 .. P!BufSize /\ p <= done
      BY <1>1, <2>1
    <3>3. e(p) = SumByte(seed, iter, p)
      BY <3>2
    <3> HIDE DEF e
    <3> QED BY <3>1, <3>2, <3>3
  <2>6. SumByte(seed, iter, p) = SumOf(Base(seed, i + 1), iter)[h]
    <3>1. PbkdfLen \in Nat \ {0} /\ h \in 1 .. PbkdfLen /\ p = i * PbkdfLen + h
      BY <1>1, <2>4 DEF h
    <3> QED BY <2>4, <3>1, SumByteExact
  <2>7. out[p] = SumOf(b(j), iter)[h]
    BY <2>4, <2>5, <2>6
  <2> QED BY <2>2, <2>3, <2>7 DEF p
<1>4. ASSUME NEW j \in 1 .. d, NEW k \in 1 .. d, j # k
      PROVE  SumOf(b(j), iter)[h] # SumOf(b(k), iter)[h]
  <2>1. b(j) # b(k)
    BY <1>1, <1>3, <1>4, BasesDiffer DEF r
  <2>2. NoMac(h, b(j))
    BY <1>1, BaseString DEF h
  <2> DEFINE x == b(j)
             y == b(k)
             e == <<"hmac", x, h>>
  <2>3. h \in 1 .. h /\ h = PbkdfLen /\ iter >= 1
    BY <1>1, <1>3 DEF h
  <2>4. ASSUME NEW z
        PROVE  SumOf(z, iter)[h] = UNION {Link(h, z, m)[h] : m \in 1 .. iter}
    BY <2>3 DEF SumOf
  <2> HIDE DEF b, x, y
  <2>5. e \in SumOf(x, iter)[h]
    <3> DEFINE o == 0
    <3>1. o \in Nat
      OBVIOUS
    <3> HIDE DEF o
    <3>2. Link(h, x, o + 1)[h] = {<<"hmac", Link(h, x, o), h>>}
      BY <1>1, <2>3, <3>1, LinkByte
    <3>3. Link(h, x, 0) = x
      BY LinkStep
    <3>4. o = 0 /\ o + 1 = 1 /\ 1 \in 1 .. iter
      BY <1>1, <2>3 DEF o
    <3>5. e \in Link(h, x, 1)[h]
      BY <3>2, <3>3, <3>4
    <3> HIDE DEF e
    <3> QED BY <2>4, <3>4, <3>5
  <2>6. ASSUME e \in SumOf(y, iter)[h]
        PROVE  FALSE
    <3>1. PICK m \in 1 .. iter : e \in Link(h, y, m)[h]
      BY <2>4, <2>6
    <3> DEFINE n == m - 1
    <3>2. n \in Nat /\ n + 1 = m
      OBVIOUS
    <3> HIDE DEF n
    <3>3. Link(h, y, n + 1)[h] = {<<"hmac", Link(h, y, n), h>>}
      BY <1>1, <2>3, <3>2, LinkByte
    <3> DEFINE w == Link(h, y, n)
    <3>4. e = <<"hmac", w, h>>
      BY <3>1, <3>2, <3>3
    <3>5. x = w
      <4> HIDE DEF w
      <4> QED BY <3>4
    <3>6. CASE n = 0
      <4>1. Link(h, y, 0) = y
        BY LinkStep
      <4> QED BY <2>1, <3>5, <3>6, <4>1 DEF x, y
    <3>7. CASE n # 0
      <4> DEFINE i == n - 1
      <4>1. i \in Nat /\ i + 1 = n
        BY <3>2, <3>7
      <4> HIDE DEF i
      <4>2. Link(h, y, i + 1) = Mac(h, Link(h, y, i))
        BY <4>1, LinkStep
      <4>3. x = Mac(h, Link(h, y, i))
        BY <3>5, <4>1, <4>2
      <4> QED BY <2>2, <4>3 DEF NoMac, x
    <3> QED BY <3>6, <3>7
  <2>7. SumOf(x, iter)[h] # SumOf(y, iter)[h]
    <3> HIDE DEF e
    <3> QED BY <2>5, <2>6
  <2> QED BY <2>7 DEF x, y
<1>5. ASSUME NEW j \in 1 .. d, NEW k \in 1 .. d, j # k
      PROVE  out[j * h] # out[k * h]
  <2> HIDE DEF b
  <2> QED BY <1>3, <1>4, <1>5
<1> QED BY <1>5, Zenon DEF P!BlocksDiffer, d, h
-----------------------------------------------------------------------------
(***************************************************************************)
(* The label of a TLS 1.3 secret.                                          *)
(***************************************************************************)
\* The first parts of a string can be told from the rest if they have the same
\* length.
LEMMA CutUnique ==
    ASSUME NEW S, NEW s \in Seq(S), NEW t \in Seq(S), NEW u \in Seq(S), NEW v \in Seq(S),
           Len(s) = Len(u), s \o t = u \o v
    PROVE  s = u /\ t = v
<1>1. String(s) /\ String(t) /\ String(u) /\ String(v)
  BY StringOf
<1>2. Cut(s, t, u, v)
  BY <1>1, Zenon DEF Cut
<1> QED BY <1>2, StringCut

\* Strings put together, by a name that the provers do not look behind.
Cat(p, q) == p \o q

\* Putting together stays in the set, in whatever order.
LEMMA CatProperties ==
    ASSUME NEW S
    PROVE  \A p, q, z \in Seq(S) :
              Cat(p, q) \in Seq(S) /\ Cat(Cat(p, q), z) = Cat(p, Cat(q, z))
<1> TAKE p, q, z \in Seq(S)
<1>1. p \o q \in Seq(S)
  BY ConcatProperties
<1>2. (p \o q) \o z = p \o (q \o z)
  BY ConcatAssociative
<1> QED BY <1>1, <1>2 DEF Cat

\* Six parts put together from the front and from the back.
FromFront(s, t, u, v, w, x) == Cat(Cat(Cat(Cat(Cat(s, t), u), v), w), x)

\* The same from the back.
FromBack(s, t, u, v, w, x) == Cat(s, Cat(t, Cat(u, Cat(v, Cat(w, x)))))

\* Both ways give the same string.
LEMMA SixParts ==
    ASSUME NEW S, NEW s \in Seq(S), NEW t \in Seq(S), NEW u \in Seq(S),
           NEW v \in Seq(S), NEW w \in Seq(S), NEW x \in Seq(S)
    PROVE  FromFront(s, t, u, v, w, x) = FromBack(s, t, u, v, w, x)
<1> DEFINE Q == Seq(S)
           st == Cat(s, t)
           stu == Cat(st, u)
           stuv == Cat(stu, v)
           wx == Cat(w, x)
           vwx == Cat(v, wx)
           uvwx == Cat(u, vwx)
<1>1. \A p, q, z \in Q : Cat(p, q) \in Q /\ Cat(Cat(p, q), z) = Cat(p, Cat(q, z))
  BY CatProperties
<1>2. s \in Q /\ t \in Q /\ u \in Q /\ v \in Q /\ w \in Q /\ x \in Q
  OBVIOUS
<1> HIDE DEF Q
<1>3. st \in Q /\ stu \in Q /\ stuv \in Q /\ wx \in Q /\ vwx \in Q /\ uvwx \in Q
  BY <1>1, <1>2
<1>4. Cat(Cat(stuv, w), x) = Cat(stuv, wx) /\ Cat(stuv, wx) = Cat(stu, vwx)
  BY <1>1, <1>2, <1>3
<1>5. Cat(stu, vwx) = Cat(st, uvwx) /\ Cat(st, uvwx) = Cat(s, Cat(t, uvwx))
  BY <1>1, <1>2, <1>3
<1> QED BY <1>4, <1>5 DEF FromFront, FromBack

\* Two bytes hold a number below the square of the radix.
LEMMA TwoBytes ==
    ASSUME L!SizeAssumption, NEW v \in Nat, NEW w \in Nat,
           v < ByteRadix * ByteRadix, w < ByteRadix * ByteRadix, L!put_be16(v) = L!put_be16(w)
    PROVE  v = w
<1> DEFINE r == ByteRadix
<1>1. r \in Nat \ {0, 1}
  BY DEF L!SizeAssumption
<1>2. ASSUME NEW x \in Nat, x < r * r
      PROVE  /\ x \div r \in 0 .. r - 1 /\ x % r \in 0 .. r - 1
             /\ x = (x \div r) * r + (x % r) /\ (x \div r) % r = x \div r
  <2> DEFINE q == x \div r
  <2> HIDE DEF r
  <2>1. q \in Nat /\ x % r \in 0 .. r - 1 /\ x = q * r + (x % r)
    BY <1>1
  <2> HIDE DEF q
  <2>2. CASE q >= r
    <3>1. q * r >= r * r
      BY <1>1, <2>1, <2>2
    <3>2. q * r \in Nat /\ r * r \in Nat
      BY <1>1, <2>1
    <3> QED BY <1>1, <1>2, <2>1, <3>1, <3>2
  <2>3. CASE q < r
    <3>1. q % r = q
      BY <1>1, <2>1, <2>3
    <3> QED BY <1>1, <2>1, <2>3, <3>1 DEF q
  <2> QED BY <1>1, <2>1, <2>2, <2>3
<1>3. (v \div r) % r = (w \div r) % r /\ v % r = w % r
  BY DEF L!put_be16
<1> HIDE DEF r
<1>4. v < r * r /\ w < r * r
  BY DEF r
<1>5. v \div r = w \div r
  BY <1>2, <1>3, <1>4
<1>6. v = (v \div r) * r + (v % r) /\ w = (w \div r) * r + (w % r)
  BY <1>2, <1>4
<1> QED BY <1>3, <1>5, <1>6

\* Two calls that HKDF serves are packed into the same info only if they are the
\* same call: no length can be moved from one field into the next.
LEMMA PackedOnce ==
    ASSUME L!SizeAssumption, NEW c \in L!Calls, NEW d \in L!Calls,
           L!Result(c).ret = 0, L!Result(d).ret = 0, L!Result(c).info = L!Result(d).info
    PROVE  c = d
<1> DEFINE r == ByteRadix
           lc == Len(Prefix) + Len(c.label)
           ld == Len(Prefix) + Len(d.label)
<1>1. /\ r \in Nat \ {0, 1} /\ HashLen \in Nat /\ MaxLabelled \in Nat
      /\ (r - 1) * HashLen < r * r
      /\ Prefix \in Seq(0 .. r - 1) /\ Names \subseteq Seq(0 .. r - 1)
  BY DEF L!SizeAssumption
<1>2. /\ c.len \in Nat /\ c.label \in Seq(Int) /\ c.context \in Seq(Int)
      /\ d.len \in Nat /\ d.label \in Seq(Int) /\ d.context \in Seq(Int)
      /\ Prefix \in Seq(Int)
      /\ c = [len |-> c.len, label |-> c.label, context |-> c.context]
      /\ d = [len |-> d.len, label |-> d.label, context |-> d.context]
  BY <1>1 DEF L!Calls
<1>3. /\ Len(Prefix) \in Nat /\ Len(c.label) \in Nat /\ Len(d.label) \in Nat
      /\ Len(c.context) \in Nat /\ Len(d.context) \in Nat
  BY <1>2, LenProperties
<1>4. /\ L!Packs(c) /\ L!hkdf_expand(c.len, L!Packed(c)) = 0
      /\ L!Packs(d) /\ L!hkdf_expand(d.len, L!Packed(d)) = 0
      /\ L!Packed(c) = L!Packed(d)
  BY DEF L!Result
<1>5. /\ lc < r /\ Len(c.context) < r /\ c.len <= (r - 1) * HashLen
      /\ ld < r /\ Len(d.context) < r /\ d.len <= (r - 1) * HashLen
  <2>1. (r - 1) * HashLen \in Nat
    BY <1>1
  <2> HIDE DEF r
  <2>2. c.len <= (r - 1) * HashLen /\ d.len <= (r - 1) * HashLen
    BY <1>2, <1>4, <2>1 DEF L!hkdf_expand, r
  <2> QED BY <2>2, <1>4 DEF L!Packs, r
<1> DEFINE Rear(x) == <<Len(x.context) % r>> \o x.context
           Label(x) == x.label \o Rear(x)
           Named(x) == Prefix \o Label(x)
           Fields(x) == <<(Len(Prefix) + Len(x.label)) % r>> \o Named(x)
<1>6. ASSUME NEW x \in L!Calls, x.label \in Seq(Int), x.context \in Seq(Int), x.len \in Nat
      PROVE  /\ Rear(x) \in Seq(Int) /\ Label(x) \in Seq(Int) /\ Named(x) \in Seq(Int)
             /\ Fields(x) \in Seq(Int) /\ L!put_be16(x.len) \in Seq(Int)
             /\ <<Len(x.context) % r>> \in Seq(Int)
             /\ <<(Len(Prefix) + Len(x.label)) % r>> \in Seq(Int)
             /\ L!Packed(x) = L!put_be16(x.len) \o Fields(x)
  <2>1. Len(x.context) % r \in Int /\ (Len(Prefix) + Len(x.label)) % r \in Int
    BY <1>1, <1>3, <1>6, LenProperties
  <2>2. L!put_be16(x.len) \in Seq(Int)
    <3>1. (x.len \div r) % r \in Int /\ x.len % r \in Int
      BY <1>1, <1>6
    <3> QED BY <3>1 DEF L!put_be16
  <2> DEFINE p == L!put_be16(x.len)
             m == <<(Len(Prefix) + Len(x.label)) % r>>
             n == <<Len(x.context) % r>>
  <2>3. m \in Seq(Int) /\ n \in Seq(Int)
    BY <2>1
  <2>4. L!Packed(x) = ((((p \o m) \o Prefix) \o x.label) \o n) \o x.context
    BY DEF L!Packed
  <2> HIDE DEF p, m, n
  <2>5. p \in Seq(Int) /\ m \in Seq(Int) /\ n \in Seq(Int) /\ Prefix \in Seq(Int)
    BY <2>2, <2>3, <1>2 DEF p
  <2>6. ((((p \o m) \o Prefix) \o x.label) \o n) \o x.context
          = p \o (m \o (Prefix \o (x.label \o (n \o x.context))))
    <3>1. FromFront(p, m, Prefix, x.label, n, x.context)
            = FromBack(p, m, Prefix, x.label, n, x.context)
      BY <2>5, <1>6, SixParts
    <3> QED BY <3>1 DEF FromFront, FromBack, Cat
  <2> QED BY <2>4, <2>5, <2>6, <1>6, ConcatProperties DEF p, m, n
<1>7. /\ L!Packed(c) = L!put_be16(c.len) \o Fields(c)
      /\ L!Packed(d) = L!put_be16(d.len) \o Fields(d)
  BY <1>2, <1>6
<1> HIDE DEF Fields
<1>8. L!put_be16(c.len) = L!put_be16(d.len) /\ Fields(c) = Fields(d)
  <2> DEFINE p == L!put_be16(c.len)
             q == L!put_be16(d.len)
             x == Fields(c)
             y == Fields(d)
  <2>1. Len(p) = 2 /\ Len(q) = 2
    BY DEF L!put_be16
  <2>2. p \in Seq(Int) /\ q \in Seq(Int) /\ x \in Seq(Int) /\ y \in Seq(Int)
    BY <1>2, <1>6
  <2>3. p \o x = q \o y
    BY <1>4, <1>7
  <2> HIDE DEF p, q, x, y
  <2>4. p = q /\ x = y
    BY <2>1, <2>2, <2>3, CutUnique
  <2> QED BY <2>4 DEF p, q, x, y
<1>9. c.len = d.len
  <2>1. (r - 1) * HashLen \in Nat /\ r * r \in Nat
    BY <1>1
  <2>2. c.len < r * r /\ d.len < r * r
    BY <1>1, <1>2, <1>5, <2>1
  <2> QED BY <1>2, <1>8, <2>2, TwoBytes
<1> HIDE DEF Named
<1>10. lc % r = ld % r /\ Named(c) = Named(d)
  <2> DEFINE p == <<lc % r>>
             q == <<ld % r>>
             x == Named(c)
             y == Named(d)
  <2>1. p \in Seq(Int) /\ q \in Seq(Int) /\ x \in Seq(Int) /\ y \in Seq(Int)
    BY <1>2, <1>6
  <2>2. p \o x = q \o y
    BY <1>8 DEF Fields
  <2>3. Len(p) = 1 /\ Len(q) = 1
    OBVIOUS
  <2> HIDE DEF p, q, x, y
  <2>4. p = q /\ x = y
    BY <2>1, <2>2, <2>3, CutUnique
  <2>5. <<lc % r>> = <<ld % r>>
    BY <2>4 DEF p, q
  <2> QED BY <2>4, <2>5 DEF x, y
<1>11. Len(c.label) = Len(d.label)
  <2>1. lc \in 0 .. r - 1 /\ ld \in 0 .. r - 1
    BY <1>1, <1>3, <1>5
  <2>2. lc % r = lc /\ ld % r = ld
    <3> HIDE DEF lc, ld, r
    <3> QED BY <1>1, <2>1
  <2>3. lc = ld
    BY <1>10, <2>2
  <2> QED BY <2>3, <1>3
<1> HIDE DEF Label
<1>12. Label(c) = Label(d)
  BY <1>2, <1>6, <1>10, CutUnique DEF Named
<1> HIDE DEF Rear
<1>13. c.label = d.label /\ Rear(c) = Rear(d)
  BY <1>2, <1>6, <1>11, <1>12, CutUnique DEF Label
<1>14. c.context = d.context
  <2> DEFINE p == <<Len(c.context) % r>>
             q == <<Len(d.context) % r>>
             x == c.context
             y == d.context
  <2>1. p \in Seq(Int) /\ q \in Seq(Int) /\ x \in Seq(Int) /\ y \in Seq(Int)
    BY <1>2, <1>6
  <2>2. p \o x = q \o y
    BY <1>13 DEF Rear
  <2>3. Len(p) = 1 /\ Len(q) = 1
    OBVIOUS
  <2> HIDE DEF p, q, x, y
  <2>4. x = y
    BY <2>1, <2>2, <2>3, CutUnique
  <2> QED BY <2>4 DEF x, y
<1> QED BY <1>2, <1>9, <1>13, <1>14

\* What is packed is as long as the check says.
LEMMA PackedLength ==
    ASSUME L!SizeAssumption, NEW c \in L!Calls
    PROVE  Len(L!Packed(c)) = 2 + 1 + (Len(Prefix) + Len(c.label)) + 1 + Len(c.context)
<1> DEFINE r == ByteRadix
           p == L!put_be16(c.len)
           m == << (Len(Prefix) + Len(c.label)) % r >>
           n == << Len(c.context) % r >>
           x == c.label
           y == c.context
           z == Prefix
<1>1. String(x) /\ String(y) /\ String(z)
  <2>1. x \in Seq(0 .. r - 1) /\ y \in Seq(0 .. r - 1) /\ z \in Seq(0 .. r - 1)
    BY DEF L!SizeAssumption, L!Calls
  <2> HIDE DEF r, x, y, z
  <2> QED BY <2>1, StringOf
<1>2. String(p) /\ Len(p) = 2
  <2> DEFINE v == (c.len \div r) % r
             w == c.len % r
  <2>1. p = << v, w >>
    BY Zenon DEF L!put_be16
  <2> HIDE DEF v, w, p
  <2>2. << v, w >> \in Seq({v, w}) /\ Len(<< v, w >>) = 2
    OBVIOUS
  <2> QED BY <2>1, <2>2, StringOf
<1>3. String(m) /\ Len(m) = 1 /\ String(n) /\ Len(n) = 1
  <2> DEFINE v == (Len(Prefix) + Len(c.label)) % r
             w == Len(c.context) % r
  <2> HIDE DEF v, w
  <2>1. << v >> \in Seq({v}) /\ Len(<< v >>) = 1 /\ << w >> \in Seq({w}) /\ Len(<< w >>) = 1
    OBVIOUS
  <2>2. String(<< v >>) /\ String(<< w >>)
    BY <2>1, StringOf
  <2> QED BY <2>1, <2>2 DEF v, w
<1> DEFINE a == p \o m
           b == a \o z
           d == b \o x
           e == d \o n
           f == e \o y
<1>4. L!Packed(c) = f
  BY Zenon DEF L!Packed
<1> HIDE DEF p, m, n, x, y, z
<1>5. Joins(p, m, a)
  BY <1>2, <1>3, StringCat, Zenon
<1> HIDE DEF a
<1>6. Joins(a, z, b)
  <2>1. String(a)
    BY <1>5, Zenon DEF Joins
  <2> QED BY <1>1, <2>1, StringCat, Zenon
<1> HIDE DEF b
<1>7. Joins(b, x, d)
  <2>1. String(b)
    BY <1>6, Zenon DEF Joins
  <2> QED BY <1>1, <2>1, StringCat, Zenon
<1> HIDE DEF d
<1>8. Joins(d, n, e)
  <2>1. String(d)
    BY <1>7, Zenon DEF Joins
  <2> QED BY <1>3, <2>1, StringCat, Zenon
<1> HIDE DEF e
<1>9. Joins(e, y, f)
  <2>1. String(e)
    BY <1>8, Zenon DEF Joins
  <2> QED BY <1>1, <2>1, StringCat, Zenon
<1> HIDE DEF f
<1>10. Len(f) = 2 + 1 + (Len(z) + Len(x)) + 1 + Len(y)
  BY <1>2, <1>3, <1>5, <1>6, <1>7, <1>8, <1>9 DEF Joins
<1> QED BY <1>4, <1>10 DEF x, y, z

\* The inductive invariant: both results are those of the calls they stand for.
LabelInv ==
    /\ call \in L!Calls /\ other.call \in L!Calls
    /\ ret = L!Result(call).ret /\ info = L!Result(call).info
    /\ other.ret = L!Result(other.call).ret /\ other.info = L!Result(other.call).info

\* The invariant holds at the start.
LEMMA LabelInit ==
    ASSUME L!Init
    PROVE  LabelInv
BY DEF L!Init, LabelInv

\* Every step keeps it.
LEMMA LabelStep ==
    ASSUME LabelInv, L!Next
    PROVE  LabelInv'
<1>1. ASSUME NEW c \in L!Calls, L!gost_tls13_hkdf_expand_label(c) PROVE LabelInv'
  BY <1>1 DEF L!gost_tls13_hkdf_expand_label, LabelInv
<1>2. CASE L!Remember
  BY <1>2 DEF L!Remember, LabelInv
<1> QED BY <1>1, <1>2 DEF L!Next

\* What the invariant says of the properties.
LEMMA LabelTypes ==
    ASSUME L!SizeAssumption, LabelInv
    PROVE  L!TypeOK
<1>1. ret \in {0, -1}
  BY DEF LabelInv, L!Result, L!hkdf_expand
<1>2. Len(info) <= LabelBuf
  <2>1. CASE L!Packs(call)
    <3>1. info = L!Packed(call)
      BY <2>1 DEF LabelInv, L!Result
    <3>2. 2 + 1 + (Len(Prefix) + Len(call.label)) + 1 + Len(call.context) <= LabelBuf
      BY <2>1, Zenon DEF L!Packs
    <3>3. Len(L!Packed(call)) = 2 + 1 + (Len(Prefix) + Len(call.label)) + 1 + Len(call.context)
      BY PackedLength DEF LabelInv
    <3> QED BY <3>1, <3>2, <3>3, Zenon
  <2>2. CASE ~L!Packs(call)
    <3>1. info = <<>>
      BY <2>2 DEF LabelInv, L!Result
    <3> QED BY <3>1 DEF L!SizeAssumption
  <2> QED BY <2>1, <2>2
<1> QED BY <1>1, <1>2 DEF LabelInv, L!TypeOK

\* Two calls with the same info are the same call.
LEMMA LabelsSeparate ==
    ASSUME L!SizeAssumption, LabelInv
    PROVE  L!LabelSeparates
BY PackedOnce DEF LabelInv, L!LabelSeparates
-----------------------------------------------------------------------------
\* The sizes of a digest.
Sizes == {256, 512}

\* The value of a call.
HmacOf(c) == H!Hmac(c.bits, c.key, c.a, c.b, c.c)

\* The text a call authenticates.
Text(c) == c.a \o c.b \o c.c

\* An exclusive or with the same byte can be undone.
LEMMA XorCancels ==
    ASSUME NEW x, NEW y, NEW z, H!Xor(x, z) = H!Xor(y, z)
    PROVE  x = y
<1>1. \A e : e \in H!Xor(x, z) <=> (e \in x <=> e \notin z)
  BY DEF H!Xor
<1>2. \A e : e \in H!Xor(y, z) <=> (e \in y <=> e \notin z)
  BY DEF H!Xor
<1>3. \A e : e \in x <=> e \in y
  BY <1>1, <1>2
<1> QED BY <1>3

\* What an update does to a context.
LEMMA UpdateAppends ==
    ASSUME NEW bits, NEW fed, NEW data
    PROVE  H!streebog_update([bits |-> bits, fed |-> fed], data) = [bits |-> bits, fed |-> fed \o data]
<1> DEFINE r == [bits |-> bits, fed |-> fed]
<1>1. r.fed = fed /\ [r EXCEPT !.fed = fed \o data] = [bits |-> bits, fed |-> fed \o data]
  <2>1. ASSUME NEW z
        PROVE  r.fed = fed /\ [r EXCEPT !.fed = z] = [bits |-> bits, fed |-> z]
    OBVIOUS
  <2> HIDE DEF r
  <2> QED BY <2>1, Zenon
<1>2. H!streebog_update(r, data) = [r EXCEPT !.fed = r.fed \o data]
  <2> HIDE DEF r
  <2> QED BY DEF H!streebog_update
<1> QED BY <1>1, <1>2, Zenon

\* A digest is a string of its size, and the digest of one context only.
LEMMA DigestType ==
    ASSUME H!SizeAssumption, NEW bits \in Sizes, NEW fed
    PROVE  /\ H!H(bits, fed) = H!streebog_final([bits |-> bits, fed |-> fed])
           /\ Len(H!H(bits, fed)) = DigestSize[bits] /\ DigestSize[bits] \in Nat \ {0}
           /\ H!H(bits, fed) = [i \in 1 .. DigestSize[bits] |->
                                 {<<"digest", [bits |-> bits, fed |-> fed], i>>}]
<1>1. DigestSize[bits] \in Nat \ {0}
  BY DEF H!SizeAssumption, Sizes
<1>2. H!H(bits, fed) = [i \in 1 .. DigestSize[bits] |->
                         {<<"digest", [bits |-> bits, fed |-> fed], i>>}]
  BY DEF H!H, H!Atom
<1>3. H!streebog_final([bits |-> bits, fed |-> fed])
        = [i \in 1 .. DigestSize[bits] |-> {<<"digest", [bits |-> bits, fed |-> fed], i>>}]
  BY DEF H!streebog_final, H!BytesOf, H!Atom
<1> QED BY <1>1, <1>2, <1>3

\* Two contexts do not have the same digest.
LEMMA DigestInjective ==
    ASSUME H!SizeAssumption, NEW b \in Sizes, NEW c \in Sizes, NEW d, NEW e, H!H(b,
    d) = H!H(c, e)
    PROVE  b = c /\ d = e
<1> DEFINE x == [bits |-> b, fed |-> d]
           y == [bits |-> c, fed |-> e]
<1>1. H!H(b, d) = [i \in 1 .. DigestSize[b] |-> {<<"digest", x, i>>}]
  BY DigestType
<1>2. H!H(c, e) = [i \in 1 .. DigestSize[c] |-> {<<"digest", y, i>>}]
  BY DigestType
<1>3. 1 \in 1 .. DigestSize[b] /\ 1 \in 1 .. DigestSize[c]
  BY DEF H!SizeAssumption, Sizes
<1>4. x.bits = b /\ x.fed = d /\ y.bits = c /\ y.fed = e
  OBVIOUS
<1> HIDE DEF x, y
<1>5. H!H(b, d)[1] = {<<"digest", x, 1>>} /\ H!H(c, e)[1] = {<<"digest", y, 1>>}
  BY <1>1, <1>2, <1>3
<1>6. x = y
  <2>1. {<<"digest", x, 1>>} = {<<"digest", y, 1>>}
    BY <1>5
  <2>2. <<"digest", x, 1>> = <<"digest", y, 1>>
    BY <2>1
  <2> QED BY <2>2
<1> QED BY <1>4, <1>6

-----------------------------------------------------------------------------
\* The key, or its digest if it does not fit a block.
ShortKey(bits, key) == IF Len(key) > BlockSize THEN H!H(bits, key) ELSE key

\* The key block is the short key, filled up with zeros.
LEMMA KeyBlockExact ==
    ASSUME H!SizeAssumption, NEW bits \in Sizes, NEW key \in HmacKeys
    PROVE  H!KeyBlock(bits, key) =
              [i \in 1 .. BlockSize |->
                  IF i <= Len(ShortKey(bits, key)) THEN ShortKey(bits, key)[i] ELSE H!Zero]
<1> DEFINE k == ShortKey(bits, key)
<1>1. H!streebog(bits, key) = H!H(bits, key)
  <2>1. H!streebog_init(bits) = [bits |-> bits, fed |-> <<>>]
    BY DEF H!streebog_init
  <2>2. H!streebog_update(H!streebog_init(bits), key) = [bits |-> bits, fed |-> <<>> \o key]
    BY <2>1, UpdateAppends
  <2>3. <<>> \o key = key
    BY ConcatEmptySeq DEF H!SizeAssumption
  <2>4. H!streebog(bits, key) = H!streebog_final([bits |-> bits, fed |-> key])
    BY <2>2, <2>3, Zenon DEF H!streebog
  <2>5. H!H(bits, key) = H!streebog_final([bits |-> bits, fed |-> key])
    BY DigestType
  <2> QED BY <2>4, <2>5, Zenon
<1>2. H!KeyBlock(bits, key) = H!Overwrite(H!Zeros(BlockSize), k)
  BY <1>1, Zenon DEF H!KeyBlock, ShortKey
<1> HIDE DEF k
<1>3. BlockSize \in Nat /\ H!Zeros(BlockSize) = [i \in 1 .. BlockSize |-> H!Zero]
  BY DEF H!Zeros, H!SizeAssumption
<1>4. Len(H!Zeros(BlockSize)) = BlockSize
  BY <1>3
<1>5. H!KeyBlock(bits, key) = [i \in 1 .. BlockSize |->
                                IF i <= Len(k) THEN k[i] ELSE H!Zeros(BlockSize)[i]]
  BY <1>2, <1>4, Zenon DEF H!Overwrite
<1>6. \A i \in 1 .. BlockSize : H!Zeros(BlockSize)[i] = H!Zero
  BY <1>3
<1>7. H!KeyBlock(bits, key) = [i \in 1 .. BlockSize |-> IF i <= Len(k) THEN k[i] ELSE H!Zero]
  BY <1>5, <1>6
<1> QED BY <1>7, Zenon DEF k

\* A key block is a block.
LEMMA KeyBlockLen ==
    ASSUME H!SizeAssumption, NEW bits \in Sizes, NEW key \in HmacKeys
    PROVE  Len(H!KeyBlock(bits, key)) = BlockSize /\ DOMAIN H!KeyBlock(bits, key) = 1 .. BlockSize
<1>1. BlockSize \in Nat
  BY DEF H!SizeAssumption
<1> DEFINE e(i) == IF i <= Len(ShortKey(bits, key)) THEN ShortKey(bits, key)[i] ELSE H!Zero
<1>2. H!KeyBlock(bits, key) = [i \in 1 .. BlockSize |-> e(i)]
  BY KeyBlockExact
<1> HIDE DEF e
<1> QED BY <1>1, <1>2

\* Putting the mask on x is an exclusive or with every byte of a block.
MaskedTo(x, mask) ==
    H!Masked(x, mask) = [i \in 1 .. BlockSize |-> H!Xor(x[i], {H!Atom("const", mask, 0)})]

\* A masked key block is as long as a block, and tells the block.
LEMMA MaskedExact ==
    ASSUME H!SizeAssumption, NEW bits \in Sizes, NEW key \in HmacKeys, NEW mask
    PROVE  MaskedTo(H!KeyBlock(bits, key), mask)
<1> DEFINE k == H!KeyBlock(bits, key)
           e(i) == H!Xor(k[i], {H!Atom("const", mask, 0)})
<1>1. BlockSize \in Nat /\ Len(k) = BlockSize
  BY KeyBlockLen DEF H!SizeAssumption
<1>2. H!Masked(k, mask) = [i \in 1 .. BlockSize |-> e(i)]
  BY <1>1, Zenon DEF H!Masked
<1> QED BY <1>2, Zenon DEF MaskedTo

\* x and y look alike under the mask.
SameMasked(x, y, mask) == H!Masked(x, mask) = H!Masked(y, mask)

\* A mask hides nothing: blocks that look alike under it are the same.
LEMMA MaskedInjective ==
    ASSUME H!SizeAssumption, NEW b \in Sizes, NEW k \in HmacKeys, NEW c \in Sizes,
    NEW l \in HmacKeys,
           NEW mask, SameMasked(H!KeyBlock(b, k), H!KeyBlock(c, l), mask)
    PROVE  H!KeyBlock(b, k) = H!KeyBlock(c, l)
<1> DEFINE x == H!KeyBlock(b, k)
           y == H!KeyBlock(c, l)
           z == {H!Atom("const", mask, 0)}
<1>1. /\ H!Masked(x, mask) = [i \in 1 .. BlockSize |-> H!Xor(x[i], z)]
      /\ H!Masked(y, mask) = [i \in 1 .. BlockSize |-> H!Xor(y[i], z)]
  <2>1. MaskedTo(x, mask) /\ MaskedTo(y, mask)
    BY MaskedExact
  <2> HIDE DEF x, y
  <2> QED BY <2>1, Zenon DEF MaskedTo
<1>2. \E e : x = [i \in 1 .. BlockSize |-> e[i]]
  <2>1. x = [i \in 1 .. BlockSize |-> x[i]]
    BY KeyBlockExact
  <2> HIDE DEF x
  <2> QED BY <2>1
<1>3. \E e : y = [i \in 1 .. BlockSize |-> e[i]]
  <2>1. y = [i \in 1 .. BlockSize |-> y[i]]
    BY KeyBlockExact
  <2> HIDE DEF y
  <2> QED BY <2>1
<1> HIDE DEF x, y, z
<1>4. ASSUME NEW i \in 1 .. BlockSize
      PROVE  x[i] = y[i]
  <2>1. H!Masked(x, mask)[i] = H!Xor(x[i], z) /\ H!Masked(y, mask)[i] = H!Xor(y[i], z)
    BY <1>1
  <2>2. H!Masked(x, mask) = H!Masked(y, mask)
    BY Zenon DEF x, y, SameMasked
  <2>3. H!Xor(x[i], z) = H!Xor(y[i], z)
    BY <2>1, <2>2
  <2> QED BY <2>3, XorCancels
<1>5. x = y
  BY <1>2, <1>3, <1>4
<1> QED BY <1>5 DEF x, y

-----------------------------------------------------------------------------
\* Masked key blocks and digests are strings.
LEMMA MaskedString ==
    ASSUME H!SizeAssumption, NEW bits \in Sizes, NEW key \in HmacKeys, NEW mask
    PROVE  String(H!Masked(H!KeyBlock(bits, key), mask)) /\ Len(H!Masked(H!KeyBlock(bits, key), mask)) = BlockSize
<1> DEFINE k == H!KeyBlock(bits, key)
           e(i) == H!Xor(k[i], {H!Atom("const", mask, 0)})
           r == H!Masked(k, mask)
<1>1. r = [i \in 1 .. BlockSize |-> e(i)]
  BY MaskedExact, Zenon DEF MaskedTo
<1>2. BlockSize \in Nat
  BY DEF H!SizeAssumption
<1> HIDE DEF e, k, r
<1>3. r = [i \in 1 .. BlockSize |-> r[i]]
  BY <1>1
<1>4. String(r) /\ Len(r) = BlockSize
  BY <1>2, <1>3, StringArray
<1> QED BY <1>4, Zenon DEF r, k

\* A digest is a string.
LEMMA DigestString ==
    ASSUME H!SizeAssumption, NEW bits \in Sizes, NEW fed
    PROVE  String(H!H(bits, fed))
<1> DEFINE r == H!H(bits, fed)
           l == DigestSize[bits]
<1>1. r = [i \in 1 .. l |-> r[i]]
  BY DEF H!H
<1>2. l \in Nat
  BY DEF H!SizeAssumption, Sizes
<1> HIDE DEF r, l
<1>3. String(r)
  BY <1>1, <1>2, StringArray
<1> QED BY <1>3 DEF r

\* So is a text.
LEMMA TextString ==
    ASSUME H!SizeAssumption, NEW a \in Texts
    PROVE  String(a)
<1>1. a \in Seq(H!Bytes)
  BY DEF H!SizeAssumption
<1> QED BY <1>1, StringOf

\* The two passes of HMAC in terms of the strings: H of the outer mask and H of the
\* inner mask and the text.
TwoPasses(bits, key, text) ==
    H!H(bits, H!Masked(H!KeyBlock(bits, key), 92)
                \o H!H(bits, H!Masked(H!KeyBlock(bits, key), 54) \o text))

\* Three parts in a row.
Joined(a, b, c) == (a \o b) \o c

\* What hmac_parts computes is the hash of the outer key block and the hash of the
\* inner key block and the three parts in a row.
LEMMA HmacExact ==
    ASSUME H!SizeAssumption, NEW bits \in Sizes, NEW key \in HmacKeys,
           NEW a \in Texts, NEW b \in Texts, NEW c \in Texts
    PROVE  H!Hmac(bits, key, a, b, c) = TwoPasses(bits, key, Joined(a, b, c))
<1> DEFINE block == H!KeyBlock(bits, key)
           m == H!Masked(block, 54)
           w == H!Masked(block, 92)
           text == (a \o b) \o c
           p == H!Pass(bits, block, 54)
           q == H!Pass(bits, block, 92)
           f == H!streebog_update(H!streebog_update(H!streebog_update(p, a), b), c)
           inner == H!streebog_final(f)
<1>1. String(a) /\ String(b) /\ String(c)
  BY TextString
<1>2. String(m) /\ String(w)
  BY MaskedString
<1>3. p = H!streebog_update([bits |-> bits, fed |-> <<>>], m)
  BY Zenon DEF H!Pass, H!streebog_init
<1>4. q = H!streebog_update([bits |-> bits, fed |-> <<>>], w)
  BY Zenon DEF H!Pass, H!streebog_init
<1>5. H!Hmac(bits, key, a, b, c) = H!streebog_final(H!streebog_update(q, inner))
  BY Zenon DEF H!Hmac
<1> HIDE DEF m, w
<1>6. ((m \o a) \o b) \o c = m \o text
  <2> DEFINE ab == a \o b
  <2>1. String(ab)
    BY <1>1, StringCat, Zenon DEF Joins
  <2>2. (m \o a) \o b = m \o ab
    BY <1>1, <1>2, StringAssociative
  <2> HIDE DEF ab
  <2>3. (m \o ab) \o c = m \o (ab \o c)
    BY <1>1, <1>2, <2>1, StringAssociative
  <2> QED BY <2>2, <2>3, Zenon DEF ab
<1>7. p = [bits |-> bits, fed |-> m]
  <2> DEFINE e == <<>> \o m
  <2>1. H!streebog_update([bits |-> bits, fed |-> <<>>], m) = [bits |-> bits, fed |-> e]
    BY UpdateAppends, Zenon
  <2>2. e = m
    BY <1>2, StringEmpty, Zenon
  <2> HIDE DEF e
  <2> QED BY <1>3, <2>1, <2>2, Zenon
<1>8. q = [bits |-> bits, fed |-> w]
  <2> DEFINE e == <<>> \o w
  <2>1. H!streebog_update([bits |-> bits, fed |-> <<>>], w) = [bits |-> bits, fed |-> e]
    BY UpdateAppends, Zenon
  <2>2. e = w
    BY <1>2, StringEmpty, Zenon
  <2> HIDE DEF e
  <2> QED BY <1>4, <2>1, <2>2, Zenon
<1> HIDE DEF p, q
<1>9. f = [bits |-> bits, fed |-> m \o text]
  <2> DEFINE ma == m \o a
             mab == ma \o b
             mabc == mab \o c
             ctx(d) == [bits |-> bits, fed |-> d]
  <2>1. H!streebog_update(ctx(m), a) = ctx(ma)
    BY UpdateAppends, Zenon
  <2>2. H!streebog_update(ctx(ma), b) = ctx(mab)
    BY UpdateAppends, Zenon
  <2>3. H!streebog_update(ctx(mab), c) = ctx(mabc)
    BY UpdateAppends, Zenon
  <2>4. mabc = m \o text
    BY <1>6, Zenon
  <2>5. p = ctx(m)
    BY <1>7
  <2> DEFINE mtext == m \o text
  <2> HIDE DEF ma, mab, mabc, ctx, mtext
  <2>6. f = ctx(mabc)
    BY <2>1, <2>2, <2>3, <2>5
  <2>7. f = ctx(mtext)
    BY <2>4, <2>6 DEF mtext
  <2> QED BY <2>7, Zenon DEF ctx, mtext
<1> HIDE DEF f, text
<1> DEFINE ctx(d) == [bits |-> bits, fed |-> d]
           mtext == m \o text
           winner == w \o inner
<1>10. ASSUME NEW d
       PROVE  H!streebog_final(ctx(d)) = H!H(bits, d)
  BY DigestType, Zenon
<1>11. H!streebog_update(ctx(w), inner) = ctx(winner)
  BY UpdateAppends, Zenon
<1>12. f = ctx(mtext) /\ q = ctx(w) /\ inner = H!streebog_final(f)
  BY <1>8, <1>9, Zenon
<1> HIDE DEF ctx, mtext, winner, inner
<1>13. inner = H!H(bits, mtext)
  BY <1>10, <1>12
<1>14. H!Hmac(bits, key, a, b, c) = H!H(bits, winner)
  BY <1>5, <1>10, <1>11, <1>12
<1>15. H!Hmac(bits, key, a, b, c) = TwoPasses(bits, key, text)
  BY <1>13, <1>14, Zenon DEF TwoPasses, winner, mtext, m, w, block
<1> QED BY <1>15, Zenon DEF text, Joined

\* HMAC of the parts is that of RFC 2104 of their concatenation.
LEMMA HmacIsReference ==
    ASSUME H!SizeAssumption, NEW bits \in Sizes, NEW key \in HmacKeys,
           NEW a \in Texts, NEW b \in Texts, NEW c \in Texts
    PROVE  H!Hmac(bits, key, a, b, c) = H!Reference(bits, key, Joined(a, b, c))
<1> DEFINE text == Joined(a, b, c)
           k == ShortKey(bits, key)
           masked(mask) == [i \in 1 .. BlockSize |->
              H!Xor(IF i <= Len(k) THEN k[i] ELSE H!Zero, {H!Atom("const", mask, 0)})]
<1>1. ASSUME NEW mask
      PROVE  masked(mask) = H!Masked(H!KeyBlock(bits, key), mask)
  <2> DEFINE x == H!KeyBlock(bits, key)
             z == {H!Atom("const", mask, 0)}
  <2>1. H!Masked(x, mask) = [i \in 1 .. BlockSize |-> H!Xor(x[i], z)]
    BY MaskedExact, Zenon DEF MaskedTo
  <2>2. \A i \in 1 .. BlockSize : x[i] = IF i <= Len(k) THEN k[i] ELSE H!Zero
    BY KeyBlockExact
  <2> HIDE DEF x, z, k
  <2>3. H!Masked(x, mask) = [i \in 1 .. BlockSize |-> H!Xor(IF i <= Len(k) THEN k[i] ELSE H!Zero, z)]
    BY <2>1, <2>2
  <2> QED BY <2>3 DEF x, z
<1>2. H!Reference(bits, key, text) = H!H(bits, masked(92) \o H!H(bits, masked(54) \o text))
  BY Zenon DEF H!Reference, ShortKey
<1>3. H!Hmac(bits, key, a, b, c) = TwoPasses(bits, key, text)
  BY HmacExact
<1> HIDE DEF masked, text
<1>4. /\ masked(92) = H!Masked(H!KeyBlock(bits, key), 92)
      /\ masked(54) = H!Masked(H!KeyBlock(bits, key), 54)
  BY <1>1, Zenon
<1>5. TwoPasses(bits, key, text) = H!H(bits, masked(92) \o H!H(bits, masked(54) \o text))
  BY <1>4, Zenon DEF TwoPasses
<1>6. H!Hmac(bits, key, a, b, c) = H!Reference(bits, key, text)
  BY <1>2, <1>3, <1>5, Zenon
<1> QED BY <1>6, Zenon DEF text

\* The hash of w and of the hash of m and s.
Nested(b, w, m, s) == H!H(b, w \o H!H(b, m \o s))

\* The parts of two nested hashes, of the same lengths.
Alike(w, m, s, v, n, t) ==
    /\ String(w) /\ String(v) /\ String(m) /\ String(n) /\ String(s) /\ String(t)
    /\ Len(w) = Len(v) /\ Len(m) = Len(n)

\* Two such nested hashes are the same only for the same blocks and texts.
LEMMA NestedInjective ==
    ASSUME H!SizeAssumption, NEW b \in Sizes, NEW c \in Sizes,
           NEW w, NEW v, NEW m, NEW n, NEW s, NEW t, Alike(w, m, s, v, n, t),
           Nested(b, w, m, s) = Nested(c, v, n, t)
    PROVE  b = c /\ w = v /\ s = t
<1> DEFINE ms == m \o s
           nt == n \o t
           x == H!H(b, ms)
           y == H!H(c, nt)
           wx == w \o x
           vy == v \o y
<1>1. String(x) /\ String(y)
  BY DigestString
<1>2. H!H(b, wx) = H!H(c, vy)
  BY Zenon DEF Nested
<1>3. b = c /\ wx = vy
  <2> HIDE DEF wx, vy
  <2> QED BY <1>2, DigestInjective
<1>4. Cut(w, x, v, y)
  BY <1>1, <1>3, Zenon DEF Alike, Cut
<1>5. w = v /\ x = y
  <2> HIDE DEF x, y
  <2> QED BY <1>4, StringCut
<1>6. ms = nt
  <2> HIDE DEF ms, nt
  <2> QED BY <1>5, DigestInjective
<1>7. Cut(m, s, n, t)
  BY <1>6, Zenon DEF Alike, Cut
<1>8. s = t
  BY <1>7, StringCut
<1> QED BY <1>3, <1>5, <1>8

\* Two calls with the same result ask for the same.
LEMMA HmacInjective ==
    ASSUME H!SizeAssumption, NEW c \in H!Calls, NEW d \in H!Calls, HmacOf(c) = HmacOf(d)
    PROVE  H!Asked(c) = H!Asked(d)
<1>1. ASSUME NEW e \in H!Calls
      PROVE  e.bits \in Sizes /\ e.key \in HmacKeys /\ e.a \in Texts /\ e.b \in Texts
             /\ e.c \in Texts
  BY DEF H!Calls, Sizes
<1> DEFINE x == H!KeyBlock(c.bits, c.key)
           y == H!KeyBlock(d.bits, d.key)
           w == H!Masked(x, 92)
           v == H!Masked(y, 92)
           m == H!Masked(x, 54)
           n == H!Masked(y, 54)
<1>2. ASSUME NEW e \in H!Calls
      PROVE  HmacOf(e) = TwoPasses(e.bits, e.key, Text(e))
  <2>1. H!Hmac(e.bits, e.key, e.a, e.b, e.c) = TwoPasses(e.bits, e.key, Joined(e.a, e.b, e.c))
    BY <1>1, HmacExact
  <2> QED BY <2>1, Zenon DEF HmacOf, Text, Joined
<1>3. HmacOf(c) = Nested(c.bits, w, m, Text(c)) /\ HmacOf(d) = Nested(d.bits, v, n, Text(d))
  BY <1>2, Zenon DEF TwoPasses, Nested
<1>4. String(w) /\ String(m) /\ Len(w) = BlockSize /\ Len(m) = BlockSize
  BY <1>1, MaskedString, Zenon
<1>5. String(v) /\ String(n) /\ Len(v) = BlockSize /\ Len(n) = BlockSize
  BY <1>1, MaskedString, Zenon
<1>6. ASSUME NEW e \in H!Calls
      PROVE  String(Text(e))
  <2>1. String(e.a) /\ String(e.b) /\ String(e.c)
    BY <1>1, TextString, Zenon
  <2> DEFINE ab == e.a \o e.b
  <2>2. String(ab)
    BY <2>1, StringCat, Zenon DEF Joins
  <2> HIDE DEF ab
  <2>3. String(ab \o e.c)
    BY <2>1, <2>2, StringCat, Zenon DEF Joins
  <2> QED BY <2>3, Zenon DEF ab, Text
<1> HIDE DEF w, v, m, n
<1>7. c.bits = d.bits /\ w = v /\ Text(c) = Text(d)
  <2>1. Nested(c.bits, w, m, Text(c)) = Nested(d.bits, v, n, Text(d))
    BY <1>3, Zenon
  <2>2. c.bits \in Sizes /\ d.bits \in Sizes
    BY <1>1, Zenon
  <2>3. Alike(w, m, Text(c), v, n, Text(d))
    BY <1>4, <1>5, <1>6, Zenon DEF Alike
  <2> DEFINE tc == Text(c)
             td == Text(d)
             bc == c.bits
             bd == d.bits
  <2> HIDE DEF tc, td, bc, bd
  <2>4. bc \in Sizes /\ bd \in Sizes /\ Alike(w, m, tc, v, n, td)
        /\ Nested(bc, w, m, tc) = Nested(bd, v, n, td)
    BY <2>1, <2>2, <2>3, Zenon DEF tc, td, bc, bd
  <2>5. bc = bd /\ w = v /\ tc = td
    BY <2>4, NestedInjective
  <2> QED BY <2>5, Zenon DEF tc, td, bc, bd
<1>8. x = y
  <2>1. H!Masked(x, 92) = H!Masked(y, 92)
    BY <1>7, Zenon DEF w, v
  <2> DEFINE bc == c.bits
             bd == d.bits
             kc == c.key
             kd == d.key
  <2>2. bc \in Sizes /\ bd \in Sizes /\ kc \in HmacKeys /\ kd \in HmacKeys
    BY <1>1, Zenon
  <2>3. SameMasked(H!KeyBlock(bc, kc), H!KeyBlock(bd, kd), 92)
    BY <2>1, Zenon DEF SameMasked
  <2> HIDE DEF bc, bd, kc, kd
  <2>4. H!KeyBlock(bc, kc) = H!KeyBlock(bd, kd)
    BY <2>2, <2>3, MaskedInjective
  <2> QED BY <2>4, Zenon DEF bc, bd, kc, kd
<1> QED BY <1>7, <1>8, Zenon DEF H!Asked, Text

-----------------------------------------------------------------------------
\* The inductive invariant: both results are those of calls.
HmacInv ==
    /\ call \in H!Calls
    /\ out = HmacOf(call)
    /\ \E c \in H!Calls : other = [asked |-> H!Asked(c), out |-> HmacOf(c)]

\* The invariant holds at the start.
LEMMA HmacInitInv == H!Init => HmacInv
BY DEF H!Init, HmacInv, HmacOf

\* Every step keeps it.
LEMMA HmacStepInv ==
    ASSUME HmacInv, H!Next
    PROVE  HmacInv'
<1>1. ASSUME NEW c \in H!Calls, H!hmac_parts(c)
      PROVE  HmacInv'
  BY <1>1 DEF H!hmac_parts, HmacInv, HmacOf
<1>2. CASE H!Remember
  BY <1>2 DEF H!Remember, HmacInv
<1> QED BY <1>1, <1>2 DEF H!Next

\* What it says of the three properties.
LEMMA HmacInvType ==
    ASSUME H!SizeAssumption, HmacInv
    PROVE  H!TypeOK
<1>1. call.bits \in Sizes /\ call.key \in HmacKeys
  BY DEF HmacInv, H!Calls, Sizes
<1>2. call.a \in Texts /\ call.b \in Texts /\ call.c \in Texts
  BY DEF HmacInv, H!Calls
<1>3. \E fed : out = H!H(call.bits, fed)
  <2> DEFINE bits == call.bits
             key == call.key
             text == Joined(call.a, call.b, call.c)
  <2>1. H!Hmac(call.bits, call.key, call.a, call.b, call.c) = TwoPasses(bits, key, text)
    BY <1>1, <1>2, HmacExact
  <2>2. out = TwoPasses(bits, key, text)
    BY <2>1, Zenon DEF HmacInv, HmacOf
  <2> QED BY <2>2, Zenon DEF TwoPasses
<1>4. Len(out) = DigestSize[call.bits]
  BY <1>1, <1>3, DigestType, Zenon
<1> QED BY <1>1, <1>4, KeyBlockLen DEF HmacInv, H!TypeOK

\* The value is that of the reference.
LEMMA HmacInvImplements ==
    ASSUME H!SizeAssumption, HmacInv
    PROVE  H!ImplementsHmac
<1>1. call.bits \in Sizes /\ call.key \in HmacKeys
      /\ call.a \in Texts /\ call.b \in Texts /\ call.c \in Texts
  BY DEF HmacInv, H!Calls, Sizes
<1>2. H!Hmac(call.bits, call.key, call.a, call.b, call.c)
         = H!Reference(call.bits, call.key, Joined(call.a, call.b, call.c))
  BY <1>1, HmacIsReference
<1> QED BY <1>2, Zenon DEF HmacInv, HmacOf, H!ImplementsHmac, Joined

\* Two calls with the same value ask for the same.
LEMMA HmacInvUnambiguous ==
    ASSUME H!SizeAssumption, HmacInv
    PROVE  H!Unambiguous
<1>1. PICK c \in H!Calls : other = [asked |-> H!Asked(c), out |-> HmacOf(c)]
  BY DEF HmacInv
<1>2. other.asked = H!Asked(c) /\ other.out = HmacOf(c)
  BY <1>1
<1>3. HmacOf(call) = HmacOf(c) => H!Asked(call) = H!Asked(c)
  BY HmacInjective DEF HmacInv
<1> QED BY <1>2, <1>3 DEF HmacInv, H!Unambiguous

-----------------------------------------------------------------------------
(***************************************************************************)
(* The keys and nonces of TLS records, for every set of sequence numbers   *)
(* and of ivs: whether two records share a key depends on the bits of      *)
(* their numbers that do not count the records of a key, and no two        *)
(* records share a nonce.                                                  *)
(***************************************************************************)
Trees == {"tls12", "mgm_l", "mgm_s"}

\* Where reversing the bytes moves a bit to:
Moved(b) == 8 * (7 - (b \div 8)) + (b % 8)

\* inside the number, back when done twice, and under the masks of TLS 1.2
\* exactly if the bit is one of the high bits.
LEMMA MovedBit ==
    ASSUME NEW b \in Tls!Bits64
    PROVE  /\ Moved(b) \in Tls!Bits64 /\ Moved(Moved(b)) = b
           /\ Moved(b) \in 0 .. 31 <=> b >= 32
           /\ Moved(b) \in (0 .. 39) \cup (43 .. 47) <=> b >= 19
           /\ Moved(b) \in (0 .. 55) \cup (62 .. 63) <=> b >= 6
<1> DEFINE q == b \div 8
           r == b % 8
<1>1. q \in 0 .. 7 /\ r \in 0 .. 7 /\ b = 8 * q + r
  BY DEF Tls!Bits64
<1> HIDE DEF q, r
<1>2. Moved(b) = 8 * (7 - q) + r
  BY DEF Moved, q, r
<1>3. 7 - q \in 0 .. 7
  BY <1>1
<1>4. Moved(b) \div 8 = 7 - q /\ Moved(b) % 8 = r
  BY <1>1, <1>2, <1>3
<1>5. Moved(Moved(b)) = 8 * (7 - (7 - q)) + r
  BY <1>4 DEF Moved
<1> QED BY <1>1, <1>2, <1>5 DEF Tls!Bits64

\* Masking a number whose bytes are reversed, and reversing them again.
LEMMA MaskReversed ==
    ASSUME NEW s \in SUBSET Tls!Bits64, NEW M
    PROVE  Tls!Reversed(Tls!Reversed(s) \cap M) = {b \in s : Moved(b) \in M}
<1>1. \A x : Tls!Reversed(x) = {Moved(b) : b \in x}
  BY DEF Tls!Reversed, Moved
<1>2. Tls!Reversed(Tls!Reversed(s) \cap M) = {Moved(c) : c \in {Moved(b) : b \in s} \cap M}
  BY <1>1
<1>3. \A b \in s : Moved(Moved(b)) = b
  BY MovedBit
<1> QED BY <1>2, <1>3

\* The lowest bit that gets into the seed of a level.
Lowest(t, level) ==
    CASE t = "tls12" -> <<32, 19, 6>>[level]
      [] t = "mgm_l" -> <<59, 36, 13>>[level]
      [] t = "mgm_s" -> <<29, 16, 3>>[level]

\* A seed is the high bits of the sequence number.
LEMMA SeedBits ==
    ASSUME NEW t \in Trees, NEW level \in 1 .. 3, NEW s \in SUBSET Tls!Bits64
    PROVE  Tls!Seed(t, level, s) = {b \in s : b >= Lowest(t, level)}
<1>1. level = 1 \/ level = 2 \/ level = 3
  OBVIOUS
<1>2. CASE t = "tls12"
  <2>1. Tls!Seed(t, level, s) = {b \in s : Moved(b) \in Tls!Mask(t, level)}
    BY <1>2, MaskReversed DEF Tls!Seed
  <2>2. ASSUME NEW b \in Tls!Bits64
        PROVE  Moved(b) \in Tls!Mask(t, level) <=> b >= Lowest(t, level)
    BY <1>1, <1>2, MovedBit DEF Tls!Mask, Lowest
  <2> QED BY <2>1, <2>2
<1>3. CASE t # "tls12"
  <2>1. Tls!Seed(t, level, s) = s \cap Tls!Mask(t, level)
    BY <1>3 DEF Tls!Seed
  <2>2. ASSUME NEW b \in Tls!Bits64
        PROVE  b \in Tls!Mask(t, level) <=> b >= Lowest(t, level)
    BY <1>1, <1>3 DEF Tls!Mask, Lowest, Trees, Tls!Bits64
  <2> QED BY <2>1, <2>2
<1> QED BY <1>2, <1>3

\* A key is as good as its three seeds.
LEMMA KeySeeds ==
    ASSUME NEW t, NEW s, NEW r
    PROVE  Tls!RecordKey(t, s) = Tls!RecordKey(t, r) <=>
              /\ Tls!Seed(t, 1, s) = Tls!Seed(t, 1, r)
              /\ Tls!Seed(t, 2, s) = Tls!Seed(t, 2, r)
              /\ Tls!Seed(t, 3, s) = Tls!Seed(t, 3, r)
BY DEF Tls!RecordKey, Tls!gost_kdf_tree_256

\* Two keys are the same exactly if the sequence numbers agree on the bits that
\* get into the seed of the third level: the others see less.
LEMMA KeyBits ==
    ASSUME NEW t \in Trees, NEW s \in SUBSET Tls!Bits64, NEW r \in SUBSET Tls!Bits64
    PROVE  Tls!RecordKey(t, s) = Tls!RecordKey(t, r) <=>
              \A b \in Lowest(t, 3) .. 63 : (b \in s <=> b \in r)
<1> DEFINE high(x, level) == {b \in x : b >= Lowest(t, level)}
<1>1. \A level \in 1 .. 3 : Tls!Seed(t, level, s) = high(s, level) /\ Tls!Seed(t, level, r) = high(r, level)
  BY SeedBits
<1>2. \A level \in 1 .. 3 : Lowest(t, level) \in Tls!Bits64 /\ Lowest(t, 3) <= Lowest(t, level)
  <2>1. ASSUME NEW level \in 1 .. 3
        PROVE  Lowest(t, level) \in Tls!Bits64 /\ Lowest(t, 3) <= Lowest(t, level)
    <3>1. level = 1 \/ level = 2 \/ level = 3
      OBVIOUS
    <3> QED BY <3>1 DEF Lowest, Trees, Tls!Bits64
  <2> QED BY <2>1
<1>3. ASSUME \A b \in Lowest(t, 3) .. 63 : (b \in s <=> b \in r),
             NEW level \in 1 .. 3
      PROVE  high(s, level) = high(r, level)
  <2>1. Lowest(t, level) \in Tls!Bits64 /\ Lowest(t, 3) <= Lowest(t, level)
    BY <1>2
  <2>2. \A b \in Tls!Bits64 : b >= Lowest(t, level) => b \in Lowest(t, 3) .. 63
    BY <2>1, <1>2 DEF Tls!Bits64
  <2> QED BY <2>2, <1>3
<1>4. ASSUME high(s, 3) = high(r, 3), NEW b \in Lowest(t, 3) .. 63
      PROVE  b \in s <=> b \in r
  <2>1. b >= Lowest(t, 3)
    BY <1>2 DEF Tls!Bits64
  <2> QED BY <2>1, <1>4
<1>5. Tls!RecordKey(t, s) = Tls!RecordKey(t, r) <=> \A level \in 1 .. 3 : high(s, level) = high(r, level)
  <2>1. \A level \in 1 .. 3 : level = 1 \/ level = 2 \/ level = 3
    OBVIOUS
  <2> HIDE DEF high
  <2> QED BY <1>1, <2>1, KeySeeds
<1> HIDE DEF high
<1> QED BY <1>3, <1>4, <1>5

\* Adding two numbers to the same iv gives two nonces.
LEMMA NonceBits ==
    ASSUME NEW v \in SUBSET (0 .. 127), NEW s \in SUBSET Tls!Bits64, NEW r \in SUBSET Tls!Bits64,
           Tls!gost_tls13_make_nonce(v, s) = Tls!gost_tls13_make_nonce(v, r)
    PROVE  s = r
<1>1. \A b \in Tls!Bits64 : b # 127
  BY DEF Tls!Bits64
<1> QED BY <1>1 DEF Tls!gost_tls13_make_nonce, Tls!Xor

\* The inductive invariant: the keys and the nonces of both records are those
\* the library derives from their numbers.
Derived ==
    /\ fn \in Trees /\ seed \in Ivs
    /\ input \in Seqs /\ other.seq \in Seqs
    /\ chain = Tls!RecordKey(fn, input) /\ other.key = Tls!RecordKey(fn, other.seq)
    /\ mac = Tls!gost_tls13_make_nonce(seed, input)
    /\ other.nonce = Tls!gost_tls13_make_nonce(seed, other.seq)

\* It holds at the start,
LEMMA DerivedInit == Tls!Init => Derived
BY DEF Tls!Init, Derived, Trees

\* after every record and when one is remembered.
LEMMA DerivedStep ==
    ASSUME Derived, Tls!Next
    PROVE  Derived'
<1>1. CASE \E s \in Seqs : Tls!Record(s)
  BY <1>1 DEF Derived, Tls!Record
<1>2. CASE Tls!Remember
  BY <1>2 DEF Derived, Tls!Remember
<1> QED BY <1>1, <1>2 DEF Tls!Next

\* The sum of an iv and of a sequence number fits 16 bytes, and its first bit
\* is clear.
LEMMA DerivedType ==
    ASSUME Tls!NumberAssumption, Derived
    PROVE  Tls!TypeOK
<1>1. seed \in SUBSET (0 .. 127) /\ input \in SUBSET (0 .. 63)
  BY DEF Tls!NumberAssumption, Derived, Tls!Bits64
<1>2. mac = ((seed \ input) \cup (input \ seed)) \ {127}
  BY DEF Derived, Tls!gost_tls13_make_nonce, Tls!Xor
<1>3. \A b \in 0 .. 63 : b \in 0 .. 127
  OBVIOUS
<1>4. \A b \in 0 .. 127 : b # 127 => b \in 0 .. 126
  OBVIOUS
<1>5. mac \in SUBSET (0 .. 126)
  BY <1>1, <1>2, <1>3, <1>4
<1> QED BY <1>5 DEF Derived, Tls!TypeOK, Trees

\* A key serves the records whose numbers agree above the section's bits, and
\* no others, in each of the three trees.
LEMMA DerivedKeys ==
    ASSUME Tls!NumberAssumption, Derived
    PROVE  Tls!KeyPerSection
<1>1. chain = other.key <=>
        \A b \in Lowest(fn, 3) .. 63 : (b \in input <=> b \in other.seq)
  BY KeyBits DEF Tls!NumberAssumption, Derived
<1>2. Tls!SectionBits = Lowest(fn, 3)
  BY DEF Derived, Trees, Tls!SectionBits, Lowest
<1> QED BY <1>1, <1>2 DEF Tls!KeyPerSection

\* The nonces of two records are different, whatever the iv.
LEMMA DerivedNonces ==
    ASSUME Tls!NumberAssumption, Derived
    PROVE  Tls!NonceDiffers
BY NonceBits DEF Tls!NumberAssumption, Derived, Tls!NonceDiffers

-----------------------------------------------------------------------------
(***************************************************************************)
(* The composition: the invariant of the group that is checked.            *)
(***************************************************************************)
Inv ==
    /\ unit \in {"expansion", "pbkdf2", "label", "hmac", "records"}
    /\ unit = "expansion" => KInv
    /\ unit = "pbkdf2" => PInv
    /\ unit = "label" => LabelInv
    /\ unit = "hmac" => HmacInv
    /\ unit = "records" => Derived

\* The assumptions on the constants of every group.
LEMMA Sized ==
    /\ K!SizeAssumption /\ P!SizeAssumption /\ L!SizeAssumption /\ H!SizeAssumption
    /\ Tls!NumberAssumption
BY ConstantsAssumption

\* The invariant holds at the start, whatever the group.
LEMMA InitInv == Init => Inv
<1> SUFFICES ASSUME Init PROVE Inv
  OBVIOUS
<1>1. CASE unit = "expansion" /\ K!Init
  BY <1>1, Sized, KInit DEF Inv
<1>2. CASE unit = "pbkdf2" /\ P!Init
  BY <1>2, Sized, PInit DEF Inv
<1>3. CASE unit = "label" /\ L!Init
  BY <1>3, LabelInit DEF Inv
<1>4. CASE unit = "hmac" /\ H!Init
  BY <1>4, HmacInitInv DEF Inv
<1>5. CASE unit = "records" /\ Tls!Init
  BY <1>5, DerivedInit DEF Inv
<1> QED BY <1>1, <1>2, <1>3, <1>4, <1>5, Zenon DEF Init

\* The steps of the key expansions keep their invariant.
LEMMA KStep ==
    ASSUME K!SizeAssumption, KInv, K!Next
    PROVE  KInv'
<1>1. ASSUME NEW f \in Functions, NEW n \in 0 .. MaxOut, NEW l \in Labels, NEW s \in Seeds,
             K!Call(f, n, l, s)
      PROVE  KInv'
  BY <1>1, KCall
<1>2. CASE \E f \in Functions, n \in 0 .. MaxOut, l \in Labels, s \in Seeds : K!Call(f, n, l, s)
  BY <1>1, <1>2, Zenon
<1>3. CASE K!Turn
  BY <1>3, KTurn
<1>4. CASE K!GiveUp
  BY <1>4, KGiveUp
<1>5. CASE K!Return
  BY <1>5, KReturn
<1> QED BY <1>2, <1>3, <1>4, <1>5, Zenon DEF K!Next, Functions

\* The steps of PBKDF2 keep its invariant.
LEMMA PStep ==
    ASSUME P!SizeAssumption, PInv, P!Next
    PROVE  PInv'
<1>1. ASSUME NEW null \in BOOLEAN, NEW n \in 0 .. MaxOut, NEW s \in Salts, NEW c \in 0 .. MaxIter,
             P!pbkdf2_streebog512(null, n, s, c)
      PROVE  PInv'
  BY <1>1, PCall
<1>2. CASE \E null \in BOOLEAN, n \in 0 .. MaxOut, s \in Salts, c \in 0 .. MaxIter :
              P!pbkdf2_streebog512(null, n, s, c)
  BY <1>1, <1>2, Zenon
<1>3. CASE P!FirstTurn
  BY <1>3, PFirstTurn
<1>4. CASE P!ChainTurn
  BY <1>4, PChainTurn
<1>5. CASE P!EndBlock
  BY <1>5, PEndBlock
<1>6. CASE P!Return
  BY <1>6, PReturn
<1> QED BY <1>2, <1>3, <1>4, <1>5, <1>6, Zenon DEF P!Next

\* A step of a group keeps the invariant of that group, and no other has one.
LEMMA StepInv == Inv /\ Next => Inv'
<1> SUFFICES ASSUME Inv, Next PROVE Inv'
  OBVIOUS
<1>1. CASE ExpansionStep
  <2>1. unit = "expansion" /\ K!Next /\ unit' = unit
    BY <1>1, Zenon DEF ExpansionStep
  <2>2. KInv'
    BY <2>1, Sized, KStep, Zenon DEF Inv
  <2>3. unit' = "expansion"
    BY <2>1
  <2> QED BY <2>2, <2>3 DEF Inv
<1>2. CASE IterationStep
  <2>1. unit = "pbkdf2" /\ P!Next /\ unit' = unit
    BY <1>2, Zenon DEF IterationStep
  <2>2. PInv'
    BY <2>1, Sized, PStep, Zenon DEF Inv
  <2>3. unit' = "pbkdf2"
    BY <2>1
  <2> QED BY <2>2, <2>3 DEF Inv
<1>3. CASE PackingStep
  <2>1. unit = "label" /\ L!Next /\ unit' = unit
    BY <1>3, Zenon DEF PackingStep
  <2>2. LabelInv'
    BY <2>1, LabelStep, Zenon DEF Inv
  <2>3. unit' = "label"
    BY <2>1
  <2> QED BY <2>2, <2>3 DEF Inv
<1>4. CASE HmacStep
  <2>1. unit = "hmac" /\ H!Next /\ unit' = unit
    BY <1>4, Zenon DEF HmacStep
  <2>2. HmacInv'
    BY <2>1, HmacStepInv, Zenon DEF Inv
  <2>3. unit' = "hmac"
    BY <2>1
  <2> QED BY <2>2, <2>3 DEF Inv
<1>5. CASE RecordStep
  <2>1. unit = "records" /\ Tls!Next /\ unit' = unit
    BY <1>5, Zenon DEF RecordStep
  <2>2. Derived'
    BY <2>1, DerivedStep, Zenon DEF Inv
  <2>3. unit' = "records"
    BY <2>1
  <2> QED BY <2>2, <2>3 DEF Inv
<1> QED BY <1>1, <1>2, <1>3, <1>4, <1>5, Zenon DEF Next

\* A step that changes nothing.
LEMMA StutterInv == Inv /\ UNCHANGED vars => Inv'
<1> SUFFICES ASSUME Inv, UNCHANGED vars PROVE Inv'
  OBVIOUS
<1>1. /\ unit' = unit /\ fn' = fn /\ active' = active /\ len' = len /\ label' = label
      /\ seed' = seed /\ done' = done /\ counter' = counter /\ chain' = chain /\ input' = input
      /\ at' = at /\ iter' = iter /\ turn' = turn /\ mac' = mac /\ sum' = sum
      /\ call' = call /\ info' = info /\ other' = other /\ out' = out /\ ret' = ret
  BY DEF vars, expansion, iteration, packing
<1>2. CASE unit = "expansion"
  <2>1. KInv' = KInv
    <3>1. KArguments' = KArguments
      BY <1>1, Zenon DEF KArguments
    <3>2. (\E k \in Nat : Turns(k))' <=> \E k \in Nat : Turns(k)
      BY <1>1, Zenon DEF Turns
    <3>3. K!FailureLeavesOneBlock' <=> K!FailureLeavesOneBlock
      BY <1>1, Zenon DEF K!FailureLeavesOneBlock
    <3>4. KInv' <=> KInv
      BY <1>1, <3>1, <3>2, <3>3 DEF KInv, Filled, K!BufSize, K!Stale, K!BytesOf
    <3> QED BY <3>4 DEF KInv
  <2> QED BY <1>1, <1>2, <2>1 DEF Inv
<1>3. CASE unit = "pbkdf2"
  <2>1. (\E c \in Nat : Blocks(c))' <=> \E c \in Nat : Blocks(c)
    BY <1>1, Zenon DEF Blocks, P!BlockRadix, P!Power, Base, P!Number, P!Atom
  <2>2. PArguments' <=> PArguments
    BY <1>1, Zenon DEF PArguments
  <2>3. PInv' <=> PInv
    BY <1>1, <2>1, <2>2
        DEF PInv, Summed, P!BufSize, P!Stale, P!BytesOf, P!BlockRadix, P!Power
  <2> QED BY <1>1, <1>3, <2>3 DEF Inv
<1>4. CASE unit = "label"
  BY <1>1, <1>4 DEF Inv, LabelInv
<1>5. CASE unit = "hmac"
  BY <1>1, <1>5 DEF Inv, HmacInv
<1>6. CASE unit = "records"
  BY <1>1, <1>6 DEF Inv, Derived
<1> QED BY <1>2, <1>3, <1>4, <1>5, <1>6 DEF Inv

\* The invariant holds in every state.
LEMMA Invariance == Spec => []Inv
<1>1. Inv /\ [Next]_vars => Inv'
  BY StepInv, StutterInv
<1> QED BY InitInv, <1>1, PTL DEF Spec

\* At every turn of every loop, for every hash length, radix and set of strings, the
\* buffer holds as much of the reference output as is done: KDF_TREE, the PRF, HKDF
\* and PBKDF2 return what their standards define, and write nothing behind it.
THEOREM OutputTheorem == Spec => []OutputIsPrefix
<1>1. Inv => OutputIsPrefix
  BY Sized, KTypes, KOutput, PTypes, POutput, LabelTypes, HmacInvType, DerivedType,
    Zenon
    DEF Inv, OutputIsPrefix
<1> QED BY Invariance, <1>1, PTL

\* No two blocks of an output are the same: no counter wraps within a call, and no
\* chain of MACs returns to where it was.
THEOREM BlocksTheorem == Spec => []BlocksDiffer
<1>1. Inv => BlocksDiffer
  BY Sized, KDiffer, PDiffer, Zenon DEF Inv, BlocksDiffer
<1> QED BY Invariance, <1>1, PTL

\* A call of a key expansion that fails leaves at most one block behind, and that
\* only for an info HKDF can use once and not twice.
THEOREM FailureTheorem == Spec => []FailureLeavesOneBlock
<1>1. Inv => FailureLeavesOneBlock
  BY Zenon DEF Inv, KInv, FailureLeavesOneBlock
<1> QED BY Invariance, <1>1, PTL

\* HKDF gets the same info from two calls only if they ask for the same key.
THEOREM LabelTheorem == Spec => []LabelSeparates
<1>1. Inv => LabelSeparates
  BY Sized, LabelsSeparate, Zenon DEF Inv, LabelSeparates
<1> QED BY Invariance, <1>1, PTL

\* hmac_parts computes the HMAC of RFC 2104 for every block size, key and text.
THEOREM HmacTheorem == Spec => []ImplementsHmac
<1>1. Inv => ImplementsHmac
  BY Sized, HmacInvImplements, Zenon DEF Inv, ImplementsHmac
<1> QED BY Invariance, <1>1, PTL

\* Two calls of it return the same value only for the same key block and the same
\* concatenation of the parts.
THEOREM UnambiguousTheorem == Spec => []Unambiguous
<1>1. Inv => Unambiguous
  BY Sized, HmacInvUnambiguous, Zenon DEF Inv, Unambiguous
<1> QED BY Invariance, <1>1, PTL

\* In each of the three trees, for every two sequence numbers, two records have the
\* same key exactly if they are in the same section.
THEOREM KeyTheorem == Spec => []KeyPerSection
<1>1. Inv => KeyPerSection
  BY Sized, DerivedKeys, Zenon DEF Inv, KeyPerSection
<1> QED BY Invariance, <1>1, PTL

\* The nonces of two records are different, whatever the iv.
THEOREM NonceTheorem == Spec => []NonceDiffers
<1>1. Inv => NonceDiffers
  BY Sized, DerivedNonces, Zenon DEF Inv, NonceDiffers
<1> QED BY Invariance, <1>1, PTL
=============================================================================
