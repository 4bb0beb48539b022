--------------------------- MODULE ArithmeticProofs --------------------------
(***************************************************************************)
(* Theorems about the arithmetic of the library: the words of VliWords, of *)
(* any size, and the signatures and the key agreements of Gost3410Tc26,    *)
(* for every curve, every order of its base point and every set of inputs. *)
(*                                                                         *)
(* That the chord and tangent addition of an elliptic curve is a group is  *)
(* what GroupLaw assumes; TLC evaluates it for the curve of the run.       *)
(***************************************************************************)
EXTENDS Gost3410Tc26, Sequences, WellFoundedInduction, TLAPS

CONSTANTS WordBits, NDigits     \* of VliWords
VARIABLES fn, args, loc         \* of VliWords

Vli == INSTANCE VliWords

-----------------------------------------------------------------------------
(***************************************************************************)
(* Numbers.                                                                *)
(***************************************************************************)

\* A set of numbers that is not empty has a least element.
LEMMA LeastNumber ==
    ASSUME NEW T, T \subseteq Nat, T # {}
    PROVE  \E x \in T : \A y \in T : x <= y
<1> DEFINE less == OpToRel(<, Nat)
<1>1. IsWellFoundedOn(less, Nat)
  BY NatLessThanWellFounded
<1>2. \A x, y \in Nat : <<x, y>> \in less <=> x < y
  BY DEF OpToRel
<1> HIDE DEF less
<1>3. PICK x \in T : \A y \in T : <<y, x>> \notin less
  BY <1>1, WFMin
<1>4. ASSUME NEW y \in T PROVE x <= y
  <2>1. x \in Nat /\ y \in Nat
    OBVIOUS
  <2>2. ~ (y < x)
    BY <1>2, <1>3, <2>1
  <2> QED BY <2>1, <2>2
<1> QED BY <1>4

\* Induction up to n, for a set in the place of a predicate.
LEMMA Induction ==
    ASSUME NEW n \in Nat, NEW S, 0 \in S, \A k \in 0 .. n - 1 : k \in S => k + 1 \in S
    PROVE  \A k \in 0 .. n : k \in S
<1> DEFINE T == {k \in 0 .. n : k \notin S}
<1> SUFFICES ASSUME T # {} PROVE FALSE
  OBVIOUS
<1>1. T \subseteq Nat
  OBVIOUS
<1>2. PICK x \in T : \A y \in T : x <= y
  <2> HIDE DEF T
  <2> QED BY <1>1, LeastNumber
<1>3. x \in 1 .. n
  OBVIOUS
<1>4. x - 1 \in 0 .. n - 1 /\ x - 1 \notin T
  BY <1>2, <1>3
<1>5. (x - 1) + 1 \in S
  BY <1>4
<1> QED BY <1>5, <1>3

\* The same without an end.
LEMMA Counting ==
    ASSUME NEW S, 0 \in S, \A k \in Nat : k \in S => k + 1 \in S
    PROVE  \A k \in Nat : k \in S
<1> SUFFICES ASSUME NEW n \in Nat PROVE n \in S
  OBVIOUS
<1>1. \A k \in 0 .. n - 1 : k \in S => k + 1 \in S
  OBVIOUS
<1>2. \A k \in 0 .. n : k \in S
  BY <1>1, Induction
<1> QED BY <1>2

-----------------------------------------------------------------------------
(***************************************************************************)
(* Sums and differences are exact for every size of word and every number  *)
(* of words.  Word, a power of two, is taken as any positive number.       *)
(***************************************************************************)

\* A function that is defined by recursion on 0 .. n: the multiple of the last value
\* and a word.
LEMMA Recursion ==
    ASSUME NEW n \in Nat, NEW W \in Int, NEW word \in [1 .. n -> Int]
    PROVE  \E f \in [0 .. n -> Int] :
              f[0] = 0 /\ \A i \in 1 .. n : f[i] = word[i] + W * f[i - 1]
<1> DEFINE Upto(k) == \E f \in [0 .. k -> Int] :
                         f[0] = 0 /\ \A i \in 1 .. k : f[i] = word[i] + W * f[i - 1]
           T == {k \in 0 .. n : Upto(k)}
<1>1. 0 \in T
  <2> DEFINE f == [i \in 0 .. 0 |-> 0]
  <2>1. f \in [0 .. 0 -> Int] /\ f[0] = 0 /\ \A i \in 1 .. 0 : f[i] = word[i] + W * f[i - 1]
    OBVIOUS
  <2> HIDE DEF f
  <2> QED BY <2>1
<1>2. ASSUME NEW k \in 0 .. n - 1, k \in T
      PROVE  k + 1 \in T
  <2>1. PICK f \in [0 .. k -> Int] :
            f[0] = 0 /\ \A i \in 1 .. k : f[i] = word[i] + W * f[i - 1]
    BY <1>2
  <2> DEFINE top == word[k + 1] + W * f[k]
             g == [i \in 0 .. k + 1 |-> IF i = k + 1 THEN top ELSE f[i]]
  <2>2. top \in Int
    <3>1. word[k + 1] \in Int /\ f[k] \in Int
      OBVIOUS
    <3>2. W * f[k] \in Int
      BY <3>1
    <3> QED BY <3>1, <3>2
  <2> HIDE DEF top
  <2>3. g \in [0 .. k + 1 -> Int] /\ g[0] = 0
    BY <2>1, <2>2
  <2>4. ASSUME NEW i \in 1 .. k + 1
        PROVE  g[i] = word[i] + W * g[i - 1]
    <3>1. CASE i = k + 1
      <4>1. g[i] = top /\ g[i - 1] = f[k] /\ i = k + 1
        BY <3>1
      <4> HIDE DEF g
      <4> QED BY <4>1, Zenon DEF top
    <3>2. CASE i # k + 1
      <4>1. i \in 1 .. k /\ g[i] = f[i] /\ g[i - 1] = f[i - 1]
        BY <3>2
      <4> QED BY <2>1, <4>1
    <3> QED BY <3>1, <3>2
  <2> HIDE DEF g
  <2>5. Upto(k + 1)
    BY <2>3, <2>4
  <2>6. k + 1 \in 0 .. n
    OBVIOUS
  <2> QED BY <2>5, <2>6
<1>3. n \in T
  <2> HIDE DEF T
  <2>1. n \in 0 .. n
    OBVIOUS
  <2> QED BY <1>1, <1>2, <2>1, Induction
<1> QED BY <1>3

\* from[i] is what the words from i on spell.
Spells(from, vli, n) ==
    from[n + 1] = 0 /\ \A i \in 1 .. n : from[i] = vli[i] + Vli!Word * from[i + 1]

\* The definition of ValueOf has the meaning it seems to have.
LEMMA Horner ==
    ASSUME Vli!Word \in Nat \ {0}, NEW n \in Nat, NEW vli, Len(vli) = n,
           \A i \in 1 .. n : vli[i] \in Int
    PROVE  \E from \in [1 .. n + 1 -> Int] :
              Vli!ValueOf(vli) = from[1] /\ Spells(from, vli, n)
<1> DEFINE W == Vli!Word
<1>0. W \in Nat \ {0}
  OBVIOUS
<1> DEFINE word == [i \in 1 .. n |-> vli[n + 1 - i]]
           Scheme(from) == [i \in 1 .. n + 1 |-> IF i > n THEN 0 ELSE vli[i] + W * from[i + 1]]
           value == CHOOSE from : from = Scheme(from)
<1>1. Vli!ValueOf(vli) = value[1]
  BY DEF Vli!ValueOf
<1> HIDE DEF W
<1>2. word \in [1 .. n -> Int] /\ \A i \in 1 .. n : word[i] = vli[n + 1 - i]
  OBVIOUS
<1>3. PICK h \in [0 .. n -> Int] :
          h[0] = 0 /\ \A i \in 1 .. n : h[i] = word[i] + W * h[i - 1]
  <2> HIDE DEF word
  <2>1. W \in Int /\ word \in [1 .. n -> Int]
    BY <1>0, <1>2
  <2> QED BY <2>1, Recursion, Zenon
<1> DEFINE f == [i \in 1 .. n + 1 |-> h[n + 1 - i]]
<1>4. \A i \in 1 .. n : h[i] = vli[n + 1 - i] + W * h[i - 1]
  BY <1>2, <1>3
<1>5. f = Scheme(f)
  <2>1. ASSUME NEW i \in 1 .. n + 1
        PROVE  f[i] = IF i > n THEN 0 ELSE vli[i] + W * f[i + 1]
    <3>1. CASE i > n
      <4>1. i = n + 1 /\ f[i] = h[0] /\ n \in Nat
        BY <3>1
      <4> HIDE DEF f
      <4> QED BY <1>3, <3>1, <4>1
    <3>2. CASE ~(i > n)
      <4>1. /\ n + 1 - i \in 1 .. n /\ n + 1 - (n + 1 - i) = i /\ i + 1 \in 1 .. n + 1
            /\ (n + 1 - i) - 1 = n + 1 - (i + 1)
        BY <3>2
      <4>2. f[i] = h[n + 1 - i] /\ f[i + 1] = h[(n + 1 - i) - 1]
        BY <4>1
      <4> HIDE DEF f
      <4> QED BY <1>4, <3>2, <4>1, <4>2
    <3> QED BY <3>1, <3>2
  <2>2. f = [i \in 1 .. n + 1 |-> f[i]]
    OBVIOUS
  <2> HIDE DEF f
  <2> QED BY <2>1, <2>2
<1>6. value = Scheme(value)
  <2> HIDE DEF f, Scheme
  <2> QED BY <1>5
<1> HIDE DEF value
<1>7. \A i \in 1 .. n + 1 : value[i] = IF i > n THEN 0 ELSE vli[i] + W * value[i + 1]
  BY <1>6
<1>8. \A i \in 1 .. n + 1 : value[i] \in Int
  <2> DEFINE T == {k \in 0 .. n : value[n + 1 - k] \in Int}
  <2>1. 0 \in T
    BY <1>7
  <2>2. ASSUME NEW k \in 0 .. n - 1, k \in T
        PROVE  k + 1 \in T
    <3> DEFINE i == n - k
    <3>1. i \in 1 .. n /\ n + 1 - (k + 1) = i /\ i + 1 = n + 1 - k
      OBVIOUS
    <3>2. value[i + 1] \in Int /\ vli[i] \in Int
      BY <2>2, <3>1
    <3>3. value[i] = vli[i] + W * value[i + 1]
      BY <1>7, <3>1
    <3>4. W * value[i + 1] \in Int
      BY <1>0, <3>2
    <3>5. value[i] \in Int
      BY <3>2, <3>3, <3>4
    <3> QED BY <3>1, <3>5
  <2>3. \A k \in 0 .. n : k \in T
    <3> HIDE DEF T
    <3> QED BY <2>1, <2>2, Induction
  <2> SUFFICES ASSUME NEW i \in 1 .. n + 1
               PROVE  value[i] \in Int
    OBVIOUS
  <2>4. n + 1 - i \in 0 .. n /\ n + 1 - (n + 1 - i) = i
    OBVIOUS
  <2>5. n + 1 - i \in T
    BY <2>3, <2>4
  <2> QED BY <2>4, <2>5
<1>9. value \in [1 .. n + 1 -> Int]
  <2>1. value = [i \in 1 .. n + 1 |-> value[i]]
    BY <1>6
  <2> QED BY <1>8, <2>1
<1>10. value[n + 1] = 0 /\ \A i \in 1 .. n : value[i] = vli[i] + W * value[i + 1]
  BY <1>7
<1> HIDE DEF Scheme, word, f
<1>11. \A i \in 1 .. n : value[i] = vli[i] + Vli!Word * value[i + 1]
  BY <1>10, Zenon DEF W
<1>12. Spells(value, vli, n)
  BY <1>10, <1>11, Zenon DEF Spells
<1> QED BY <1>1, <1>9, <1>12, Zenon

\* A sequence of n words as a function.
LEMMA WordsLength ==
    ASSUME NEW n \in Nat, NEW vli \in [1 .. n -> Int]
    PROVE  vli \in Seq(Int) /\ Len(vli) = n
OBVIOUS

\* One step of it.
LEMMA ChainStep ==
    ASSUME NEW W \in Int, NEW w \in Int, NEW x \in Int, NEW y \in Int,
           NEW l \in Int, NEW r \in Int, NEW over \in Int, NEW in \in Int,
           w + W * over = x + y + in
    PROVE  w + W * (l + r + over) = (x + W * l) + (y + W * r) + in
<1>1. W * (l + r + over) = W * l + W * r + W * over
  OBVIOUS
<1> DEFINE a == W * l
           b == W * r
           d == W * over
<1>2. a \in Int /\ b \in Int /\ d \in Int
  OBVIOUS
<1>3. w + d = x + y + in /\ W * (l + r + over) = a + b + d
  BY <1>1
<1> SUFFICES w + W * (l + r + over) = (x + a) + (y + b) + in
  OBVIOUS
<1> HIDE DEF a, b, d
<1>4. w + (a + b + d) = (x + a) + (y + b) + in
  BY <1>2, <1>3
<1> QED BY <1>3, <1>4

\* Every word of the sum and its carry out make up the words and the carry in.
Carried(n, left, right, sum, c) ==
    \A i \in 1 .. n : sum[i] + Vli!Word * c[i] = left[i] + right[i] + c[i - 1]

\* Then the sum and its last carry make up the numbers.
LEMMA Chain ==
    ASSUME Vli!Word \in Nat \ {0}, NEW n \in Nat,
           NEW left \in [1 .. n -> Int], NEW right \in [1 .. n -> Int],
           NEW sum \in [1 .. n -> Int], NEW c \in [0 .. n -> Int], c[0] = 0,
           Carried(n, left, right, sum, c)
    PROVE  Vli!ValueOf(Append(sum, c[n])) = Vli!ValueOf(left) + Vli!ValueOf(right)
<1> DEFINE W == Vli!Word
           whole == Append(sum, c[n])
<1>1. W \in Int /\ W \in Nat \ {0}
  OBVIOUS
<1>2. /\ Len(left) = n /\ Len(right) = n /\ Len(whole) = n + 1
      /\ whole[n + 1] = c[n] /\ c[n] \in Int
      /\ \A i \in 1 .. n : whole[i] = sum[i] /\ sum[i] \in Int
  BY WordsLength
<1>3. PICK l \in [1 .. n + 1 -> Int] : Vli!ValueOf(left) = l[1] /\ Spells(l, left, n)
  <2>1. \A i \in 1 .. n : left[i] \in Int
    OBVIOUS
  <2> QED BY <1>2, <2>1, Horner, Zenon
<1>4. PICK r \in [1 .. n + 1 -> Int] : Vli!ValueOf(right) = r[1] /\ Spells(r, right, n)
  <2>1. \A i \in 1 .. n : right[i] \in Int
    OBVIOUS
  <2> QED BY <1>2, <2>1, Horner, Zenon
<1> HIDE DEF whole
<1>5. PICK s \in [1 .. n + 2 -> Int] : Vli!ValueOf(whole) = s[1] /\ Spells(s, whole, n + 1)
  <2> DEFINE m == n + 1
  <2>1. m \in Nat /\ Len(whole) = m /\ m + 1 = n + 2 /\ \A i \in 1 .. m : whole[i] \in Int
    BY <1>2
  <2> HIDE DEF m
  <2>2. \E s \in [1 .. m + 1 -> Int] : Vli!ValueOf(whole) = s[1] /\ Spells(s, whole, m)
    BY <2>1, Horner, Zenon
  <2>3. \E s \in [1 .. n + 2 -> Int] : Vli!ValueOf(whole) = s[1] /\ Spells(s, whole, m)
    BY <2>1, <2>2, Zenon
  <2> QED BY <2>3 DEF m
<1> DEFINE T == {k \in 0 .. n : s[n + 1 - k] = l[n + 1 - k] + r[n + 1 - k] + c[n - k]}
<1>6. 0 \in T
  <2>1. s[n + 1] = whole[n + 1] + Vli!Word * s[n + 1 + 1] /\ s[n + 1 + 1] = 0
    BY <1>5 DEF Spells
  <2>2. s[n + 1] = c[n] + W * 0
    BY <1>2, <2>1, Zenon
  <2> HIDE DEF W
  <2>3. s[n + 1] = c[n]
    BY <1>1, <1>2, <2>2
  <2>4. l[n + 1] = 0 /\ r[n + 1] = 0
    BY <1>3, <1>4, Zenon DEF Spells
  <2> QED BY <1>2, <2>3, <2>4
<1>7. ASSUME NEW k \in 0 .. n - 1, k \in T
      PROVE  k + 1 \in T
  <2> DEFINE i == n - k
  <2>1. /\ i \in 1 .. n /\ n + 1 - (k + 1) = i /\ n - (k + 1) = i - 1
        /\ n + 1 - k = i + 1 /\ n - k = i
    OBVIOUS
  <2>2. /\ l[i] \in Int /\ l[i + 1] \in Int /\ r[i] \in Int /\ r[i + 1] \in Int
        /\ s[i] \in Int /\ s[i + 1] \in Int /\ c[i] \in Int /\ c[i - 1] \in Int
        /\ left[i] \in Int /\ right[i] \in Int /\ sum[i] \in Int
    <3>1. i + 1 \in 1 .. n + 1 /\ i \in 1 .. n + 1 /\ i \in 0 .. n /\ i - 1 \in 0 .. n
      BY <2>1
    <3>2. i + 1 \in 1 .. n + 2 /\ i \in 1 .. n + 2
      BY <2>1
    <3> HIDE DEF i
    <3> QED BY <2>1, <3>1, <3>2
  <2>3. s[i + 1] = l[i + 1] + r[i + 1] + c[i]
    BY <1>7, <2>1
  <2>4. s[i] = sum[i] + W * s[i + 1]
    <3>1. i \in 1 .. n + 1 /\ whole[i] = sum[i]
      BY <1>2, <2>1
    <3> HIDE DEF i
    <3> QED BY <1>5, <3>1, Zenon DEF Spells
  <2> HIDE DEF i
  <2>5. l[i] = left[i] + W * l[i + 1] /\ r[i] = right[i] + W * r[i + 1]
    BY <1>3, <1>4, <2>1, Zenon DEF Spells
  <2>6. sum[i] + W * c[i] = left[i] + right[i] + c[i - 1]
    BY <2>1, Zenon DEF Carried
  <2> HIDE DEF W
  <2>7. sum[i] + W * (l[i + 1] + r[i + 1] + c[i])
            = (left[i] + W * l[i + 1]) + (right[i] + W * r[i + 1]) + c[i - 1]
    <3> DEFINE w == sum[i]
               x == left[i]
               y == right[i]
               a == l[i + 1]
               b == r[i + 1]
               over == c[i]
               in == c[i - 1]
    <3>1. /\ W \in Int /\ w \in Int /\ x \in Int /\ y \in Int /\ a \in Int /\ b \in Int
          /\ over \in Int /\ in \in Int
      BY <1>1, <2>2
    <3>2. w + W * over = x + y + in
      BY <2>6, Zenon
    <3> HIDE DEF w, x, y, a, b, over, in
    <3>3. w + W * (a + b + over) = (x + W * a) + (y + W * b) + in
      BY <3>1, <3>2, ChainStep
    <3> QED BY <3>3, Zenon DEF w, x, y, a, b, over, in
  <2>8. s[i] = l[i] + r[i] + c[i - 1]
    BY <2>3, <2>4, <2>5, <2>7, Zenon
  <2> QED BY <2>1, <2>8
<1>8. n \in T
  <2> HIDE DEF T
  <2>1. n \in 0 .. n
    OBVIOUS
  <2> QED BY <1>6, <1>7, <2>1, Induction
<1>9. s[1] = l[1] + r[1]
  <2>1. n + 1 - n = 1 /\ n - n = 0 /\ l[1] \in Int /\ r[1] \in Int
    OBVIOUS
  <2>2. s[1] = l[1] + r[1] + c[0]
    BY <1>8, <2>1
  <2> QED BY <2>1, <2>2
<1> QED BY <1>3, <1>4, <1>5, <1>9 DEF whole

\* A function from carries to carries at every word gives the carries of a number.
LEMMA Carries ==
    ASSUME NEW n \in Nat, NEW next \in [1 .. n -> [{0, 1} -> {0, 1}]]
    PROVE  \E c \in [0 .. n -> {0, 1}] :
              c[0] = 0 /\ \A i \in 1 .. n : c[i] = next[i][c[i - 1]]
<1> DEFINE Upto(k) == \E c \in [0 .. k -> {0, 1}] :
                         c[0] = 0 /\ \A i \in 1 .. k : c[i] = next[i][c[i - 1]]
           T == {k \in 0 .. n : Upto(k)}
<1>1. 0 \in T
  <2> DEFINE c == [i \in 0 .. 0 |-> 0]
  <2>1. c \in [0 .. 0 -> {0, 1}] /\ c[0] = 0 /\ \A i \in 1 .. 0 : c[i] = next[i][c[i - 1]]
    OBVIOUS
  <2> HIDE DEF c
  <2> QED BY <2>1
<1>2. ASSUME NEW k \in 0 .. n - 1, k \in T
      PROVE  k + 1 \in T
  <2>1. PICK c \in [0 .. k -> {0, 1}] :
            c[0] = 0 /\ \A i \in 1 .. k : c[i] = next[i][c[i - 1]]
    BY <1>2
  <2> DEFINE top == next[k + 1][c[k]]
             g == [i \in 0 .. k + 1 |-> IF i = k + 1 THEN top ELSE c[i]]
  <2>2. top \in {0, 1}
    <3>1. k + 1 \in 1 .. n /\ c[k] \in {0, 1}
      OBVIOUS
    <3>2. next[k + 1] \in [{0, 1} -> {0, 1}]
      BY <3>1
    <3> QED BY <3>1, <3>2
  <2> HIDE DEF top
  <2>3. g \in [0 .. k + 1 -> {0, 1}] /\ g[0] = 0
    BY <2>1, <2>2
  <2>4. ASSUME NEW i \in 1 .. k + 1
        PROVE  g[i] = next[i][g[i - 1]]
    <3>1. CASE i = k + 1
      <4>1. g[i] = top /\ g[i - 1] = c[k] /\ i = k + 1
        BY <3>1
      <4> HIDE DEF g
      <4> QED BY <4>1, Zenon DEF top
    <3>2. CASE i # k + 1
      <4>1. i \in 1 .. k /\ g[i] = c[i] /\ g[i - 1] = c[i - 1]
        BY <3>2
      <4> QED BY <2>1, <4>1
    <3> QED BY <3>1, <3>2
  <2> HIDE DEF g
  <2>5. Upto(k + 1)
    BY <2>3, <2>4
  <2>6. k + 1 \in 0 .. n
    OBVIOUS
  <2> QED BY <2>5, <2>6
<1>3. n \in T
  <2> HIDE DEF T
  <2>1. n \in 0 .. n
    OBVIOUS
  <2> QED BY <1>1, <1>2, <2>1, Induction
<1> QED BY <1>3

\* The carry out of a word, by comparing the sum with the word.
SumOut(s, x, c) == IF s = x THEN c ELSE Vli!Truth(s < x)

\* One word of a sum.
SumFits(W, x, y, c) ==
    LET s == (x + y + c) % W
    IN  s \in 0 .. W - 1 /\ SumOut(s, x, c) \in {0, 1} /\ s + W * SumOut(s, x, c) = x + y + c

\* One word of a sum fits, with the carry that the comparison tells.
LEMMA SumDigit ==
    ASSUME NEW W \in Nat \ {0}, NEW x \in 0 .. W - 1, NEW y \in 0 .. W - 1, NEW c \in {0, 1}
    PROVE  SumFits(W, x, y, c)
<1> DEFINE s == (x + y + c) % W
<1> SUFFICES /\ s \in 0 .. W - 1 /\ SumOut(s, x, c) \in {0, 1}
             /\ s + W * SumOut(s, x, c) = x + y + c
  BY DEF SumFits
<1>1. x + y + c \in Nat /\ x + y + c < 2 * W
  OBVIOUS
<1>2. s = IF x + y + c < W THEN x + y + c ELSE x + y + c - W
  <2>1. CASE x + y + c < W
    BY <2>1
  <2>2. CASE ~ (x + y + c < W)
    <3> DEFINE z == x + y + c - W
    <3>1. z \in 0 .. W - 1 /\ x + y + c = z + W
      BY <1>1, <2>2
    <3> HIDE DEF z
    <3>2. (z + W) % W = z
      BY <3>1
    <3> QED BY <3>1, <3>2, <2>2
  <2> QED BY <2>1, <2>2
<1> HIDE DEF s
<1>3. CASE SumOut(s, x, c) = 0
  BY <1>1, <1>2, <1>3 DEF SumOut, Vli!Truth
<1>4. CASE SumOut(s, x, c) = 1
  BY <1>1, <1>2, <1>4 DEF SumOut, Vli!Truth
<1>5. SumOut(s, x, c) \in {0, 1}
  BY DEF SumOut, Vli!Truth
<1> QED BY <1>3, <1>4, <1>5

\* Of a sum of two numbers nothing is lost: what vli_add returns, with the carry as
\* the word above the result, is their sum, for words of any size and numbers of any
\* length.
THEOREM AddTheorem ==
    ASSUME Vli!Word \in Nat \ {0}, NDigits \in Nat, NEW left \in Vli!Numbers, NEW right \in Vli!Numbers
    PROVE  LET r == Vli!vli_add(left, right)
           IN  /\ r.result \in Vli!Numbers /\ r.carry \in {0, 1}
               /\ Vli!ValueOf(Append(r.result, r.carry)) = Vli!ValueOf(left) + Vli!ValueOf(right)
<1> DEFINE n == NDigits
           W == Vli!Word
           Sum(i, c) == (left[i] + right[i] + c) % Vli!Word
           Out(i, c) == IF Sum(i, c) = left[i] THEN c ELSE Vli!Truth(Sum(i, c) < left[i])
           Digit(i, c) ==
               LET sum == (left[i] + right[i] + c) % Vli!Word
               IN  [word |-> sum, carry |-> IF sum = left[i] THEN c ELSE Vli!Truth(sum < left[i])]
           Scheme(f) == [i \in 0 .. Len(left) |-> IF i = 0 THEN 0 ELSE Digit(i, f[i - 1]).carry]
           carry == CHOOSE f : f = Scheme(f)
           result == [i \in 1 .. Len(left) |-> Digit(i, carry[i - 1]).word]
<1>1. Vli!vli_add(left, right) = [result |-> result, carry |-> carry[Len(left)]]
  BY DEF Vli!vli_add, Vli!Ripple
<1>2. /\ Len(left) = n /\ n \in Nat /\ W \in Nat \ {0} /\ Vli!Numbers = [1 .. n -> 0 .. W - 1]
      /\ left \in [1 .. n -> 0 .. W - 1] /\ right \in [1 .. n -> 0 .. W - 1]
  BY DEF Vli!Numbers
<1>3. \A i, c : Digit(i, c).word = Sum(i, c) /\ Digit(i, c).carry = Out(i, c)
  OBVIOUS
<1>4. ASSUME NEW i \in 1 .. n, NEW c \in {0, 1}
      PROVE  /\ Sum(i, c) \in 0 .. W - 1 /\ Out(i, c) \in {0, 1}
             /\ Sum(i, c) + Vli!Word * Out(i, c) = left[i] + right[i] + c
  <2> DEFINE x == left[i]
             y == right[i]
             t == Sum(i, c)
  <2>1. x \in 0 .. W - 1 /\ y \in 0 .. W - 1 /\ W \in Nat \ {0}
    BY <1>2
  <2>2. t = (x + y + c) % W /\ Out(i, c) = SumOut(t, x, c)
    BY DEF SumOut
  <2> HIDE DEF x, y, t, Out, W, n
  <2>3. SumFits(W, x, y, c)
    BY <2>1, SumDigit
  <2>4. t \in 0 .. W - 1 /\ SumOut(t, x, c) \in {0, 1} /\ t + W * SumOut(t, x, c) = x + y + c
    BY <2>2, <2>3, Zenon DEF SumFits
  <2> QED BY <2>2, <2>4, Zenon DEF x, y, t, W
<1> HIDE DEF Digit, Sum, Out
<1>5. carry \in [0 .. n -> {0, 1}] /\ carry[0] = 0
      /\ \A i \in 1 .. n : carry[i] = Out(i, carry[i - 1])
  <2> DEFINE next == [i \in 1 .. n |-> [c \in {0, 1} |-> Out(i, c)]]
  <2>1. next \in [1 .. n -> [{0, 1} -> {0, 1}]]
    BY <1>4
  <2>2. \A i \in 1 .. n : \A c \in {0, 1} : next[i][c] = Out(i, c)
    OBVIOUS
  <2> HIDE DEF next, n, W
  <2>3. PICK f \in [0 .. n -> {0, 1}] : f[0] = 0 /\ \A i \in 1 .. n : f[i] = next[i][f[i - 1]]
    BY <1>2, <2>1, Carries
  <2>4. f = Scheme(f)
    <3>1. ASSUME NEW i \in 1 .. n PROVE f[i] = Digit(i, f[i - 1]).carry
      <4>1. f[i - 1] \in {0, 1}
        BY <1>2
      <4> QED BY <1>3, <2>2, <2>3, <4>1, Zenon
    <3>2. ASSUME NEW i \in 0 .. n
          PROVE  f[i] = IF i = 0 THEN 0 ELSE Digit(i, f[i - 1]).carry
      BY <1>2, <2>3, <3>1
    <3>3. f = [i \in 0 .. n |-> f[i]]
      OBVIOUS
    <3> QED BY <1>2, <3>2, <3>3
  <2>5. carry = Scheme(carry)
    <3> HIDE DEF Scheme
    <3> QED BY <2>4
  <2> HIDE DEF carry
  <2>6. \A i \in 0 .. n : carry[i] = IF i = 0 THEN 0 ELSE Digit(i, carry[i - 1]).carry
    BY <1>2, <2>5
  <2>7. carry[0] = 0 /\ \A i \in 1 .. n : carry[i] = Out(i, carry[i - 1])
    <3>1. \A i \in 1 .. n : i \in 0 .. n /\ i # 0
      BY <1>2
    <3>2. 0 \in 0 .. n
      BY <1>2
    <3> QED BY <1>3, <2>6, <3>1, <3>2, Zenon
  <2> DEFINE T == {k \in 0 .. n : carry[k] \in {0, 1}}
  <2>8. 0 \in T
    BY <1>2, <2>7
  <2>9. ASSUME NEW k \in 0 .. n - 1, k \in T PROVE k + 1 \in T
    <3>1. k + 1 \in 1 .. n /\ k + 1 \in 0 .. n /\ (k + 1) - 1 = k
      BY <1>2
    <3>2. carry[k + 1] = Out(k + 1, carry[k])
      BY <2>7, <3>1
    <3> QED BY <1>4, <2>9, <3>1, <3>2
  <2>10. \A k \in 0 .. n : k \in T
    <3> HIDE DEF T
    <3> QED BY <1>2, <2>8, <2>9, Induction
  <2>11. carry = [i \in 0 .. n |-> carry[i]]
    BY <1>2, <2>5
  <2> QED BY <2>7, <2>10, <2>11
<1> HIDE DEF carry, Scheme
<1>6. result \in Vli!Numbers /\ result \in [1 .. n -> Int]
      /\ \A i \in 1 .. n : result[i] = Sum(i, carry[i - 1])
  <2>1. ASSUME NEW i \in 1 .. n
        PROVE  Digit(i, carry[i - 1]).word \in 0 .. W - 1
    <3>1. carry[i - 1] \in {0, 1}
      BY <1>2, <1>5
    <3> HIDE DEF n, W
    <3> QED BY <1>3, <1>4, <3>1, Zenon
  <2> HIDE DEF n, W
  <2>2. result \in [1 .. n -> 0 .. W - 1]
    BY <1>2, <2>1
  <2> QED BY <1>2, <1>3, <2>2
<1> HIDE DEF result
<1>7. Carried(n, left, right, result, carry)
  <2>1. ASSUME NEW i \in 1 .. n
        PROVE  result[i] + Vli!Word * carry[i] = left[i] + right[i] + carry[i - 1]
    <3>1. carry[i - 1] \in {0, 1}
      BY <1>2, <1>5
    <3>2. result[i] = Sum(i, carry[i - 1]) /\ carry[i] = Out(i, carry[i - 1])
      BY <1>5, <1>6
    <3> HIDE DEF n, W
    <3> QED BY <1>4, <3>1, <3>2, Zenon
  <2> QED BY <2>1, Zenon DEF Carried
<1>8. Vli!ValueOf(Append(result, carry[n])) = Vli!ValueOf(left) + Vli!ValueOf(right)
  <2>1. /\ left \in [1 .. n -> Int] /\ right \in [1 .. n -> Int] /\ result \in [1 .. n -> Int]
        /\ carry \in [0 .. n -> Int]
    BY <1>2, <1>5, <1>6
  <2>2. n \in Nat /\ carry[0] = 0
    BY <1>2, <1>5
  <2> HIDE DEF n, W
  <2> QED BY <1>7, <2>1, <2>2, Chain
<1>9. carry[n] \in {0, 1}
  BY <1>2, <1>5
<1> QED BY <1>1, <1>2, <1>6, <1>8, <1>9
\* What the last word drops is the carry: a sum of streebog_generic.c is the sum of the
\* numbers, but for the word above the eighth.
THEOREM Sum512Theorem ==
    ASSUME Vli!Word \in Nat \ {0}, NDigits \in Nat, NEW x \in Vli!Numbers, NEW y \in Vli!Numbers
    PROVE  /\ Vli!streebog_add512(x, y) \in Vli!Numbers
           /\ \E carry \in {0, 1} :
                 Vli!ValueOf(Append(Vli!streebog_add512(x, y), carry)) = Vli!ValueOf(x) + Vli!ValueOf(y)
<1>1. LET r == Vli!vli_add(x, y)
      IN  /\ r.result \in Vli!Numbers /\ r.carry \in {0, 1}
          /\ Vli!ValueOf(Append(r.result, r.carry)) = Vli!ValueOf(x) + Vli!ValueOf(y)
  BY AddTheorem, Zenon
<1> QED BY <1>1, Zenon DEF Vli!streebog_add512

\* The borrow out of a word, by comparing the difference with the word.
DifferenceOut(d, x, b) == IF d = x THEN b ELSE Vli!Truth(d > x)

\* One word of a difference.
DifferenceFits(W, x, y, b) ==
    LET d == (x - y - b) % W
    IN  /\ d \in 0 .. W - 1 /\ DifferenceOut(d, x, b) \in {0, 1}
        /\ x + W * DifferenceOut(d, x, b) = d + y + b

\* It fits, with the borrow that the comparison tells.
LEMMA DifferenceDigit ==
    ASSUME NEW W \in Nat \ {0}, NEW x \in 0 .. W - 1, NEW y \in 0 .. W - 1, NEW b \in {0, 1}
    PROVE  DifferenceFits(W, x, y, b)
<1> DEFINE d == (x - y - b) % W
<1> SUFFICES /\ d \in 0 .. W - 1 /\ DifferenceOut(d, x, b) \in {0, 1}
             /\ x + W * DifferenceOut(d, x, b) = d + y + b
  BY DEF DifferenceFits
<1>1. x - y - b \in Int /\ x - y - b < W /\ x - y - b >= - W
  OBVIOUS
<1>2. d = IF x - y - b >= 0 THEN x - y - b ELSE x - y - b + W
  <2>1. CASE x - y - b >= 0
    BY <1>1, <2>1
  <2>2. CASE ~ (x - y - b >= 0)
    <3> DEFINE z == x - y - b + W
    <3>1. z \in 0 .. W - 1 /\ x - y - b = z - W
      BY <1>1, <2>2
    <3> HIDE DEF z
    <3>2. (z - W) % W = z
      BY <3>1
    <3> QED BY <3>1, <3>2, <2>2
  <2> QED BY <2>1, <2>2
<1> HIDE DEF d
<1>3. CASE DifferenceOut(d, x, b) = 0
  BY <1>1, <1>2, <1>3 DEF DifferenceOut, Vli!Truth
<1>4. CASE DifferenceOut(d, x, b) = 1
  BY <1>1, <1>2, <1>4 DEF DifferenceOut, Vli!Truth
<1>5. DifferenceOut(d, x, b) \in {0, 1}
  BY DEF DifferenceOut, Vli!Truth
<1> QED BY <1>3, <1>4, <1>5

\* A difference and what was subtracted are the number again, with the borrow of
\* vli_sub as the word above it.
THEOREM SubTheorem ==
    ASSUME Vli!Word \in Nat \ {0}, NDigits \in Nat, NEW left \in Vli!Numbers, NEW right \in Vli!Numbers
    PROVE  LET r == Vli!vli_sub(left, right)
           IN  /\ r.result \in Vli!Numbers /\ r.carry \in {0, 1}
               /\ Vli!ValueOf(Append(left, r.carry)) = Vli!ValueOf(r.result) + Vli!ValueOf(right)
<1> DEFINE n == NDigits
           W == Vli!Word
           Difference(i, c) == (left[i] - right[i] - c) % Vli!Word
           Out(i, c) == IF Difference(i, c) = left[i] THEN c ELSE Vli!Truth(Difference(i, c) > left[i])
           Digit(i, c) ==
               LET diff == (left[i] - right[i] - c) % Vli!Word
               IN  [word |-> diff, carry |-> IF diff = left[i] THEN c ELSE Vli!Truth(diff > left[i])]
           Scheme(f) == [i \in 0 .. Len(left) |-> IF i = 0 THEN 0 ELSE Digit(i, f[i - 1]).carry]
           borrow == CHOOSE f : f = Scheme(f)
           result == [i \in 1 .. Len(left) |-> Digit(i, borrow[i - 1]).word]
<1>1. Vli!vli_sub(left, right) = [result |-> result, carry |-> borrow[Len(left)]]
  BY DEF Vli!vli_sub, Vli!Ripple
<1>2. /\ Len(left) = n /\ n \in Nat /\ W \in Nat \ {0} /\ Vli!Numbers = [1 .. n -> 0 .. W - 1]
      /\ left \in [1 .. n -> 0 .. W - 1] /\ right \in [1 .. n -> 0 .. W - 1]
  BY DEF Vli!Numbers
<1>3. \A i, c : Digit(i, c).word = Difference(i, c) /\ Digit(i, c).carry = Out(i, c)
  OBVIOUS
<1>4. ASSUME NEW i \in 1 .. n, NEW c \in {0, 1}
      PROVE  /\ Difference(i, c) \in 0 .. W - 1 /\ Out(i, c) \in {0, 1}
             /\ left[i] + Vli!Word * Out(i, c) = Difference(i, c) + right[i] + c
  <2> DEFINE x == left[i]
             y == right[i]
             t == Difference(i, c)
  <2>1. x \in 0 .. W - 1 /\ y \in 0 .. W - 1 /\ W \in Nat \ {0}
    BY <1>2
  <2>2. t = (x - y - c) % W /\ Out(i, c) = DifferenceOut(t, x, c)
    BY DEF DifferenceOut
  <2> HIDE DEF x, y, t, Out, W, n
  <2>3. DifferenceFits(W, x, y, c)
    BY <2>1, DifferenceDigit
  <2>4. t \in 0 .. W - 1 /\ DifferenceOut(t, x, c) \in {0, 1} /\ x + W * DifferenceOut(t, x, c) = t + y + c
    BY <2>2, <2>3, Zenon DEF DifferenceFits
  <2> QED BY <2>2, <2>4, Zenon DEF x, y, t, W
<1> HIDE DEF Digit, Difference, Out
<1>5. borrow \in [0 .. n -> {0, 1}] /\ borrow[0] = 0
      /\ \A i \in 1 .. n : borrow[i] = Out(i, borrow[i - 1])
  <2> DEFINE next == [i \in 1 .. n |-> [c \in {0, 1} |-> Out(i, c)]]
  <2>1. next \in [1 .. n -> [{0, 1} -> {0, 1}]]
    BY <1>4
  <2>2. \A i \in 1 .. n : \A c \in {0, 1} : next[i][c] = Out(i, c)
    OBVIOUS
  <2> HIDE DEF next, n, W
  <2>3. PICK f \in [0 .. n -> {0, 1}] : f[0] = 0 /\ \A i \in 1 .. n : f[i] = next[i][f[i - 1]]
    BY <1>2, <2>1, Carries
  <2>4. f = Scheme(f)
    <3>1. ASSUME NEW i \in 1 .. n PROVE f[i] = Digit(i, f[i - 1]).carry
      <4>1. f[i - 1] \in {0, 1}
        BY <1>2
      <4> QED BY <1>3, <2>2, <2>3, <4>1, Zenon
    <3>2. ASSUME NEW i \in 0 .. n
          PROVE  f[i] = IF i = 0 THEN 0 ELSE Digit(i, f[i - 1]).carry
      BY <1>2, <2>3, <3>1
    <3>3. f = [i \in 0 .. n |-> f[i]]
      OBVIOUS
    <3> QED BY <1>2, <3>2, <3>3
  <2>5. borrow = Scheme(borrow)
    <3> HIDE DEF Scheme
    <3> QED BY <2>4
  <2> HIDE DEF borrow
  <2>6. \A i \in 0 .. n : borrow[i] = IF i = 0 THEN 0 ELSE Digit(i, borrow[i - 1]).carry
    BY <1>2, <2>5
  <2>7. borrow[0] = 0 /\ \A i \in 1 .. n : borrow[i] = Out(i, borrow[i - 1])
    <3>1. \A i \in 1 .. n : i \in 0 .. n /\ i # 0
      BY <1>2
    <3>2. 0 \in 0 .. n
      BY <1>2
    <3> QED BY <1>3, <2>6, <3>1, <3>2, Zenon
  <2> DEFINE T == {k \in 0 .. n : borrow[k] \in {0, 1}}
  <2>8. 0 \in T
    BY <1>2, <2>7
  <2>9. ASSUME NEW k \in 0 .. n - 1, k \in T PROVE k + 1 \in T
    <3>1. k + 1 \in 1 .. n /\ k + 1 \in 0 .. n /\ (k + 1) - 1 = k
      BY <1>2
    <3>2. borrow[k + 1] = Out(k + 1, borrow[k])
      BY <2>7, <3>1
    <3> QED BY <1>4, <2>9, <3>1, <3>2
  <2>10. \A k \in 0 .. n : k \in T
    <3> HIDE DEF T
    <3> QED BY <1>2, <2>8, <2>9, Induction
  <2>11. borrow = [i \in 0 .. n |-> borrow[i]]
    BY <1>2, <2>5
  <2> QED BY <2>7, <2>10, <2>11
<1> HIDE DEF borrow, Scheme
<1>6. result \in Vli!Numbers /\ result \in [1 .. n -> Int]
      /\ \A i \in 1 .. n : result[i] = Difference(i, borrow[i - 1])
  <2>1. ASSUME NEW i \in 1 .. n
        PROVE  Digit(i, borrow[i - 1]).word \in 0 .. W - 1
    <3>1. borrow[i - 1] \in {0, 1}
      BY <1>2, <1>5
    <3> HIDE DEF n, W
    <3> QED BY <1>3, <1>4, <3>1, Zenon
  <2> HIDE DEF n, W
  <2>2. result \in [1 .. n -> 0 .. W - 1]
    BY <1>2, <2>1
  <2> QED BY <1>2, <1>3, <2>2
<1> HIDE DEF result
<1>7. Carried(n, result, right, left, borrow)
  <2>1. ASSUME NEW i \in 1 .. n
        PROVE  left[i] + Vli!Word * borrow[i] = result[i] + right[i] + borrow[i - 1]
    <3>1. borrow[i - 1] \in {0, 1}
      BY <1>2, <1>5
    <3>2. result[i] = Difference(i, borrow[i - 1]) /\ borrow[i] = Out(i, borrow[i - 1])
      BY <1>5, <1>6
    <3> HIDE DEF n, W
    <3> QED BY <1>4, <3>1, <3>2, Zenon
  <2> QED BY <2>1, Zenon DEF Carried
<1>8. Vli!ValueOf(Append(left, borrow[n])) = Vli!ValueOf(result) + Vli!ValueOf(right)
  <2>1. /\ left \in [1 .. n -> Int] /\ right \in [1 .. n -> Int] /\ result \in [1 .. n -> Int]
        /\ borrow \in [0 .. n -> Int]
    BY <1>2, <1>5, <1>6
  <2>2. n \in Nat /\ borrow[0] = 0
    BY <1>2, <1>5
  <2> HIDE DEF n, W
  <2> QED BY <1>7, <2>1, <2>2, Chain
<1>9. borrow[n] \in {0, 1}
  BY <1>2, <1>5
<1> QED BY <1>1, <1>2, <1>6, <1>8, <1>9
\* Quotient and remainder.
LEMMA Division ==
    ASSUME NEW m \in Nat \ {0}, NEW x \in Int
    PROVE  /\ x % m \in 0 .. m - 1 /\ x \div m \in Int
           /\ x = (x \div m) * m + (x % m)
OBVIOUS

\* There is one remainder only.
LEMMA RemainderIs ==
    ASSUME NEW m \in Nat \ {0}, NEW x \in Int, NEW q \in Int, NEW r \in 0 .. m - 1, x = q * m + r
    PROVE  x % m = r
<1> DEFINE p == x \div m
           s == x % m
<1>1. p \in Int /\ s \in 0 .. m - 1 /\ x = p * m + s
  BY Division
<1> HIDE DEF p, s
<1>2. (p - q) * m = r - s
  BY <1>1
<1> DEFINE d == p - q
<1>3. d \in Int /\ d * m = r - s
  BY <1>1, <1>2
<1> HIDE DEF d
<1>4. d = 0
  <2>1. ~(d >= 1)
    <3> SUFFICES ASSUME d >= 1 PROVE FALSE
      OBVIOUS
    <3>1. d * m >= m
      BY <1>3
    <3> QED BY <1>1, <1>3, <3>1
  <2>2. ~(d <= -1)
    <3> SUFFICES ASSUME d <= -1 PROVE FALSE
      OBVIOUS
    <3>1. d * m <= -m
      BY <1>3
    <3> QED BY <1>1, <1>3, <3>1
  <2> QED BY <1>3, <2>1, <2>2
<1>5. r = s
  BY <1>1, <1>3, <1>4
<1> QED BY <1>5 DEF s

\* Equal remainders.
LEMMA SameRemainder ==
    ASSUME NEW m \in Nat \ {0}, NEW x \in Int, NEW y \in Int, NEW q \in Int, x = y + q * m
    PROVE  x % m = y % m
<1> DEFINE p == y \div m
           r == y % m
<1>1. p \in Int /\ r \in 0 .. m - 1 /\ y = p * m + r
  BY Division
<1> HIDE DEF p, r
<1>2. x = (p + q) * m + r
  BY <1>1
<1>3. p + q \in Int
  BY <1>1
<1>4. x % m = r
  BY <1>1, <1>2, <1>3, RemainderIs
<1> QED BY <1>4 DEF r

\* Sums and products of remainders.
LEMMA RemainderOfSum ==
    ASSUME NEW m \in Nat \ {0}, NEW x \in Int, NEW y \in Int
    PROVE  ((x % m) + y) % m = (x + y) % m
<1> DEFINE q == x \div m
           r == x % m
<1>1. q \in Int /\ r \in Int /\ x = q * m + r
  BY Division
<1> HIDE DEF q, r
<1> DEFINE v == x + y
           w == r + y
<1>2. v = w + q * m /\ v \in Int /\ w \in Int
  BY <1>1
<1> HIDE DEF v, w
<1>3. v % m = w % m
  BY <1>1, <1>2, SameRemainder
<1> QED BY <1>3 DEF r, v, w

\* A factor may be replaced by its remainder.
LEMMA RemainderOfProduct ==
    ASSUME NEW m \in Nat \ {0}, NEW x \in Int, NEW y \in Int
    PROVE  ((x % m) * y) % m = (x * y) % m
<1> DEFINE q == x \div m
           r == x % m
<1>1. q \in Int /\ r \in Int /\ x = q * m + r
  BY Division
<1> HIDE DEF q, r
<1>2. x * y = r * y + (q * y) * m
  BY <1>1
<1>3. q * y \in Int /\ x * y \in Int /\ r * y \in Int
  BY <1>1
<1>4. (x * y) % m = (r * y) % m
  BY <1>2, <1>3, SameRemainder
<1> QED BY <1>4 DEF r

\* The remainder of a remainder.
LEMMA RemainderTwice ==
    ASSUME NEW m \in Nat \ {0}, NEW x \in Int
    PROVE  (x % m) % m = x % m /\ (x \in 0 .. m - 1 => x % m = x)
<1>1. ASSUME NEW y \in 0 .. m - 1 PROVE y % m = y
  <2>1. y = 0 * m + y
    OBVIOUS
  <2> QED BY <2>1, RemainderIs
<1>2. x % m \in 0 .. m - 1
  BY Division
<1> QED BY <1>1, <1>2

IsPrime(m) == m \in Nat /\ m > 1 /\ \A d \in 2 .. m - 1 : m % d # 0

\* A prime number leaves every number but its multiples an inverse: of the remainders of
\* the multiples of x the least one but zero divides the prime.
LEMMA InverseExists ==
    ASSUME NEW m, IsPrime(m), NEW x \in 1 .. m - 1
    PROVE  \E y \in 1 .. m - 1 : (x * y) % m = 1
<1>1. m \in Nat \ {0} /\ m > 1 /\ x \in Int
  BY DEF IsPrime
<1> DEFINE T == {t \in 1 .. m - 1 : \E y \in Int : (x * y) % m = t}
<1>2. x \in T
  <2>1. x * 1 = x /\ x % m = x
    BY <1>1, RemainderTwice
  <2>2. (x * 1) % m = x
    BY <2>1
  <2>3. \E y \in Int : (x * y) % m = x
    <3>1. 1 \in Int
      OBVIOUS
    <3> QED BY <2>2, <3>1, Zenon
  <2> QED BY <2>3
<1>3. T \subseteq Nat
  OBVIOUS
<1>4. PICK t \in T : \A u \in T : t <= u
  <2> HIDE DEF T
  <2> QED BY <1>2, <1>3, LeastNumber
<1>5. PICK y \in Int : (x * y) % m = t
  BY <1>4
<1>6. t \in 1 .. m - 1 /\ t \in Nat \ {0}
  BY <1>4
<1> DEFINE q == m \div t
           r == m % t
<1>7. q \in Int /\ r \in 0 .. t - 1 /\ m = q * t + r
  BY <1>1, <1>6, Division
<1> HIDE DEF q, r
<1>8. (x * (-(q * y))) % m = r
  <2> DEFINE k == (x * y) \div m
             z == -(q * y)
  <2>1. k \in Int /\ x * y = k * m + t
    <3>1. x * y \in Int
      BY <1>1, <1>5
    <3> QED BY <1>1, <1>5, <3>1, Division
  <2> HIDE DEF k
  <2>2. x * z = -(q * (x * y))
    BY <1>1, <1>5, <1>7
  <2>3. q * (x * y) = (q * k) * m + q * t
    BY <1>1, <1>6, <1>7, <2>1
  <2>4. q * t = m - r
    BY <1>1, <1>6, <1>7
  <2> DEFINE w == q * k
  <2>5. w \in Int /\ q * (x * y) = w * m + (m - r)
    BY <1>7, <2>1, <2>3, <2>4
  <2> HIDE DEF w, z
  <2>6. x * z = (-w - 1) * m + r
    <3>1. (-w - 1) * m = -(w * m) - m
      BY <1>1, <2>5
    <3> QED BY <1>1, <1>7, <2>2, <2>5, <3>1
  <2>7. -w - 1 \in Int /\ r \in 0 .. m - 1
    BY <1>6, <1>7, <2>5
  <2>8. x * z \in Int
    BY <1>1, <2>6, <2>7
  <2>9. (x * z) % m = r
    BY <1>1, <2>6, <2>7, <2>8, RemainderIs
  <2> QED BY <2>9 DEF z
<1>9. r = 0
  <2> SUFFICES ASSUME r # 0 PROVE FALSE
    OBVIOUS
  <2>1. r \in 1 .. m - 1 /\ r < t
    BY <1>6, <1>7
  <2>2. -(q * y) \in Int
    BY <1>5, <1>7
  <2>3. r \in T
    BY <1>8, <2>1, <2>2
  <2> HIDE DEF T
  <2> QED BY <1>4, <1>6, <1>7, <2>1, <2>3
<1>10. t = 1
  <2> SUFFICES ASSUME t # 1 PROVE FALSE
    OBVIOUS
  <2>1. t \in 2 .. m - 1
    BY <1>6
  <2> QED BY <1>9, <2>1 DEF IsPrime, r
<1> DEFINE v == y % m
<1>11. v \in 0 .. m - 1
  BY <1>1, <1>5, Division
<1>12. (x * v) % m = 1
  <2>1. (v * x) % m = (y * x) % m
    BY <1>1, <1>5, RemainderOfProduct
  <2>2. v * x = x * v /\ y * x = x * y
    BY <1>1, <1>5, <1>11
  <2> QED BY <1>5, <1>10, <2>1, <2>2
<1> HIDE DEF v
<1>13. v # 0
  <2> SUFFICES ASSUME v = 0 PROVE FALSE
    OBVIOUS
  <2>1. x * v = 0
    BY <1>1
  <2>2. 0 % m = 0
    BY <1>1, RemainderTwice
  <2> QED BY <1>12, <2>1, <2>2
<1>14. v \in 1 .. m - 1
  BY <1>11, <1>13
<1> QED BY <1>12, <1>14

\* No product of two numbers that are not multiples of a prime is one.
LEMMA ProductNotZero ==
    ASSUME NEW m, IsPrime(m), NEW x \in 1 .. m - 1, NEW y \in 1 .. m - 1
    PROVE  (x * y) % m \in 1 .. m - 1
<1>1. m \in Nat \ {0} /\ m > 1 /\ x \in Int /\ y \in Int /\ x * y \in Int
  BY DEF IsPrime
<1>2. PICK z \in 1 .. m - 1 : (x * z) % m = 1
  BY InverseExists
<1>3. (x * y) % m # 0
  <2> SUFFICES ASSUME (x * y) % m = 0 PROVE FALSE
    OBVIOUS
  <2>1. ((x * y) * z) % m = (0 * z) % m
    <3> DEFINE p == x * y
    <3>1. p \in Int /\ z \in Int /\ p % m = 0
      BY <1>1
    <3> HIDE DEF p
    <3>2. ((p % m) * z) % m = (p * z) % m
      BY <1>1, <3>1, RemainderOfProduct
    <3> QED BY <3>1, <3>2 DEF p
  <2>2. (0 * z) % m = 0
    BY <1>1, RemainderTwice
  <2>3. ((x * z) * y) % m = (1 * y) % m
    <3> DEFINE p == x * z
    <3>1. p \in Int /\ p % m = 1
      BY <1>1, <1>2
    <3> HIDE DEF p
    <3>2. ((p % m) * y) % m = (p * y) % m
      BY <1>1, <3>1, RemainderOfProduct
    <3> QED BY <3>1, <3>2 DEF p
  <2>4. (1 * y) % m = y
    BY <1>1, RemainderTwice
  <2>5. (x * y) * z = (x * z) * y
    BY <1>1
  <2> QED BY <2>1, <2>2, <2>3, <2>4, <2>5
<1>4. (x * y) % m \in 0 .. m - 1
  BY <1>1, Division
<1> QED BY <1>3, <1>4

-----------------------------------------------------------------------------
(***************************************************************************)
(* Multiples of points.                                                    *)
(***************************************************************************)

\* What is assumed of the curve.
LEMMA CurveFacts ==
    /\ IsPrime(CurveP) /\ IsPrime(CurveN) /\ CurveN # 2 /\ CurveN <= MaxTimes
    /\ CurveA \in Field /\ CurveB \in Field /\ CurveG \in CurvePoints
    /\ Infinity \notin CurvePoints /\ Times[CurveG][CurveN] = Infinity
<1>1. /\ CurveP \in Nat /\ \A d \in 2 .. (CurveP - 1) : CurveP % d # 0
      /\ CurveN \in 3 .. MaxTimes /\ \A d \in 2 .. (CurveN - 1) : CurveN % d # 0
      /\ CurveA \in Field /\ CurveB \in Field \ {0}
      /\ CurveG \in CurvePoints /\ Times[CurveG][CurveN] = Infinity
  BY Gost3410Assumption DEF CurveAssumption
<1>2. CurveP > 1 /\ CurveB \in 1 .. CurveP - 1 /\ CurveA \in Int
  BY <1>1 DEF Field
<1>3. MaxTimes \in Int
  BY <1>1 DEF MaxTimes
<1>4. ~OnCurve(Infinity)
  <2>1. OnCurve(Infinity) <=> (0 * 0 - 0 * 0 * 0 - CurveA * 0 - CurveB) % CurveP = 0
    BY DEF OnCurve, Infinity
  <2>2. 0 * 0 - 0 * 0 * 0 - CurveA * 0 - CurveB = (-1) * CurveP + (CurveP - CurveB)
    BY <1>1, <1>2
  <2>3. ((-1) * CurveP + (CurveP - CurveB)) % CurveP = CurveP - CurveB
    <3> DEFINE x == (-1) * CurveP + (CurveP - CurveB)
               r == CurveP - CurveB
    <3>1. x \in Int /\ r \in 0 .. CurveP - 1 /\ x = (-1) * CurveP + r /\ CurveP \in Nat \ {0}
      BY <1>1, <1>2
    <3> HIDE DEF x, r
    <3>2. x % CurveP = r
      BY <3>1, RemainderIs
    <3> QED BY <3>2 DEF x, r
  <2> QED BY <1>1, <1>2, <2>1, <2>2, <2>3
<1>5. Infinity \notin CurvePoints
  BY <1>4 DEF CurvePoints
<1> QED BY <1>1, <1>2, <1>3, <1>5 DEF IsPrime

\* The inverses are in the field.
LEMMA InverseInField ==
    ASSUME NEW x \in Field
    PROVE  Inverse[x] \in Field
<1>1. IsPrime(CurveP) /\ Field = 0 .. CurveP - 1
  BY CurveFacts DEF Field
<1>2. CASE x = 0
  BY <1>2 DEF Inverse
<1>3. CASE x # 0
  <2>1. x \in 1 .. CurveP - 1
    BY <1>1, <1>3 DEF IsPrime
  <2>2. PICK y \in 1 .. CurveP - 1 : (x * y) % CurveP = 1
    BY <1>1, <2>1, InverseExists
  <2>3. y \in Field
    BY <1>1, <2>2
  <2>4. Inverse[x] = CHOOSE z \in Field : (x * z) % CurveP = 1
    BY <1>3 DEF Inverse
  <2> QED BY <2>2, <2>3, <2>4
<1> QED BY <1>2, <1>3

\* What a point of the group is.
LEMMA GroupPoint ==
    ASSUME NEW q \in Group
    PROVE  q \in Int \X Int /\ (q # Infinity => q \in CurvePoints /\ q \in Field \X Field)
BY CurveFacts DEF Group, CurvePoints, Infinity, Field

\* The two functions of the code are the sum of the textbook.
LEMMA DoubleIsSum ==
    ASSUME NEW q \in Group
    PROVE  point_double(q) = Plus(q, q)
<1> DEFINE slope == ((3 * q[1] * q[1] + CurveA) * Inverse[(2 * q[2]) % CurveP]) % CurveP
<1>1. CASE q = Infinity
  BY <1>1 DEF point_double, point_inf, Plus
<1>2. CASE q # Infinity /\ q[2] = 0
  BY <1>2 DEF point_double, point_inf, Plus
<1>3. CASE q # Infinity /\ q[2] # 0
  <2>1. q[1] \in Int /\ q[2] \in Int /\ CurveA \in Int /\ CurveP \in Nat \ {0}
    BY <1>3, GroupPoint, CurveFacts DEF Field, IsPrime
  <2>2. (2 * q[2]) % CurveP \in Field
    BY <2>1 DEF Field
  <2>3. slope \in Int
    <3>1. Inverse[(2 * q[2]) % CurveP] \in Int
      BY <2>2, InverseInField DEF Field
    <3> DEFINE y == Inverse[(2 * q[2]) % CurveP]
               z == (3 * q[1] * q[1] + CurveA) * y
    <3>2. z \in Int
      <4>1. y \in Int
        BY <3>1
      <4> HIDE DEF y
      <4> QED BY <2>1, <4>1
    <3> HIDE DEF z
    <3>3. z % CurveP \in Int
      BY <2>1, <3>2
    <3> QED BY <3>3 DEF z
  <2>4. slope * slope - 2 * q[1] = slope * slope - q[1] - q[1]
    <3> HIDE DEF slope
    <3> DEFINE t == slope * slope
    <3>1. t \in Int
      BY <2>3
    <3> HIDE DEF t
    <3>2. t - 2 * q[1] = t - q[1] - q[1]
      BY <2>1, <3>1
    <3> QED BY <3>2 DEF t
  <2>5. point_double(q) = <<(slope * slope - 2 * q[1]) % CurveP,
            (slope * (q[1] - ((slope * slope - 2 * q[1]) % CurveP)) - q[2]) % CurveP>>
    BY <1>3, Zenon DEF point_double, point_inf
  <2>6. Plus(q, q) = <<(slope * slope - q[1] - q[1]) % CurveP,
            (slope * (q[1] - ((slope * slope - q[1] - q[1]) % CurveP)) - q[2]) % CurveP>>
    BY <1>3 DEF Plus
  <2> HIDE DEF slope
  <2> QED BY <2>4, <2>5, <2>6, Zenon
<1> QED BY <1>1, <1>2, <1>3

\* point_add is the sum of the textbook in each of its cases.
LEMMA AddIsSum ==
    ASSUME NEW q \in Group, NEW r \in Group
    PROVE  point_add(q, r) = Plus(q, r)
<1>1. CASE q = Infinity
  BY <1>1 DEF point_add, point_inf, Plus
<1>2. CASE q # Infinity /\ r = Infinity
  BY <1>2 DEF point_add, point_inf, Plus
<1>3. CASE q # Infinity /\ r # Infinity /\ q = r
  BY <1>3, DoubleIsSum DEF point_add, point_inf
<1>4. CASE q # Infinity /\ r # Infinity /\ q # r /\ q[1] = r[1]
  BY <1>4 DEF point_add, point_inf, Plus
<1>5. CASE q # Infinity /\ r # Infinity /\ q # r /\ q[1] # r[1]
  BY <1>5 DEF point_add, point_inf, Plus
<1> QED BY <1>1, <1>2, <1>3, <1>4, <1>5

\* f lists the multiples of q as far as the n-th.
Lists(f, q, n) == f[0] = Infinity /\ \A i \in 1 .. n : f[i] = Plus(f[i - 1], q)

\* The k-th multiple, for any number k.
Multiple(q, k) == CHOOSE x : \E f : Lists(f, q, k) /\ x = f[k]

\* There is one list only, as far as two reach.
LEMMA ListsAgree ==
    ASSUME NEW q, NEW m \in Nat, NEW n \in Nat, m <= n, NEW f, NEW g, Lists(f, q, m), Lists(g, q, n)
    PROVE  f[m] = g[m]
<1> DEFINE S == {i \in 0 .. m : f[i] = g[i]}
<1>1. 0 \in S
  BY DEF Lists
<1>2. ASSUME NEW i \in 0 .. m - 1, i \in S PROVE i + 1 \in S
  <2>1. i + 1 \in 1 .. m /\ i + 1 \in 1 .. n /\ (i + 1) - 1 = i
    OBVIOUS
  <2>2. f[i + 1] = Plus(f[i], q) /\ g[i + 1] = Plus(g[i], q)
    BY <2>1 DEF Lists
  <2>3. f[i] = g[i]
    BY <1>2
  <2> QED BY <2>1, <2>2, <2>3
<1> HIDE DEF S
<1>3. \A i \in 0 .. m : i \in S
  BY <1>1, <1>2, Induction
<1>4. m \in S
  BY <1>3
<1> QED BY <1>4 DEF S

\* What a list has is the multiple.
LEMMA ListIsMultiple ==
    ASSUME NEW q, NEW n \in Nat, NEW f, Lists(f, q, n), NEW k \in 0 .. n
    PROVE  f[k] = Multiple(q, k)
<1>1. Lists(f, q, k)
  BY DEF Lists
<1>2. \A x : (\E g : Lists(g, q, k) /\ x = g[k]) => x = f[k]
  BY <1>1, ListsAgree
<1>3. \E x : \E g : Lists(g, q, k) /\ x = g[k]
  BY <1>1
<1>4. \E g : Lists(g, q, k) /\ Multiple(q, k) = g[k]
  BY <1>3, Zenon DEF Multiple
<1> QED BY <1>2, <1>4

\* There is a list of any length.
LEMMA ListExists ==
    ASSUME NEW q \in Group, NEW n \in Nat
    PROVE  \E f : Lists(f, q, n)
<1> DEFINE S == {i \in Nat : \E f : Lists(f, q, i)}
<1>1. 0 \in S
  <2> DEFINE f == [i \in 0 .. 0 |-> Infinity]
  <2>1. f[0] = Infinity
    OBVIOUS
  <2> HIDE DEF f
  <2>2. Lists(f, q, 0)
    BY <2>1 DEF Lists
  <2> QED BY <2>2
<1>2. ASSUME NEW k \in Nat, k \in S PROVE k + 1 \in S
  <2>1. PICK f : Lists(f, q, k)
    BY <1>2
  <2> DEFINE g == [i \in 0 .. k + 1 |-> IF i = k + 1 THEN Plus(f[k], q) ELSE f[i]]
  <2>2. g[0] = Infinity
    BY <2>1 DEF Lists
  <2>3. ASSUME NEW i \in 1 .. k + 1 PROVE g[i] = Plus(g[i - 1], q)
    <3>1. CASE i = k + 1
      <4>1. g[i] = Plus(f[k], q) /\ g[i - 1] = f[k]
        BY <3>1
      <4> HIDE DEF g
      <4> QED BY <4>1
    <3>2. CASE i # k + 1
      <4>1. i \in 1 .. k /\ g[i] = f[i] /\ g[i - 1] = f[i - 1]
        BY <3>2
      <4> HIDE DEF g
      <4>2. f[i] = Plus(f[i - 1], q)
        BY <2>1, <4>1 DEF Lists
      <4> QED BY <4>1, <4>2
    <3> QED BY <3>1, <3>2
  <2> HIDE DEF g
  <2>4. Lists(g, q, k + 1)
    BY <2>2, <2>3 DEF Lists
  <2> QED BY <2>4
<1> HIDE DEF S
<1>3. n \in S
  BY <1>1, <1>2, Counting
<1> QED BY <1>3 DEF S

\* The first multiple, and the next one.
LEMMA MultipleZero ==
    ASSUME NEW q \in Group
    PROVE  Multiple(q, 0) = Infinity
<1>1. PICK f : Lists(f, q, 0)
  BY ListExists
<1>2. f[0] = Multiple(q, 0)
  BY <1>1, ListIsMultiple
<1> QED BY <1>1, <1>2 DEF Lists

\* One more of the point.
LEMMA MultipleNext ==
    ASSUME NEW q \in Group, NEW k \in Nat
    PROVE  Multiple(q, k + 1) = Plus(Multiple(q, k), q)
<1>1. PICK f : Lists(f, q, k + 1)
  BY ListExists
<1>2. k + 1 \in 0 .. k + 1 /\ k \in 0 .. k + 1 /\ k + 1 \in 1 .. k + 1 /\ (k + 1) - 1 = k
  OBVIOUS
<1>3. f[k + 1] = Multiple(q, k + 1) /\ f[k] = Multiple(q, k)
  BY <1>1, <1>2, ListIsMultiple
<1>4. f[k + 1] = Plus(f[k], q)
  BY <1>1, <1>2 DEF Lists
<1> QED BY <1>3, <1>4

\* Infinity changes nothing.
LEMMA PlusInfinity ==
    ASSUME NEW q \in Group
    PROVE  Plus(q, Infinity) = q /\ Plus(Infinity, q) = q /\ Infinity \in Group
<1>1. Infinity \in Group
  BY DEF Group
<1>2. CASE q = Infinity
  BY <1>1, <1>2 DEF Plus
<1>3. CASE q # Infinity
  BY <1>1, <1>3 DEF Plus
<1> QED BY <1>2, <1>3

\* The sum associates, by GroupLaw.
LEMMA Associates ==
    ASSUME NEW q \in Group, NEW r \in Group, NEW s \in Group
    PROVE  Plus(q, r) \in Group /\ Plus(Plus(q, r), s) = Plus(q, Plus(r, s))
BY Gost3410Assumption DEF GroupLaw

\* Multiples are points; the multiple by one is the point.
LEMMA MultipleType ==
    ASSUME NEW q \in Group, NEW k \in Nat
    PROVE  Multiple(q, k) \in Group
<1> DEFINE S == {i \in Nat : Multiple(q, i) \in Group}
<1>1. 0 \in S
  BY MultipleZero, PlusInfinity
<1>2. ASSUME NEW i \in Nat, i \in S PROVE i + 1 \in S
  BY <1>2, MultipleNext, Associates
<1> HIDE DEF S
<1>3. k \in S
  BY <1>1, <1>2, Counting
<1> QED BY <1>3 DEF S

\* The first multiple is the point.
LEMMA MultipleOne ==
    ASSUME NEW q \in Group
    PROVE  Multiple(q, 1) = q
<1>1. Multiple(q, 0 + 1) = Plus(Multiple(q, 0), q)
  BY MultipleNext
<1> QED BY <1>1, MultipleZero, PlusInfinity

\* The multiples by a sum and by a product.
LEMMA MultipleSum ==
    ASSUME NEW q \in Group, NEW i \in Nat, NEW j \in Nat
    PROVE  Multiple(q, i + j) = Plus(Multiple(q, i), Multiple(q, j))
<1> DEFINE S == {k \in Nat : Multiple(q, i + k) = Plus(Multiple(q, i), Multiple(q, k))}
<1>1. 0 \in S
  BY MultipleZero, MultipleType, PlusInfinity
<1>2. ASSUME NEW k \in Nat, k \in S PROVE k + 1 \in S
  <2>1. i + (k + 1) = (i + k) + 1 /\ i + k \in Nat
    OBVIOUS
  <2>2. Multiple(q, i + (k + 1)) = Plus(Multiple(q, i + k), q)
    BY <2>1, MultipleNext
  <2>3. Multiple(q, i + k) = Plus(Multiple(q, i), Multiple(q, k))
    BY <1>2
  <2>4. Multiple(q, i) \in Group /\ Multiple(q, k) \in Group
    BY MultipleType
  <2>5. Multiple(q, i + (k + 1)) = Plus(Multiple(q, i), Plus(Multiple(q, k), q))
    BY <2>2, <2>3, <2>4, Associates
  <2>6. Plus(Multiple(q, k), q) = Multiple(q, k + 1)
    BY MultipleNext
  <2> QED BY <2>5, <2>6
<1> HIDE DEF S
<1>3. j \in S
  BY <1>1, <1>2, Counting
<1> QED BY <1>3 DEF S

\* Multiples of multiples.
LEMMA MultipleProduct ==
    ASSUME NEW q \in Group, NEW i \in Nat, NEW j \in Nat
    PROVE  Multiple(Multiple(q, i), j) = Multiple(q, i * j)
<1> DEFINE S == {k \in Nat : Multiple(Multiple(q, i), k) = Multiple(q, i * k)}
<1>0. Multiple(q, i) \in Group
  BY MultipleType
<1>1. 0 \in S
  BY <1>0, MultipleZero, i * 0 = 0
<1>2. ASSUME NEW k \in Nat, k \in S PROVE k + 1 \in S
  <2>1. i * (k + 1) = i * k + i /\ i * k \in Nat
    OBVIOUS
  <2>2. Multiple(Multiple(q, i), k + 1) = Plus(Multiple(Multiple(q, i), k), Multiple(q, i))
    BY <1>0, MultipleNext
  <2>3. Multiple(Multiple(q, i), k) = Multiple(q, i * k)
    BY <1>2
  <2>4. Multiple(q, i * k + i) = Plus(Multiple(q, i * k), Multiple(q, i))
    BY <2>1, MultipleSum
  <2> QED BY <2>1, <2>2, <2>3, <2>4
<1> HIDE DEF S
<1>3. j \in S
  BY <1>1, <1>2, Counting
<1> QED BY <1>3 DEF S

\* The table of the textbook has the multiples.
LEMMA TimesAre ==
    ASSUME NEW q \in Group, NEW k \in 0 .. MaxTimes, MaxTimes \in Nat
    PROVE  Times[q][k] = Multiple(q, k)
<1> DEFINE Scheme(f) == [i \in 0 .. MaxTimes |-> IF i = 0 THEN Infinity ELSE Plus(f[i - 1], q)]
           value == CHOOSE f : f = Scheme(f)
           table == [i \in 0 .. MaxTimes |-> Multiple(q, i)]
<1>1. Times[q] = [i \in 0 .. MaxTimes |-> value[i]]
  BY DEF Times, Group
<1>2. table = Scheme(table)
  <2>1. ASSUME NEW i \in 0 .. MaxTimes
        PROVE  table[i] = IF i = 0 THEN Infinity ELSE Plus(table[i - 1], q)
    <3>1. CASE i = 0
      BY <3>1, MultipleZero
    <3>2. CASE i # 0
      <4>1. i - 1 \in Nat /\ (i - 1) + 1 = i /\ i - 1 \in 0 .. MaxTimes
        BY <3>2
      <4>2. Multiple(q, (i - 1) + 1) = Plus(Multiple(q, i - 1), q)
        BY <4>1, MultipleNext
      <4> QED BY <3>2, <4>1, <4>2
    <3> QED BY <3>1, <3>2
  <2>2. table = [i \in 0 .. MaxTimes |-> table[i]]
    OBVIOUS
  <2> HIDE DEF table
  <2> QED BY <2>1, <2>2
<1>3. value = Scheme(value)
  <2> HIDE DEF Scheme, table
  <2> QED BY <1>2
<1> HIDE DEF value
<1>4. Lists(value, q, MaxTimes)
  <2>1. value[0] = Infinity
    BY <1>3
  <2>2. ASSUME NEW i \in 1 .. MaxTimes PROVE value[i] = Plus(value[i - 1], q)
    BY <1>3
  <2> QED BY <2>1, <2>2 DEF Lists
<1>5. value[k] = Multiple(q, k)
  BY <1>4, ListIsMultiple
<1> QED BY <1>1, <1>5

\* The multiplication of the code, from the highest bit down, gives the multiple.
LEMMA PointMult ==
    ASSUME NEW q \in Group, NEW k \in Nat
    PROVE  point_mult(q, k) = Multiple(q, k)
<1> DEFINE Turn(f, j) ==
               IF j = 0 THEN Infinity
               ELSE LET twice == point_double(f[j \div 2])
                    IN  IF j % 2 = 1 THEN point_add(twice, q) ELSE twice
           Scheme(f) == [j \in 0 .. k |-> Turn(f, j)]
           value == CHOOSE f : f = Scheme(f)
           table == [j \in 0 .. k |-> Multiple(q, j)]
<1>1. point_mult(q, k) = value[k]
  BY DEF point_mult
<1>2. ASSUME NEW f, NEW j \in Nat, j = 0 \/ f[j \div 2] = Multiple(q, j \div 2)
      PROVE  Turn(f, j) = Multiple(q, j)
  <2>1. CASE j = 0
    BY <2>1, MultipleZero
  <2>2. CASE j # 0
    <3> DEFINE h == j \div 2
    <3>1. h \in Nat /\ (j % 2 = 0 \/ j % 2 = 1) /\ j = h + h + (j % 2)
      OBVIOUS
    <3>2. f[h] = Multiple(q, h) /\ Multiple(q, h) \in Group
      BY <1>2, <2>2, <3>1, MultipleType
    <3>3. point_double(f[h]) = Multiple(q, h + h)
      BY <3>1, <3>2, DoubleIsSum, MultipleSum
    <3>4. Multiple(q, h + h) \in Group
      BY <3>1, MultipleType
    <3>5. CASE j % 2 = 0
      <4>1. j = h + h
        BY <3>1, <3>5
      <4>2. Turn(f, j) = point_double(f[h])
        BY <2>2, <3>5
      <4> HIDE DEF h, Turn
      <4> QED BY <3>3, <4>1, <4>2
    <3>6. CASE j % 2 = 1
      <4>1. j = (h + h) + 1
        BY <3>1, <3>6
      <4>2. Turn(f, j) = point_add(point_double(f[h]), q)
        BY <2>2, <3>6
      <4> HIDE DEF h, Turn
      <4>3. h + h \in Nat
        BY <3>1
      <4>4. Multiple(q, (h + h) + 1) = Plus(Multiple(q, h + h), q)
        BY <4>3, MultipleNext
      <4> QED BY <3>3, <3>4, <4>1, <4>2, <4>4, AddIsSum
    <3> HIDE DEF Turn
    <3> QED BY <3>1, <3>5, <3>6
  <2> QED BY <2>1, <2>2
<1> HIDE DEF Turn
<1>3. table = Scheme(table)
  <2>1. ASSUME NEW j \in 0 .. k PROVE table[j] = Turn(table, j)
    <3>1. j = 0 \/ j \div 2 \in 0 .. k
      OBVIOUS
    <3>2. j = 0 \/ table[j \div 2] = Multiple(q, j \div 2)
      BY <3>1
    <3>3. table[j] = Multiple(q, j)
      OBVIOUS
    <3> HIDE DEF table
    <3> QED BY <1>2, <3>2, <3>3
  <2>2. table = [j \in 0 .. k |-> table[j]]
    OBVIOUS
  <2> HIDE DEF table
  <2> QED BY <2>1, <2>2
<1>4. value = Scheme(value)
  <2> HIDE DEF Scheme, table
  <2> QED BY <1>3
<1> HIDE DEF value
<1>5. \A j \in 0 .. k : value[j] = Turn(value, j)
  BY <1>4
<1>6. value[k] = Multiple(q, k)
  <2> DEFINE T == {j \in 0 .. k : value[j] # Multiple(q, j)}
  <2> SUFFICES ASSUME T # {} PROVE FALSE
    OBVIOUS
  <2>1. T \subseteq Nat
    OBVIOUS
  <2>2. PICK j \in T : \A i \in T : j <= i
    <3> HIDE DEF T
    <3> QED BY <2>1, LeastNumber
  <2>3. j \in 0 .. k /\ value[j] # Multiple(q, j)
    OBVIOUS
  <2>4. j = 0 \/ (j \div 2 \in 0 .. k /\ j \div 2 < j)
    BY <2>3
  <2>5. j = 0 \/ value[j \div 2] = Multiple(q, j \div 2)
    <3> HIDE DEF Turn
    <3>1. ASSUME j # 0 PROVE j \div 2 \notin T
      <4>1. j \div 2 \in Nat /\ j \in Nat /\ ~(j <= j \div 2)
        BY <2>3, <2>4, <3>1
      <4> HIDE DEF T
      <4> QED BY <2>2, <4>1
    <3> QED BY <2>4, <3>1
  <2>6. Turn(value, j) = Multiple(q, j)
    BY <1>2, <2>3, <2>5
  <2> QED BY <1>5, <2>3, <2>6
<1> QED BY <1>1, <1>6

-----------------------------------------------------------------------------
(***************************************************************************)
(* The multiples of the base point, and numbers modulo its order.          *)
(***************************************************************************)

\* What is known of the order of the base point.
LEMMA OrderFacts ==
    /\ CurveN \in Nat \ {0} /\ CurveN > 2 /\ IsPrime(CurveN)
    /\ CurveG \in Group /\ CurveG # Infinity /\ Infinity \in Group
    /\ MaxTimes \in Nat /\ CurveN <= MaxTimes
<1>1. CurveN \in Nat \ {0} /\ CurveN > 2 /\ IsPrime(CurveN)
  BY CurveFacts DEF IsPrime
<1>2. CurveG \in Group /\ CurveG # Infinity /\ Infinity \in Group
  BY CurveFacts DEF Group
<1>3. CurveP \in Nat
  BY CurveFacts DEF IsPrime
<1>4. MaxTimes \in Nat
  BY <1>3 DEF MaxTimes
<1> QED BY <1>1, <1>2, <1>4, CurveFacts

\* Numbers with one remainder may take each other's place in sums and in products.
Same(x, y) == x % CurveN = y % CurveN

\* In sums,
LEMMA SameSum ==
    ASSUME NEW x \in Int, NEW y \in Int, NEW u \in Int, NEW v \in Int, Same(x, u), Same(y, v)
    PROVE  Same(x + y, u + v)
<1> DEFINE m == CurveN
<1>1. m \in Nat \ {0} /\ x % m = u % m /\ y % m = v % m
  BY OrderFacts DEF Same
<1> HIDE DEF m
<1>2. (x + y) % m = (u + y) % m
  <2>1. ((x % m) + y) % m = (x + y) % m
    BY <1>1, RemainderOfSum
  <2>2. ((u % m) + y) % m = (u + y) % m
    BY <1>1, RemainderOfSum
  <2> QED BY <1>1, <2>1, <2>2
<1>3. (u + y) % m = (u + v) % m
  <2>1. ((y % m) + u) % m = (y + u) % m
    BY <1>1, RemainderOfSum
  <2>2. ((v % m) + u) % m = (v + u) % m
    BY <1>1, RemainderOfSum
  <2>3. y + u = u + y /\ v + u = u + v
    OBVIOUS
  <2> QED BY <1>1, <2>1, <2>2, <2>3
<1> QED BY <1>2, <1>3 DEF Same, m

\* and in products.
LEMMA SameProduct ==
    ASSUME NEW x \in Int, NEW y \in Int, NEW u \in Int, NEW v \in Int, Same(x, u), Same(y, v)
    PROVE  Same(x * y, u * v)
<1> DEFINE m == CurveN
<1>1. m \in Nat \ {0} /\ x % m = u % m /\ y % m = v % m
  BY OrderFacts DEF Same
<1> HIDE DEF m
<1>2. (x * y) % m = (u * y) % m
  <2>1. ((x % m) * y) % m = (x * y) % m
    BY <1>1, RemainderOfProduct
  <2>2. ((u % m) * y) % m = (u * y) % m
    BY <1>1, RemainderOfProduct
  <2> QED BY <1>1, <2>1, <2>2
<1>3. (u * y) % m = (u * v) % m
  <2>1. ((y % m) * u) % m = (y * u) % m
    BY <1>1, RemainderOfProduct
  <2>2. ((v % m) * u) % m = (v * u) % m
    BY <1>1, RemainderOfProduct
  <2>3. y * u = u * y /\ v * u = u * v
    OBVIOUS
  <2> QED BY <1>1, <2>1, <2>2, <2>3
<1> QED BY <1>2, <1>3 DEF Same, m

\* A number and its remainder, and a number that differs by a multiple of the order.
LEMMA SameIs ==
    ASSUME NEW x \in Int
    PROVE  /\ x % CurveN \in 0 .. CurveN - 1 /\ Same(x % CurveN, x) /\ Same(x, x)
           /\ x \in 0 .. CurveN - 1 => x % CurveN = x
           /\ \A q \in Int : Same(x + q * CurveN, x)
<1> DEFINE m == CurveN
<1>1. m \in Nat \ {0}
  BY OrderFacts
<1> HIDE DEF m
<1>2. x % m \in 0 .. m - 1 /\ (x % m) % m = x % m /\ (x \in 0 .. m - 1 => x % m = x)
  BY <1>1, Division, RemainderTwice
<1>3. ASSUME NEW q \in Int PROVE (x + q * m) % m = x % m
  <2> DEFINE y == x + q * m
  <2>1. y \in Int /\ y = x + q * m
    BY <1>1
  <2> HIDE DEF y
  <2>2. y % m = x % m
    BY <1>1, <2>1, SameRemainder
  <2> QED BY <2>2, <2>1
<1> QED BY <1>2, <1>3 DEF Same, m

\* Sameness is an equivalence.
LEMMA SameChain ==
    ASSUME NEW x, NEW y, NEW z, Same(x, y)
    PROVE  Same(y, x) /\ (Same(y, z) => Same(x, z))
BY DEF Same

\* The neutral element has no other multiples.
LEMMA MultipleOfInfinity ==
    ASSUME NEW k \in Nat
    PROVE  Multiple(Infinity, k) = Infinity
<1> DEFINE S == {i \in Nat : Multiple(Infinity, i) = Infinity}
<1>0. Infinity \in Group
  BY OrderFacts
<1>1. 0 \in S
  BY <1>0, MultipleZero
<1>2. ASSUME NEW i \in Nat, i \in S PROVE i + 1 \in S
  BY <1>0, <1>2, MultipleNext, PlusInfinity
<1> HIDE DEF S
<1>3. \A i \in Nat : i \in S
  BY <1>1, <1>2, Counting
<1> QED BY <1>3 DEF S

\* The order takes the base point to infinity.
LEMMA OrderOfG == Multiple(CurveG, CurveN) = Infinity
<1>1. CurveN \in 0 .. MaxTimes
  BY OrderFacts
<1>2. Times[CurveG][CurveN] = Multiple(CurveG, CurveN)
  BY <1>1, OrderFacts, TimesAre
<1> QED BY <1>2, CurveFacts

\* The multiple depends on the remainder of the number modulo the order.
LEMMA OrderReduces ==
    ASSUME NEW k \in Nat
    PROVE  Multiple(CurveG, k) = Multiple(CurveG, k % CurveN)
<1> DEFINE q == k \div CurveN
           r == k % CurveN
<1>0. CurveN \in Nat \ {0}
  BY OrderFacts
<1>1. q \in Int /\ r \in 0 .. CurveN - 1 /\ k = q * CurveN + r
  BY <1>0, Division
<1> HIDE DEF q, r
<1>2. q \in Nat
  <2> SUFFICES ASSUME q \notin Nat PROVE FALSE
    OBVIOUS
  <2> DEFINE p == -q - 1
             t == p * CurveN
  <2>1. p \in Nat
    BY <1>1
  <2>2. t \in Nat /\ q * CurveN = -t - CurveN
    BY <1>0, <1>1, <2>1
  <2> HIDE DEF p, t
  <2> DEFINE v == q * CurveN
  <2>3. v = -t - CurveN
    BY <2>2
  <2>4. k = v + r
    BY <1>1
  <2> HIDE DEF v
  <2> QED BY <1>0, <1>1, <2>2, <2>3, <2>4
<1>3. CurveN * q \in Nat /\ r \in Nat /\ k = CurveN * q + r
  BY <1>1, <1>2, OrderFacts
<1>4. Multiple(CurveG, CurveN * q) = Infinity
  BY <1>2, OrderFacts, OrderOfG, MultipleProduct, MultipleOfInfinity
<1>5. Multiple(CurveG, k) = Plus(Multiple(CurveG, CurveN * q), Multiple(CurveG, r))
  BY <1>3, OrderFacts, MultipleSum
<1>6. Multiple(CurveG, r) \in Group
  BY <1>3, OrderFacts, MultipleType
<1>7. Multiple(CurveG, k) = Multiple(CurveG, r)
  BY <1>4, <1>5, <1>6, PlusInfinity
<1> QED BY <1>7 DEF r

\* Scalars with one remainder have one multiple of the base point.
LEMMA SameMultiple ==
    ASSUME NEW i \in Nat, NEW j \in Nat, Same(i, j)
    PROVE  Multiple(CurveG, i) = Multiple(CurveG, j)
BY OrderReduces DEF Same

\* The order is the least one: no smaller number but zero gives the point at infinity.
LEMMA OrderExact ==
    ASSUME NEW k \in Nat, k % CurveN # 0
    PROVE  Multiple(CurveG, k) # Infinity
<1> DEFINE r == k % CurveN
<1>0. CurveN \in Nat \ {0}
  BY OrderFacts
<1>1. r \in 1 .. CurveN - 1
  <2>1. r \in 0 .. CurveN - 1
    BY <1>0, Division
  <2>2. r # 0
    OBVIOUS
  <2> HIDE DEF r
  <2> QED BY <1>0, <2>1, <2>2
<1>2. Multiple(CurveG, k) = Multiple(CurveG, r)
  BY OrderReduces
<1> HIDE DEF r
<1>3. PICK y \in 1 .. CurveN - 1 : (r * y) % CurveN = 1
  BY <1>1, OrderFacts, InverseExists
<1>4. r \in Nat /\ y \in Nat /\ r * y \in Nat
  BY <1>1, <1>3
<1>5. Multiple(Multiple(CurveG, r), y) = CurveG
  <2>1. Multiple(Multiple(CurveG, r), y) = Multiple(CurveG, r * y)
    BY <1>4, OrderFacts, MultipleProduct
  <2>2. Multiple(CurveG, r * y) = Multiple(CurveG, 1)
    BY <1>3, <1>4, OrderReduces
  <2> QED BY <2>1, <2>2, OrderFacts, MultipleOne
<1>6. Multiple(CurveG, r) # Infinity
  BY <1>4, <1>5, OrderFacts, MultipleOfInfinity
<1> QED BY <1>2, <1>6

Scalar == 1 .. CurveN - 1

\* Every scalar has an inverse, and ModInv finds it.
LEMMA ModInvIs ==
    ASSUME NEW x \in Scalar
    PROVE  ModInv(x) \in Scalar /\ (x * ModInv(x)) % CurveN = 1
<1>1. x \in 1 .. CurveN - 1 /\ x # 0
  BY OrderFacts DEF Scalar
<1>2. \E y \in 1 .. CurveN - 1 : (x * y) % CurveN = 1
  BY <1>1, OrderFacts, InverseExists
<1>3. ModInv(x) = CHOOSE y \in 1 .. CurveN - 1 : (x * y) % CurveN = 1
  BY <1>1 DEF ModInv
<1> QED BY <1>2, <1>3 DEF Scalar

\* A public key is a valid point.
LEMMA KeyIsPoint ==
    ASSUME NEW d \in Scalar
    PROVE  /\ Multiple(CurveG, d) \in Group /\ Multiple(CurveG, d) # Infinity
           /\ ecc_point_valid(Multiple(CurveG, d))
<1>1. d \in Nat /\ d \in 0 .. CurveN - 1 /\ d # 0
  BY OrderFacts DEF Scalar
<1>2. d % CurveN = d
  BY <1>1, OrderFacts, RemainderTwice
<1> DEFINE q == Multiple(CurveG, d)
<1>3. q \in Group /\ q # Infinity
  BY <1>1, <1>2, OrderFacts, MultipleType, OrderExact
<1> HIDE DEF q
<1>4. q \in CurvePoints
  BY <1>3, GroupPoint
<1>5. CurveP \in Nat
  BY CurveFacts DEF IsPrime
<1>6. q \in Field \X Field /\ OnCurve(q)
  BY <1>4 DEF CurvePoints
<1>7. q[1] < CurveP /\ q[2] < CurveP
  BY <1>5, <1>6 DEF Field
<1>8. ecc_point_valid(q)
  BY <1>3, <1>6, <1>7 DEF ecc_point_valid
<1> QED BY <1>3, <1>8 DEF q

\* Whatever the digest, its scalar is a valid one: zero became one.
LEMMA DigestScalar ==
    ASSUME NEW digest \in Nat
    PROVE  digest_scalar(digest) \in Scalar
<1>0. CurveN \in Nat \ {0}
  BY OrderFacts
<1>1. digest % CurveN \in 0 .. CurveN - 1
  BY <1>0, Division
<1> QED BY <1>1, OrderFacts DEF digest_scalar, scalar_reduce, Scalar
-----------------------------------------------------------------------------
(***************************************************************************)
(* Signatures.                                                             *)
(***************************************************************************)

\* What the verification multiplies the base point by, in all.
Total(d, e, s, r) ==
    ((s * ModInv(e)) % CurveN) + d * (((CurveN - r) * ModInv(e)) % CurveN)

\* Times e it is s - d r.
LEMMA TotalTimesE ==
    ASSUME NEW d \in Scalar, NEW e \in Scalar, NEW s \in Scalar, NEW r \in Scalar
    PROVE  /\ Total(d, e, s, r) \in Nat
           /\ Same(e * Total(d, e, s, r), s - d * r)
<1> DEFINE i == ModInv(e)
           z1 == (s * i) % CurveN
           z2 == ((CurveN - r) * i) % CurveN
<1>1. CurveN \in Nat \ {0} /\ CurveN > 2
  BY OrderFacts
<1>2. i \in Scalar /\ (e * i) % CurveN = 1
  BY ModInvIs
<1>3. Total(d, e, s, r) = z1 + d * z2
  BY DEF Total
<1> HIDE DEF i
<1>4. /\ e \in Int /\ d \in Nat /\ s \in Int /\ r \in Int /\ i \in Int
      /\ CurveN - r \in Int /\ s * i \in Int /\ (CurveN - r) * i \in Int /\ e * i \in Int
  BY <1>1, <1>2 DEF Scalar
<1>5. /\ z1 \in 0 .. CurveN - 1 /\ z2 \in 0 .. CurveN - 1
      /\ Same(z1, s * i) /\ Same(z2, (CurveN - r) * i)
  BY <1>4, SameIs
<1> HIDE DEF z1, z2
<1>6. z1 \in Nat /\ z2 \in Nat /\ z1 \in Int /\ z2 \in Int
  BY <1>1, <1>5
<1>7. ASSUME NEW x \in Int, NEW z \in Int, Same(z, x * i)
      PROVE  Same(e * z, x)
  <2>1. x * i \in Int /\ Same(e, e) /\ Same(x, x)
    BY <1>4, SameIs
  <2>2. Same(e * z, e * (x * i))
    BY <1>4, <1>7, <2>1, SameProduct
  <2>3. e * (x * i) = (e * i) * x /\ 1 * x = x
    BY <1>4
  <2>4. Same(e * i, 1)
    <3>1. 1 \in 0 .. CurveN - 1 /\ 1 \in Int
      BY <1>1
    <3> QED BY <1>2, <3>1, SameIs DEF Same
  <2>5. Same((e * i) * x, 1 * x)
    <3>1. 1 \in Int
      OBVIOUS
    <3> QED BY <1>4, <2>1, <2>4, <3>1, SameProduct
  <2>6. Same(e * (x * i), x)
    BY <2>3, <2>5
  <2> QED BY <2>2, <2>6, SameChain
<1>8. Same(e * z1, s) /\ Same(e * z2, CurveN - r)
  BY <1>4, <1>5, <1>6, <1>7
<1>9. Same(CurveN - r, -r)
  <2>1. CurveN - r = -r + 1 * CurveN /\ -r \in Int /\ 1 \in Int
    BY <1>1, <1>4
  <2> QED BY <2>1, SameIs
<1>10. Same(d * (e * z2), d * (-r))
  <2>1. Same(e * z2, -r)
    BY <1>8, <1>9, SameChain
  <2>2. e * z2 \in Int /\ -r \in Int /\ d \in Int
    BY <1>4, <1>6
  <2>3. Same(d, d)
    BY <2>2, SameIs
  <2> QED BY <2>1, <2>2, <2>3, SameProduct
<1>11. Same(e * z1 + d * (e * z2), s + d * (-r))
  <2>1. e * z1 \in Int /\ d * (e * z2) \in Int /\ d * (-r) \in Int
    BY <1>4, <1>6
  <2> QED BY <1>4, <1>8, <1>10, <2>1, SameSum
<1>12. e * (z1 + d * z2) = e * z1 + d * (e * z2)
  BY <1>4, <1>6
<1>13. s + d * (-r) = s - d * r
  BY <1>4
<1>14. z1 + d * z2 \in Nat
  BY <1>4, <1>6
<1>15. Same(e * (z1 + d * z2), s - d * r)
  BY <1>11, <1>12, <1>13
<1> QED BY <1>3, <1>14, <1>15

\* The equation of the signature says that the verification multiplies by the nonce.
LEMMA SignatureEquation ==
    ASSUME NEW d \in Scalar, NEW e \in Scalar, NEW s \in Scalar, NEW r \in Scalar, NEW k \in Scalar
    PROVE  s = (d * r + k * e) % CurveN <=> Total(d, e, s, r) % CurveN = k
<1> DEFINE i == ModInv(e)
           w == Total(d, e, s, r)
           x == d * r
           y == k * e
           z == e * w
<1>1. CurveN \in Nat \ {0} /\ CurveN > 2
  BY OrderFacts
<1>2. i \in Scalar /\ (e * i) % CurveN = 1
  BY ModInvIs
<1>3. w \in Int /\ Same(z, s - x)
  BY TotalTimesE
<1> HIDE DEF i, w
<1>5. /\ d \in Int /\ e \in Int /\ s \in Int /\ r \in Int /\ k \in Int /\ i \in Int
      /\ s \in 0 .. CurveN - 1 /\ k \in 0 .. CurveN - 1
  BY <1>1, <1>2 DEF Scalar
<1>6. x \in Int /\ y \in Int /\ z \in Int
  BY <1>3, <1>5
<1>7. s % CurveN = s /\ k % CurveN = k
  BY <1>5, SameIs
<1>8. ASSUME w % CurveN = k PROVE s = (x + y) % CurveN
  <2>1. Same(k, w) /\ Same(e, e) /\ Same(x, x)
    BY <1>7, <1>8 DEF Same
  <2>2. Same(k * e, w * e)
    BY <1>3, <1>5, <2>1, SameProduct
  <2>3. w * e = z
    BY <1>3, <1>5
  <2>4. Same(y, s - x)
    BY <2>2, <2>3, <1>3, SameChain
  <2> HIDE DEF x, y, z
  <2>5. s - x \in Int /\ x + (s - x) = s
    BY <1>5, <1>6
  <2>6. Same(x + y, x + (s - x))
    BY <1>6, <2>1, <2>4, <2>5, SameSum
  <2>7. Same(x + y, s)
    BY <2>5, <2>6
  <2> QED BY <2>7, <1>7 DEF Same
<1>9. ASSUME s = (x + y) % CurveN PROVE w % CurveN = k
  <2>1. Same(y, s - x)
    <3> HIDE DEF x, y, z
    <3>1. -x \in Int /\ x + y \in Int
      BY <1>6
    <3>2. Same(x + y, s) /\ Same(-x, -x)
      BY <1>7, <1>9 DEF Same
    <3>3. Same((x + y) + (-x), s + (-x))
      BY <1>5, <3>1, <3>2, SameSum
    <3>4. (x + y) + (-x) = y /\ s + (-x) = s - x
      BY <1>5, <1>6
    <3> QED BY <3>3, <3>4
  <2>2. Same(y, z)
    BY <2>1, <1>3, SameChain
  <2>3. Same(y * i, z * i)
    <3>1. Same(i, i)
      BY DEF Same
    <3> HIDE DEF x, y, z
    <3> QED BY <1>5, <1>6, <2>2, <3>1, SameProduct
  <2>4. ASSUME NEW v \in Int PROVE Same((e * i) * v, v)
    <3>1. 1 \in 0 .. CurveN - 1 /\ 1 \in Int /\ e * i \in Int /\ 1 * v = v
      BY <1>1, <1>5
    <3>2. Same(e * i, 1)
      BY <1>2, <3>1, SameIs DEF Same
    <3>3. Same(v, v)
      BY DEF Same
    <3>4. Same((e * i) * v, 1 * v)
      BY <3>1, <3>2, <3>3, SameProduct
    <3> QED BY <3>1, <3>4
  <2>5. y * i = (e * i) * k /\ z * i = (e * i) * w
    BY <1>3, <1>5
  <2>6. Same((e * i) * k, (e * i) * w)
    BY <2>3, <2>5
  <2>7. Same((e * i) * k, k) /\ Same((e * i) * w, w)
    BY <1>3, <1>5, <2>4
  <2>8. Same(k, w)
    BY <2>6, <2>7, SameChain
  <2> QED BY <2>8, <1>7 DEF Same
<1> QED BY <1>8, <1>9 DEF w

Key(d) == Multiple(CurveG, d)

\* What sign and verify compute for keys and digests that are such.
LEMMA SignIs ==
    ASSUME NEW digest \in Nat, NEW d \in Scalar, NEW k \in Nat, NEW s \in Nat, NEW r \in Nat
    PROVE  gost3410_256tc26a_sign(digest, d, k) = Success(<<s, r>>) <=>
             /\ k \in Scalar /\ r \in Scalar /\ s \in Scalar
             /\ r = Key(k)[1] % CurveN
             /\ s = (d * r + k * digest_scalar(digest)) % CurveN
<1> DEFINE e == digest_scalar(digest)
           x == point_mult(CurveG, k)[1]
           rr == x % CurveN
           ss == (d * rr + k * e) % CurveN
<1>1. CurveN \in Nat \ {0} /\ d \in Nat /\ d # 0 /\ d < CurveN /\ CurveG \in Group
  BY OrderFacts DEF Scalar
<1>2. point_mult(CurveG, k) = Key(k) /\ Key(k) \in Group
  BY <1>1, PointMult, MultipleType DEF Key
<1>3. x \in Int
  BY <1>2, GroupPoint
<1>4. e \in Int
  BY DigestScalar, <1>1 DEF Scalar
<1>5. gost3410_256tc26a_sign(digest, d, k) =
        IF ~scalar_valid(d) \/ ~scalar_valid(k) THEN Error
        ELSE IF rr = 0 \/ ss = 0 THEN Error ELSE Success(<<ss, rr>>)
  BY DEF gost3410_256tc26a_sign, scalar_reduce
<1> HIDE DEF e, x
<1>6. rr \in 0 .. CurveN - 1
  BY <1>1, <1>3, Division
<1> HIDE DEF rr
<1>7. ss \in 0 .. CurveN - 1
  <2> DEFINE v == d * rr + k * e
  <2>1. v \in Int
    BY <1>1, <1>4, <1>6
  <2> HIDE DEF v
  <2>2. v % CurveN \in 0 .. CurveN - 1
    BY <1>1, <2>1, Division
  <2> QED BY <2>2 DEF v
<1>8. scalar_valid(d) /\ (scalar_valid(k) <=> k \in Scalar)
  BY <1>1 DEF scalar_valid, Scalar
<1>9. rr \in Scalar <=> rr # 0
  BY <1>1, <1>6 DEF Scalar
<1>10. ss \in Scalar <=> ss # 0
  <2> HIDE DEF ss
  <2> QED BY <1>1, <1>7 DEF Scalar
<1>11. rr = Key(k)[1] % CurveN
  BY <1>2 DEF rr, x
<1>12. ASSUME NEW u, NEW v PROVE Success(<<u, v>>) = Success(<<s, r>>) <=> s = u /\ r = v
  BY DEF Success
<1>13. Error # Success(<<s, r>>)
  BY DEF Error, Success
<1>14. gost3410_256tc26a_sign(digest, d, k) = Success(<<s, r>>) <=>
         k \in Scalar /\ rr # 0 /\ ss # 0 /\ s = ss /\ r = rr
  <2> HIDE DEF ss
  <2> QED BY <1>5, <1>8, <1>12, <1>13
<1>15. gost3410_256tc26a_sign(digest, d, k) = Success(<<s, r>>) <=>
         k \in Scalar /\ r \in Scalar /\ s \in Scalar /\ s = ss /\ r = rr
  <2> HIDE DEF ss
  <2> QED BY <1>9, <1>10, <1>14
<1> QED BY <1>11, <1>15 DEF e

\* What the verification accepts, in terms of one multiple of the base point.
LEMMA VerifyIs ==
    ASSUME NEW digest \in Nat, NEW d \in Scalar, NEW s \in Nat, NEW r \in Nat
    PROVE  gost3410_256tc26a_verify(Key(d), digest, <<s, r>>) = 0 <=>
             /\ r \in Scalar /\ s \in Scalar
             /\ Key(Total(d, digest_scalar(digest), s, r))[1] % CurveN = r
<1> DEFINE e == digest_scalar(digest)
           i == ModInv(e)
           z1 == (s * i) % CurveN
           z2 == ((CurveN - r) * i) % CurveN
           c == point_add(point_mult(CurveG, z1), point_mult(Key(d), z2))
<1>1. CurveN \in Nat \ {0} /\ d \in Nat /\ CurveG \in Group
  BY OrderFacts DEF Scalar
<1>2. i \in Scalar
  BY DigestScalar, ModInvIs
<1>3. z1 \in Nat /\ z2 \in Nat
  <2> HIDE DEF i
  <2>1. i \in Int
    BY <1>1, <1>2 DEF Scalar
  <2>2. s * i \in Int /\ (CurveN - r) * i \in Int
    BY <1>1, <2>1
  <2>3. z1 \in 0 .. CurveN - 1 /\ z2 \in 0 .. CurveN - 1
    BY <1>1, <2>2, Division
  <2> QED BY <2>3, <1>1
<1>4. Key(d) \in Group /\ ecc_point_valid(Key(d))
  BY KeyIsPoint DEF Key
<1>5. (scalar_valid(r) <=> r \in Scalar) /\ (scalar_valid(s) <=> s \in Scalar)
  BY <1>1 DEF scalar_valid, Scalar
<1>6. gost3410_256tc26a_verify(Key(d), digest, <<s, r>>) =
        IF ~ecc_point_valid(Key(d)) \/ ~scalar_valid(r) \/ ~scalar_valid(s) THEN -1
        ELSE IF c[1] % CurveN = r THEN 0 ELSE -1
  BY DEF gost3410_256tc26a_verify, scalar_reduce
<1>7. Total(d, e, s, r) = z1 + d * z2
  BY DEF Total
<1> HIDE DEF z1, z2
<1>8. c = Key(z1 + d * z2)
  <2>1. point_mult(CurveG, z1) = Key(z1) /\ Key(z1) \in Group
    BY <1>1, <1>3, PointMult, MultipleType DEF Key
  <2>2. point_mult(Key(d), z2) = Multiple(Key(d), z2) /\ Multiple(Key(d), z2) \in Group
    BY <1>3, <1>4, PointMult, MultipleType
  <2>3. Multiple(Key(d), z2) = Key(d * z2)
    BY <1>1, <1>3, MultipleProduct DEF Key
  <2>4. c = Plus(Key(z1), Key(d * z2))
    BY <2>1, <2>2, <2>3, AddIsSum
  <2>5. d * z2 \in Nat
    BY <1>1, <1>3
  <2> QED BY <1>1, <1>3, <2>4, <2>5, MultipleSum DEF Key
<1> HIDE DEF c
<1>9. gost3410_256tc26a_verify(Key(d), digest, <<s, r>>) = 0 <=>
         r \in Scalar /\ s \in Scalar /\ c[1] % CurveN = r
  BY <1>4, <1>5, <1>6
<1> QED BY <1>7, <1>8, <1>9 DEF e

\* Under a public key exactly what its owner can sign is accepted.
LEMMA AcceptedIsSigned ==
    ASSUME NEW digest \in Nat, NEW d \in Scalar, NEW s \in Nat, NEW r \in Nat
    PROVE  gost3410_256tc26a_verify(Key(d), digest, <<s, r>>) = 0 <=>
             \E nonce \in 1 .. (CurveN - 1) :
                gost3410_256tc26a_sign(digest, d, nonce) = Success(<<s, r>>)
<1> DEFINE e == digest_scalar(digest)
           w == Total(d, e, s, r)
<1>1. CurveN \in Nat \ {0} /\ d \in Nat /\ CurveG \in Group
  BY OrderFacts DEF Scalar
<1>2. e \in Scalar
  BY DigestScalar
<1> HIDE DEF e
<1>3. ASSUME gost3410_256tc26a_verify(Key(d), digest, <<s, r>>) = 0
      PROVE  \E nonce \in 1 .. (CurveN - 1) :
                gost3410_256tc26a_sign(digest, d, nonce) = Success(<<s, r>>)
  <2>1. r \in Scalar /\ s \in Scalar /\ Key(w)[1] % CurveN = r
    BY <1>3, VerifyIs DEF e
  <2>2. w \in Nat
    BY <2>1, <1>2, TotalTimesE
  <2> HIDE DEF w
  <2> DEFINE k == w % CurveN
  <2>3. k \in 0 .. CurveN - 1 /\ Key(w) = Key(k)
    <3>1. k \in 0 .. CurveN - 1
      BY <1>1, <2>2, Division
    <3>2. Key(w) = Key(k)
      BY <2>2, OrderReduces DEF Key
    <3> QED BY <3>1, <3>2
  <2>4. k # 0
    <3> SUFFICES ASSUME k = 0 PROVE FALSE
      OBVIOUS
    <3>1. Key(k) = Infinity
      BY <1>1, MultipleZero DEF Key
    <3>2. Key(w)[1] = 0
      BY <3>1, <2>3 DEF Infinity
    <3>3. 0 % CurveN = 0
      BY <1>1, RemainderTwice
    <3>4. r # 0
      BY <2>1, <1>1 DEF Scalar
    <3> QED BY <2>1, <3>2, <3>3, <3>4
  <2>5. k \in Scalar
    <3> HIDE DEF k
    <3> QED BY <1>1, <2>3, <2>4 DEF Scalar
  <2>6. s = (d * r + k * e) % CurveN
    <3>1. Total(d, e, s, r) % CurveN = k
      BY DEF w
    <3> HIDE DEF k
    <3> QED BY <1>2, <2>1, <2>5, <3>1, SignatureEquation
  <2>7. r = Key(k)[1] % CurveN
    BY <2>1, <2>3
  <2> HIDE DEF k
  <2>8. k \in Nat /\ k \in 1 .. (CurveN - 1)
    BY <1>1, <2>5 DEF Scalar
  <2>9. gost3410_256tc26a_sign(digest, d, k) = Success(<<s, r>>)
    BY <2>1, <2>5, <2>6, <2>7, <2>8, SignIs DEF e
  <2> QED BY <2>8, <2>9
<1>4. ASSUME NEW k \in 1 .. (CurveN - 1),
             gost3410_256tc26a_sign(digest, d, k) = Success(<<s, r>>)
      PROVE  gost3410_256tc26a_verify(Key(d), digest, <<s, r>>) = 0
  <2>1. k \in Nat /\ k \in 0 .. CurveN - 1
    BY <1>1
  <2>2. /\ k \in Scalar /\ r \in Scalar /\ s \in Scalar
        /\ r = Key(k)[1] % CurveN /\ s = (d * r + k * e) % CurveN
    BY <1>4, <2>1, SignIs DEF e
  <2>3. w % CurveN = k
    BY <1>2, <2>2, SignatureEquation
  <2>4. w \in Nat
    BY <2>2, <1>2, TotalTimesE
  <2> HIDE DEF w
  <2>5. Key(w) = Key(k)
    BY <2>3, <2>4, OrderReduces DEF Key
  <2>6. Key(w)[1] % CurveN = r
    BY <2>2, <2>5
  <2> QED BY <2>2, <2>6, VerifyIs DEF w, e
<1> QED BY <1>3, <1>4
-----------------------------------------------------------------------------
(***************************************************************************)
(* Shared keys.                                                            *)
(***************************************************************************)

\* The scalar of a VKO, and that of ECDH for the UKM one.
Shared(d, u) == (((d * u) % CurveN) * Cofactor) % CurveN

\* It is what the code multiplies by, and zero only for the UKM zero: neither the
\* private key nor the cofactor is a multiple of the prime order.
LEMMA SharedScalar ==
    ASSUME NEW d \in Scalar, NEW u \in 0 .. CurveN - 1
    PROVE  /\ Shared(d, u) \in 0 .. CurveN - 1
           /\ Shared(d, u) # 0 <=> u # 0
           /\ Shared(d, u) = (4 * d * u) % CurveN
           /\ Same(Shared(d, u), d * u * 4)
<1> DEFINE v == (d * u) % CurveN
<1>1. CurveN \in Nat \ {0} /\ CurveN > 2 /\ IsPrime(CurveN) /\ d \in Int /\ u \in Int
  BY OrderFacts DEF Scalar
<1>2. d * u \in Int
  BY <1>1
<1>3. v \in 0 .. CurveN - 1 /\ Same(v, d * u)
  BY <1>2, SameIs
<1>4. v # 0 <=> u # 0
  <2>1. ASSUME u = 0 PROVE v = 0
    <3>1. d * u = 0 /\ 0 \in 0 .. CurveN - 1
      BY <1>1, <2>1
    <3> QED BY <3>1, SameIs
  <2>2. ASSUME u # 0 PROVE v # 0
    <3>1. u \in 1 .. CurveN - 1 /\ d \in 1 .. CurveN - 1
      BY <1>1, <2>2 DEF Scalar
    <3>2. v \in 1 .. CurveN - 1
      BY <1>1, <3>1, ProductNotZero
    <3> HIDE DEF v
    <3> QED BY <1>1, <3>2
  <2> QED BY <2>1, <2>2
<1> HIDE DEF v
<1>5. Shared(d, u) = (v * 4) % CurveN
  BY DEF Shared, Cofactor, v
<1>6. v \in Int /\ v * 4 \in Int
  BY <1>1, <1>3
<1>7. Shared(d, u) \in 0 .. CurveN - 1 /\ Same(Shared(d, u), v * 4)
  BY <1>5, <1>6, SameIs
<1>8. Same(Shared(d, u), d * u * 4)
  <2>1. Same(4, 4)
    BY DEF Same
  <2>2. Same(v * 4, (d * u) * 4)
    BY <1>2, <1>3, <1>6, <2>1, SameProduct
  <2> QED BY <1>7, <2>2, SameChain
<1>9. Shared(d, u) = (4 * d * u) % CurveN
  <2>1. d * u * 4 = 4 * d * u
    BY <1>1
  <2>2. Shared(d, u) \in Int
    BY <1>1, <1>7
  <2> QED BY <1>7, <1>8, <2>1, <2>2, SameIs DEF Same
\* Four is no multiple of the order, which is odd.
<1>10. 4 % CurveN \in 1 .. CurveN - 1
  <2>1. 4 % CurveN \in 0 .. CurveN - 1
    BY SameIs
  <2>2. 4 % CurveN # 0
    <3> SUFFICES ASSUME 4 % CurveN = 0 PROVE FALSE
      OBVIOUS
    <3>0. 2 \in 1 .. CurveN - 1
      BY <1>1
    <3>1. (2 * 2) % CurveN \in 1 .. CurveN - 1
      BY <1>1, <3>0, ProductNotZero
    <3>2. 2 * 2 = 4
      OBVIOUS
    <3>3. 0 \in 1 .. CurveN - 1
      BY <3>1, <3>2
    <3> QED BY <3>3, <1>1
  <2> HIDE DEF Same
  <2> DEFINE t == 4 % CurveN
  <2> HIDE DEF t
  <2>3. t \in 0 .. CurveN - 1 /\ t # 0
    BY <2>1, <2>2 DEF t
  <2>4. t \in 1 .. CurveN - 1
    BY <1>1, <2>3
  <2> QED BY <2>4 DEF t
<1>11. ASSUME v # 0 PROVE Shared(d, u) # 0
  <2> DEFINE t == 4 % CurveN
  <2>1. v \in 1 .. CurveN - 1 /\ t \in 1 .. CurveN - 1
    BY <1>1, <1>3, <1>10, <1>11
  <2>2. (v * t) % CurveN \in 1 .. CurveN - 1
    BY <1>1, <2>1, ProductNotZero
  <2>3. Same(t, 4) /\ Same(v, v) /\ t \in Int
    BY <1>1, <2>1, SameIs
  <2> HIDE DEF t
  <2>4. Same(v * t, v * 4)
    BY <1>6, <2>3, SameProduct
  <2>5. (v * t) % CurveN = Shared(d, u)
    BY <1>5, <2>4 DEF Same
  <2> QED BY <2>2, <2>5, <1>1
<1>12. ASSUME v = 0 PROVE Shared(d, u) = 0
  <2>1. v * 4 = 0 /\ 0 \in 0 .. CurveN - 1
    BY <1>1, <1>12
  <2> QED BY <1>5, <2>1, SameIs
<1> QED BY <1>4, <1>7, <1>8, <1>9, <1>11, <1>12

\* Both sides come to the same multiple of the base point.
LEMMA SharedPoint ==
    ASSUME NEW a \in Scalar, NEW b \in Scalar, NEW u \in 0 .. CurveN - 1
    PROVE  /\ point_mult(Key(a), Shared(b, u)) = Key(a * b * u * 4)
           /\ point_mult(Key(a), Shared(b, u)) = point_mult(Key(b), Shared(a, u))
           /\ point_mult(Key(a), Shared(b, u)) = Times[Key(a)][Shared(b, u)]
           /\ u # 0 => point_mult(Key(a), Shared(b, u)) # Infinity
<1>1. CurveN \in Nat \ {0} /\ a \in Nat /\ b \in Nat /\ u \in Nat /\ CurveN <= MaxTimes /\ MaxTimes \in Nat
  BY OrderFacts DEF Scalar
<1>2. ASSUME NEW x \in Scalar, NEW y \in Scalar
      PROVE  /\ Shared(y, u) \in Nat /\ Key(x) \in Group
             /\ point_mult(Key(x), Shared(y, u)) = Multiple(Key(x), Shared(y, u))
             /\ point_mult(Key(x), Shared(y, u)) = Key(x * Shared(y, u))
             /\ point_mult(Key(x), Shared(y, u)) = Key(x * y * u * 4)
  <2>1. x \in Nat /\ y \in Nat /\ x \in Int /\ CurveG \in Group
    BY OrderFacts DEF Scalar
  <2> DEFINE t == Shared(y, u)
  <2>2. t \in Nat /\ t \in Int /\ Same(t, y * u * 4)
    BY <1>1, SharedScalar
  <2> HIDE DEF t
  <2>3. Key(x) \in Group
    BY <2>1, MultipleType DEF Key
  <2>4. point_mult(Key(x), t) = Multiple(Key(x), t)
    BY <2>2, <2>3, PointMult
  <2>5. Multiple(Key(x), t) = Key(x * t)
    BY <2>1, <2>2, MultipleProduct DEF Key
  <2>6. Same(x * t, x * (y * u * 4))
    <3>1. Same(x, x) /\ y * u * 4 \in Int
      BY <1>1, <2>1 DEF Same
    <3> QED BY <2>1, <2>2, <3>1, SameProduct
  <2>7. x * (y * u * 4) = x * y * u * 4 /\ x * y * u * 4 \in Nat /\ x * t \in Nat
    BY <1>1, <2>1, <2>2
  <2>8. Key(x * t) = Key(x * y * u * 4)
    BY <2>6, <2>7, SameMultiple DEF Key
  <2> QED BY <2>2, <2>3, <2>4, <2>5, <2>8 DEF t
<1>3. point_mult(Key(a), Shared(b, u)) = Key(a * b * u * 4)
  BY <1>2
<1>4. point_mult(Key(b), Shared(a, u)) = Key(b * a * u * 4)
  BY <1>2
<1>5. b * a * u * 4 = a * b * u * 4
  BY <1>1
<1>6. point_mult(Key(a), Shared(b, u)) = Times[Key(a)][Shared(b, u)]
  <2> DEFINE t == Shared(b, u)
  <2>1. t \in 0 .. CurveN - 1
    BY SharedScalar
  <2> HIDE DEF t
  <2>2. t \in 0 .. MaxTimes
    BY <1>1, <2>1
  <2>3. Key(a) \in Group /\ point_mult(Key(a), t) = Multiple(Key(a), t)
    BY <1>2 DEF t
  <2>4. Times[Key(a)][t] = Multiple(Key(a), t)
    BY <1>1, <2>2, <2>3, TimesAre
  <2> QED BY <2>3, <2>4 DEF t
<1>7. ASSUME u # 0 PROVE point_mult(Key(a), Shared(b, u)) # Infinity
  <2> DEFINE t == Shared(b, u)
  <2>1. t \in 0 .. CurveN - 1 /\ t # 0
    BY <1>7, SharedScalar
  <2> HIDE DEF t
  <2>2. t \in 1 .. CurveN - 1 /\ a \in 1 .. CurveN - 1 /\ IsPrime(CurveN) /\ t \in Nat
    BY <1>1, <2>1, OrderFacts DEF Scalar
  <2>3. (a * t) % CurveN \in 1 .. CurveN - 1
    BY <2>2, ProductNotZero
  <2>4. (a * t) % CurveN # 0
    <3> DEFINE v == (a * t) % CurveN
    <3>1. v \in 1 .. CurveN - 1
      BY <2>3
    <3> HIDE DEF v
    <3>2. v # 0
      BY <1>1, <3>1
    <3> QED BY <3>2 DEF v
  <2>5. a * t \in Nat
    BY <1>1, <2>2
  <2>6. Key(a * t) # Infinity
    BY <2>4, <2>5, OrderExact DEF Key
  <2>7. point_mult(Key(a), t) = Key(a * t)
    BY <1>2 DEF t
  <2> QED BY <2>6, <2>7 DEF t
<1> QED BY <1>3, <1>4, <1>5, <1>6, <1>7

\* gost3410_256tc26a_vko on a key pair and the public key of another.
LEMMA VkoIs ==
    ASSUME NEW a \in Scalar, NEW b \in Scalar, NEW u \in 0 .. CurveN - 1
    PROVE  gost3410_256tc26a_vko(Key(a), b, u) =
             IF u = 0 THEN Error ELSE Success(<<"streebog256", point_mult(Key(a), Shared(b, u))>>)
<1>1. scalar_valid(b)
  BY OrderFacts DEF scalar_valid, Scalar
<1>2. ecc_point_valid(Key(a))
  BY KeyIsPoint DEF Key
<1>3. gost3410_256tc26a_vko(Key(a), b, u) =
        IF ~ecc_point_valid(Key(a)) \/ ~scalar_valid(b) \/ u = 0 \/ Shared(b, u) = 0 THEN Error
        ELSE Success(<<"streebog256", point_mult(Key(a), Shared(b, u))>>)
  BY DEF gost3410_256tc26a_vko, Shared
<1>4. Shared(b, u) # 0 <=> u # 0
  BY SharedScalar
<1> QED BY <1>1, <1>2, <1>3, <1>4

\* gost3410_256tc26a_ecdh_cofactor_xy is the same with the UKM one.
LEMMA EcdhIs ==
    ASSUME NEW a \in Scalar, NEW b \in Scalar
    PROVE  /\ gost3410_256tc26a_ecdh_cofactor_xy(Key(a), b) = Success(point_mult(Key(a), Shared(b, 1)))
           /\ Shared(b, 1) = (4 * b) % CurveN
<1>0. CurveN \in Nat \ {0} /\ CurveN > 2 /\ b \in 0 .. CurveN - 1 /\ b \in Int /\ 1 \in 0 .. CurveN - 1
  BY OrderFacts DEF Scalar
<1>1. scalar_valid(b)
  BY OrderFacts DEF scalar_valid, Scalar
<1>2. ecc_point_valid(Key(a))
  BY KeyIsPoint DEF Key
<1>3. (b * Cofactor) % CurveN = Shared(b, 1)
  <2>1. b * 1 = b
    BY <1>0
  <2>2. (b * 1) % CurveN = b
    BY <1>0, <2>1, SameIs
  <2> QED BY <2>2 DEF Shared
<1>4. gost3410_256tc26a_ecdh_cofactor_xy(Key(a), b) =
        IF ~ecc_point_valid(Key(a)) \/ ~scalar_valid(b) \/ Shared(b, 1) = 0
           \/ point_mult(Key(a), Shared(b, 1)) = Infinity
        THEN Error ELSE Success(point_mult(Key(a), Shared(b, 1)))
  BY <1>3 DEF gost3410_256tc26a_ecdh_cofactor_xy, point_inf
<1>5. Shared(b, 1) # 0 /\ point_mult(Key(a), Shared(b, 1)) # Infinity
  <2>1. (Shared(b, 1) # 0) <=> (1 # 0)
    BY <1>0, SharedScalar
  <2>2. 1 # 0 => point_mult(Key(a), Shared(b, 1)) # Infinity
    BY <1>0, SharedPoint
  <2> QED BY <2>1, <2>2
<1>6. Shared(b, 1) = (4 * b) % CurveN
  <2>1. b * 4 = 4 * b
    BY <1>0
  <2> QED BY <1>3, <2>1 DEF Cofactor
<1> QED BY <1>1, <1>2, <1>4, <1>5, <1>6

-----------------------------------------------------------------------------
(***************************************************************************)
(* The invariant.                                                          *)
(***************************************************************************)

\* Who has a public key has a valid private one, and the public one belongs to it.
KeysBelong ==
    /\ DOMAIN priv = Party /\ DOMAIN pub = Party
    /\ \A p \in Party : pub[p] # None => priv[p] \in Scalar /\ pub[p] = Key(priv[p])

vars == <<priv, pub, call, ret, out>>

\* The inductive invariant.
Held == KeysBelong /\ AcceptsExactlySignatures /\ SharedKeysAgree

\* The inputs are numbers.
LEMMA InputTypes == Scalars \subseteq Nat /\ Digests \subseteq Nat /\ UKMs \subseteq 0 .. CurveN - 1
BY Gost3410Assumption

\* The inductive invariant holds at first,
LEMMA InitHeld == Init => Held
BY DEF Init, Held, KeysBelong, AcceptsExactlySignatures, SharedKeysAgree, Idle

\* A call that says nothing of signatures or shared keys.
LEMMA OtherCalls ==
    ASSUME Idle' \/ call'.fn = "public"
    PROVE  AcceptsExactlySignatures' /\ SharedKeysAgree'
BY DEF AcceptsExactlySignatures, SharedKeysAgree, Idle

\* A new key pair belongs together.
LEMMA PublicHeld ==
    ASSUME Held, Public
    PROVE  Held'
<1>1. PICK p \in Party, d \in Scalars :
        /\ IF gost3410_256tc26a_public(d).ret = 0
           THEN /\ priv' = [priv EXCEPT ![p] = d]
                /\ pub' = [pub EXCEPT ![p] = gost3410_256tc26a_public(d).out]
           ELSE UNCHANGED <<priv, pub>>
        /\ call' = [fn |-> "public", party |-> p, scalar |-> d]
  BY DEF Public, Done
<1>2. AcceptsExactlySignatures' /\ SharedKeysAgree'
  BY <1>1, OtherCalls
<1>3. KeysBelong
  BY DEF Held
<1>4. CASE gost3410_256tc26a_public(d).ret = 0
  <2>1. d \in Nat
    BY InputTypes
  <2>2. gost3410_256tc26a_public(d) = IF scalar_valid(d) THEN Success(point_mult(CurveG, d)) ELSE Error
    BY DEF gost3410_256tc26a_public
  <2>3. scalar_valid(d) /\ gost3410_256tc26a_public(d).out = point_mult(CurveG, d)
    BY <1>4, <2>2 DEF Success, Error
  <2>4. d \in Scalar
    BY <2>1, <2>3, OrderFacts DEF scalar_valid, Scalar
  <2>5. point_mult(CurveG, d) = Key(d)
    BY <2>1, OrderFacts, PointMult DEF Key
  <2>6. priv' = [priv EXCEPT ![p] = d] /\ pub' = [pub EXCEPT ![p] = Key(d)]
    BY <1>1, <1>4, <2>3, <2>5
  <2>7. KeysBelong'
    BY <1>3, <2>4, <2>6 DEF KeysBelong
  <2> QED BY <1>2, <2>7 DEF Held
<1>5. CASE gost3410_256tc26a_public(d).ret # 0
  <2>1. UNCHANGED <<priv, pub>>
    BY <1>1, <1>5
  <2>2. KeysBelong'
    BY <1>3, <2>1 DEF KeysBelong
  <2> QED BY <1>2, <2>2 DEF Held
<1> QED BY <1>4, <1>5

\* The key pair of a party.
LEMMA KeyOf ==
    ASSUME KeysBelong, NEW p \in {q \in Party : pub[q] # None}
    PROVE  priv[p] \in Scalar /\ pub[p] = Key(priv[p])
BY DEF KeysBelong

\* Signing keeps the invariant: what it returns is a signature,
LEMMA SignHeld ==
    ASSUME Held, Sign
    PROVE  Held'
<1>1. PICK p \in {q \in Party : pub[q] # None}, digest \in Digests, nonce \in Scalars :
        Done([fn |-> "sign", party |-> p, digest |-> digest],
             gost3410_256tc26a_sign(digest, priv[p], nonce))
  BY DEF Sign
<1>2. UNCHANGED <<priv, pub>>
  BY DEF Sign
<1>3. KeysBelong
  BY DEF Held
<1>4. KeysBelong'
  BY <1>2, <1>3 DEF KeysBelong
<1> DEFINE d == priv[p]
           result == gost3410_256tc26a_sign(digest, d, nonce)
<1>5. d \in Scalar /\ pub[p] = Key(d) /\ digest \in Nat /\ nonce \in Nat
  BY <1>3, KeyOf, InputTypes
<1>6. /\ call'.fn = "sign" /\ call'.party = p /\ call'.digest = digest
      /\ ret' = result.ret /\ out' = result.out
  BY <1>1 DEF Done
<1>7. ASSUME ret' = 0
      PROVE  gost3410_256tc26a_verify(pub[p], digest, out') = 0
  <2> DEFINE r == scalar_reduce(point_mult(CurveG, nonce)[1])
             s == (d * r + nonce * digest_scalar(digest)) % CurveN
  <2>1. result = IF ~scalar_valid(d) \/ ~scalar_valid(nonce) THEN Error
                 ELSE IF r = 0 \/ s = 0 THEN Error ELSE Success(<<s, r>>)
    BY DEF gost3410_256tc26a_sign
  <2>2. scalar_valid(nonce) /\ result = Success(<<s, r>>)
    <3> HIDE DEF d, r, s
    <3>1. result.ret = 0
      BY <1>6, <1>7
    <3> HIDE DEF result
    <3>2. result # Error
      BY <3>1 DEF Error
    <3> QED BY <2>1, <3>2
  <2>3. out' = <<s, r>>
    BY <1>6, <2>2 DEF Success
  <2>4. nonce \in 1 .. (CurveN - 1)
    BY <1>5, <2>2, OrderFacts DEF scalar_valid
  <2>5. r \in Nat /\ s \in Nat
    <3>1. CurveG \in Group
      BY OrderFacts
    <3>2. point_mult(CurveG, nonce) \in Group
      BY <1>5, <3>1, PointMult, MultipleType
    <3>3. point_mult(CurveG, nonce)[1] \in Int
      BY <3>2, GroupPoint
    <3>4. r \in 0 .. CurveN - 1
      BY <3>3, SameIs DEF scalar_reduce
    <3> HIDE DEF r
    <3>5. d \in Int /\ r \in Nat /\ digest_scalar(digest) \in Int
      BY <1>5, <3>4, DigestScalar, OrderFacts DEF Scalar
    <3> DEFINE v == d * r + nonce * digest_scalar(digest)
    <3>6. v \in Int
      BY <1>5, <3>5
    <3> HIDE DEF v
    <3>7. v % CurveN \in 0 .. CurveN - 1
      BY <3>6, SameIs
    <3> QED BY <3>5, <3>7, OrderFacts DEF v
  <2>6. gost3410_256tc26a_sign(digest, d, nonce) = Success(<<s, r>>)
    BY <2>2
  <2> HIDE DEF r, s, d, result
  <2>7. gost3410_256tc26a_verify(Key(d), digest, <<s, r>>) = 0
    BY <1>5, <2>4, <2>5, <2>6, AcceptedIsSigned
  <2> QED BY <1>5, <2>3, <2>7
<1>8. AcceptsExactlySignatures'
  <2>1. call'.fn # "verify"
    BY <1>6
  <2>2. ret' = 0 => gost3410_256tc26a_verify(pub'[call'.party], call'.digest, out') = 0
    BY <1>2, <1>6, <1>7
  <2> QED BY <2>1, <2>2 DEF AcceptsExactlySignatures
<1>9. SharedKeysAgree'
  BY <1>6 DEF SharedKeysAgree
<1> QED BY <1>4, <1>8, <1>9 DEF Held

\* so does verifying,
LEMMA VerifyHeld ==
    ASSUME Held, Verify
    PROVE  Held'
<1>1. PICK p \in {q \in Party : pub[q] # None}, digest \in Digests, s \in Scalars, r \in Scalars :
        Done([fn |-> "verify", party |-> p, digest |-> digest, sig |-> <<s, r>>],
             [ret |-> gost3410_256tc26a_verify(pub[p], digest, <<s, r>>), out |-> <<>>])
  BY DEF Verify
<1>2. UNCHANGED <<priv, pub>>
  BY DEF Verify
<1>3. KeysBelong
  BY DEF Held
<1>4. KeysBelong'
  BY <1>2, <1>3 DEF KeysBelong
<1> DEFINE d == priv[p]
<1>5. d \in Scalar /\ pub[p] = Key(d) /\ digest \in Nat /\ s \in Nat /\ r \in Nat
  BY <1>3, KeyOf, InputTypes
<1>6. /\ call'.fn = "verify" /\ call'.party = p /\ call'.digest = digest /\ call'.sig = <<s, r>>
      /\ ret' = gost3410_256tc26a_verify(pub[p], digest, <<s, r>>)
  BY <1>1 DEF Done
<1>7. ret' = 0 <=> \E nonce \in 1 .. (CurveN - 1) :
                      gost3410_256tc26a_sign(digest, d, nonce) = Success(<<s, r>>)
  <2> HIDE DEF d
  <2> QED BY <1>5, <1>6, AcceptedIsSigned
<1>8. AcceptsExactlySignatures'
  <2>1. call'.fn # "sign"
    BY <1>6
  <2>2. ret' = 0 <=> \E nonce \in 1 .. (CurveN - 1) :
           gost3410_256tc26a_sign(call'.digest, priv'[call'.party], nonce) = Success(call'.sig)
    BY <1>2, <1>6, <1>7
  <2> QED BY <2>1, <2>2 DEF AcceptsExactlySignatures
<1>9. SharedKeysAgree'
  BY <1>6 DEF SharedKeysAgree
<1> QED BY <1>4, <1>8, <1>9 DEF Held

\* and so do both sides of an agreement.
LEMMA AgreeHeld ==
    ASSUME Held, Agree
    PROVE  Held'
<1>1. PICK p \in {q \in Party : pub[q] # None}, peer \in {q \in Party : pub[q] # None} :
        \/ \E u \in UKMs :
              Done([fn |-> "vko", party |-> p, peer |-> peer, ukm |-> u],
                   gost3410_256tc26a_vko(pub[peer], priv[p], u))
        \/ Done([fn |-> "ecdh", party |-> p, peer |-> peer],
                gost3410_256tc26a_ecdh_cofactor_xy(pub[peer], priv[p]))
  BY DEF Agree
<1>2. UNCHANGED <<priv, pub>>
  BY DEF Agree
<1>3. KeysBelong
  BY DEF Held
<1>4. KeysBelong'
  BY <1>2, <1>3 DEF KeysBelong
<1> DEFINE a == priv[peer]
           b == priv[p]
<1>5. a \in Scalar /\ b \in Scalar /\ pub[peer] = Key(a) /\ pub[p] = Key(b)
  BY <1>3, KeyOf
<1>6. CASE \E u \in UKMs :
              Done([fn |-> "vko", party |-> p, peer |-> peer, ukm |-> u],
                   gost3410_256tc26a_vko(pub[peer], priv[p], u))
  <2>1. PICK u \in UKMs :
          Done([fn |-> "vko", party |-> p, peer |-> peer, ukm |-> u],
               gost3410_256tc26a_vko(pub[peer], priv[p], u))
    BY <1>6
  <2>2. /\ call'.fn = "vko" /\ call'.party = p /\ call'.peer = peer /\ call'.ukm = u
        /\ ret' = gost3410_256tc26a_vko(pub[peer], b, u).ret
        /\ out' = gost3410_256tc26a_vko(pub[peer], b, u).out
    BY <2>1 DEF Done
  <2>3. u \in 0 .. CurveN - 1
    BY InputTypes
  <2> HIDE DEF a, b
  <2>4. /\ gost3410_256tc26a_vko(Key(a), b, u) =
             IF u = 0 THEN Error ELSE Success(<<"streebog256", point_mult(Key(a), Shared(b, u))>>)
        /\ gost3410_256tc26a_vko(Key(b), a, u) =
             IF u = 0 THEN Error ELSE Success(<<"streebog256", point_mult(Key(b), Shared(a, u))>>)
    BY <1>5, <2>3, VkoIs
  <2>5. (ret' = 0) <=> (u # 0)
    BY <1>5, <2>2, <2>4 DEF Error, Success
  <2>6. ASSUME ret' = 0
        PROVE  /\ out' = gost3410_256tc26a_vko(pub[p], a, u).out
               /\ out' = <<"streebog256", Times[pub[peer]][(4 * b * u) % CurveN]>>
    <3>1. u # 0
      BY <2>5, <2>6
    <3>2. /\ out' = <<"streebog256", point_mult(Key(a), Shared(b, u))>>
          /\ gost3410_256tc26a_vko(Key(b), a, u).out = <<"streebog256", point_mult(Key(b), Shared(a, u))>>
      BY <1>5, <2>2, <2>4, <3>1 DEF Success
    <3>3. /\ point_mult(Key(a), Shared(b, u)) = point_mult(Key(b), Shared(a, u))
          /\ point_mult(Key(a), Shared(b, u)) = Times[Key(a)][Shared(b, u)]
      BY <1>5, <2>3, SharedPoint
    <3>4. Shared(b, u) = (4 * b * u) % CurveN
      BY <1>5, <2>3, SharedScalar
    <3> QED BY <1>5, <3>2, <3>3, <3>4
  <2>7. SharedKeysAgree'
    <3>1. call'.fn # "ecdh"
      BY <2>2
    <3>2. /\ (ret' = 0) <=> (call'.ukm # 0)
          /\ ret' = 0 =>
               /\ out' = gost3410_256tc26a_vko(pub'[call'.party], priv'[call'.peer], call'.ukm).out
               /\ out' = <<"streebog256",
                           Times[pub'[call'.peer]][(4 * priv'[call'.party] * call'.ukm) % CurveN]>>
      BY <1>2, <2>2, <2>5, <2>6 DEF a, b
    <3> QED BY <3>1, <3>2 DEF SharedKeysAgree
  <2>8. AcceptsExactlySignatures'
    BY <2>2 DEF AcceptsExactlySignatures
  <2> QED BY <1>4, <2>7, <2>8 DEF Held
<1>7. CASE Done([fn |-> "ecdh", party |-> p, peer |-> peer],
                gost3410_256tc26a_ecdh_cofactor_xy(pub[peer], priv[p]))
  <2>1. /\ call'.fn = "ecdh" /\ call'.party = p /\ call'.peer = peer
        /\ ret' = gost3410_256tc26a_ecdh_cofactor_xy(pub[peer], b).ret
        /\ out' = gost3410_256tc26a_ecdh_cofactor_xy(pub[peer], b).out
    BY <1>7 DEF Done
  <2> HIDE DEF a, b
  <2>2. /\ gost3410_256tc26a_ecdh_cofactor_xy(Key(a), b) = Success(point_mult(Key(a), Shared(b, 1)))
        /\ gost3410_256tc26a_ecdh_cofactor_xy(Key(b), a) = Success(point_mult(Key(b), Shared(a, 1)))
        /\ Shared(b, 1) = (4 * b) % CurveN
    BY <1>5, EcdhIs
  <2>3. 1 \in 0 .. CurveN - 1
    BY OrderFacts
  <2>4. /\ point_mult(Key(a), Shared(b, 1)) = point_mult(Key(b), Shared(a, 1))
        /\ point_mult(Key(a), Shared(b, 1)) = Times[Key(a)][Shared(b, 1)]
    BY <1>5, <2>3, SharedPoint
  <2>5. /\ ret' = 0
        /\ out' = gost3410_256tc26a_ecdh_cofactor_xy(pub[p], a).out
        /\ out' = Times[pub[peer]][(4 * b) % CurveN]
    BY <1>5, <2>1, <2>2, <2>4 DEF Success
  <2>6. SharedKeysAgree'
    <3>1. call'.fn # "vko"
      BY <2>1
    <3>2. /\ ret' = 0
          /\ out' = gost3410_256tc26a_ecdh_cofactor_xy(pub'[call'.party], priv'[call'.peer]).out
          /\ out' = Times[pub'[call'.peer]][(4 * priv'[call'.party]) % CurveN]
      BY <1>2, <2>1, <2>5 DEF a, b
    <3> QED BY <3>1, <3>2 DEF SharedKeysAgree
  <2>7. AcceptsExactlySignatures'
    BY <2>1 DEF AcceptsExactlySignatures
  <2> QED BY <1>4, <2>6, <2>7 DEF Held
<1> QED BY <1>1, <1>6, <1>7

\* Every call keeps the invariant,
LEMMA NextHeld ==
    ASSUME Held, [Next]_vars
    PROVE  Held'
<1>1. CASE Forget
  <2>1. Idle' /\ UNCHANGED <<priv, pub>>
    BY <1>1 DEF Forget, Idle
  <2>2. KeysBelong'
    BY <2>1 DEF Held, KeysBelong
  <2> QED BY <2>1, <2>2, OtherCalls DEF Held
<1>2. CASE UNCHANGED vars
  BY <1>2 DEF vars, Held, KeysBelong, AcceptsExactlySignatures, SharedKeysAgree, Idle
<1> QED BY <1>1, <1>2, PublicHeld, SignHeld, VerifyHeld, AgreeHeld DEF Next

\* so it holds in every reachable state.
LEMMA AlwaysHeld == Spec => []Held
<1>1. Init => Held
  BY InitHeld
<1>2. Held /\ [Next]_vars => Held'
  BY NextHeld
<1> QED BY <1>1, <1>2, PTL DEF Spec, vars

\* For every curve: gost3410_256tc26a_verify accepts exactly the signatures that
\* gost3410_256tc26a_sign makes for the key and the digest with some nonce.
THEOREM AcceptsTheorem == Spec => []AcceptsExactlySignatures
<1>1. Held => AcceptsExactlySignatures
  BY DEF Held
<1> QED BY <1>1, AlwaysHeld, PTL

\* For every curve: both sides of gost3410_256tc26a_vko and of
\* gost3410_256tc26a_ecdh_cofactor_xy have the same key, never that of infinity.
THEOREM AgreeTheorem == Spec => []SharedKeysAgree
<1>1. Held => SharedKeysAgree
  BY DEF Held
<1> QED BY <1>1, AlwaysHeld, PTL
=============================================================================
