------------------------------- MODULE Limbs --------------------------------
(***************************************************************************)
(* Numbers in limbs, as the straight-line field arithmetic of the library  *)
(* keeps them: limb i has the weight 2^Offset[i] and more room than        *)
(* Bits[i + 1] bits, so that a sum need not be carried at once, and what   *)
(* leaves the last limb comes back C-fold at the first, for the modulus is *)
(* P = 2^Total - C.                                                        *)
(*                                                                         *)
(* A word has WordBits bits and a double word WideBits: a value that is    *)
(* stored is cut off there.                                                *)
(***************************************************************************)
EXTENDS Integers, Sequences

CONSTANTS
    Bits,               \* the bits of the limbs, as they are carried
    C,                  \* P = 2^Total - C
    WordBits, WideBits  \* bits of a word and of a double word

VARIABLES
    fn, args, loc, ret  \* see VliModular

n == Len(Bits)
Index == 0 .. n - 1

Offset[i \in 0 .. n] == IF i = 0 THEN 0 ELSE Offset[i - 1] + Bits[i]

Total == Offset[n]
P == 2 ^ Total - C

\* The longest limb and the carried values stay below 2^31.
LimbsAssumption ==
    /\ n >= 2 /\ \A i \in 1 .. n : Bits[i] \in Nat \ {0}
    /\ C \in 1 .. 2 ^ Bits[1] - 1
    /\ WordBits \in Nat /\ WideBits \in WordBits .. 30 /\ Total <= 25

Radix(i) == 2 ^ Bits[i + 1]
Word(x) == x % 2 ^ WordBits
Wide(x) == x % 2 ^ WideBits

Sum(f) ==
    LET s[i \in 0 .. n] == IF i = 0 THEN 0 ELSE s[i - 1] + f[i - 1] IN s[n]

Value(v) == Sum([i \in Index |-> v[i] * 2 ^ Offset[i]])

\* The product modulo P of two numbers below P, four bits of one at a time.
TimesModP(x, y) ==
    LET t[i \in 0 .. 7] ==
            IF i = 0 THEN 0
            ELSE ((t[i - 1] * 16) + x * ((y \div 16 ^ (7 - i)) % 16)) % P
    IN  t[7]

\* The limbs of a number below 2^Total, each with its bits.
Digits(x) == [i \in Index |-> (x \div 2 ^ Offset[i]) % Radix(i)]

\* The limbs of P, which lacks C in the lowest.
LimbsOfP == [i \in Index |-> Radix(i) - (IF i = 0 THEN C ELSE 1)]

-----------------------------------------------------------------------------

\* What the product of limbs i and j counts in its column.
Weight(i, j) ==
    IF i + j < n THEN 2 ^ (Offset[i] + Offset[j] - Offset[i + j])
    ELSE C * 2 ^ (Offset[i] + Offset[j] - Total - Offset[i + j - n])

\* The column k is the sum of the terms of the limbs i and j with i + j = k modulo n.
ColumnsOf(term) ==
    [k \in Index |-> Wide(Sum([i \in Index |-> term[i, (k - i) % n]]))]

\* The columns of the product: its double length is folded at once.
Columns(a, b) == ColumnsOf([i, j \in Index |-> Weight(i, j) * a[i] * b[j]])

\* One carry from limb i to the next one, in double words.
CarryFrom(v, i) ==
    IF i < n - 1
    THEN [v EXCEPT ![i] = @ % Radix(i), ![i + 1] = Wide(@ + v[i] \div Radix(i))]
    ELSE [v EXCEPT ![i] = @ % Radix(i), ![0] = Wide(@ + C * (v[i] \div Radix(i)))]

\* All carries in a row, the last one back to the first limb.
CarryRound(v) ==
    LET r[i \in 0 .. n] == IF i = 0 THEN v ELSE LET prev == r[i - 1] IN CarryFrom(prev, i - 1)
    IN  r[n]

\* Are the limbs within a multiple (in eighths) of what they carry?
Within(v, eighths) == \A i \in Index : 8 * v[i] <= eighths * Radix(i)

\* v - P if v >= P, by a subtraction with borrows whose last one tells whether P is
\* added again; the limbs are whole numbers below twice their radix.
SubtractP(v) ==
    LET d[i \in 0 .. n] ==      \* d[i]: the borrow into limb i and the limbs below
            IF i = 0 THEN [borrow |-> 0, low |-> [k \in Index |-> 0]]
            ELSE LET prev == d[i - 1]
                     x == v[i - 1] - LimbsOfP[i - 1] - prev.borrow
                 IN  [borrow |-> IF x < 0 THEN 1 ELSE 0,
                      low |-> [prev.low EXCEPT ![i - 1] = x % Radix(i - 1)]]
        back == IF d[n].borrow = 1 THEN LimbsOfP ELSE [k \in Index |-> 0]
        a[i \in 0 .. n] ==
            IF i = 0 THEN [carry |-> 0, low |-> [k \in Index |-> 0]]
            ELSE LET prev == a[i - 1]
                     x == d[n].low[i - 1] + back[i - 1] + prev.carry
                 IN  [carry |-> x \div Radix(i - 1),
                      low |-> [prev.low EXCEPT ![i - 1] = x % Radix(i - 1)]]
    IN  a[n].low

-----------------------------------------------------------------------------
(***************************************************************************)
(* A call of a straight-line function is one step.  Its operands have, in  *)
(* every limb, 0, 1, the limb of P, or a bound in eighths of the radix.    *)
(***************************************************************************)
Limb(i, w) ==
    CASE w = 0 -> 0 [] w = 1 -> 1 [] w = 2 -> LimbsOfP[i] [] OTHER -> (w * Radix(i)) \div 8

Element(w) == [i \in Index |-> Limb(i, w[i])]

Call(f, a, b, r) ==
    /\ fn' = "return"
    /\ args' = [call |-> f, a |-> a, b |-> b]
    /\ ret' = <<r>>
    /\ UNCHANGED loc

\* A call on bytes.
CallBytes(f, x, r) ==
    /\ fn' = "return"
    /\ args' = [call |-> f, bytes |-> x]
    /\ ret' = <<r>>
    /\ UNCHANGED loc

-----------------------------------------------------------------------------
(***************************************************************************)
(* An inversion is a power with the exponent P - 2, by squarings and       *)
(* products in a fixed order; an exponent is the set of the bits that are  *)
(* set in it.                                                              *)
(***************************************************************************)
One == {0}

\* n squarings shift the exponent.
Sq(x, times) == {k + times : k \in x}

\* A product adds the exponents, here without a carry; there is none in the code, and
\* with one nothing would be left.
Mul(x, y) == IF x \intersect y = {} THEN x \union y ELSE {}

\* The bits of 2^total - c for a small c.
BitsBelow(total, c) == {k \in 0 .. total - 1 : k > 20 \/ ((2 ^ 21 - c) \div 2 ^ k) % 2 = 1}
=============================================================================
