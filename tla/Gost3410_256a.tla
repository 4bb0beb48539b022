---------------------------- MODULE Gost3410_256a ---------------------------
(***************************************************************************)
(* src/optimized/gost3410_256a.c, for the curve CryptoPro A.               *)
(*                                                                         *)
(* Its field arithmetic, modulo p = 2^256 - 617: five limbs of 52, 51, 51, *)
(* 51 and 51 bits in words of 64.  Operands are tight, up to the radix     *)
(* itself, or loose, up to three times that; only the sum, the difference  *)
(* and the opposite of tight elements are loose, and only multiplication,  *)
(* squaring and the carry take them.                                       *)
(*                                                                         *)
(* Its multiplications: a comb with signed odd digits for the base point   *)
(* and two interleaved expansions in signed digits for verification, on    *)
(* projective points with the complete formulas for a = -3.  Their field   *)
(* operations are what the field arithmetic was checked to do.  One step   *)
(* is one round of the outer loop.                                         *)
(*                                                                         *)
(* A scalar has ScalarBits bits, 256 in the code, and a digit RADIX, 5:    *)
(* there are 52 digits in Rows rows, 3.  <<x, y, z>> stands for x / z and  *)
(* y / z, an affine point with y = 0 for the point at infinity.            *)
(***************************************************************************)
EXTENDS Limbs, CurveGroup

CONSTANTS
    FlagBits,           \* bits of fiat's uint1, an unsigned char
    ScalarBits, RADIX, Rows,
    TwoScalars          \* the scalars that are tried in pairs

Tight(v) == Within(v, 8)
Loose(v) == Within(v, 24)

Flag(x) == x % 2 ^ FlagBits

\* Mutant for MC: what is carried out of every limb is a word.
CarryOut_Word(v, i) == Word(v[i] \div Radix(i))

\* What is carried out of limb i: a word out of the last two limbs, more out of the others.
CarryOut(v, i) == IF i < n - 2 THEN v[i] \div Radix(i) ELSE Word(v[i] \div Radix(i))

\* The carries of multiplication and squaring in a row, the last one back to the first limb.
Carried(v) ==
    LET r[i \in 0 .. n] ==
            IF i = 0 THEN v
            ELSE LET prev == r[i - 1] IN
                 [prev EXCEPT ![i - 1] = @ % Radix(i - 1),
                              ![i % n] = Wide(@ + (IF i = n THEN C ELSE 1) * CarryOut(prev, i - 1))]
    IN  r[n]

\* Mutant for MC: the carry out of the first limb is not carried on.
FoldOnce(v) ==
    LET r == Carried(v)
    IN  [r EXCEPT ![0] = @ % Radix(0), ![1] = Word(@ + (r[0] \div Radix(0)))]

\* The end of multiplication and squaring: what left the last limb comes back and is
\* carried on twice.
Fold(v) ==
    LET r == Carried(v)
        s == [r EXCEPT ![0] = @ % Radix(0), ![1] = Word(@ + (r[0] \div Radix(0)))]
    IN  [s EXCEPT ![1] = @ % Radix(1), ![2] = Word(@ + Flag(s[1] \div Radix(1)))]

\* carry_mul: a limb is doubled in its word; C comes to the product in double words.
carry_mul(a, b) ==
    LET term[i, j \in Index] ==
            IF i + j < n THEN a[i] * Word(Weight(i, j) * b[j])
            ELSE Wide(Weight(i, j) * Wide(a[i] * b[j]))
    IN  Fold(ColumnsOf(term))

\* carry_square: the higher limb, or the one that is squared, is doubled and multiplied
\* with C in its word before the product, which stands for that of j and i as well.
carry_square(a) ==
    LET term[i, j \in Index] ==
            IF i < j THEN 0
            ELSE Word((IF i = j THEN 1 ELSE 2) * Weight(i, j) * a[i]) * a[j]
    IN  Fold(ColumnsOf(term))

carry(a) ==
    LET up[i \in Index] ==
            IF i = 0 THEN a[0] ELSE Word((up[i - 1] \div Radix(i - 1)) + a[i])
        x6 == Word((up[0] % Radix(0)) + C * (up[n - 1] \div Radix(n - 1)))
        x7 == Flag(x6 \div Radix(0)) + (up[1] % Radix(1))
    IN  [i \in Index |-> CASE i = 0 -> x6 % Radix(0)
                           [] i = 1 -> x7 % Radix(1)
                           [] i = 2 -> Flag(x7 \div Radix(1)) + (up[2] % Radix(2))
                           [] OTHER -> up[i] % Radix(i)]

\* Twice p, limb by limb: more than any tight limb.
Balance == [i \in Index |-> 2 * LimbsOfP[i]]

add(a, b) == [i \in Index |-> Word(a[i] + b[i])]
sub(a, b) == [i \in Index |-> Word(Balance[i] + a[i] - b[i])]
opp(a) == [i \in Index |-> Word(Balance[i] - a[i])]

carry_add(a, b) == carry(add(a, b))
carry_sub(a, b) == carry(sub(a, b))

to_bytes(a) == Value(SubtractP(a))
from_bytes(x) == Digits(x)

\* inv, after x ^ (2^k - 1) for k = 2, 4, ..., 246.
inv_256a(t1) ==
    LET t2 == Mul(Sq(t1, 1), t1)
        t4 == Mul(Sq(t2, 2), t2)
        t8 == Mul(Sq(t4, 4), t4)
        t16 == Mul(Sq(t8, 8), t8)
        t32 == Mul(Sq(t16, 16), t16)
        t64 == Mul(Sq(t32, 32), t32)
        t80 == Mul(Sq(t64, 16), t16)
        t82 == Mul(Sq(t80, 2), t2)
        t164 == Mul(Sq(t82, 82), t82)
        t246 == Mul(Sq(t164, 82), t82)
    IN  Mul(Sq(Mul(Sq(Mul(Sq(Mul(Sq(t246, 3), t2), 3), t1), 2), t1), 2), t1)

-----------------------------------------------------------------------------

\* The limbs that are tried: little, all bits set, and the bound.
TightElements == [Index -> {0, 2, 8}]
LooseElements == [Index -> {1, 2, 24}]

CallFe256a ==
    /\ fn = "idle"
    /\ \/ \E v, w \in LooseElements :
             LET a == Element(v) b == Element(w) IN Call("256a_mul", a, b, carry_mul(a, b))
       \/ \E w \in LooseElements :
             LET a == Element(w) IN
             \/ Call("256a_square", a, a, carry_square(a))
             \/ Call("256a_carry", a, a, carry(a))
       \/ \E v, w \in TightElements :
             LET a == Element(v) b == Element(w) IN
             \/ Call("256a_add", a, b, add(a, b))
             \/ Call("256a_sub", a, b, sub(a, b))
             \/ Call("256a_carry_add", a, b, carry_add(a, b))
             \/ Call("256a_carry_sub", a, b, carry_sub(a, b))
       \/ \E w \in TightElements :
             LET a == Element(w) IN
             \/ Call("256a_opp", a, a, opp(a))
             \/ Call("256a_to_bytes", a, a, to_bytes(a))
       \/ \E x \in {0, 1, P - 1, P, P + 1, 2 ^ Total - 1} :
             CallBytes("256a_from_bytes", x, from_bytes(x))
       \/ CallBytes("256a_inv", 0, inv_256a(One))

\* Every result is the one of the field, whatever its representation, and keeps the
\* bounds on which the next operation counts: no limb, product, carry or difference
\* leaves its word on the way, and bytes are written of the number below p.  The
\* exponent of the inversion is p - 2 to the last bit.
Fe256aExact ==
    (fn = "return" /\ args.call \in {"256a_mul", "256a_square", "256a_carry", "256a_add",
                                     "256a_sub", "256a_carry_add", "256a_carry_sub", "256a_opp", "256a_to_bytes", "256a_from_bytes",
                                     "256a_inv"}) =>
        LET r == ret[1]
            a == args.a
            b == args.b
        IN  CASE args.call \in {"256a_mul", "256a_square"} ->
                   Tight(r) /\ Value(r) % P = TimesModP(Value(a) % P, Value(b) % P)
              [] args.call = "256a_carry" -> Tight(r) /\ Value(r) % P = Value(a) % P
              [] args.call = "256a_add" -> Loose(r) /\ Value(r) = Value(a) + Value(b)
              [] args.call = "256a_sub" -> Loose(r) /\ (Value(r) + Value(b)) % P = Value(a) % P
              [] args.call = "256a_carry_add" -> Tight(r) /\ Value(r) % P = (Value(a) + Value(b)) % P
              [] args.call = "256a_carry_sub" -> Tight(r) /\ (Value(r) + Value(b)) % P = Value(a) % P
              [] args.call = "256a_opp" -> Within(r, 16) /\ (Value(r) + Value(a)) % P = 0
              [] args.call = "256a_to_bytes" -> r = Value(a) % P
              [] args.call = "256a_from_bytes" -> Tight(r) /\ Value(r) = args.bytes
              [] args.call = "256a_inv" -> r = BitsBelow(256, 619)

-----------------------------------------------------------------------------

DRADIX == 2 ^ RADIX
DRADIX_WNAF == 2 * DRADIX

RegularDigits == (ScalarBits \div RADIX) + 1
LastDigit == RegularDigits - 1

\* All rows of the comb but the last ones are as long as that; its table has one
\* column more, which no digit reaches.
Combs == (LastDigit \div Rows) + 2

Points256aAssumption ==
    /\ CurveAssumption /\ CurveA = CurveP - 3
    /\ ScalarBits > RADIX /\ RADIX \in Nat /\ RADIX > 0 /\ Rows \in Nat /\ Rows > 0
    /\ CurveN < 2 ^ ScalarBits /\ TwoScalars \subseteq 0 .. 2 ^ ScalarBits - 1

-----------------------------------------------------------------------------

\* Mutant for MC: the formulas for a = 0.
AddWithoutA(q, r) ==
    LET xx == q[1] * r[1]
        yy == q[2] * r[2]
        zz == q[3] * r[3]
        xy == (q[1] * r[2] + q[2] * r[1]) % CurveP
        yz == (q[2] * r[3] + q[3] * r[2]) % CurveP
        xz == (q[1] * r[3] + q[3] * r[1]) % CurveP
        b3 == (3 * CurveB * zz) % CurveP
    IN  <<(xy * ((yy - b3) % CurveP) - yz * ((3 * CurveB * xz) % CurveP)) % CurveP,
          (((yy - b3) % CurveP) * ((yy + b3) % CurveP) + 3 * ((xx * ((3 * CurveB * xz) % CurveP)) % CurveP)) % CurveP,
          (yz * ((yy + b3) % CurveP) + xy * ((3 * xx) % CurveP)) % CurveP>>

\* The sum of any two points, the same ones and infinity included.
point_add_proj(q, r) ==
    LET xx == q[1] * r[1]
        yy == q[2] * r[2]
        zz == q[3] * r[3]
        xy == (q[1] * r[2] + q[2] * r[1]) % CurveP
        yz == (q[2] * r[3] + q[3] * r[2]) % CurveP
        xz == (q[1] * r[3] + q[3] * r[1]) % CurveP
        s == (3 * (xz - CurveB * zz)) % CurveP
        w == (3 * (CurveB * xz - 3 * zz - xx)) % CurveP
        v == (3 * (xx - zz)) % CurveP
    IN  <<(xy * (yy + s) - yz * w) % CurveP,
          (((yy + s) % CurveP) * ((yy - s) % CurveP) + v * w) % CurveP,
          (yz * ((yy - s) % CurveP) + xy * v) % CurveP>>

\* r is affine; when it is the point at infinity, q is kept.
point_add_mixed(q, r) == IF r[2] = 0 THEN q ELSE point_add_proj(q, <<r[1], r[2], 1>>)

point_double(q) ==
    LET zz == q[3] * q[3]
        yy == q[2] * q[2]
        s == (3 * (CurveB * zz - 2 * q[1] * q[3])) % CurveP
        w == (3 * (2 * CurveB * q[1] * q[3] - 3 * zz - q[1] * q[1])) % CurveP
        v == (3 * (q[1] * q[1] - zz)) % CurveP
        yz == 2 * q[2] * q[3]
    IN  <<(((yy - s) % CurveP) * (2 * q[1] * q[2]) - yz * w) % CurveP,
          (((yy - s) % CurveP) * ((yy + s) % CurveP) + v * w) % CurveP,
          (4 * ((yz * yy) % CurveP)) % CurveP>>

\* opp of the y.
Opposite(q) == [q EXCEPT ![2] = (-@) % CurveP]

ProjectiveInfinity == <<0, 1, 0>>

\* inv of the z, and two products.
ToAffine(q) == <<(q[1] * Inverse[q[3]]) % CurveP, (q[2] * Inverse[q[3]]) % CurveP>>

\* P, 3 P, 5 P, ...
precomp_wnaf(p) ==
    LET first == <<p[1], p[2], 1>>
        twice == point_double(first)
        upto[i \in 1 .. DRADIX \div 2] ==
            IF i = 1 THEN <<first>>
            ELSE LET prev == upto[i - 1] IN Append(prev, point_add_proj(twice, prev[i - 1]))
    IN  upto[DRADIX \div 2]

\* Comb j: the odd multiples of 2^(Rows RADIX j) G, affine.
lut_cmb ==
    [j \in 0 .. Combs - 1 |->
        [k \in 1 .. DRADIX \div 2 |->
            Times[CurveG][((2 * k - 1) * 2 ^ (Rows * RADIX * j)) % CurveN]]]

scalar_get_bit(in, idx) == (in \div 2 ^ idx) % 2

\* Digits that are odd, of either sign, of a scalar that is made odd.
scalar_rwnaf(in) ==
    LET upto[i \in 0 .. LastDigit] ==
            IF i = 0 THEN [window |-> ((in % DRADIX_WNAF) \div 2) * 2 + 1, out |-> <<>>]
            ELSE LET prev == upto[i - 1]
                     d == (prev.window % DRADIX_WNAF) - DRADIX
                     next == (in \div 2 ^ (i * RADIX + 1)) % DRADIX
                 IN  [window |-> (prev.window - d) \div DRADIX + 2 * next,
                      out |-> Append(prev.out, d)]
    IN  Append(upto[LastDigit].out, upto[LastDigit].window)

\* Digits that are zero or odd, of either sign.
scalar_wnaf(in) ==
    LET Digit(window) ==
            LET low == window % DRADIX_WNAF
            IN  IF window % 2 = 0 THEN 0 ELSE IF low >= DRADIX THEN low - DRADIX_WNAF ELSE low
        upto[i \in 0 .. ScalarBits + 1] ==
            IF i = 0 THEN [window |-> in % DRADIX_WNAF, out |-> <<>>]
            ELSE LET prev == upto[i - 1]
                     d == Digit(prev.window)
                 IN  [window |-> (prev.window - d) \div 2 + scalar_get_bit(in, i + RADIX) * DRADIX,
                      out |-> Append(prev.out, d)]
    IN  upto[ScalarBits + 1].out

\* The place of the odd multiple in a table.
Place(d) == ((IF d < 0 THEN -d ELSE d) + 1) \div 2

-----------------------------------------------------------------------------

\* The accumulator q may stand for the negative: then it is flipped.
StartTwo(a, b, p) ==
    /\ fn' = "var_smul_wnaf_two"
    /\ args' = [call |-> "256a_mul_two", a |-> a, b |-> b, p |-> p]
    /\ loc' = [i |-> ScalarBits, q |-> <<0, 0, 0>>, is_inf |-> TRUE, flipped |-> FALSE,
               precomp |-> precomp_wnaf(p), anaf |-> scalar_wnaf(a), bnaf |-> scalar_wnaf(b)]
    /\ UNCHANGED ret

\* The digit d adds its point, of a table, to the accumulator; is_neg # flipped
\* changes the sign of the accumulator and not that of the point.
AddDigit(acc, d, point) ==
    LET flips == (d < 0) # acc.flipped
        q == IF flips THEN Opposite(acc.q) ELSE acc.q
    IN  IF d = 0 THEN acc
        ELSE [q |-> IF acc.is_inf THEN point ELSE point_add_proj(q, point),
              is_inf |-> FALSE, flipped |-> d < 0]

TwoRound ==
    /\ fn = "var_smul_wnaf_two" /\ loc.i >= 0
    /\ LET b == loc.bnaf[loc.i + 1]
           a == loc.anaf[loc.i + 1]
           acc == [q |-> IF loc.is_inf THEN loc.q ELSE point_double(loc.q),
                   is_inf |-> loc.is_inf, flipped |-> loc.flipped]
           withB == AddDigit(acc, b, IF b = 0 THEN <<>> ELSE loc.precomp[Place(b)])
           g == lut_cmb[0][IF a = 0 THEN 1 ELSE Place(a)]
           withA == AddDigit(withB, a, <<g[1], g[2], 1>>)
       IN  loc' = [loc EXCEPT !.i = @ - 1, !.q = withA.q, !.is_inf = withA.is_inf,
                              !.flipped = withA.flipped]
    /\ UNCHANGED <<fn, args, ret>>

TwoReturn ==
    /\ fn = "var_smul_wnaf_two" /\ loc.i < 0
    /\ LET q == IF loc.is_inf THEN ProjectiveInfinity ELSE loc.q
       IN  ret' = ToAffine(IF loc.flipped THEN Opposite(q) ELSE q)
    /\ fn' = "return" /\ UNCHANGED <<args, loc>>

StartComb(scalar) ==
    /\ fn' = "fixed_smul_cmb"
    /\ args' = [call |-> "256a_mul_g", scalar |-> scalar]
    /\ loc' = [i |-> Rows - 1, q |-> ProjectiveInfinity, rnaf |-> scalar_rwnaf(scalar)]
    /\ UNCHANGED ret

\* Row i: RADIX doublings, but before the first row, and a point from every comb that
\* has a digit in this row.
CombRound ==
    /\ fn = "fixed_smul_cmb" /\ loc.i >= 0
    /\ LET doubled[t \in 0 .. RADIX] == IF t = 0 THEN loc.q ELSE point_double(doubled[t - 1])
           Signed(j, d) == LET g == lut_cmb[j][Place(d)] IN IF d < 0 THEN Negative(g) ELSE g
           upto[j \in 0 .. Combs] ==
               IF j = 0 THEN IF loc.i = Rows - 1 THEN loc.q ELSE doubled[RADIX]
               ELSE LET prev == upto[j - 1]
                        digit == (j - 1) * Rows + loc.i
                    IN  IF digit > LastDigit THEN prev
                        ELSE point_add_mixed(prev, Signed(j - 1, loc.rnaf[digit + 1]))
       IN  loc' = [loc EXCEPT !.i = @ - 1, !.q = upto[Combs]]
    /\ UNCHANGED <<fn, args, ret>>

\* An even scalar was made odd: the base point is taken off again.
CombReturn ==
    /\ fn = "fixed_smul_cmb" /\ loc.i < 0
    /\ LET r == point_add_mixed(loc.q, Negative(lut_cmb[0][1]))
       IN  ret' = ToAffine(IF args.scalar % 2 = 0 THEN r ELSE loc.q)
    /\ fn' = "return" /\ UNCHANGED <<args, loc>>

\* The callers have checked the scalars: the nonce or the private key is below the
\* order, the scalars of verification are reduced, and the point is a public key.
gost3410_256a_point_mul_g ==
    fn = "idle" /\ \E scalar \in 1 .. CurveN - 1 : StartComb(scalar)

gost3410_256a_point_mul_two ==
    fn = "idle" /\ \E a, b \in TwoScalars, p \in CurvePoints : StartTwo(a, b, p)

Points256aNext ==
    gost3410_256a_point_mul_g \/ gost3410_256a_point_mul_two
    \/ TwoRound \/ TwoReturn \/ CombRound \/ CombReturn

-----------------------------------------------------------------------------

\* The multiple that the digits from i on stand for.
FromDigits(digits, i) ==
    LET above[j \in i + 1 .. Len(digits) + 1] ==
            IF j = Len(digits) + 1 THEN 0 ELSE 2 * above[j + 1] + digits[j]
    IN  above[i + 1] % CurveN

Stands(q, point) ==
    IF point = Infinity THEN q[3] = 0 /\ q[2] # 0 ELSE q[3] # 0 /\ ToAffine(q) = point

\* From the first digit that is not zero on, the accumulator, or its negative, stands
\* for the sum that the digits read so far make, whatever points meet in it; both
\* multiplications return the multiples and zeros for the point at infinity.
Points256aExact ==
    /\ fn = "var_smul_wnaf_two" /\ ~loc.is_inf =>
          Stands(IF loc.flipped THEN Opposite(loc.q) ELSE loc.q,
                 Plus(Times[CurveG][FromDigits(loc.anaf, loc.i + 1)],
                      Times[args.p][FromDigits(loc.bnaf, loc.i + 1)]))
    /\ (fn = "return" /\ args.call = "256a_mul_two") =>
          ret = Plus(Times[CurveG][args.a % CurveN], Times[args.p][args.b % CurveN])
    /\ (fn = "return" /\ args.call = "256a_mul_g") => ret = Times[CurveG][args.scalar]
=============================================================================
