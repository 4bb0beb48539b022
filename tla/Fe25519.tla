----------------------------- MODULE Fe25519 --------------------------------
(***************************************************************************)
(* The two fields with p = 2^255 - 19 under X25519.                        *)
(*                                                                         *)
(* src/generic/curve25519_fiat32.c, for machines without integers of 128   *)
(* bits: ten limbs of 26 and 25 bits in words of 32 and double words of    *)
(* 64.  An fe is bounded by 1.125 times the radix, an fe_loose by 3.375    *)
(* times.                                                                  *)
(*                                                                         *)
(* src/generic/curve25519_hacl64.c: five limbs of 51 bits in words of 64   *)
(* and double words of 128.  The functions write into their first operand  *)
(* and have no types for what is carried and what is not: a product is     *)
(* followed by at most one sum or one difference before it is a factor     *)
(* again.                                                                  *)
(***************************************************************************)
EXTENDS Limbs

CONSTANTS
    Bias                \* the multiple of p in a difference, 2 and 8

Fe(v) == Within(v, 9)
FeLoose(v) == Within(v, 27)

\* Mutant for MC: what leaves the second limb is dropped.
FoldDrops(v) ==
    LET r == CarryRound(v)
        s == [r EXCEPT ![0] = @ % Radix(0), ![1] = Word(@ + Word(r[0] \div Radix(0)))]
    IN  [s EXCEPT ![1] = @ % Radix(1)]

\* The end of fe_mul_impl, fe_sqr_impl and fe_mul_121666_impl.
Fold(v) ==
    LET r == CarryRound(v)
        s == [r EXCEPT ![0] = @ % Radix(0), ![1] = Word(@ + Word(r[0] \div Radix(0)))]
    IN  [s EXCEPT ![1] = @ % Radix(1), ![2] = Word(@ + (s[1] \div Radix(1)))]

fe_mul_impl(f, g) == Fold(Columns(f, g))

\* Each product of two different limbs is taken once and doubled.  Some limbs are taken
\* twice or four times in their word, and some products in a double word: here all limbs
\* are, which leaves less room.  C comes to the sums of products by shifts.
fe_sqr_impl(f) ==
    LET back(i, j) == IF i + j < n THEN 1 ELSE C
        term[i, j \in Index] ==
            IF i < j THEN 0
            ELSE back(i, j) * Word((IF i = j THEN 1 ELSE 2) * (Weight(i, j) \div back(i, j)) * f[i])
                 * f[j]
    IN  Fold(ColumnsOf(term))

\* The constant of the curve is one limb, all other columns stay as they are.
fe_mul_121666_impl(f, a24) == Fold([k \in Index |-> Wide(a24 * f[k])])

Balance == [i \in Index |-> Bias * LimbsOfP[i]]

fe_add_impl(f, g) == [i \in Index |-> Word(f[i] + g[i])]
fe_sub_impl(f, g) == [i \in Index |-> Word(Word(Balance[i] + f[i]) - g[i])]

fe_tobytes(f) == Value(SubtractP(f))

\* The highest bit of the bytes is ignored.
fe_frombytes_impl(s) == Digits(s % 2 ^ Total)

\* Mutant for MC: one squaring too many before the last product.
InvertOnceMore(z) ==
    LET z2 == Sq(z, 1)
        z9 == Mul(z, Sq(z2, 2))
        z11 == Mul(z2, z9)
        z5x == Mul(z9, Sq(z11, 1))
        z10x == Mul(Sq(z5x, 5), z5x)
        z20x == Mul(Sq(z10x, 10), z10x)
        z40x == Mul(Sq(z20x, 20), z20x)
        z50x == Mul(Sq(z40x, 10), z10x)
        z100x == Mul(Sq(z50x, 50), z50x)
        z200x == Mul(Sq(z100x, 100), z100x)
    IN  Mul(Sq(Mul(Sq(z200x, 50), z50x), 6), z11)

\* t0 holds z ^ 2 and z ^ 11, t1 to t3 z ^ 9 and z ^ (2^k - 1).
fe_loose_invert(z) ==
    LET z2 == Sq(z, 1)
        z9 == Mul(z, Sq(z2, 2))
        z11 == Mul(z2, z9)
        z5x == Mul(z9, Sq(z11, 1))
        z10x == Mul(Sq(z5x, 5), z5x)
        z20x == Mul(Sq(z10x, 10), z10x)
        z40x == Mul(Sq(z20x, 20), z20x)
        z50x == Mul(Sq(z40x, 10), z10x)
        z100x == Mul(Sq(z50x, 50), z50x)
        z200x == Mul(Sq(z100x, 100), z100x)
    IN  Mul(Sq(Mul(Sq(z200x, 50), z50x), 5), z11)

-----------------------------------------------------------------------------

FeElements == [Index -> {0, 2, 9}]
FeLooseElements == [Index -> {1, 2, 27}]

A24 == 7            \* 121666 here and 121665 there: any small number

CallFe25519Fiat ==
    /\ fn = "idle"
    /\ \/ \E v, w \in FeLooseElements :
             LET f == Element(v) g == Element(w) IN Call("fiat_mul", f, g, fe_mul_impl(f, g))
       \/ \E w \in FeLooseElements :
             LET f == Element(w) IN
             \/ Call("fiat_sqr", f, f, fe_sqr_impl(f))
             \/ Call("fiat_mul_121666", f, f, fe_mul_121666_impl(f, A24))
       \/ \E v, w \in FeElements :
             LET f == Element(v) g == Element(w) IN
             \/ Call("fiat_add", f, g, fe_add_impl(f, g))
             \/ Call("fiat_sub", f, g, fe_sub_impl(f, g))
       \/ \E w \in FeElements :
             LET f == Element(w) IN Call("fiat_tobytes", f, f, fe_tobytes(f))
       \/ \E x \in {0, 1, P - 1, P, P + 1, 2 ^ Total - 1, 2 ^ Total, 2 ^ Total + P} :
             CallBytes("fiat_frombytes", x, fe_frombytes_impl(x))
       \/ CallBytes("fiat_invert", 0, fe_loose_invert(One))

\* Every result is the one of the field and keeps the bound of its type, and no sum
\* of products leaves its double word; the bytes written are of the number below p,
\* and the bytes read need not be.  The exponent of the inversion is p - 2.
Fe25519FiatExact ==
    (fn = "return" /\ args.call \in {"fiat_mul", "fiat_sqr", "fiat_mul_121666", "fiat_add",
                                     "fiat_sub", "fiat_tobytes", "fiat_frombytes", "fiat_invert"}) =>
        LET r == ret[1]
            a == args.a
            b == args.b
        IN  CASE args.call \in {"fiat_mul", "fiat_sqr"} ->
                   Fe(r) /\ Value(r) % P = TimesModP(Value(a) % P, Value(b) % P)
              [] args.call = "fiat_mul_121666" ->
                   Fe(r) /\ Value(r) % P = TimesModP(Value(a) % P, A24)
              [] args.call = "fiat_add" -> FeLoose(r) /\ Value(r) = Value(a) + Value(b)
              [] args.call = "fiat_sub" ->
                   FeLoose(r) /\ (Value(r) + Value(b)) % P = Value(a) % P
              [] args.call = "fiat_tobytes" -> r = Value(a) % P
              [] args.call = "fiat_frombytes" -> Fe(r) /\ Value(r) = args.bytes % 2 ^ Total
              [] args.call = "fiat_invert" -> r = BitsBelow(255, 21)

-----------------------------------------------------------------------------

\* What the functions return (with 51 bits, less than a thousandth above the radix).
Reduced(v) == Within(v, 12)
Summed(v) == Within(v, 24)
Differed(v) == Within(v, 8 * Bias + 12)

Top == 2 ^ (WordBits - 1)

\* The carries of fproduct_carry_wide_, the last one cut to a word, and the copy into
\* words: the end of fmul_fmul, fsquare_fsquare_ and, without the carry out of the
\* first limb, of fscalar.
CarryWide(v) ==
    LET r[i \in 0 .. n - 1] == IF i = 0 THEN v ELSE LET prev == r[i - 1] IN CarryFrom(prev, i - 1)
        t == r[n - 1]
    IN  [t EXCEPT ![n - 1] = @ % Radix(n - 1),
                  ![0] = Wide(@ + C * Word(t[n - 1] \div Radix(n - 1)))]

CopyFromWide(t) == [i \in Index |-> Word(t[i])]

FirstCarry(o) ==
    [o EXCEPT ![0] = @ % Radix(0), ![1] = Word(@ + (o[0] \div Radix(0)))]

\* Mutant for MC: the limb that comes back is not multiplied.
ShiftOnly(input) == [i \in Index |-> input[(i - 1) % n]]

\* fmul_mul_shift_reduce_: after each row input is shifted by a limb, what leaves it
\* comes back C-fold as a word.
ShiftReduce(input) ==
    [i \in Index |-> IF i = 0 THEN Word(C * input[n - 1]) ELSE input[i - 1]]

Rows(input, input2) ==
    LET r[i \in 0 .. n] ==
            IF i = 0 THEN [input |-> input, sum |-> [k \in Index |-> 0]]
            ELSE LET prev == r[i - 1] IN
                 [input |-> IF i = n THEN prev.input ELSE ShiftReduce(prev.input),
                  sum |-> [k \in Index |-> Wide(prev.sum[k] + prev.input[k] * input2[i - 1])]]
    IN  r[n].sum

fmul(a, b) == FirstCarry(CopyFromWide(CarryWide(Rows(a, b))))

\* fsquare_fsquare__: doubled limbs and the C-fold of the last one are words.
fsquare(a) ==
    LET term[i, j \in Index] ==
            CASE i = j -> Word((IF i + j < n THEN 1 ELSE C) * a[i]) * a[i]
              [] i > j -> Word((IF i + j < n THEN 2 ELSE 2 * C) * a[i]) * a[j]
              [] OTHER -> 0
    IN  FirstCarry(CopyFromWide(CarryWide(ColumnsOf(term))))

fscalar(a, s) == CopyFromWide(CarryWide([k \in Index |-> Wide(a[k] * s)]))

fsum(a, b) == [i \in Index |-> Word(a[i] + b[i])]
fdifference(a, b) == [i \in Index |-> Word(Word(b[i] + Balance[i]) - a[i])]

-----------------------------------------------------------------------------

\* format_fcontract_first_carry_full: the carries in words, the top one comes back.
CarryPass(v) ==
    LET r[i \in 0 .. n - 1] == IF i = 0 THEN v
            ELSE LET prev == r[i - 1] IN
                 [prev EXCEPT ![i - 1] = @ % Radix(i - 1),
                              ![i] = Word(@ + (prev[i - 1] \div Radix(i - 1)))]
    IN  r[n - 1]

modulo_carry_top(b) ==
    [b EXCEPT ![n - 1] = @ % Radix(n - 1), ![0] = Word(@ + C * (b[n - 1] \div Radix(n - 1)))]

FirstCarryFull(v) == modulo_carry_top(CarryPass(v))
SecondCarryFull(v) == FirstCarry(modulo_carry_top(CarryPass(v)))

\* format_fcontract_trim: P is taken off if the limbs are those of a number from P to
\* 2^Total - 1, which the masks tell without a branch.
u64_eq_mask(a, b) ==
    LET x == IF a = b THEN 0 ELSE 1         \* x | -x has its highest bit set
    IN  Word(x - 1)

u64_gte_mask(a, b) ==
    LET high(z) == z \div Top
        sub == Word(a - b)
        q == IF high(a) # high(b) \/ high(sub) # high(b) THEN 1 ELSE 0
    IN  Word((IF high(a) # q THEN 1 ELSE 0) - 1)

Trim(v) ==
    LET all == Word(-1)
        mask == u64_gte_mask(v[0], LimbsOfP[0]) = all
                /\ \A i \in Index \ {0} : u64_eq_mask(v[i], LimbsOfP[i]) = all
    IN  [i \in Index |-> IF mask THEN Word(v[i] - LimbsOfP[i]) ELSE v[i]]

format_fcontract(v) == Value(Trim(SecondCarryFull(FirstCarryFull(v))))

\* The highest bit of the bytes is ignored.
format_fexpand(s) == Digits(s % 2 ^ Total)

\* The powers of fe_loose_invert in the buffers a, t, b and c, which are used again
\* under other names.
crecip_crecip(z) ==
    LET a0 == Sq(z, 1)
        b0 == Mul(Sq(a0, 2), z)
        a == Mul(b0, a0)
        b1 == Mul(Sq(a, 1), b0)
        b2 == Mul(Sq(b1, 5), b1)
        c0 == Mul(Sq(b2, 10), b2)
        t == Mul(Sq(c0, 20), c0)
        b == Mul(Sq(t, 10), b2)
        c == Mul(Sq(b, 50), b)
        t0 == Mul(Sq(c, 100), c)
    IN  Mul(Sq(Mul(Sq(t0, 50), b), 5), a)

-----------------------------------------------------------------------------

ReducedElements == [Index -> {0, 2, 12}]
SummedElements == [Index -> {1, 24}]
DifferedElements == [Index -> {1, 2, 8 * Bias + 12}]

CallFe25519Hacl ==
    /\ fn = "idle"
    /\ \/ \E v \in SummedElements, w \in DifferedElements :
             LET a == Element(v) b == Element(w) IN
             \/ Call("hacl_fmul", a, b, fmul(a, b))
             \/ Call("hacl_fmul", b, a, fmul(b, a))
       \/ \E w \in DifferedElements :
             LET a == Element(w) IN
             \/ Call("hacl_fsquare", a, a, fsquare(a))
             \/ Call("hacl_fscalar", a, a, fscalar(a, A24))
       \/ \E v, w \in ReducedElements :
             LET a == Element(v) b == Element(w) IN
             \/ Call("hacl_fsum", a, b, fsum(a, b))
             \/ Call("hacl_fdifference", a, b, fdifference(a, b))
       \/ \E w \in ReducedElements :
             LET a == Element(w) IN Call("hacl_fcontract", a, a, format_fcontract(a))
       \/ \E x \in {0, 1, P - 1, P, P + 1, 2 ^ Total - 1, 2 ^ Total, 2 ^ Total + P} :
             CallBytes("hacl_fexpand", x, format_fexpand(x))
       \/ CallBytes("hacl_crecip", 0, crecip_crecip(One))

\* Every result is the one of the field, and the top carry of the square of a
\* difference still fits into a word when it comes back C-fold: the bias of
\* fdifference leaves room for that and no more.
Fe25519HaclExact ==
    (fn = "return" /\ args.call \in {"hacl_fmul", "hacl_fsquare", "hacl_fscalar", "hacl_fsum",
                                     "hacl_fdifference", "hacl_fcontract", "hacl_fexpand",
                                     "hacl_crecip"}) =>
        LET r == ret[1]
            a == args.a
            b == args.b
        IN  CASE args.call \in {"hacl_fmul", "hacl_fsquare"} ->
                   Reduced(r) /\ Value(r) % P = TimesModP(Value(a) % P, Value(b) % P)
              [] args.call = "hacl_fscalar" ->
                   Reduced(r) /\ Value(r) % P = TimesModP(Value(a) % P, A24)
              [] args.call = "hacl_fsum" -> Summed(r) /\ Value(r) = Value(a) + Value(b)
              [] args.call = "hacl_fdifference" ->
                   Differed(r) /\ (Value(r) + Value(a)) % P = Value(b) % P
              [] args.call = "hacl_fcontract" -> r = Value(a) % P
              [] args.call = "hacl_fexpand" -> Reduced(r) /\ Value(r) = args.bytes % 2 ^ Total
              [] args.call = "hacl_crecip" -> r = BitsBelow(255, 21)
=============================================================================
