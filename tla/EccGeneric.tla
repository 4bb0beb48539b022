----------------------------- MODULE EccGeneric -----------------------------
(***************************************************************************)
(* Multiples of a point as src/generic/ecc_generic.c computes them: the    *)
(* Montgomery ladder with co-Z coordinates of ecc_point_mult, which signs, *)
(* makes public keys and agrees on keys, and the simultaneous              *)
(* multiplication of ecc_point_mult_shamir, which verifies, and which      *)
(* gost3410_256_generic.c also uses for one multiple where the compiler    *)
(* has no 128-bit integers.  One step is one round of a loop.              *)
(*                                                                         *)
(* Field operations are what VliModular shows of them.  A point is <<x,    *)
(* y>>; with a third coordinate z it stands for <<x / z^2, y / z^3>>.      *)
(***************************************************************************)
EXTENDS VliModular, CurveGroup

\* The formulas take a for -3 and the highest bit of n for set.
EccAssumption ==
    /\ CurveAssumption
    /\ CurveP \in Primes /\ CurveN \in Orders
    /\ CurveA = CurveP - 3
    /\ CurveN > 2 ^ (Width - 1) + 1 /\ CurveN + 1 < Base

Bit(k, i) == (k \div 2 ^ i) % 2

\* Mutant for MC: the ladder adds the order to the scalar once and no more.
ScalarOnce(k) == vli_add(k, CurveN).result

-----------------------------------------------------------------------------

apply_z(q, z) == <<(q[1] * z * z) % CurveP, (q[2] * z * z * z) % CurveP>>

\* In place in the code; 3 (x^2 - z^4) / 2 is halved by a shift, where the odd
\* one gets p added first.
ecc_point_double_jacobian(q) ==
    LET x == q[1]
        y == q[2]
        z == q[3]
        a == (x * y * y) % CurveP
        b == Halve((3 * (x + z * z) * (x - z * z)) % CurveP, CurveP)
        x3 == (b * b - 2 * a) % CurveP
    IN  IF z = 0 THEN q
        ELSE <<x3, (b * (a - x3) - y * y * y * y) % CurveP, (y * z) % CurveP>>

\* The double of q and q itself, with the same z.
xycz_initial_double(q) ==
    LET d == ecc_point_double_jacobian(<<q[1], q[2], 1>>)
    IN  [double |-> <<d[1], d[2]>>, same |-> apply_z(q, d[3])]

\* q + r and q, with the z of both times the difference of their x.
xycz_add(q, r) ==
    LET a == (r[1] - q[1]) * (r[1] - q[1])
        b == (q[1] * a) % CurveP
        c == (r[1] * a) % CurveP
        x == ((r[2] - q[2]) * (r[2] - q[2]) - b - c) % CurveP
        y == (q[2] * (c - b)) % CurveP
    IN  [same |-> <<b, y>>, sum |-> <<x, ((r[2] - q[2]) * (b - x) - y) % CurveP>>]

\* q + r and q - r.
xycz_add_c(q, r) ==
    LET a == (r[1] - q[1]) * (r[1] - q[1])
        b == (q[1] * a) % CurveP
        c == (r[1] * a) % CurveP
        y == (q[2] * (c - b)) % CurveP
        f == r[2] + q[2]
        x == (f * f - b - c) % CurveP
    IN  [sum |-> xycz_add(q, r).sum, difference |-> <<x, (f * (x - b) - y) % CurveP>>]

ecc_point_add(q, r) ==
    apply_z(xycz_add(q, r).sum, Inverse[(r[1] - q[1]) % CurveP])

\* sk: the scalar plus n or 2 n, so that it has Width + 1 bits, the highest of
\* which is set and not stored.
LadderScalar(k) ==
    LET once == vli_add(k, CurveN) IN
    IF once.carry = 1 THEN once.result ELSE vli_add(once.result, CurveN).result

LadderRound(r, nb) ==
    LET c == xycz_add_c(r[1 - nb], r[nb])
        a == xycz_add(c.sum, c.difference)
    IN  [b \in {0, 1} |-> IF b = nb THEN a.same ELSE a.sum]

\* The last round, in the middle of which the z of all of it is recovered from
\* the point that was multiplied.
LadderResult(point, r, nb) ==
    LET c == xycz_add_c(r[1 - nb], r[nb])
        now == [b \in {0, 1} |-> IF b = nb THEN c.sum ELSE c.difference]
        yb == now[1 - nb][2]
        z == ((now[1][1] - now[0][1]) * yb * point[1]) % CurveP
        a == xycz_add(c.sum, c.difference)
    IN  apply_z(IF nb = 0 THEN a.same ELSE a.sum,
                (((Inverse[z] * point[2]) % CurveP) * now[1 - nb][1]) % CurveP)

\* The local variables before the first round.
LadderStart(point, k) ==
    LET d == xycz_initial_double(point)
    IN  [sk |-> LadderScalar(k), i |-> Width - 1,
         r |-> [b \in {0, 1} |-> IF b = 0 THEN d.same ELSE d.double]]

CallMult ==
    /\ Idle
    /\ \E point \in CurvePoints : \E k \in 1..(CurveN - 1) :
          Call("ecc_point_mult", [call |-> "ecc_point_mult", point |-> point, scalar |-> k],
               LadderStart(point, k))

MultRound ==
    /\ fn = "ecc_point_mult" /\ loc.i > 0
    /\ loc' = [loc EXCEPT !.r = LadderRound(@, 1 - Bit(loc.sk, loc.i)), !.i = @ - 1]
    /\ UNCHANGED <<fn, args, ret>>

MultReturn ==
    /\ fn = "ecc_point_mult" /\ loc.i = 0
    /\ Return(LadderResult(args.point, loc.r, 1 - Bit(loc.sk, 0)))

\* What a round of ecc_point_mult_shamir adds: none, p, q, or p + q.
Digit(u1, u2, i) == Bit(u1, i) + 2 * Bit(u2, i)

TablePoint(p, q, sum, digit) == CASE digit = 1 -> p [] digit = 2 -> q [] digit = 3 -> sum

ShamirAdd(acc, point) ==
    LET t == apply_z(point, acc[3])
        s == xycz_add(t, <<acc[1], acc[2]>>).sum
    IN  <<s[1], s[2], (acc[3] * (acc[1] - t[1])) % CurveP>>

ShamirStart(u1, u2, q) ==
    LET sum == ecc_point_add(CurveG, q)
        bits == IF vli_num_bits(u1) > vli_num_bits(u2) THEN vli_num_bits(u1) ELSE vli_num_bits(u2)
        first == TablePoint(CurveG, q, sum, Digit(u1, u2, bits - 1))
    IN  [i |-> bits - 1, acc |-> <<first[1], first[2], 1>>, sum |-> sum]

\* The next round with the local variables l.
ShamirNext(l, u1, u2, q) ==
    LET d == ecc_point_double_jacobian(l.acc)
        digit == Digit(u1, u2, l.i - 1)
    IN  [l EXCEPT !.i = @ - 1,
                  !.acc = IF digit = 0 THEN d
                          ELSE ShamirAdd(d, TablePoint(CurveG, q, l.sum, digit))]

ShamirResult(l) == apply_z(<<l.acc[1], l.acc[2]>>, Inverse[l.acc[3]])

CallShamir(u1, u2, q) ==
    Call("ecc_point_mult_shamir",
         [call |-> "ecc_point_mult_shamir", u1 |-> u1, u2 |-> u2, q |-> q],
         ShamirStart(u1, u2, q))

\* From verify: neither scalar is zero, and q is a public key.
CallVerify ==
    /\ Idle
    /\ \E u1, u2, d \in 1..(CurveN - 1) : CallShamir(u1, u2, Times[CurveG][d])

\* point_mult of the 256-bit curve: the second scalar is zero and the points are
\* the same.
CallPointMult == Idle /\ \E k \in 1..(CurveN - 1) : CallShamir(k, 0, CurveG)

ShamirRound ==
    /\ fn = "ecc_point_mult_shamir" /\ loc.i > 0
    /\ loc' = ShamirNext(loc, args.u1, args.u2, args.q)
    /\ UNCHANGED <<fn, args, ret>>

ShamirReturn ==
    /\ fn = "ecc_point_mult_shamir" /\ loc.i = 0
    /\ Return(ShamirResult(loc))

PointStep == MultRound \/ MultReturn \/ ShamirRound \/ ShamirReturn

PointNext == CallMult \/ CallVerify \/ CallPointMult \/ PointStep

-----------------------------------------------------------------------------

\* What the ladder has read of the scalar before round i.
Prefix == (Base + loc.sk) \div 2 ^ (loc.i + 1)

LadderExact ==
    /\ fn = "ecc_point_mult" /\ Prefix % CurveN \notin {0, CurveN - 1} =>
         \E z \in Field \ {0} :
            /\ loc.r[0] = apply_z(Times[args.point][Prefix], z)
            /\ loc.r[1] = apply_z(Times[args.point][Prefix + 1], z)
    /\ fn = "return" /\ args.call = "ecc_point_mult" =>
         ret = IF args.scalar \in {1, CurveN - 2, CurveN - 1} \/ args.point[1] = 0
               THEN Infinity ELSE Times[args.point][args.scalar]

\* The true sum for the bits of the scalars from i on.
SumFrom(i) == Plus(Times[CurveG][args.u1 \div 2 ^ i], Times[args.q][args.u2 \div 2 ^ i])

\* No round from the first one to i has added a point to itself or to infinity,
\* nor used p + q where that is the sum of a point and itself or its negative.
Regular(i) ==
    \A j \in i..(Width - 1) :
       LET digit == Digit(args.u1, args.u2, j)
           added == Plus(Times[CurveG][Bit(args.u1, j)], Times[args.q][Bit(args.u2, j)])
           double == Plus(SumFrom(j + 1), SumFrom(j + 1))
           first == args.u1 < 2 ^ (j + 1) /\ args.u2 < 2 ^ (j + 1)
       IN  /\ digit = 3 => args.q \notin {CurveG, Negative(CurveG)}
           /\ digit # 0 /\ ~first => double \notin {Infinity, added}

ShamirExact ==
    /\ fn = "ecc_point_mult_shamir" /\ Regular(loc.i) =>
         IF loc.acc[3] = 0 THEN SumFrom(loc.i) = Infinity
         ELSE <<loc.acc[1], loc.acc[2]>> = apply_z(SumFrom(loc.i), loc.acc[3])
    /\ fn = "return" /\ args.call = "ecc_point_mult_shamir" /\ (Regular(0) \/ args.u2 = 0) =>
         ret = SumFrom(0)

\* The ladder gives the multiple for every scalar but 1, n - 2 and n - 1 and every
\* point but one with x = 0, for which it gives zeros; the simultaneous
\* multiplication gives the sum whenever no addition on the way is one the formulas
\* do not know, and always when it computes one multiple of the base point.
MultiplesExact == LadderExact /\ ShamirExact

\* The comment on ecc_point_add, "Computes R = P + Q mod p", for the base point and
\* every public key that has a sum with it.
AddComputesSum ==
    fn = "ecc_point_mult_shamir" /\ args.q # Negative(CurveG) =>
       loc.sum = Plus(CurveG, args.q)
=============================================================================
