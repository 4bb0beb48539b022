----------------------------- MODULE Curve25519 -----------------------------
(***************************************************************************)
(* X25519 as curve25519_generic computes it, with the ladder of            *)
(* src/generic/curve25519_fiat32.c or that of curve25519_hacl64.c, and the *)
(* functions of curve25519_generic.c around it.  One step is one bit of    *)
(* the secret.                                                             *)
(*                                                                         *)
(* The field is that of CurveP = 2^Bits - C elements, an operation on it   *)
(* what Fe25519Fiat and Fe25519Hacl show of it; the curve is y^2 = x^3 +   *)
(* CurveA x^2 + x, and an x that is not on it is on its twist.             *)
(***************************************************************************)
EXTENDS Integers, Sequences

CONSTANTS
    Bits,               \* 255
    CurveP, CurveA,
    BaseX,              \* 9
    Secrets, Points     \* the strings of bytes that are tried, as numbers

VARIABLES
    fn, args, loc, ret  \* see VliModular

Curve25519Assumption ==
    /\ Bits \in Nat /\ Bits > 3 /\ CurveP \in 2 ^ (Bits - 1) .. 2 ^ Bits - 1
    /\ \A d \in 2 .. CurveP - 1 : CurveP % d # 0
    /\ (CurveA + 2) % 4 = 0
    /\ Secrets \union Points \subseteq 0 .. 2 ^ (Bits + 1) - 1 /\ BaseX \in Points

Field == 0 .. CurveP - 1

\* fe_invert and crecip: 1 / z, and 0 for 0.
Inverse == [z \in Field |-> IF z = 0 THEN 0 ELSE CHOOSE w \in Field : (z * w) % CurveP = 1]

\* The curve's cofactor divides what is left, the highest bit is always the same one.
curve25519_clamp_secret(e) == 2 ^ (Bits - 1) + ((e % 2 ^ (Bits - 1)) \div 8) * 8

BitOf(e, pos) == (e \div 2 ^ pos) % 2

fe_frombytes(s) == (s % 2 ^ Bits) % CurveP

Swapped(a, b, swap) == IF swap = 1 THEN <<b, a>> ELSE <<a, b>>

\* A round of the fiat ladder: p is doubled, q becomes the sum of both.
LadderStepFiat(x1, p, q) ==
    LET da == (q[1] - q[2]) * (p[1] + p[2])
        cb == (q[1] + q[2]) * (p[1] - p[2])
        bb == ((p[1] - p[2]) * (p[1] - p[2])) % CurveP
        aa == ((p[1] + p[2]) * (p[1] + p[2])) % CurveP
        e == (aa - bb) % CurveP
        s == (da + cb) % CurveP
        d == (da - cb) % CurveP
    IN  [double |-> <<(aa * bb) % CurveP, (e * (bb + ((CurveA + 2) \div 4) * e)) % CurveP>>,
         sum |-> <<(s * s) % CurveP, (x1 * ((d * d) % CurveP)) % CurveP>>]

\* addanddouble_fmonty: the constant is one less and comes with the other square.
addanddouble_fmonty(x1, p, q) ==
    LET aa == ((p[1] + p[2]) * (p[1] + p[2])) % CurveP
        bb == ((p[1] - p[2]) * (p[1] - p[2])) % CurveP
        xxprime == (q[1] + q[2]) * (p[1] - p[2])
        zzprime == (p[1] + p[2]) * (q[1] - q[2])
        s == (xxprime + zzprime) % CurveP
        d == (xxprime - zzprime) % CurveP
        e == (aa - bb) % CurveP
    IN  [double |-> <<(aa * bb) % CurveP, (e * (((CurveA - 2) \div 4) * e + aa)) % CurveP>>,
         sum |-> <<(s * s) % CurveP, (((d * d) % CurveP) * x1) % CurveP>>]

Affine(p) == (p[1] * Inverse[p[2]]) % CurveP

-----------------------------------------------------------------------------

\* swap is that of the fiat ladder, which undoes an exchange only when the next bit
\* differs; the other one exchanges before and after every step.
Start(impl, call, secret, point) ==
    LET x1 == fe_frombytes(point) IN
    /\ fn' = impl
    /\ args' = [call |-> call, impl |-> impl, secret |-> secret, point |-> point,
                e |-> curve25519_clamp_secret(secret)]
    /\ loc' = [x1 |-> x1, p |-> <<1, 0>>, q |-> <<x1, 1>>, swap |-> 0,
               pos |-> IF impl = "fiat" THEN Bits - 1 ELSE Bits]
    /\ UNCHANGED ret

Impl == {"fiat", "hacl"}

curve25519 ==
    /\ fn = "idle"
    /\ \E impl \in Impl, secret \in Secrets, point \in Points :
          Start(impl, "curve25519", secret, point)

curve25519_generate_public ==
    /\ fn = "idle"
    /\ \E impl \in Impl, secret \in Secrets :
          IF secret # 0 THEN Start(impl, "generate_public", secret, BaseX)
          ELSE /\ fn' = "return" /\ ret' = <<FALSE>> /\ UNCHANGED loc
               /\ args' = [call |-> "generate_public", secret |-> 0]

\* Mutant for MC: the exchange that the last bit asked for is taken back.
FiatRoundAlways ==
    /\ fn = "fiat" /\ loc.pos >= 0
    /\ LET b == BitOf(args.e, loc.pos)
           s == Swapped(loc.p, loc.q, b)
           r == LadderStepFiat(loc.x1, s[1], s[2])
       IN  loc' = [loc EXCEPT !.p = r.double, !.q = r.sum, !.swap = b, !.pos = @ - 1]
    /\ UNCHANGED <<fn, args, ret>>

FiatRound ==
    /\ fn = "fiat" /\ loc.pos >= 0
    /\ LET b == BitOf(args.e, loc.pos)
           s == Swapped(loc.p, loc.q, (loc.swap + b) % 2)
           r == LadderStepFiat(loc.x1, s[1], s[2])
       IN  loc' = [loc EXCEPT !.p = r.double, !.q = r.sum, !.swap = b, !.pos = @ - 1]
    /\ UNCHANGED <<fn, args, ret>>

\* All the bits of all the bytes, the one that is always clear too.
HaclRound ==
    /\ fn = "hacl" /\ loc.pos >= 0
    /\ LET bit == BitOf(args.e, loc.pos)
           s == Swapped(loc.p, loc.q, bit)
           r == addanddouble_fmonty(loc.x1, s[1], s[2])
           t == Swapped(r.double, r.sum, bit)
       IN  loc' = [loc EXCEPT !.p = t[1], !.q = t[2], !.pos = @ - 1]
    /\ UNCHANGED <<fn, args, ret>>

\* Both functions say whether the result is other than zero.
Return25519 ==
    /\ fn \in Impl /\ loc.pos < 0
    /\ LET x == Affine(Swapped(loc.p, loc.q, loc.swap)[1]) IN ret' = <<x # 0, x>>
    /\ fn' = "return" /\ UNCHANGED <<args, loc>>

Curve25519Step == curve25519 \/ curve25519_generate_public \/ FiatRound \/ HaclRound \/ Return25519

-----------------------------------------------------------------------------

Infinity == <<>>

\* The curve or its twist, b y^2 = x^3 + a x^2 + x, by the textbook.
Cubic(x) == (x * ((x * x + CurveA * x + 1) % CurveP)) % CurveP

Squares == {(y * y) % CurveP : y \in Field}

NonSquare == CHOOSE b \in Field : b \notin Squares

Lift == [x \in Field |->
    LET b == IF Cubic(x) \in Squares THEN 1 ELSE NonSquare
    IN  [b |-> b, y |-> CHOOSE y \in Field : (b * ((y * y) % CurveP)) % CurveP = Cubic(x)]]

Plus(q, r, b) ==
    LET slope ==
            (IF q = r THEN (3 * q[1] * q[1] + 2 * CurveA * q[1] + 1) * Inverse[(2 * b * q[2]) % CurveP]
             ELSE (r[2] - q[2]) * Inverse[(r[1] - q[1]) % CurveP]) % CurveP
        x == (b * ((slope * slope) % CurveP) - CurveA - q[1] - r[1]) % CurveP
    IN  IF q = Infinity THEN r ELSE IF r = Infinity THEN q
        ELSE IF q[1] = r[1] /\ (q # r \/ q[2] = 0) THEN Infinity
        ELSE <<x, (slope * (q[1] - x) - q[2]) % CurveP>>

\* The x of a multiple of the point with an x, and that of the point at infinity.
Multiple(x, k) ==
    LET point == <<x, Lift[x].y>>
        m[j \in 0 .. 2 ^ Bits] ==
            IF j = 0 THEN Infinity
            ELSE LET half == m[j \div 2]
                     double == Plus(half, half, Lift[x].b)
                 IN  IF j % 2 = 1 THEN Plus(double, point, Lift[x].b) ELSE double
        all == m[k]
    IN  IF all = Infinity THEN Infinity ELSE <<all[1]>>

\* Are x / z the coordinates of the point?
Represents(p, m) ==
    IF m = Infinity THEN p[2] = 0 /\ p[1] # 0
    ELSE p[2] # 0 /\ Affine(p) = m[1]

\* The invariant that the comment in curve25519_fiat32.c states for x1 # 0, for both
\* ladders: r the bits that were read, the one pair stands for r * P, the other one
\* for (r + 1) * P.
LadderInvariant ==
    fn \in Impl /\ loc.x1 # 0 =>
        LET r == args.e \div 2 ^ (loc.pos + 1)
            s == Swapped(loc.p, loc.q, loc.swap)
        IN  Represents(s[1], Multiple(loc.x1, r)) /\ Represents(s[2], Multiple(loc.x1, r + 1))

\* What is returned is the x of the multiple, be the point on the curve or on the
\* twist and its x written above p or with the highest bit set, and it is refused
\* exactly for points of a small order, all of which the cofactor takes to infinity.
\* Two parties who have public keys agree.
X25519Exact ==
    /\ LadderInvariant
    /\ (fn = "return" /\ args.call \in {"curve25519", "generate_public"} /\ Len(ret) > 1) =>
          LET x == fe_frombytes(args.point)
              small == Multiple(x, 8) = Infinity \/ x = 0
          IN  /\ ret[1] = ~small
              /\ ret[1] => <<ret[2]>> = Multiple(x, args.e)
              /\ args.call = "generate_public" => ret[1]
              /\ ret[1] /\ args.call = "generate_public" =>
                    \A other \in {curve25519_clamp_secret(s) : s \in Secrets} :
                        Multiple(ret[2], other) =
                            Multiple(Multiple(BaseX, other)[1], args.e)
=============================================================================
