----------------------------- MODULE CurveGroup -----------------------------
(***************************************************************************)
(* The points of an elliptic curve y^2 = x^3 + a x + b over a prime field  *)
(* and the sum and the multiples of them, by the textbook.  The modules of *)
(* GOST R 34.10 are compared with this one.                                *)
(***************************************************************************)
EXTENDS Integers

CONSTANTS
    CurveP, CurveA, CurveB,     \* the field and the curve
    CurveN,                     \* a prime number,
    CurveGX, CurveGY            \* and a point of that order

Field == 0..(CurveP - 1)

\* The code writes the point at infinity so; no curve here goes through it.
Infinity == <<0, 0>>

OnCurve(q) ==
    (q[2] * q[2] - q[1] * q[1] * q[1] - CurveA * q[1] - CurveB) % CurveP = 0

CurvePoints == {q \in Field \X Field : OnCurve(q)}

CurveG == <<CurveGX, CurveGY>>

\* 1 / x, and 0 for 0.
Inverse == [x \in Field |-> IF x = 0 THEN 0 ELSE CHOOSE y \in Field : (x * y) % CurveP = 1]

Negative(q) == <<q[1], (-q[2]) % CurveP>>

Plus(q, r) ==
    LET slope ==
            IF q = r THEN ((3 * q[1] * q[1] + CurveA) * Inverse[(2 * q[2]) % CurveP]) % CurveP
            ELSE ((r[2] - q[2]) * Inverse[(r[1] - q[1]) % CurveP]) % CurveP
        x == (slope * slope - q[1] - r[1]) % CurveP
    IN  CASE q = Infinity -> r
          [] r = Infinity -> q
          [] q # Infinity /\ r # Infinity /\ q[1] = r[1] /\ (q # r \/ q[2] = 0) -> Infinity
          [] OTHER -> <<x, (slope * (q[1] - x) - q[2]) % CurveP>>

\* The multiples of every point, as far as the modules need them, in one table.
MaxTimes == 2 * CurveP + 2

Times ==
    [q \in CurvePoints \union {Infinity} |->
        LET f[k \in 0..MaxTimes] == IF k = 0 THEN Infinity ELSE Plus(f[k - 1], q)
        IN  [k \in 0..MaxTimes |-> f[k]]]

CurveAssumption ==
    /\ CurveP \in Nat /\ \A d \in 2..(CurveP - 1) : CurveP % d # 0
    /\ CurveN \in 3..MaxTimes /\ \A d \in 2..(CurveN - 1) : CurveN % d # 0
    /\ CurveA \in Field /\ CurveB \in Field \ {0}
    /\ CurveG \in CurvePoints /\ Times[CurveG][CurveN] = Infinity
    /\ (4 * CurveA * CurveA * CurveA + 27 * CurveB * CurveB) % CurveP # 0

\* The points of such a curve form a group: a theorem about all elliptic curves, and an
\* assumption here.
Group == CurvePoints \union {Infinity}

GroupLaw ==
    \A q, r, s \in Group : Plus(q, r) \in Group /\ Plus(Plus(q, r), s) = Plus(q, Plus(r, s))
=============================================================================
