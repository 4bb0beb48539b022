\* The curve y^2 = x^3 - 3 x + 9 over the field of 31 elements has 28 points, and four is
\* the cofactor as it is for TC26 paramSetA.  The scalars are all those of the subgroup of
\* order 7 and some that are none.  The base point has multiples with x = 0 and with x
\* above the order three times.
SPECIFICATION Spec
CONSTANTS
    CurveP = 31
    CurveA = 28
    CurveB = 9
    CurveN = 7
    CurveGX = 8
    CurveGY = 1
    Party = {"alice", "bob"}
    Base = 32
    Scalars = {0, 1, 2, 3, 4, 5, 6, 7}
    Digests = {0, 1, 5, 7, 13, 28, 31}
    UKMs = {0, 1, 3}
    None = None
INVARIANTS
    AcceptsExactlySignatures
    SharedKeysAgree
