SPECIFICATION Spec
CONSTANTS
    Width = 5
    Primes = {29, 31}
    Orders = {7, 23}
    Primes2 = {17, 19}
    BarrettPrimes = {17, 23}
    HalfBits = 2
    HalfWords = {0, 3}
    CurveP = 31
    CurveA = 28
    CurveB = 25
    CurveN = 23
    CurveGX = 9
    CurveGY = 13
INVARIANTS
    AddComputesSum
