---------------------------- MODULE MCFunctions ------------------------------
(***************************************************************************)
(* All the arithmetic of the library, one call of one function at a time,  *)
(* with numbers of a few bits.  The functions share the variables; those   *)
(* of ecc_generic.c come from the modules this one extends, the others     *)
(* from instances with parameters of their own.                            *)
(*                                                                         *)
(* The curve y^2 = x^3 - 3 x + 25 over the field of 31 elements has 22     *)
(* points and the point at infinity, two points with x = 0, and like the   *)
(* curve of 512 bits an order below p with the highest bit set.  The one   *)
(* for X25519, over the field of 2^7 - 19 elements, has the cofactors 8    *)
(* and, on the twist, 4.                                                   *)
(***************************************************************************)
EXTENDS Gost3410

\* Three words of two bits, where a carry can cross a word; one word of four, where
\* the halves of a word have two bits.
W2 == INSTANCE VliWords WITH WordBits <- 2, NDigits <- 3
W4 == INSTANCE VliWords WITH WordBits <- 4, NDigits <- 1

\* Three limbs, of which the first one is longer like that of 52 bits, or the last one
\* shorter; words with as many bits to spare as the bounds of the limbs need.  In Opt a
\* loose limb four times C-fold is 27648, which takes the last bit of a word of 15 bits
\* as 4 * 617 * 3 * 2^51 does of 64, and what is carried out of the first limb is too
\* large for a word there as it is here.
Opt == INSTANCE Gost3410_256a WITH
    Bits <- <<9, 8, 8>>, C <- 9, WordBits <- 15, WideBits <- 30, FlagBits <- 3,
    ScalarBits <- 5, RADIX <- 2, Rows <- 2, TwoScalars <- {0, 1, 2, 3, 11, 12, 19, 21, 22}
Fiat == INSTANCE Fe25519 WITH
    Bits <- <<7, 7, 6>>, C <- 3, WordBits <- 12, WideBits <- 22, Bias <- 2
Hacl == INSTANCE Fe25519 WITH
    Bits <- <<8, 8, 8>>, C <- 3, WordBits <- 15, WideBits <- 30, Bias <- 2

\* The keys are those that clamping allows, whose multiples of C fit; the messages and
\* the nonces are the ends of their ranges and what lies around P.
P32 == INSTANCE PolyDonna WITH
    Bits <- <<4, 4, 4>>, C <- 5, WordBits <- 10, WideBits <- 20, Cleared <- {},
    RawKeys <- {63, 511, 1023, 8, 341, 256, 1019},
    Messages <- {0, 1, 5, 1023, 512, 1018, 1019}, Nonces <- {0, 1, 1023}, MaxBlocks <- 2
P64 == INSTANCE PolyDonna WITH
    Bits <- <<4, 4, 3>>, C <- 5, WordBits <- 11, WideBits <- 22, Cleared <- {},
    RawKeys <- {63, 255, 511, 8, 341, 256, 509},
    Messages <- {0, 1, 5, 511, 256, 507}, Nonces <- {0, 1, 511}, MaxBlocks <- 3

X25519 == INSTANCE Curve25519 WITH
    Bits <- 7, CurveP <- 109, CurveA <- 6, BaseX <- 29,
    Secrets <- {0, 1, 30, 73, 127, 200, 255},
    Points <- 0 .. 15 \union 100 .. 128 \union {29, 46, 66, 137, 246, 255}

ASSUME MCAssumption ==
    /\ EccAssumption /\ ReductionsAssumption
    /\ W2!WordAssumption /\ W4!WordAssumption
    /\ Opt!LimbsAssumption /\ Fiat!LimbsAssumption /\ Hacl!LimbsAssumption
    /\ P32!LimbsAssumption /\ P64!LimbsAssumption
    /\ Opt!Points256aAssumption /\ X25519!Curve25519Assumption

Next ==
    \/ ModularNext \/ ReductionsNext \/ PointNext \/ Gost3410Next
    \/ W2!WordNext \/ W4!WordNext
    \/ Opt!CallFe256a \/ Fiat!CallFe25519Fiat \/ Hacl!CallFe25519Hacl
    \/ P32!PolyStep \/ P64!PolyStep64
    \/ Opt!Points256aNext \/ X25519!Curve25519Step
    \/ Forget

vars == <<fn, args, loc, ret>>

Spec == Init /\ [][Next]_vars

\* A loop that has begun goes on: the code has nothing else to wait for.
FairSpec == Spec /\ WF_vars(ModularStep \/ Special2Fold \/ Special2Return
                            \/ BarrettSubtract \/ NistAdjust)

-----------------------------------------------------------------------------

\* Words and numbers: what is carried from word to word arrives, and a product loses
\* a carry in one case only (see ProductExact); every reduction and the inversion
\* return the residue.
NumbersExact ==
    /\ W2!RipplesExact /\ W4!RipplesExact /\ W2!ProductUnlessLost /\ W4!ProductUnlessLost
    /\ ReturnsExact /\ ReductionsExact

\* The three straight-line fields compute modulo p within the bounds of their limbs,
\* and the chains of squarings and products have the exponent p - 2.
FieldsExact ==
    Opt!Fe256aExact /\ Fiat!Fe25519FiatExact /\ Hacl!Fe25519HaclExact

\* The accumulator of Poly1305, in five limbs or in three, has the value of the
\* polynomial after every block, and the tag is that of the reduced number.
PolyExact == P32!PolyDonna32Exact /\ P64!PolyDonna64Exact

\* The ladder gives the multiple for every scalar but 1, n - 2 and n - 1 and every
\* point but one with x = 0, for which it gives zeros; the simultaneous multiplication
\* whenever no addition on the way is one the formulas do not know; those of
\* gost3410_256a.c always.
PointsExact == MultiplesExact /\ Opt!Points256aExact

\* Both ladders of X25519 keep the invariant of their comment and return the x of the
\* multiple, and the functions around them refuse the points of small order only.
X25519Agrees == X25519!X25519Exact

\* Every reduction and every inversion comes to an end: no operand and no modulus
\* keeps the two numbers of the inversion from meeting, the upper half of a product
\* from vanishing, or a sum of signed terms from coming into range.  (The ladders
\* count down, which needs no check.)
EveryCallReturns ==
    fn \in {"vli_mod_inv", "vli_mmod_special", "vli_mmod_slow", "vli_mmod_special2",
            "vli_mmod_barrett", "vli_mmod_fast"} ~> fn = "return"

\* The comments on the products, "Computes result = (left * right) % mod." and, in
\* vli_mult, "Compute each digit of result in sequence, maintaining the carries."
ProductExact == W2!ProductExact
=============================================================================
