------------------------------ MODULE Gost3410 ------------------------------
(***************************************************************************)
(* GOST R 34.10-2012 on the curves without a cofactor: public keys,        *)
(* signatures and VKO of src/generic/gost3410_generic.c (512 bits,         *)
(* paramSetA) and of src/generic/gost3410_256_generic.c (CryptoPro XchA),  *)
(* which differ in how they multiply.  The first uses the ladder and the   *)
(* simultaneous multiplication of ecc_generic.c, exceptional scalars and   *)
(* points included; the second one the simultaneous multiplication alone   *)
(* or, where the compiler has 128-bit integers, those of gost3410_256a.c,  *)
(* which Gost3410_256a shows to be exact.                                  *)
(*                                                                         *)
(* A call is one step.  Byte strings are the numbers they stand for, in    *)
(* either byte order; the hash of VKO is symbolic.                         *)
(***************************************************************************)
EXTENDS EccGeneric

Builds == {"512a", "256a", "256a_int128"}

Error == [code |-> -1, out |-> <<>>]
Success(value) == [code |-> 0, out |-> value]

\* The loops of EccGeneric from the call to the result.
ecc_point_mult(point, k) ==
    LET start == LadderStart(point, k)
        r[i \in 0 .. Width - 1] ==
            IF i = Width - 1 THEN start.r
            ELSE LET above == r[i + 1] IN LadderRound(above, 1 - Bit(start.sk, i + 1))
    IN  LadderResult(point, r[0], 1 - Bit(start.sk, 0))

ecc_point_mult_shamir(u1, u2, q) ==
    LET start == ShamirStart(u1, u2, q)
        l[i \in 0 .. start.i] ==
            IF i = start.i THEN start ELSE LET above == l[i + 1] IN ShamirNext(above, u1, u2, q)
    IN  ShamirResult(l[0])

point_mult_g(build, k) ==
    CASE build = "512a" -> ecc_point_mult(CurveG, k)
      [] build = "256a" -> ecc_point_mult_shamir(k, 0, CurveG)
      [] build = "256a_int128" -> Times[CurveG][k]

point_mult_two(build, u1, u2, q) ==
    CASE build = "512a" \/ (build = "256a" /\ q # CurveG) -> ecc_point_mult_shamir(u1, u2, q)
      [] build = "256a" /\ q = CurveG -> point_mult_g(build, (u1 + u2) % CurveN)
      [] build = "256a_int128" -> Plus(Times[CurveG][u1], Times[q][u2])

-----------------------------------------------------------------------------

scalar_valid(scalar) == scalar # 0 /\ scalar < CurveN

\* Mutant of ReduceOnce: an x between n and p stays.
ReduceOnce_Never(x) == x

\* n has the highest bit set: one subtraction is enough.
ReduceOnce(x) == IF x >= CurveN THEN x - CurveN ELSE x

\* Mutant of digest_scalar: a digest that is a multiple of n stays zero.
digest_scalar_Zero(digest) == ReduceOnce(digest)

digest_scalar(digest) == IF ReduceOnce(digest) = 0 THEN 1 ELSE ReduceOnce(digest)

ModInv(x) == IF x = 0 THEN 0 ELSE CHOOSE y \in 1 .. CurveN - 1 : (x * y) % CurveN = 1

ecc_point_valid(q) == q # Infinity /\ q[1] < CurveP /\ q[2] < CurveP /\ OnCurve(q)

gost3410_public(build, d) ==
    IF scalar_valid(d) THEN Success(point_mult_g(build, d)) ELSE Error

\* The halves of a signature are <<s, r>>.
gost3410_sign(build, digest, d, k) ==
    LET r == ReduceOnce(point_mult_g(build, k)[1])
        s == (d * r + k * digest_scalar(digest)) % CurveN
    IN  IF scalar_valid(d) /\ scalar_valid(k) /\ r # 0 /\ s # 0 THEN Success(<<s, r>>) ELSE Error

\* z1 and z2
VerifyScalars(digest, sig) ==
    LET e == ModInv(digest_scalar(digest))
    IN  <<(sig[1] * e) % CurveN, ((CurveN - sig[2]) * e) % CurveN>>

\* Where the two scalars of the base point cancel, the build without 128-bit integers
\* returns early.
gost3410_verify(build, q, digest, sig) ==
    LET z == VerifyScalars(digest, sig)
        cancels == build = "256a" /\ q = CurveG /\ (z[1] + z[2]) % CurveN = 0
    IN  IF ~ecc_point_valid(q) \/ ~scalar_valid(sig[1]) \/ ~scalar_valid(sig[2]) THEN Error
        ELSE IF cancels THEN Error
        ELSE IF ReduceOnce(point_mult_two(build, z[1], z[2], q)[1]) = sig[2] THEN Success(<<>>)
        ELSE Error

\* Mutant of gost3410_512a_vko: the UKM is not looked at.
VkoWithoutUkm(q, d, u) ==
    IF ~ecc_point_valid(q) \/ ~scalar_valid(d) \/ u = 0 THEN Error
    ELSE Success(<<"streebog512", ecc_point_mult(q, d)>>)

gost3410_512a_vko(q, d, u) ==
    LET scalar == (d * u) % CurveN
    IN  IF ~ecc_point_valid(q) \/ ~scalar_valid(d) \/ u = 0 \/ scalar = 0 THEN Error
        ELSE Success(<<"streebog512", ecc_point_mult(q, scalar)>>)

-----------------------------------------------------------------------------

\* The ends of the ranges and, for digests, what lies around n.
Scalars == 0 .. CurveN + 1
Digests == {0, 1, CurveN, Base - 1}
VerifyKeys == {1, 2, 5, CurveN - 2, CurveN - 1}
UKMs == {0, 1, 3, 6}
NoPoints == {Infinity, <<0, 1>>, <<CurveP, CurveGY>>, <<CurveGX, CurveGY + 1>>}

Answer(a, result) ==
    /\ fn' = "return" /\ args' = a /\ ret' = result
    /\ UNCHANGED loc

CallPublic ==
    /\ Idle
    /\ \E build \in Builds, d \in Scalars :
          Answer([call |-> "gost3410_public", build |-> build, d |-> d],
                 gost3410_public(build, d))

CallSign ==
    /\ Idle
    /\ \E build \in Builds, digest \in Digests, d, k \in Scalars :
          Answer([call |-> "gost3410_sign", build |-> build, digest |-> digest, d |-> d, k |-> k],
                 gost3410_sign(build, digest, d, k))

\* Under the public key of d, and under what is no public key.  The scalars of the
\* multiplication are noted for Regular.
CallVerifySignature ==
    /\ Idle
    /\ \E build \in Builds, digest \in Digests, s, r \in {0, 1} \union (CurveN - 7 .. CurveN) :
       \E key \in {<<d, Times[CurveG][d]>> : d \in VerifyKeys} \union {<<0, q>> : q \in NoPoints} :
          LET z == VerifyScalars(digest, <<s, r>>) IN
          Answer([call |-> "gost3410_verify", build |-> build, digest |-> digest,
                  d |-> key[1], q |-> key[2], sig |-> <<s, r>>, u1 |-> z[1], u2 |-> z[2]],
                 gost3410_verify(build, key[2], digest, <<s, r>>))

CallVko ==
    /\ Idle
    /\ \E d \in Scalars, u \in UKMs, q \in CurvePoints \union NoPoints :
          Answer([call |-> "gost3410_512a_vko", d |-> d, ukm |-> u, q |-> q],
                 gost3410_512a_vko(q, d, u))

Gost3410Next == CallPublic \/ CallSign \/ CallVerifySignature \/ CallVko

-----------------------------------------------------------------------------

\* The scalars for which the ladder returns zeros.
Exceptional == {1, CurveN - 2, CurveN - 1}

\* The signature of the standard with nonce k, as a pair of numbers.
Signature(digest, d, k) ==
    LET e == IF digest % CurveN = 0 THEN 1 ELSE digest % CurveN
        r == Times[CurveG][k][1] % CurveN
    IN  <<(r * d + k * e) % CurveN, r>>

Returned(call) == fn = "return" /\ args.call = call

\* Each of the three implementations makes and accepts exactly the signatures of the
\* standard, for digests that are zero or above n as for any other.  What the
\* multiplications add to that: with 512 bits three nonces are refused, and for three
\* private keys the public key is given as zeros, with success; and verification is
\* exact whenever no addition on the way is one the formulas do not know, which with
\* 256 bits is always so for the base point, or for 128-bit integers.
SignaturesExact ==
    /\ Returned("gost3410_public") =>
          /\ ret.code = 0 <=> args.d \in 1 .. CurveN - 1
          /\ ret.code = 0 => ret.out = IF args.build = "512a" /\ args.d \in Exceptional
                                       THEN Infinity ELSE Times[CurveG][args.d]
    /\ Returned("gost3410_sign") =>
          /\ ret.code = 0 <=>
                /\ args.d \in 1 .. CurveN - 1 /\ args.k \in 1 .. CurveN - 1
                /\ \A half \in 1 .. 2 : Signature(args.digest, args.d, args.k)[half] # 0
                /\ ~(args.build = "512a" /\ args.k \in Exceptional)
          /\ ret.code = 0 => ret.out = Signature(args.digest, args.d, args.k)
    /\ Returned("gost3410_verify") =>
          IF args.d = 0 \/ ~(args.sig[1] \in 1 .. CurveN - 1 /\ args.sig[2] \in 1 .. CurveN - 1)
          THEN ret.code = -1
          ELSE (\/ args.build = "256a_int128"
                \/ args.build = "256a" /\ args.q = CurveG
                \/ Regular(0))
               => (ret.code = 0 <=>
                      \E k \in 1 .. CurveN - 1 : Signature(args.digest, args.d, k) = args.sig)

\* VKO answers for every public key that is one, every private key and every UKM but
\* zero, and gives what the other party gives, the hash of the multiple by both keys
\* and the UKM; but for three products of key and UKM, and a public key with x = 0,
\* it gives the hash of zeros.
VkoExact ==
    Returned("gost3410_512a_vko") =>
        LET scalar == (args.d * args.ukm) % CurveN
        IN  /\ ret.code = 0 <=>
                  args.q \in CurvePoints /\ args.d \in 1 .. CurveN - 1 /\ args.ukm # 0
            /\ ret.code = 0 =>
                  ret.out = <<"streebog512",
                              IF scalar \in Exceptional \/ args.q[1] = 0 THEN Infinity
                              ELSE Times[args.q][scalar]>>
=============================================================================
