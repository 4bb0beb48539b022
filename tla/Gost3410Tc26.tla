---------------------------- MODULE Gost3410Tc26 ----------------------------
(***************************************************************************)
(* GOST R 34.10-2012 on the curve TC26 256 paramSetA, as in                *)
(* src/generic/gost3410_256_tc26_generic.c: public keys, signatures, VKO   *)
(* and ECDH with the cofactor, on affine points with every special case of *)
(* the addition.  Field operations are what VliModular shows of them.      *)
(* Scalars are the numbers that the byte strings of the interface stand    *)
(* for, in either byte order; the hash of VKO is symbolic.                 *)
(*                                                                         *)
(* The order of the curve is four times CurveN, so digests and             *)
(* x-coordinates may exceed CurveN several times.                          *)
(***************************************************************************)
EXTENDS CurveGroup

CONSTANTS
    Party,              \* who has a key
    Base,               \* one more than the largest digest, 2^256
    Scalars,            \* inputs for keys, nonces and the halves of a signature
    Digests, UKMs,      \* inputs
    None                \* a key that was not made yet

ASSUME Gost3410Assumption ==
    /\ CurveAssumption /\ GroupLaw
    /\ CurveP < Base
    /\ Scalars \subseteq 0..(Base - 1) /\ Digests \subseteq 0..(Base - 1)
    /\ UKMs \subseteq 0..(CurveN - 1)

VARIABLES
    priv, pub,          \* the keys of every party
    call,               \* the last call and its arguments
    ret, out            \* what it returned, and what it wrote, if it wrote

point_inf(q) == q = Infinity

point_double(q) ==
    LET slope == (3 * q[1] * q[1] + CurveA) * Inverse[(2 * q[2]) % CurveP] % CurveP
        x == (slope * slope - 2 * q[1]) % CurveP
    IN  IF point_inf(q) \/ q[2] = 0 THEN Infinity
        ELSE <<x, (slope * (q[1] - x) - q[2]) % CurveP>>

\* Mutant for MC: points with the same x are taken for a point and its negative.
AddNotDouble(q, r) ==
    LET slope == ((r[2] - q[2]) * Inverse[(r[1] - q[1]) % CurveP]) % CurveP
        x == (slope * slope - q[1] - r[1]) % CurveP
    IN  CASE point_inf(q) -> r
          [] ~point_inf(q) /\ point_inf(r) -> q
          [] ~point_inf(q) /\ ~point_inf(r) /\ q[1] = r[1] -> Infinity
          [] OTHER -> <<x, (slope * (q[1] - x) - q[2]) % CurveP>>

point_add(q, r) ==
    LET slope == ((r[2] - q[2]) * Inverse[(r[1] - q[1]) % CurveP]) % CurveP
        x == (slope * slope - q[1] - r[1]) % CurveP
        both == ~point_inf(q) /\ ~point_inf(r)
    IN  CASE point_inf(q) -> r
          [] ~point_inf(q) /\ point_inf(r) -> q
          [] both /\ q = r -> point_double(q)
          [] both /\ q[1] = r[1] /\ q # r -> Infinity
          [] OTHER -> <<x, (slope * (q[1] - x) - q[2]) % CurveP>>

\* The loop goes through the bits of k from the highest one; upto[k] is the point
\* when it has read those of k.
point_mult(q, k) ==
    LET upto[j \in 0..k] ==
            IF j = 0 THEN Infinity
            ELSE LET twice == point_double(upto[j \div 2])
                 IN  IF j % 2 = 1 THEN point_add(twice, q) ELSE twice
    IN  upto[k]

scalar_valid(scalar) == scalar # 0 /\ scalar < CurveN

\* scalar_reduce subtracts n as often as it has to.
scalar_reduce(v) == v % CurveN

digest_scalar(digest) == IF scalar_reduce(digest) = 0 THEN 1 ELSE scalar_reduce(digest)

ModInv(x) == IF x = 0 THEN 0 ELSE CHOOSE y \in 1..(CurveN - 1) : (x * y) % CurveN = 1

ecc_point_valid(q) ==
    /\ q # Infinity
    /\ q[1] < CurveP /\ q[2] < CurveP
    /\ OnCurve(q)

Error == [ret |-> -1, out |-> <<>>]

Success(value) == [ret |-> 0, out |-> value]

gost3410_256tc26a_public(d) ==
    IF scalar_valid(d) THEN Success(point_mult(CurveG, d)) ELSE Error

\* The halves of a signature are <<s, r>>, in this order.
gost3410_256tc26a_sign(digest, d, k) ==
    LET e == digest_scalar(digest)
        r == scalar_reduce(point_mult(CurveG, k)[1])
        s == (d * r + k * e) % CurveN
    IN  IF ~scalar_valid(d) \/ ~scalar_valid(k) THEN Error
        ELSE IF r = 0 \/ s = 0 THEN Error
        ELSE Success(<<s, r>>)

gost3410_256tc26a_verify(q, digest, sig) ==
    LET s == sig[1]
        r == sig[2]
        e == ModInv(digest_scalar(digest))
        z1 == (s * e) % CurveN
        z2 == ((CurveN - r) * e) % CurveN
        c == point_add(point_mult(CurveG, z1), point_mult(q, z2))
    IN  IF ~ecc_point_valid(q) \/ ~scalar_valid(r) \/ ~scalar_valid(s) THEN -1
        ELSE IF scalar_reduce(c[1]) = r THEN 0 ELSE -1

Cofactor == 4

\* Mutant for MC: the factor h is forgotten.
VkoWithoutCofactor(q, d, u) ==
    LET scalar == (d * u) % CurveN IN
    IF ~ecc_point_valid(q) \/ ~scalar_valid(d) \/ u = 0 \/ scalar = 0 THEN Error
    ELSE Success(<<"streebog256", point_mult(q, scalar)>>)

\* streebog256 of both coordinates.
gost3410_256tc26a_vko(q, d, u) ==
    LET scalar == (((d * u) % CurveN) * Cofactor) % CurveN IN
    IF ~ecc_point_valid(q) \/ ~scalar_valid(d) \/ u = 0 \/ scalar = 0 THEN Error
    ELSE Success(<<"streebog256", point_mult(q, scalar)>>)

gost3410_256tc26a_ecdh_cofactor_xy(q, d) ==
    LET scalar == (d * Cofactor) % CurveN
        res == point_mult(q, scalar)
    IN  IF ~ecc_point_valid(q) \/ ~scalar_valid(d) \/ scalar = 0 \/ point_inf(res) THEN Error
        ELSE Success(res)

-----------------------------------------------------------------------------

Idle == call = <<>>

Done(c, result) == call' = c /\ ret' = result.ret /\ out' = result.out

\* A key is made once; with a number that is no key nothing is written.
Public ==
    /\ Idle
    /\ \E p \in Party, d \in Scalars :
          LET key == gost3410_256tc26a_public(d) IN
          /\ pub[p] = None
          /\ IF key.ret = 0
             THEN priv' = [priv EXCEPT ![p] = d] /\ pub' = [pub EXCEPT ![p] = key.out]
             ELSE UNCHANGED <<priv, pub>>
          /\ Done([fn |-> "public", party |-> p, scalar |-> d], key)

Sign ==
    /\ Idle
    /\ \E p \in {q \in Party : pub[q] # None}, digest \in Digests, nonce \in Scalars :
          Done([fn |-> "sign", party |-> p, digest |-> digest],
               gost3410_256tc26a_sign(digest, priv[p], nonce))
    /\ UNCHANGED <<priv, pub>>

Verify ==
    /\ Idle
    /\ \E p \in {q \in Party : pub[q] # None}, digest \in Digests, s, r \in Scalars :
          Done([fn |-> "verify", party |-> p, digest |-> digest, sig |-> <<s, r>>],
               [ret |-> gost3410_256tc26a_verify(pub[p], digest, <<s, r>>), out |-> <<>>])
    /\ UNCHANGED <<priv, pub>>

Agree ==
    /\ Idle
    /\ \E p, peer \in {q \in Party : pub[q] # None} :
          \/ \E u \in UKMs :
                Done([fn |-> "vko", party |-> p, peer |-> peer, ukm |-> u],
                     gost3410_256tc26a_vko(pub[peer], priv[p], u))
          \/ Done([fn |-> "ecdh", party |-> p, peer |-> peer],
                  gost3410_256tc26a_ecdh_cofactor_xy(pub[peer], priv[p]))
    /\ UNCHANGED <<priv, pub>>

\* Not code: the caller takes the result and goes on.
Forget == ~Idle /\ call' = <<>> /\ ret' = 0 /\ out' = <<>> /\ UNCHANGED <<priv, pub>>

Init ==
    /\ priv = [p \in Party |-> None] /\ pub = [p \in Party |-> None]
    /\ call = <<>> /\ ret = 0 /\ out = <<>>

Next == Public \/ Sign \/ Verify \/ Agree \/ Forget

Spec == Init /\ [][Next]_<<priv, pub, call, ret, out>>

-----------------------------------------------------------------------------

\* Verification accepts, under a public key that was made here, exactly what the
\* owner of the key can make for that digest with some nonce; and whatever is signed
\* is accepted, for digests that are zero or above the order as for any other.
AcceptsExactlySignatures ==
    /\ ~Idle /\ call.fn = "verify" =>
         (ret = 0 <=> \E nonce \in 1..(CurveN - 1) :
                         gost3410_256tc26a_sign(call.digest, priv[call.party], nonce)
                            = Success(call.sig))
    /\ ~Idle /\ call.fn = "sign" /\ ret = 0 =>
         gost3410_256tc26a_verify(pub[call.party], call.digest, out) = 0

\* Two parties agree on the same key, which is not that of the point at infinity; a
\* call for a zero UKM fails and no other one does.
SharedKeysAgree ==
    /\ ~Idle /\ call.fn = "vko" =>
         /\ (ret = 0) <=> (call.ukm # 0)
         /\ ret = 0 =>
              /\ out = gost3410_256tc26a_vko(pub[call.party], priv[call.peer], call.ukm).out
              /\ out = <<"streebog256", Times[pub[call.peer]][(4 * priv[call.party] * call.ukm) % CurveN]>>
    /\ ~Idle /\ call.fn = "ecdh" =>
         /\ ret = 0
         /\ out = gost3410_256tc26a_ecdh_cofactor_xy(pub[call.party], priv[call.peer]).out
         /\ out = Times[pub[call.peer]][(4 * priv[call.party]) % CurveN]
=============================================================================
