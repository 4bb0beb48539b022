---------------------------- MODULE PolyDonna -------------------------------
(***************************************************************************)
(* The arithmetic of Poly1305 modulo 2^130 - 5.  The accumulator is only   *)
(* partly reduced from block to block, and poly1305_core_emit reduces it,  *)
(* puts the limbs together with shifts and ORs and adds the nonce; the tag *)
(* has two bits less than the modulus.                                     *)
(*                                                                         *)
(* src/generic/poly1305_donna32.c: five limbs of 26 bits in words of 32    *)
(* and double words of 64.                                                 *)
(*                                                                         *)
(* src/generic/poly1305_donna64.c, for machines with integers of 128 bits: *)
(* three limbs of 44, 44 and 42 bits.  As 3 * 44 is two bits too many,     *)
(* what leaves the last limb of a product comes back 20-fold, but 5-fold   *)
(* from a carry.                                                           *)
(***************************************************************************)
EXTENDS Limbs

CONSTANTS
    Cleared,            \* the bits of the key that are cleared
    RawKeys, Messages, Nonces,      \* the keys, blocks and nonces that are tried
    MaxBlocks           \* bound: blocks of a message

TagBits == Total - 2

Bit(x, k) == (x \div 2 ^ k) % 2

\* A number from its bits: FromBits[k] has those below k.
FromBits(b) ==
    LET s[k \in 0 .. Total] == IF k = 0 THEN 0 ELSE s[k - 1] + b[k - 1] * 2 ^ (k - 1)
    IN  s[Total]

poly1305_core_setkey(raw_key) ==
    Digits(FromBits([k \in 0 .. Total - 1 |-> IF k \in Cleared THEN 0 ELSE Bit(raw_key, k)]))

\* precomputed_s: what comes back C-fold.
precomputed_s(r) == [i \in Index |-> Word(r[i] * C)]

\* One round of the loop in poly1305_core_blocks.
Block(h, r, m, hibit) ==
    LET sum == Digits(m + hibit * 2 ^ TagBits)
        term[i, j \in Index] ==
            Word(h[i] + sum[i]) * (IF i + j < n THEN r[j] ELSE precomputed_s(r)[j])
        d == ColumnsOf(term)
        \* c[i]: what has been carried into column i, cut to a word
        c[i \in 0 .. n] == IF i = 0 THEN 0 ELSE Word((d[i - 1] + c[i - 1]) \div Radix(i - 1))
        low == [i \in Index |-> (d[i] + c[i]) % Radix(i)]
        h0 == Word(low[0] + C * c[n])
    IN  [low EXCEPT ![0] = h0 % Radix(0), ![1] = @ + h0 \div Radix(0)]

\* The carries of poly1305_core_emit from the second limb to the first and back.
FullCarry(h) ==
    LET c[i \in 1 .. n] == IF i = 1 THEN h[1] \div Radix(1)
                           ELSE IF i < n THEN (h[i] + c[i - 1]) \div Radix(i) ELSE 0
        low == [i \in Index |-> IF i = 0 THEN h[0] ELSE IF i = 1 THEN h[1] % Radix(1)
                                ELSE (h[i] + c[i - 1]) % Radix(i)]
        h0 == Word(low[0] + C * c[n - 1])
    IN  [low EXCEPT ![0] = h0 % Radix(0), ![1] = @ + h0 \div Radix(0)]

\* h + 5 - 2^130, limb by limb: the highest bit of the last word tells whether h < p.
MinusP(h) ==
    LET c[i \in 0 .. n - 1] == IF i = 0 THEN C ELSE (h[i - 1] + c[i - 1]) \div Radix(i - 1)
    IN  [i \in Index |-> IF i < n - 1 THEN (h[i] + c[i]) % Radix(i)
                         ELSE Word(h[i] + c[i] - Radix(i))]

\* Mutant for MC: the other number is selected if h is p itself.
SelectUnlessP(h) ==
    LET g == MinusP(h) IN
    IF g[n - 1] >= 2 ^ (WordBits - 1) \/ Value(g) = 0 THEN h ELSE g

Select(h) ==
    LET g == MinusP(h) IN IF g[n - 1] >= 2 ^ (WordBits - 1) THEN h ELSE g

\* The limbs put together with shifts and ORs, less the two highest bits.
Merge(h) ==
    FromBits([k \in 0 .. Total - 1 |->
        IF k < TagBits /\ \E i \in Index : k >= Offset[i] /\ Bit(h[i], k - Offset[i]) = 1
        THEN 1 ELSE 0])

poly1305_core_emit(h, nonce) == (Merge(Select(FullCarry(h))) + nonce) % 2 ^ TagBits

-----------------------------------------------------------------------------

\* acc is the value that RFC 8439 gives the blocks so far.
SetKey ==
    /\ fn = "idle"
    /\ \E raw \in RawKeys :
          /\ fn' = "donna32"
          /\ args' = [call |-> "donna32", r |-> poly1305_core_setkey(raw), blocks |-> 0]
          /\ loc' = [h |-> [i \in Index |-> 0], acc |-> 0]
    /\ UNCHANGED ret

BlockOf(m, hibit) ==
    /\ fn = "donna32" /\ args.blocks < MaxBlocks
    /\ loc' = [h |-> Block(loc.h, args.r, m, hibit),
               acc |-> TimesModP((loc.acc + m + hibit * 2 ^ TagBits) % P, Value(args.r))]
    /\ args' = [args EXCEPT !.blocks = @ + 1]
    /\ UNCHANGED <<fn, ret>>

Emit ==
    /\ fn = "donna32"
    /\ \E nonce \in Nonces :
          /\ ret' = <<poly1305_core_emit(loc.h, nonce), (loc.acc + nonce) % 2 ^ TagBits>>
          /\ fn' = "return"
    /\ UNCHANGED <<args, loc>>

PolyStep == SetKey \/ (\E m \in Messages, hibit \in {0, 1} : BlockOf(m, hibit)) \/ Emit

\* However the blocks drive the limbs, the accumulator has the value of the
\* polynomial, and the tag is that of the number below p: no limb of an accumulator
\* that can be reached is so large that the ORs mix two of them.
PolyDonna32Exact ==
    /\ fn = "donna32" => Value(loc.h) % P = loc.acc
    /\ (fn = "return" /\ args.call = "donna32") => ret[1] = ret[2]

-----------------------------------------------------------------------------

\* r and s: the limbs of the key, and 4 * 5 times the last two of them.
poly1305_core_setkey64(raw_key) ==
    LET r == Digits(FromBits([k \in 0 .. Total - 1 |->
                                 IF k \in Cleared THEN 0 ELSE Bit(raw_key, k)]))
        fold == C * 2 ^ (3 * Bits[1] - Total)
    IN  [r |-> r, s1 |-> Word(r[1] * fold), s2 |-> Word(r[2] * fold)]

\* One round of the loop in poly1305_core_blocks.
Block64(h, key, m, hibit) ==
    LET sum == Digits(m + hibit * 2 ^ TagBits)
        g == [i \in Index |-> Word(h[i] + sum[i])]
        r == key.r
        d0 == Wide(g[0] * r[0] + g[1] * key.s2 + g[2] * key.s1)
        d1 == Wide(g[0] * r[1] + g[1] * r[0] + g[2] * key.s2 + Word(d0 \div Radix(0)))
        d2 == Wide(g[0] * r[2] + g[1] * r[1] + g[2] * r[0] + Word(d1 \div Radix(1)))
        h0 == Word((d0 % Radix(0)) + C * Word(d2 \div Radix(2)))
    IN  [i \in Index |-> CASE i = 0 -> h0 % Radix(0)
                           [] i = 1 -> (d1 % Radix(1)) + (h0 \div Radix(0))
                           [] i = 2 -> d2 % Radix(2)]

\* Mutant for MC: what leaves the last limb comes back as it is.
CarryPass64Once(h) ==
    LET h2 == h[2] + h[1] \div Radix(1)
        h0 == Word(h[0] + (h2 \div Radix(2)))
    IN  [i \in Index |-> CASE i = 0 -> h0 % Radix(0)
                           [] i = 1 -> (h[1] % Radix(1)) + (h0 \div Radix(0))
                           [] i = 2 -> h2 % Radix(2)]

\* One of the two rounds of carries in poly1305_core_emit.
CarryPass64(h) ==
    LET h2 == h[2] + h[1] \div Radix(1)
        h0 == Word(h[0] + C * (h2 \div Radix(2)))
    IN  [i \in Index |-> CASE i = 0 -> h0 % Radix(0)
                           [] i = 1 -> (h[1] % Radix(1)) + (h0 \div Radix(0))
                           [] i = 2 -> h2 % Radix(2)]

\* The nonce is added limb by limb before the limbs are put together.
AddNonce(h, nonce) ==
    LET t == Digits(nonce)
        s0 == h[0] + t[0]
        s1 == h[1] + t[1] + s0 \div Radix(0)
        s2 == h[2] + t[2] + s1 \div Radix(1)
    IN  [i \in Index |-> CASE i = 0 -> s0 % Radix(0) [] i = 1 -> s1 % Radix(1)
                           [] i = 2 -> s2 % Radix(2)]

poly1305_core_emit64(h, nonce) ==
    Merge(AddNonce(Select(CarryPass64(CarryPass64(h))), nonce))

-----------------------------------------------------------------------------

SetKey64 ==
    /\ fn = "idle"
    /\ \E raw \in RawKeys :
          /\ fn' = "donna64"
          /\ args' = [call |-> "donna64", key |-> poly1305_core_setkey64(raw), blocks |-> 0]
          /\ loc' = [h |-> [i \in Index |-> 0], acc |-> 0]
    /\ UNCHANGED ret

BlockOf64(m, hibit) ==
    /\ fn = "donna64" /\ args.blocks < MaxBlocks
    /\ loc' = [h |-> Block64(loc.h, args.key, m, hibit),
               acc |-> TimesModP((loc.acc + m + hibit * 2 ^ TagBits) % P, Value(args.key.r))]
    /\ args' = [args EXCEPT !.blocks = @ + 1]
    /\ UNCHANGED <<fn, ret>>

Emit64 ==
    /\ fn = "donna64"
    /\ \E nonce \in Nonces :
          /\ ret' = <<poly1305_core_emit64(loc.h, nonce), (loc.acc + nonce) % 2 ^ TagBits>>
          /\ fn' = "return"
    /\ UNCHANGED <<args, loc>>

PolyStep64 ==
    SetKey64 \/ (\E m \in Messages, hibit \in {0, 1} : BlockOf64(m, hibit)) \/ Emit64

\* The same for the other build: the accumulator has the value of the polynomial and
\* the tag is that of the number below p plus the nonce.
PolyDonna64Exact ==
    /\ fn = "donna64" => Value(loc.h) % P = loc.acc
    /\ (fn = "return" /\ args.call = "donna64") => ret[1] = ret[2]
=============================================================================
