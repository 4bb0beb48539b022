---------------------------- MODULE HmacStreebog ----------------------------
(***************************************************************************)
(* hmac_parts of src/generic/hmac_streebog_generic.c: HMAC over the        *)
(* concatenation of three strings, in one context that is used twice.      *)
(*                                                                         *)
(* The digest is symbolic, a function of its size and of the bytes fed to  *)
(* a context since its init: that it depends on nothing else is what       *)
(* Streebog implements.                                                    *)
(***************************************************************************)
EXTENDS SymbolicBytes

CONSTANTS
    BlockSize,      \* STREEBOG_BLOCK_SIZE, 64
    DigestSize,     \* bytes in a digest of 256 and of 512 bits
    HmacKeys,       \* the keys the callers use
    Strings         \* the strings they authenticate

\* The bytes of keys and texts.
Bytes == UNION {{s[i] : i \in DOMAIN s} : s \in HmacKeys \cup Strings}

SizeAssumption ==
    /\ BlockSize \in Nat
    /\ DigestSize \in [{256, 512} -> 1 .. BlockSize]
    /\ HmacKeys \subseteq Seq(Bytes) /\ Strings \subseteq Seq(Bytes)

VARIABLES
    call,       \* the arguments of the last call
    out,        \* its result
    before      \* what a call before was asked, and its result

vars == <<call, out, before>>

-----------------------------------------------------------------------------

Calls == [bits : {256, 512}, key : HmacKeys, a : Strings, b : Strings, c : Strings]

\* A digest context: the bytes fed to it since its init.
streebog_init(bits) == [bits |-> bits, fed |-> <<>>]
streebog_update(ctx, data) == [ctx EXCEPT !.fed = @ \o data]

\* Mutant of streebog_final: every digest has 512 bits.
streebog_final_Full(ctx) == BytesOf("digest", ctx, DigestSize[512])

streebog_final(ctx) == BytesOf("digest", ctx, DigestSize[ctx.bits])

streebog(bits, data) == streebog_final(streebog_update(streebog_init(bits), data))

\* Mutant of KeyBlock: a key of just one block is hashed too (>= for >).
KeyBlock_Early(bits, key) ==
    Overwrite(Zeros(BlockSize), IF Len(key) >= BlockSize THEN streebog(bits, key) ELSE key)

\* A key longer than a block is replaced by its digest.
KeyBlock(bits, key) ==
    Overwrite(Zeros(BlockSize), IF Len(key) > BlockSize THEN streebog(bits, key) ELSE key)

\* key_block[i] ^ mask
Masked(block, mask) == [i \in 1 .. Len(block) |-> Xor(block[i], {Atom("const", mask, 0)})]

Pass(bits, block, mask) == streebog_update(streebog_init(bits), Masked(block, mask))

\* Mutant of Hmac: the second and the third part are swapped.
Hmac_Swapped(bits, key, a, b, c) ==
    LET block == KeyBlock(bits, key)
        p == Pass(bits, block, 54)
        inner == streebog_final(streebog_update(streebog_update(streebog_update(p, a), c), b))
    IN  streebog_final(streebog_update(Pass(bits, block, 92), inner))

Hmac(bits, key, a, b, c) ==
    LET block == KeyBlock(bits, key)
        p == Pass(bits, block, 54)
        inner == streebog_final(streebog_update(streebog_update(streebog_update(p, a), b), c))
    IN  streebog_final(streebog_update(Pass(bits, block, 92), inner))

-----------------------------------------------------------------------------

\* What a call asks for: HMAC does not tell a key from its padded block.
Asked(c) == [bits |-> c.bits, block |-> KeyBlock(c.bits, c.key), data |-> c.a \o c.b \o c.c]

Init ==
    /\ call \in Calls
    /\ out = Hmac(call.bits, call.key, call.a, call.b, call.c)
    /\ before = [asked |-> Asked(call), out |-> out]

\* A call, to be compared with the one remembered.
hmac_parts(c) ==
    /\ before.asked = Asked(call)
    /\ call' = c
    /\ out' = Hmac(c.bits, c.key, c.a, c.b, c.c)
    /\ UNCHANGED before

Remember ==
    /\ before' = [asked |-> Asked(call), out |-> out]
    /\ UNCHANGED <<call, out>>

Next ==
    \/ \E c \in Calls : hmac_parts(c)
    \/ Remember

Spec == Init /\ [][Next]_vars

-----------------------------------------------------------------------------
(***************************************************************************)
(* The reference, RFC 2104: H(K ^ opad, H(K ^ ipad, text)).                *)
(***************************************************************************)
H(bits, bytes) ==
    [i \in 1 .. DigestSize[bits] |-> {Atom("digest", [bits |-> bits, fed |-> bytes], i)}]

Reference(bits, key, text) ==
    LET k == IF Len(key) > BlockSize THEN H(bits, key) ELSE key
        masked(mask) == [i \in 1 .. BlockSize |->
            Xor(IF i <= Len(k) THEN k[i] ELSE Zero, {Atom("const", mask, 0)})]
    IN  H(bits, masked(92) \o H(bits, masked(54) \o text))

\* Type invariant: a result has the length of its digest, and every key has
\* become a whole block.
TypeOK ==
    /\ call \in Calls
    /\ Len(out) = DigestSize[call.bits]
    /\ Len(KeyBlock(call.bits, call.key)) = BlockSize

\* The three parts are authenticated as their concatenation, under the key if
\* it fits a block and under its digest if not.
ImplementsHmac == out = Reference(call.bits, call.key, call.a \o call.b \o call.c)

\* Two calls return the same value only for the same key block and the same
\* concatenation: neither the border between the parts nor that between the
\* padding of the key and the text can move.
Unambiguous == out = before.out => Asked(call) = before.asked

=============================================================================
