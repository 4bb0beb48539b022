------------------------------ MODULE Poly1305 ------------------------------
(***************************************************************************)
(* The one-time authenticator of src/generic/poly1305_generic.c: the eager *)
(* block buffer and the finish that pads with 1 0 ... 0 and clears the     *)
(* context.                                                                *)
(*                                                                         *)
(* The arithmetic modulo 2^130 - 5 is symbolic: the accumulator is the key *)
(* with the list of the blocks absorbed, each with the bit that            *)
(* poly1305_blocks adds above it (1 for a block of the message, 0 for a    *)
(* block that already holds its padding).                                  *)
(***************************************************************************)
EXTENDS ByteBlocks

CONSTANTS
    Keys,       \* the keys the callers use
    NoKey,      \* the all-zero key of a cleared context
    UintRadix,  \* values of an unsigned int: 2^32 in the code
    MaxTaken    \* bound: bytes a caller feeds between two inits

\* The callers never pass as many bytes as make buflen + nbytes wrap.
UintAssumption ==
    /\ UintRadix \in Nat /\ MaxTaken \in Nat
    /\ BlockSize + MaxTaken < UintRadix
KeyAssumption == NoKey \notin Keys

VARIABLES
    desc,                       \* struct poly1305_desc_ctx
    phase, param, taken, out    \* the caller's view, see MessageDigest

vars == <<desc, phase, param, taken, out>>

-----------------------------------------------------------------------------

Absorbed == Seq([m : Buffers, hibit : {0, 1}])

poly1305_desc_ctx == [key : Keys \cup {NoKey}, blocks : Absorbed,
                      buf : Buffers, buflen : 0 .. BlockSize - 1]

\* init leaves the bytes of the buffer as they are: buflen says it is empty.
InitialDesc(d, key) == [key |-> key, blocks |-> <<>>, buf |-> d.buf, buflen |-> 0]

\* *desc = (struct poly1305_desc_ctx){}
ClearedDesc == [key |-> NoKey, blocks |-> <<>>, buf |-> ZeroBlock, buflen |-> 0]

Absorb1(d, m, hibit) == [d EXCEPT !.blocks = Append(@, [m |-> m, hibit |-> hibit])]

\* poly1305_blocks on n blocks of the input
poly1305_blocks(d, src, n) ==
    [d EXCEPT !.blocks = @ \o [j \in 1 .. n |->
        [m |-> BlockAt(src + (j - 1) * BlockSize), hibit |-> 1]]]

\* Does the input complete a block?
Completes(d, nbytes) == (d.buflen + nbytes) % UintRadix >= BlockSize

\* Fill up a buffer that is partly filled, and absorb it.
TopUpLen(d) == IF d.buflen = 0 THEN 0 ELSE BlockSize - d.buflen

TopUp(d, src) ==
    LET b == Copy(d.buf, d.buflen, src, TopUpLen(d))
    IN  IF d.buflen = 0 THEN d
        ELSE Absorb1([d EXCEPT !.buf = b, !.buflen = 0], b, 1)

KeepTail(d, src, nbytes) ==
    IF nbytes = 0 THEN d
    ELSE [d EXCEPT !.buf = Copy(@, d.buflen, src, nbytes), !.buflen = @ + nbytes]

Updated(d, src, nbytes) ==
    IF Completes(d, nbytes)
    THEN LET l == TopUpLen(d)
             n == (nbytes - l) \div BlockSize
         IN  KeepTail(poly1305_blocks(TopUp(d, src), src + l, n),
                      src + l + n * BlockSize, (nbytes - l) % BlockSize)
    ELSE KeepTail(d, src, nbytes)

\* Mutant of Padded: the padded block is absorbed like a block of the message.
Padded_HiBit(d) ==
    IF d.buflen = 0 THEN d
    ELSE LET b == Fill([d.buf EXCEPT ![d.buflen] = Lit(1)],
                       d.buflen + 1, Zero, BlockSize - (d.buflen + 1))
         IN  Absorb1([d EXCEPT !.buf = b], b, 1)

Padded(d) ==
    IF d.buflen = 0 THEN d
    ELSE LET b == Fill([d.buf EXCEPT ![d.buflen] = Lit(1)],
                       d.buflen + 1, Zero, BlockSize - (d.buflen + 1))
         IN  Absorb1([d EXCEPT !.buf = b], b, 0)

\* poly1305_emit
TagOf(d) == [key |-> d.key, blocks |-> d.blocks]

-----------------------------------------------------------------------------
(***************************************************************************)
(* The API calls.                                                          *)
(***************************************************************************)
Init ==
    /\ param \in Keys
    /\ desc = InitialDesc(ClearedDesc, param)
    /\ phase = "absorbing"
    /\ taken = 0
    /\ out = TagOf(desc)

poly1305_init(key) ==
    /\ desc' = InitialDesc(desc, key)
    /\ param' = key
    /\ phase' = "absorbing"
    /\ taken' = 0
    /\ UNCHANGED out

poly1305_update(nbytes) ==
    /\ taken + nbytes <= MaxTaken
    /\ desc' = Updated(desc, taken + 1, nbytes)
    /\ taken' = taken + nbytes
    /\ UNCHANGED <<phase, param, out>>

poly1305_final ==
    /\ out' = TagOf(Padded(desc))
    /\ desc' = ClearedDesc
    /\ phase' = "spent"
    /\ UNCHANGED <<param, taken>>

Next ==
    \/ \E key \in Keys : poly1305_init(key)
    \/ \E nbytes \in 0 .. MaxTaken : poly1305_update(nbytes)
    \/ poly1305_final

Spec == Init /\ [][Next]_vars

-----------------------------------------------------------------------------
(***************************************************************************)
(* The reference, RFC 8439 section 2.5.1: whole blocks carry the bit above *)
(* them; a shorter last block carries it inside.                           *)
(***************************************************************************)
MessageBlock(j) == [m |-> BlockAt((j - 1) * BlockSize + 1), hibit |-> 1]

PaddedTail(k, r) ==
    [i \in Index |-> IF i < r THEN k * BlockSize + 1 + i
                     ELSE IF i = r THEN Lit(1) ELSE Zero]

Reference(key, t) ==
    LET k == t \div BlockSize
        r == t % BlockSize
        whole == [j \in 1 .. k |-> MessageBlock(j)]
    IN  [key |-> key,
         blocks |-> IF r = 0 THEN whole
                    ELSE Append(whole, [m |-> PaddedTail(k, r), hibit |-> 0])]

\* Type invariant: the buffer is never left full between two calls.
TypeOK ==
    /\ desc \in poly1305_desc_ctx
    /\ phase \in {"absorbing", "spent"}
    /\ param \in Keys
    /\ taken \in 0 .. MaxTaken
    /\ out \in [key : Keys \cup {NoKey}, blocks : Absorbed]

Represents(d, t) ==
    LET k == Len(d.blocks)
    IN  /\ t = k * BlockSize + d.buflen
        /\ d.blocks = [j \in 1 .. k |-> MessageBlock(j)]
        /\ Holds(d.buf, d.buflen, k * BlockSize + 1)

\* While a context absorbs, every whole block of the message has been absorbed
\* once, in order, and the buffer holds the tail.
StateIsPrefix == phase = "absorbing" => desc.key = param /\ Represents(desc, taken)

=============================================================================
