----------------------------- MODULE Gost3411_94 ----------------------------
(***************************************************************************)
(* gost3411_94_cryptopro_parts of src/generic/gost3411_94_generic.c (GOST  *)
(* R 34.11-94): a context on the stack takes up to three parts, skipping   *)
(* the empty ones, and the finish works on copies of the chaining value    *)
(* and of the checksum.                                                    *)
(*                                                                         *)
(* The step function is symbolic: h is the list of the 256-bit values that *)
(* hash_step mixed into it; such a value is the sum of some blocks and of  *)
(* an integer.                                                             *)
(***************************************************************************)
EXTENDS ByteBlocks

CONSTANTS
    BitsRadix,  \* values of the u64 that holds the length in bits
    MaxTaken    \* bound: bytes in the parts of one call

\* No length in bits wraps: the callers hash less than 2^61 bytes.
BoundsAssumption == {BitsRadix, MaxTaken} \subseteq Nat /\ 8 * MaxTaken < BitsRadix

VARIABLES
    ctx,                        \* struct gost3411_94_ctx
    part,                       \* parts of the call handled so far
    phase, taken, out           \* the caller's view, see MessageDigest

vars == <<ctx, part, phase, taken, out>>

-----------------------------------------------------------------------------

U256 == [blocks : Seq(Buffers), count : Nat]
Num(n) == [blocks |-> <<>>, count |-> n]
Word(m) == [blocks |-> <<m>>, count |-> 0]

hash_step(h, m) == Append(h, m)
add_blocks(sum, m) == Append(sum, m)

gost3411_94_ctx == [h : Seq(U256), sum : Seq(Buffers), rem : Buffers,
                    left : 0 .. BlockSize - 1, len : 0 .. BitsRadix - 1]

\* memset(&ctx, 0, sizeof(ctx)), at the start and at the end of a call
ZeroCtx == [h |-> <<>>, sum |-> <<>>, rem |-> ZeroBlock, left |-> 0, len |-> 0]

Step(c, m) ==
    [c EXCEPT !.h = hash_step(@, Word(m)), !.sum = add_blocks(@, m),
              !.len = (@ + BlockSize) % BitsRadix]

\* The loop of update: n whole blocks from the input.
WholeBlocks(c, data, n) ==
    LET block(j) == BlockAt(data + (j - 1) * BlockSize)
    IN  [c EXCEPT !.h = @ \o [j \in 1 .. n |-> Word(block(j))],
                  !.sum = @ \o [j \in 1 .. n |-> block(j)],
                  !.len = (@ + n * BlockSize) % BitsRadix]

KeepTail(c, data, len) ==
    IF len = 0 THEN c ELSE [c EXCEPT !.rem = Copy(@, 0, data, len), !.left = len]

Rest(c, data, len) ==
    LET n == len \div BlockSize
    IN  KeepTail(WholeBlocks(c, data, n), data + n * BlockSize, len % BlockSize)

\* Mutant of update: the block completed from the remainder is not summed up.
update_NoSum(c, data, len) ==
    IF c.left = 0 THEN Rest(c, data, len)
    ELSE LET n == IF BlockSize - c.left > len THEN len ELSE BlockSize - c.left
             r == Copy(c.rem, c.left, data, n)
         IN  IF c.left + n < BlockSize
             THEN [c EXCEPT !.rem = r, !.left = @ + n]
             ELSE Rest([Step([c EXCEPT !.rem = r, !.left = 0], r) EXCEPT !.sum = c.sum],
                       data + n, len - n)

\* The early return leaves a remainder that is still short of a block.
update(c, data, len) ==
    IF c.left = 0 THEN Rest(c, data, len)
    ELSE LET n == IF BlockSize - c.left > len THEN len ELSE BlockSize - c.left
             r == Copy(c.rem, c.left, data, n)
         IN  IF c.left + n < BlockSize
             THEN [c EXCEPT !.rem = r, !.left = @ + n]
             ELSE Rest(Step([c EXCEPT !.rem = r, !.left = 0], r), data + n, len - n)

\* Mutant of final: the empty message has no block at all.
final_NoEmpty(c) ==
    LET buf == [i \in Index |-> IF i < c.left THEN c.rem[i] ELSE Zero]
        tail == c.left # 0
        len == (c.len + c.left) % BitsRadix
        h == IF tail THEN hash_step(c.h, Word(buf)) ELSE c.h
        sum == IF tail THEN add_blocks(c.sum, buf) ELSE c.sum
    IN  hash_step(hash_step(h, Num((8 * len) % BitsRadix)), [blocks |-> sum, count |-> 0])

\* The tail is padded with zeros; an empty message counts as a zero block.
final(c) ==
    LET buf == [i \in Index |-> IF i < c.left THEN c.rem[i] ELSE Zero]
        tail == c.left # 0
        len == (c.len + c.left) % BitsRadix
        h1 == IF tail THEN hash_step(c.h, Word(buf)) ELSE c.h
        h2 == IF len = 0 THEN hash_step(h1, Num(0)) ELSE h1
        sum == IF tail THEN add_blocks(c.sum, buf) ELSE c.sum
    IN  hash_step(hash_step(h2, Num((8 * len) % BitsRadix)), [blocks |-> sum, count |-> 0])

-----------------------------------------------------------------------------
(***************************************************************************)
(* One call after the other, each with a context of its own.               *)
(***************************************************************************)
Init ==
    /\ ctx = ZeroCtx
    /\ part = 0
    /\ phase = "absorbing"
    /\ taken = 0
    /\ out = <<>>

Call ==
    /\ phase = "spent"
    /\ ctx' = ZeroCtx
    /\ part' = 0
    /\ phase' = "absorbing"
    /\ taken' = 0
    /\ UNCHANGED out

\* The next part, a, b or c: an empty one does not reach update.
Part(len) ==
    /\ phase = "absorbing" /\ part < 3
    /\ taken + len <= MaxTaken
    /\ part' = part + 1
    /\ ctx' = IF len = 0 THEN ctx ELSE update(ctx, taken + 1, len)
    /\ taken' = taken + len
    /\ UNCHANGED <<phase, out>>

Return ==
    /\ phase = "absorbing" /\ part = 3
    /\ out' = final(ctx)
    /\ ctx' = ZeroCtx
    /\ phase' = "spent"
    /\ UNCHANGED <<part, taken>>

Next ==
    \/ Call
    \/ \E len \in 0 .. MaxTaken : Part(len)
    \/ Return

Spec == Init /\ [][Next]_vars

-----------------------------------------------------------------------------
(***************************************************************************)
(* The reference, RFC 5831 section 6: the message as whole blocks, the     *)
(* last padded with zeros, at least one; then the length in bits and the   *)
(* sum of the blocks.                                                      *)
(***************************************************************************)
Reference(t) ==
    LET n == (t + BlockSize - 1) \div BlockSize
        block == [j \in 1 .. n |-> [i \in Index |->
                    LET p == (j - 1) * BlockSize + i IN IF p < t THEN p + 1 ELSE Zero]]
        steps == IF n = 0 THEN << Num(0) >> ELSE [j \in 1 .. n |-> Word(block[j])]
    IN  steps \o << Num(8 * t), [blocks |-> block, count |-> 0] >>

\* Type invariant: the remainder is always short of a block.
TypeOK ==
    /\ ctx \in gost3411_94_ctx
    /\ part \in 0 .. 3
    /\ phase \in {"absorbing", "spent"}
    /\ taken \in 0 .. MaxTaken
    /\ out \in Seq(U256)

\* Between two parts, every whole block has been mixed in and summed up once,
\* len counts them in bytes and the remainder holds the tail: whatever
\* the lengths of the parts before.
StateIsPrefix ==
    phase = "absorbing" =>
        LET k == Len(ctx.h)
        IN  /\ taken = k * BlockSize + ctx.left
            /\ ctx.len = k * BlockSize
            /\ ctx.sum = [j \in 1 .. k |-> BlockAt((j - 1) * BlockSize + 1)]
            /\ ctx.h = [j \in 1 .. k |-> Word(ctx.sum[j])]
            /\ Holds(ctx.rem, ctx.left, k * BlockSize + 1)

=============================================================================
