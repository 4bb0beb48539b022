-------------------------------- MODULE Sha1 --------------------------------
(***************************************************************************)
(* The streaming context of src/generic/sha1_generic.c: every byte goes    *)
(* through the block buffer, and the finish takes one block or two,        *)
(* depending on whether the length field still fits behind the marker.     *)
(*                                                                         *)
(* The compression function is symbolic: h is the list of the blocks       *)
(* compressed since the initialisation.                                    *)
(***************************************************************************)
EXTENDS ByteBlocks

CONSTANTS
    LenBytes,   \* bytes of the length field: 8 in the code
    ByteRadix,  \* values of a byte: 256
    MaxTaken,   \* bound: bytes a caller feeds between two inits
    MaxLog      \* bound: blocks compressed between two inits

\* What the values of the constants have in common with those of the code.  The
\* third is a fact of arithmetic, stated because the provers do not know powers.
LenAssumption ==
    /\ LenBytes \in 1 .. BlockSize - 1
    /\ ByteRadix \in Nat \ {0, 1}
    /\ \A k \in 0 .. LenBytes : ByteRadix ^ k \in Nat \ {0}
    /\ MaxTaken \in Nat /\ MaxLog \in Nat

VARIABLES
    ctx,                        \* struct sha1_ctx
    phase, taken, out           \* the caller's view, see MessageDigest

vars == <<ctx, phase, taken, out>>

-----------------------------------------------------------------------------

LenAt == BlockSize - LenBytes       \* 56 in the code
BitsRadix == ByteRadix ^ LenBytes   \* 2^64 in the code

sha1_ctx == [h : Seq(Buffers), block : Buffers, bits : 0 .. BitsRadix - 1,
             used : 0 .. BlockSize - 1]

\* init does not clear the block.
InitialCtx(c) == [h |-> <<>>, block |-> c.block, bits |-> 0, used |-> 0]

\* Memory nobody has written yet.
Poison == -999

sha1_block(c) == [c EXCEPT !.h = Append(@, c.block)]

\* Mutant of Turn: the block is compressed again by every later turn.
Turn_NoReset(s) ==
    LET take == IF BlockSize - s.c.used > s.len THEN s.len ELSE BlockSize - s.c.used
        c == [s.c EXCEPT !.block = Copy(@, s.c.used, s.data, take), !.used = @ + take]
    IN  [c |-> IF c.used = BlockSize THEN sha1_block(c) ELSE c,
         data |-> s.data + take, len |-> s.len - take]

\* One turn of the loop of update on what is left of the input.
Turn(s) ==
    LET take == IF BlockSize - s.c.used > s.len THEN s.len ELSE BlockSize - s.c.used
        c == [s.c EXCEPT !.block = Copy(@, s.c.used, s.data, take), !.used = @ + take]
    IN  [c |-> IF c.used = BlockSize THEN [sha1_block(c) EXCEPT !.used = 0] ELSE c,
         data |-> s.data + take, len |-> s.len - take]

\* Every turn but the last fills the block.
Updated(c, data, len) ==
    LET after[i \in 0 .. len \div BlockSize + 2] ==
          IF i = 0
          THEN [c |-> [c EXCEPT !.bits = (@ + 8 * len) % BitsRadix], data |-> data, len |-> len]
          ELSE IF after[i - 1].len = 0 THEN after[i - 1] ELSE Turn(after[i - 1])
    IN  after[len \div BlockSize + 2].c

\* Byte i of the length field, the most significant first.
LenByte(bits, i) == Lit((bits \div ByteRadix ^ (LenBytes - 1 - i)) % ByteRadix)

Marked(c) == [c EXCEPT !.block[c.used] = Lit(128), !.used = @ + 1]

\* Mutant of Spilled: the length field may start on the marker (>= for >).
Spilled_Early(c) ==
    IF c.used >= LenAt
    THEN [sha1_block([c EXCEPT !.block = Fill(@, c.used, Zero, BlockSize - c.used)])
            EXCEPT !.used = 0]
    ELSE c

\* No room for the length: this block is compressed without it.
Spilled(c) ==
    IF c.used > LenAt
    THEN [sha1_block([c EXCEPT !.block = Fill(@, c.used, Zero, BlockSize - c.used)])
            EXCEPT !.used = 0]
    ELSE c

Finished(c) ==
    LET s == Spilled(Marked(c))
        padded == Fill(s.block, s.used, Zero, LenAt - s.used)
        block == [i \in Index |-> IF i >= LenAt THEN LenByte(c.bits, i - LenAt) ELSE padded[i]]
    IN  sha1_block([s EXCEPT !.block = block])

-----------------------------------------------------------------------------
(***************************************************************************)
(* The API calls.                                                          *)
(***************************************************************************)
Init ==
    /\ ctx = InitialCtx([block |-> [i \in Index |-> Poison]])
    /\ phase = "absorbing"
    /\ taken = 0
    /\ out = <<>>

sha1_init ==
    /\ ctx' = InitialCtx(ctx)
    /\ phase' = "absorbing"
    /\ taken' = 0
    /\ UNCHANGED out

sha1_update(len) ==
    /\ taken + len <= MaxTaken
    /\ Len(ctx.h) + len \div BlockSize + 1 <= MaxLog
    /\ ctx' = Updated(ctx, taken + 1, len)
    /\ taken' = taken + len
    /\ UNCHANGED <<phase, out>>

\* The context keeps the marker and the position behind it.
sha1_final ==
    /\ Len(ctx.h) + 2 <= MaxLog
    /\ ctx' = Finished(ctx)
    /\ out' = Finished(ctx).h
    /\ phase' = "spent"
    /\ UNCHANGED taken

Next ==
    \/ sha1_init
    \/ \E len \in 0 .. MaxTaken : sha1_update(len)
    \/ sha1_final

Spec == Init /\ [][Next]_vars

-----------------------------------------------------------------------------
(***************************************************************************)
(* The reference, FIPS 180-4 section 5.1.1: the message, the marker, zeros *)
(* up to a multiple of the block size less the length field, the length.   *)
(***************************************************************************)
TotalBlocks(t) == (t + 1 + LenBytes + BlockSize - 1) \div BlockSize

PaddedByte(t, i) ==
    LET end == TotalBlocks(t) * BlockSize
    IN  IF i < t THEN i + 1
        ELSE IF i = t THEN Lit(128)
        ELSE IF i < end - LenBytes THEN Zero
        ELSE LenByte((8 * t) % BitsRadix, i - (end - LenBytes))

Reference(t) ==
    [j \in 1 .. TotalBlocks(t) |-> [i \in Index |-> PaddedByte(t, (j - 1) * BlockSize + i)]]

\* Type invariant: the position in the block is never behind its end, not even
\* when a finished context is used again.
TypeOK ==
    /\ ctx \in sha1_ctx
    /\ phase \in {"absorbing", "spent"}
    /\ taken \in 0 .. MaxTaken
    /\ out \in Seq(Buffers)

\* While a context absorbs, every whole block of the message has been
\* compressed once, in order, the block holds the tail and the length is that
\* of the message.
StateIsPrefix ==
    phase = "absorbing" =>
        LET k == Len(ctx.h)
        IN  /\ taken = k * BlockSize + ctx.used
            /\ ctx.bits = (8 * taken) % BitsRadix
            /\ ctx.h = [j \in 1 .. k |-> BlockAt((j - 1) * BlockSize + 1)]
            /\ Holds(ctx.block, ctx.used, k * BlockSize + 1)

=============================================================================
