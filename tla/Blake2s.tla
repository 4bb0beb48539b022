------------------------------- MODULE Blake2s ------------------------------
(***************************************************************************)
(* The streaming context of src/generic/blake2s_generic.c and              *)
(* src/generic/blake2s_api.c: the lazy block buffer (a full buffer waits   *)
(* for the next byte, because the last block is compressed differently),   *)
(* the byte counter in two words and the keyed initialisation.             *)
(*                                                                         *)
(* The compression function is symbolic: h is its parameters with the list *)
(* of the compressions made since, each with the block, the counter words  *)
(* and the finalisation flag it saw.                                       *)
(***************************************************************************)
EXTENDS ByteBlocks

CONSTANTS
    Radix,      \* values of a counter word: 2^32 in the code
    KeyLens,    \* key lengths the callers use, 0 for no key
    OutLens,    \* digest lengths the callers use
    MaxTaken    \* bound: bytes a caller feeds between two inits

RadixAssumption == Radix \in Nat /\ Radix > BlockSize
LensAssumption ==
    /\ KeyLens \subseteq 0 .. BlockSize
    /\ OutLens \subseteq Nat \ {0}
    /\ MaxTaken \in Nat

VARIABLES
    ctx,                        \* struct blake2s_ctx
    phase, param, taken, out    \* the caller's view, see MessageDigest

vars == <<ctx, phase, param, taken, out>>

-----------------------------------------------------------------------------

\* The i-th byte of the key, and memory nobody has written yet: neither is a
\* byte of the message or a byte the code writes.
Key(i) == -1000 - i
Poison == -999

Params == [keylen : KeyLens, outlen : OutLens]
NoParams == [keylen |-> 0, outlen |-> 0]

Words == 0 .. Radix - 1
Chain == [iv : Params \cup {NoParams},
          log : Seq([m : Buffers, t : Words \X Words, last : BOOLEAN])]

blake2s_ctx == [h : Chain, t : Words \X Words, f : BOOLEAN, buf : Buffers,
                buflen : 0 .. BlockSize, outlen : OutLens \cup {0}]

\* memzero_explicit(ctx, sizeof(*ctx))
Wiped == [h |-> [iv |-> NoParams, log |-> <<>>], t |-> <<0, 0>>, f |-> FALSE,
          buf |-> ZeroBlock, buflen |-> 0, outlen |-> 0]

\* The key padded to a block.
KeyBlock(keylen) == [i \in Index |-> IF i < keylen THEN Key(i) ELSE Zero]

\* Without a key the buffer keeps what it had: it is empty, not cleared.
blake2s_init_(c, p) ==
    [h |-> [iv |-> p, log |-> <<>>], t |-> <<0, 0>>, f |-> FALSE,
     buf |-> IF p.keylen = 0 THEN c.buf ELSE KeyBlock(p.keylen),
     buflen |-> IF p.keylen = 0 THEN 0 ELSE BlockSize,
     outlen |-> p.outlen]

\* Mutant: the carry into the high word is lost.
blake2s_increment_counter_NoCarry(t, inc) ==
    <<(t[1] + inc) % Radix, t[2]>>

blake2s_increment_counter(t, inc) ==
    LET low == (t[1] + inc) % Radix
    IN  <<low, (t[2] + IF low < inc THEN 1 ELSE 0) % Radix>>

Compress1(c, m, inc) ==
    LET t == blake2s_increment_counter(c.t, inc)
    IN  [c EXCEPT !.t = t, !.h.log = Append(@, [m |-> m, t |-> t, last |-> c.f])]

\* nblocks blocks from pointer data of the stream
blake2s_compress(c, data, nblocks, inc) ==
    LET after[j \in 0 .. nblocks] ==
          IF j = 0 THEN c
          ELSE Compress1(after[j - 1], BlockAt(data + (j - 1) * BlockSize), inc)
    IN  after[nblocks]

\* The buffer gives way only to a byte that does not fit any more.
Overflows(c, inlen) == inlen > BlockSize - c.buflen

Overflow(c, in, fill) ==
    LET b == Copy(c.buf, c.buflen, in, fill)
    IN  [Compress1([c EXCEPT !.buf = b], b, BlockSize) EXCEPT !.buflen = 0]

\* All whole blocks of the rest but one: DIV_ROUND_UP(inlen, BlockSize) - 1
BulkBlocks(inlen) ==
    IF inlen > BlockSize THEN (inlen + BlockSize - 1) \div BlockSize - 1 ELSE 0

Updated(c, in, inlen) ==
    LET overflows == Overflows(c, inlen)
        fill == IF overflows THEN BlockSize - c.buflen ELSE 0
        c1 == IF overflows THEN Overflow(c, in, fill) ELSE c
        n == BulkBlocks(inlen - fill)
        c2 == blake2s_compress(c1, in + fill, n, BlockSize)
        done == fill + n * BlockSize
    IN  [c2 EXCEPT !.buf = Copy(@, c2.buflen, in + done, inlen - done),
                   !.buflen = @ + inlen - done]

Finished(c) ==
    LET b == Fill(c.buf, c.buflen, Zero, BlockSize - c.buflen)
    IN  Compress1([c EXCEPT !.f = TRUE, !.buf = b], b, c.buflen)

DigestOf(c) == [h |-> c.h, outlen |-> c.outlen]

-----------------------------------------------------------------------------
(***************************************************************************)
(* The API calls.                                                          *)
(***************************************************************************)
Init ==
    /\ param \in Params
    /\ ctx = blake2s_init_([buf |-> [i \in Index |-> Poison]], param)
    /\ phase = "absorbing"
    /\ taken = 0
    /\ out = DigestOf(ctx)

blake2s_init(p) ==
    /\ ctx' = blake2s_init_(ctx, p)
    /\ param' = p
    /\ phase' = "absorbing"
    /\ taken' = 0
    /\ UNCHANGED out

blake2s_update(inlen) ==
    /\ taken + inlen <= MaxTaken
    /\ ctx' = IF inlen = 0 THEN ctx ELSE Updated(ctx, taken + 1, inlen)
    /\ taken' = taken + inlen
    /\ UNCHANGED <<phase, param, out>>

blake2s_final ==
    /\ out' = DigestOf(Finished(ctx))
    /\ ctx' = Wiped
    /\ phase' = "spent"
    /\ UNCHANGED <<param, taken>>

Next ==
    \/ \E p \in Params : blake2s_init(p)
    \/ \E inlen \in 0 .. MaxTaken : blake2s_update(inlen)
    \/ blake2s_final

Spec == Init /\ [][Next]_vars

-----------------------------------------------------------------------------
(***************************************************************************)
(* The reference, RFC 7693 section 3.3: the key block if there is a key,   *)
(* then the message, cut into blocks, the last padded with zeros.          *)
(***************************************************************************)
Prefix(p) == IF p.keylen = 0 THEN 0 ELSE BlockSize

\* Byte i (from 0) of the input of t message bytes.
InputByte(p, t, i) ==
    IF i >= Prefix(p) + t THEN Zero
    ELSE IF i >= Prefix(p) THEN i - Prefix(p) + 1 ELSE KeyBlock(p.keylen)[i]

InputBlock(p, t, j) == [i \in Index |-> InputByte(p, t, (j - 1) * BlockSize + i)]

Split(n) == <<n % Radix, (n \div Radix) % Radix>>

BlockCount(n) == IF n = 0 THEN 1 ELSE (n + BlockSize - 1) \div BlockSize

Reference(p, t) ==
    LET total == Prefix(p) + t
        n == BlockCount(total)
    IN  [h |-> [iv |-> p,
                log |-> [j \in 1 .. n |->
                    [m |-> InputBlock(p, t, j),
                     t |-> Split(IF j < n THEN j * BlockSize ELSE total),
                     last |-> j = n]]],
         outlen |-> p.outlen]

\* Type invariant: the buffer may be full between two calls, never more.
TypeOK ==
    /\ ctx \in blake2s_ctx
    /\ phase \in {"absorbing", "spent"}
    /\ param \in Params
    /\ taken \in 0 .. MaxTaken
    /\ out \in [h : Chain, outlen : OutLens \cup {0}]

\* While a context absorbs, all of its input but the last block has been
\* compressed, none of it as a last block, the two counter words hold the
\* number of bytes compressed, and the buffer the rest: it is empty only when
\* there is no input at all.
StateIsPrefix ==
    phase = "absorbing" =>
        LET k == Len(ctx.h.log)
            total == Prefix(param) + taken
        IN  /\ ctx.h.iv = param /\ ctx.outlen = param.outlen /\ ~ctx.f
            /\ total = k * BlockSize + ctx.buflen
            /\ ctx.buflen = 0 => total = 0
            /\ ctx.t = Split(k * BlockSize)
            /\ \A j \in 1 .. k : ctx.h.log[j] =
                  [m |-> InputBlock(param, taken, j), t |-> Split(j * BlockSize), last |-> FALSE]
            /\ \A i \in 0 .. ctx.buflen - 1 :
                  ctx.buf[i] = InputByte(param, taken, k * BlockSize + i)

=============================================================================
