------------------------------ MODULE Streebog ------------------------------
(***************************************************************************)
(* The streaming context of src/generic/streebog_generic.c (GOST R         *)
(* 34.11-2012): the eager block buffer, the bit counter N, the checksum    *)
(* Sigma and the three-step finish.                                        *)
(*                                                                         *)
(* The compression function is symbolic.  A chaining value h is its IV     *)
(* with the list of the compressions made since, each the pair <<N, m>>    *)
(* that streebog_g was called with; a 512-bit number is a sum of blocks    *)
(* and an integer.  Two runs have the same h only if they made the same    *)
(* compressions in the same order.  The 512-bit carries of streebog_add512 *)
(* are not modelled here: N and Sigma are exact sums.                      *)
(***************************************************************************)
EXTENDS ByteBlocks

CONSTANTS
    MaxTaken,   \* bound: bytes a caller feeds between two inits
    MaxLog      \* bound: compressions between two inits

BoundsAssumption == MaxTaken \in Nat /\ MaxLog \in Nat

VARIABLES
    ctx,        \* struct streebog_state
    phase, taken, out       \* the caller's view, see MessageDigest

vars == <<ctx, phase, taken, out>>

-----------------------------------------------------------------------------

Sizes == {32, 64}           \* STREEBOG256_DIGEST_SIZE, STREEBOG512_DIGEST_SIZE

\* 512-bit numbers: the sum of some blocks and of an integer
U512 == [blocks : Seq(Buffers), count : Int]
Num(n) == [blocks |-> <<>>, count |-> n]
Word(m) == [blocks |-> <<m>>, count |-> 0]
streebog_add512(x, y) == [blocks |-> x.blocks \o y.blocks, count |-> x.count + y.count]

buffer0 == Num(0)
BlockBits == 8 * BlockSize
buffer512 == Num(BlockBits)

\* Chaining values
Chain == [iv : {0, 1}, log : Seq([n : U512, m : U512])]
streebog_g(h, N, m) == [h EXCEPT !.log = Append(@, [n |-> N, m |-> m])]

streebog_state ==
    [buffer : Buffers, h : Chain, N : U512, Sigma : U512,
     fillsize : 0 .. BlockSize - 1, digest_size : Sizes]

InitialState(bits) ==
    [buffer |-> ZeroBlock,
     h |-> [iv |-> IF bits \div 8 = 32 THEN 1 ELSE 0, log |-> <<>>],
     N |-> Num(0), Sigma |-> Num(0), fillsize |-> 0, digest_size |-> bits \div 8]

streebog_stage2(c, m) ==
    [c EXCEPT !.h = streebog_g(@, c.N, Word(m)),
              !.N = streebog_add512(@, buffer512),
              !.Sigma = streebog_add512(@, Word(m))]

\* Mutant of streebog_pad: the bytes behind the marker are not cleared.
streebog_pad_Stale(c) ==
    IF c.fillsize >= BlockSize THEN c
    ELSE [c EXCEPT !.buffer[c.fillsize] = Lit(1)]

streebog_pad(c) ==
    IF c.fillsize >= BlockSize THEN c
    ELSE [c EXCEPT !.buffer =
            [Fill(@, c.fillsize, Zero, BlockSize - c.fillsize) EXCEPT ![c.fillsize] = Lit(1)]]

streebog_stage3(c) ==
    LET bits == Num(8 * c.fillsize)
        p == streebog_pad(c)
        N == streebog_add512(p.N, bits)
        Sigma == streebog_add512(p.Sigma, Word(p.buffer))
        h == streebog_g(p.h, p.N, Word(p.buffer))
    IN  [p EXCEPT !.h = streebog_g(streebog_g(h, buffer0, N), buffer0, Sigma),
                  !.N = N, !.Sigma = Sigma]

\* Smaller of two lengths (chunksize > len in the code).
Least(a, b) == IF a > b THEN b ELSE a

\* The first part of update: top up a buffer that is partly filled.
TopUpLen(c, len) == IF c.fillsize = 0 THEN 0 ELSE Least(BlockSize - c.fillsize, len)
\* Mutant of TopUp: a full buffer is left for the next call (> for ==).
TopUp_Lazy(c, data, len) ==
    LET n == TopUpLen(c, len)
    IN  [c EXCEPT !.buffer = Copy(c.buffer, c.fillsize, data, n), !.fillsize = c.fillsize + n]

\* Mutant of TopUp: the block is compressed before the new bytes are in it.
TopUp_Early(c, data, len) ==
    LET n == TopUpLen(c, len)
        b == Copy(c.buffer, c.fillsize, data, n)
    IN  IF c.fillsize + n = BlockSize
        THEN streebog_stage2([c EXCEPT !.buffer = b, !.fillsize = 0], c.buffer)
        ELSE [c EXCEPT !.buffer = b, !.fillsize = c.fillsize + n]

TopUp(c, data, len) ==
    LET n == TopUpLen(c, len)
        b == Copy(c.buffer, c.fillsize, data, n)
    IN  IF c.fillsize + n = BlockSize
        THEN streebog_stage2([c EXCEPT !.buffer = b, !.fillsize = 0], b)
        ELSE [c EXCEPT !.buffer = b, !.fillsize = c.fillsize + n]

\* The loop of update: k whole blocks straight from the input, each through
\* streebog_stage2.
WholeBlocks(c, data, k) ==
    LET block(j) == BlockAt(data + (j - 1) * BlockSize)
    IN  [c EXCEPT
          !.h.log = @ \o [j \in 1 .. k |->
              [n |-> streebog_add512(c.N, Num((j - 1) * BlockBits)), m |-> Word(block(j))]],
          !.N = streebog_add512(@, Num(k * BlockBits)),
          !.Sigma = streebog_add512(@, [blocks |-> [j \in 1 .. k |-> block(j)], count |-> 0])]

\* The end of update: keep the tail, which is shorter than a block.
KeepTail(c, data, len) ==
    IF len = 0 THEN c
    ELSE [c EXCEPT !.buffer = Copy(@, 0, data, len), !.fillsize = len]

Updated(c, data, len) ==
    LET n == TopUpLen(c, len)
        rest == len - n
        k == rest \div BlockSize
        c2 == WholeBlocks(TopUp(c, data, len), data + n, k)
    IN  KeepTail(c2, data + n + k * BlockSize, rest % BlockSize)

DigestOf(c) == [h |-> c.h, half |-> IF c.digest_size = 32 THEN "high" ELSE "all"]

-----------------------------------------------------------------------------
(***************************************************************************)
(* The API calls.  The context does not know whether it is finished: the   *)
(* calls are possible in every phase.                                      *)
(***************************************************************************)
Init ==
    /\ \E bits \in {256, 512} : ctx = InitialState(bits)
    /\ phase = "absorbing"
    /\ taken = 0
    /\ out = DigestOf(ctx)

streebog_init(bits) ==
    /\ ctx' = InitialState(bits)
    /\ phase' = "absorbing"
    /\ taken' = 0
    /\ UNCHANGED out

streebog_update(len) ==
    /\ taken + len <= MaxTaken
    /\ Len(ctx.h.log) + len \div BlockSize + 1 <= MaxLog
    /\ ctx' = Updated(ctx, taken + 1, len)
    /\ taken' = taken + len
    /\ UNCHANGED <<phase, out>>

streebog_final ==
    /\ Len(ctx.h.log) + 3 <= MaxLog
    /\ LET c == streebog_stage3(ctx)
       IN  /\ ctx' = [c EXCEPT !.fillsize = 0]
           /\ out' = DigestOf(c)
    /\ phase' = "spent"
    /\ UNCHANGED taken

Next ==
    \/ \E bits \in {256, 512} : streebog_init(bits)
    \/ \E len \in 0 .. MaxTaken : streebog_update(len)
    \/ streebog_final

Spec == Init /\ [][Next]_vars

-----------------------------------------------------------------------------
(***************************************************************************)
(* The reference: GOST R 34.11-2012 over the whole message at once.        *)
(***************************************************************************)
PaddedTail(k, r) ==
    [i \in Index |-> IF i < r THEN k * BlockSize + 1 + i
                     ELSE IF i = r THEN Lit(1) ELSE Zero]

\* The blocks of a message of k whole blocks and r more bytes.
WholeBlock(j) == BlockAt((j - 1) * BlockSize + 1)

Reference(size, t) ==
    LET k == t \div BlockSize
        r == t % BlockSize
        tail == PaddedTail(k, r)
        sum == [blocks |-> Append([j \in 1 .. k |-> WholeBlock(j)], tail), count |-> 0]
    IN  [h |-> [iv |-> IF size = 32 THEN 1 ELSE 0,
                log |-> [j \in 1 .. k |->
                            [n |-> Num((j - 1) * BlockBits), m |-> Word(WholeBlock(j))]]
                        \o << [n |-> Num(k * BlockBits), m |-> Word(tail)],
                              [n |-> Num(0), m |-> Num(8 * t)],
                              [n |-> Num(0), m |-> sum] >>],
         half |-> IF size = 32 THEN "high" ELSE "all"]

\* Type invariant: the buffer is never left full between two calls, so that
\* the next memcpy into it stays inside it.
TypeOK ==
    /\ ctx \in streebog_state
    /\ phase \in {"absorbing", "spent"}
    /\ taken \in 0 .. MaxTaken
    /\ out \in [h : Chain, half : {"high", "all"}]

\* While a context absorbs, it represents the bytes fed to it: every whole
\* block has been compressed once, in order, under the count of the bits
\* before it, the checksum holds the same blocks and the buffer the tail.
Represents(c, t) ==
    LET k == Len(c.h.log)
    IN  /\ c.h.iv = IF c.digest_size = 32 THEN 1 ELSE 0
        /\ t = k * BlockSize + c.fillsize
        /\ c.h.log = [j \in 1 .. k |->
                        [n |-> Num((j - 1) * BlockBits), m |-> Word(WholeBlock(j))]]
        /\ c.N = Num(k * BlockBits)
        /\ c.Sigma = [blocks |-> [j \in 1 .. k |-> WholeBlock(j)], count |-> 0]
        /\ Holds(c.buffer, c.fillsize, k * BlockSize + 1)

StateIsPrefix == phase = "absorbing" => Represents(ctx, taken)

Abstract == INSTANCE MessageDigest WITH
    Params <- Sizes,
    Digest <- [s \in Sizes |-> [t \in Nat |-> Reference(s, t)]],
    param <- ctx.digest_size

\* The context implements the abstract digest: what final returns is the
\* reference digest of the concatenated updates, for every way to cut them
\* and whatever the context was used for before the init.
ImplementsDigest == Abstract!Spec
=============================================================================
