--------------------------- MODULE Gost28147Imit ----------------------------
(***************************************************************************)
(* gost28147_imit_cp12_sbox of src/generic/gost28147_generic.c: a MAC that *)
(* chains 16 rounds of GOST 28147 over the whole blocks of a text, adds    *)
(* what is left of it, and does the rounds once more.  One action per turn *)
(* of the loop, one for what follows it.                                   *)
(*                                                                         *)
(* The rounds are symbolic, known by the key and the block they are done   *)
(* on; the key is the word by word difference of two strings.              *)
(***************************************************************************)
EXTENDS SymbolicBytes

CONSTANTS
    BlockSize,      \* bytes in a block, 8
    WordRadix,      \* values of a word of the key, 2^32
    Values,         \* the bytes of the texts
    States,         \* the initial states the callers use
    MaxLen          \* bound: bytes of a text

\* Texts and initial states are not made with the key of a MAC.
SizeAssumption ==
    /\ BlockSize \in Nat \ {0} /\ WordRadix \in Nat \ {0} /\ MaxLen \in Nat
    /\ \A v \in Values : FreeOf("rounds", <<v>>)
    /\ \A s \in States : Len(s) = BlockSize /\ FreeOf("rounds", s)

VARIABLES
    active,         \* inside a call?
    in, init, ab,   \* its text, its initial state, the strings its key is made of
    st,             \* the key
    buffer, off,    \* the local variables
    out,            \* the result of the last call
    before          \* arguments and result of the call before, if it is compared

vars == <<active, in, init, ab, st, buffer, off, out, before>>

-----------------------------------------------------------------------------

\* Mutant of Difference: the borrow of the subtraction is lost.
Difference_NoBorrow(a, b) == IF a < b THEN 0 ELSE a - b

\* One word of the key.
Difference(a, b) == (a - b) % WordRadix

rounds(block) == BytesOf("rounds", <<st, block>>, BlockSize)

\* Mutant of WithTail: the tail is copied over the state.
WithTail_Copied == Overwrite(buffer, Last(in, Len(in) - off))

\* The state with what is left of the text added at its front.
WithTail == XorBytes(buffer, Last(in, Len(in) - off) \o Zeros(BlockSize - (Len(in) - off)))

NoCall == [in |-> <<>>, init |-> <<>>, ab |-> <<0, 0>>, out |-> <<>>]

Init ==
    /\ active = FALSE
    /\ in = <<>> /\ init \in States /\ ab = <<0, 0>> /\ st = 0
    /\ buffer = <<>> /\ off = 0
    /\ out = <<>>
    /\ before = NoCall

gost28147_imit_cp12(text, iv, a, b) ==
    /\ ~active /\ before.out = <<>>
    /\ active' = TRUE
    /\ in' = text /\ init' = iv /\ ab' = <<a, b>> /\ st' = Difference(a, b)
    /\ buffer' = iv /\ off' = 0
    /\ before' = [in |-> in, init |-> init, ab |-> ab, out |-> out]
    /\ UNCHANGED out

Turn ==
    /\ active /\ off + BlockSize <= Len(in)
    /\ buffer' = rounds(XorBytes(buffer, SubSeq(in, off + 1, off + BlockSize)))
    /\ off' = off + BlockSize
    /\ UNCHANGED <<active, in, init, ab, st, out, before>>

Finish ==
    /\ active /\ off + BlockSize > Len(in)
    /\ buffer' = rounds(WithTail)
    /\ out' = buffer'
    /\ active' = FALSE
    /\ UNCHANGED <<in, init, ab, st, off, before>>

\* Two calls are compared; then both are forgotten.
Forget ==
    /\ ~active /\ before.out # <<>>
    /\ in' = <<>> /\ ab' = <<0, 0>> /\ st' = 0
    /\ buffer' = <<>> /\ off' = 0 /\ out' = <<>>
    /\ before' = NoCall
    /\ UNCHANGED <<active, init>>

Texts == UNION {[1 .. n -> Values] : n \in 0 .. MaxLen}

Next ==
    \/ \E text \in Texts, iv \in States, a, b \in 0 .. WordRadix - 1 :
            gost28147_imit_cp12(text, iv, a, b)
    \/ Turn
    \/ Finish
    \/ Forget

Spec == Init /\ [][Next]_vars

-----------------------------------------------------------------------------

\* Type invariant: whole blocks are taken as long as there are any, and the
\* state is always a block.
TypeOK ==
    /\ active \in BOOLEAN
    /\ in \in Texts /\ init \in States /\ st \in 0 .. WordRadix - 1
    /\ off % BlockSize = 0 /\ off <= Len(in)
    /\ active => Len(buffer) = BlockSize

\* What a MAC is of: how many whole blocks there are, and the text with the
\* initial state added to its front, in zeros to the end of the block behind
\* the last whole one.
Meaning(text, iv) ==
    LET whole == Len(text) \div BlockSize
        padded == text \o Zeros((whole + 1) * BlockSize - Len(text))
    IN  <<whole, XorBytes(First(padded, BlockSize), iv) \o
                 SubSeq(padded, BlockSize + 1, Len(padded))>>

\* Two calls give the same MAC exactly if their texts mean the same and a and b
\* differ by the same: a text may be prolonged with zeros to a byte before the
\* end of a block, and the MAC stays (a whole block has the MAC of the same
\* block with a few zeros behind it), but never into the next block, and no
\* other text shares it.
MacSeparates ==
    ~active /\ out # <<>> /\ before.out # <<>> =>
        (out = before.out <=>
            /\ Meaning(in, init) = Meaning(before.in, before.init)
            /\ (ab[1] + before.ab[2]) % WordRadix = (before.ab[1] + ab[2]) % WordRadix)

=============================================================================
