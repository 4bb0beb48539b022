----------------------------- MODULE BlockModes -----------------------------
(***************************************************************************)
(* What a caller gets from a block cipher in one call that keeps no        *)
(* context, one function at a time: OMAC, CFB, and what PKCS#12 files and  *)
(* CryptoPro key containers are read and written with.                     *)
(***************************************************************************)
EXTENDS SymbolicBytes

CONSTANTS
    OmacBlock, OmacBytes,                           \* see Omac
    CfbBlock, MeshSize,                             \* see Gost28147Cfb
    PbeBlock, Bits, InputSize, HashBlock, PbeLens, TextValues,      \* see Rc2Pbe
    BagBlock, KeySize, KeyLens, ByteRadix, MinSalt, MaxIter,        \* see KeyBag
    Passwords, Salts, Iters, BagLens,
    ImitBlock, WordRadix, Values, States,           \* see Gost28147Imit
    MaxOmac, MaxCfb, MaxText, MaxRoom               \* bounds: bytes of a text, of a buffer

VARIABLES
    unit,                                   \* the function that is checked
    active, op, inplace, src, in, out, ret, \* the call and its buffers
    off, iv, sealed,                        \* how far it has come, its chaining value, an earlier call
    a, b,                                   \* the parts of a text, see Omac
    enc, mesh, key,                         \* see Gost28147Cfb
    room, out_len,                          \* see Rc2Pbe
    args, mac,                              \* see KeyBag
    init, ab, st                            \* see Gost28147Imit

call == <<op, inplace, src, ret>>
omac == <<a, b>>
cfb == <<enc, mesh, key>>
pbe == <<room, out_len>>
keybag == <<args, mac>>
imit == <<init, ab, st>>
vars == <<unit, active, call, in, out, off, iv, sealed, omac, cfb, pbe, keybag, imit>>

O == INSTANCE Omac WITH
    BlockSize <- OmacBlock, Bytes <- OmacBytes, MaxLen <- MaxOmac,
    i <- off, state <- iv, before <- sealed

C == INSTANCE Gost28147Cfb WITH BlockSize <- CfbBlock, MaxLen <- MaxCfb, cur_iv <- iv

R == INSTANCE Rc2Pbe WITH BlockSize <- PbeBlock, Lens <- PbeLens, MaxLen <- MaxText

B == INSTANCE KeyBag WITH
    BlockSize <- BagBlock, Lens <- BagLens, i <- off, cur <- iv, bag <- sealed

I == INSTANCE Gost28147Imit WITH
    BlockSize <- ImitBlock, MaxLen <- MaxText, buffer <- iv, before <- sealed

ASSUME OmacBlockAssumption == OmacBlock \in Nat \ {0}
ASSUME ConstantsAssumption ==
    O!SizeAssumption /\ C!SizeAssumption
    /\ R!SizeAssumption /\ B!SizeAssumption /\ I!SizeAssumption

NoCall == op = "none" /\ inplace = FALSE /\ src = <<>> /\ ret = 0
NoOmac == a = <<>> /\ b = <<>>
NoCfb == enc = FALSE /\ mesh = FALSE /\ key = 0
NoPbe == room = 0 /\ out_len = 0
NoKeyBag == args = <<>> /\ mac = <<>>
NoImit == init = <<>> /\ ab = <<>> /\ st = 0

Init ==
    \/ /\ unit = "omac" /\ O!Init /\ in = <<>>
       /\ NoCall /\ NoCfb /\ NoPbe /\ NoKeyBag /\ NoImit
    \/ /\ unit = "cfb" /\ C!Init /\ op = "none" /\ ret = 0
       /\ NoOmac /\ NoPbe /\ NoKeyBag /\ NoImit
    \/ unit = "rc2" /\ R!Init /\ NoOmac /\ NoCfb /\ NoKeyBag /\ NoImit
    \/ unit = "keybag" /\ B!Init /\ NoOmac /\ NoCfb /\ NoPbe /\ NoImit
    \/ unit = "imit" /\ I!Init /\ NoCall /\ NoOmac /\ NoCfb /\ NoPbe /\ NoKeyBag

OmacStep ==
    unit = "omac" /\ O!Next /\ UNCHANGED <<unit, call, in, cfb, pbe, keybag, imit>>
CfbStep ==
    unit = "cfb" /\ C!Next /\ UNCHANGED <<unit, op, ret, omac, pbe, keybag, imit>>
Rc2Step ==
    unit = "rc2" /\ R!Next /\ UNCHANGED <<unit, omac, cfb, keybag, imit>>
KeyBagStep ==
    unit = "keybag" /\ B!Next /\ UNCHANGED <<unit, omac, cfb, pbe, imit>>
ImitStep ==
    unit = "imit" /\ I!Next /\ UNCHANGED <<unit, call, omac, cfb, pbe, keybag>>

Next == OmacStep \/ CfbStep \/ Rc2Step \/ KeyBagStep \/ ImitStep

Spec == Init /\ [][Next]_vars

-----------------------------------------------------------------------------

\* OMAC: the result depends on the concatenation only, not on where it is cut.
ConcatenationAuthenticated == unit = "omac" => O!ConcatenationAuthenticated

\* OMAC: two calls return the same value only for the same concatenation; the
\* padding of a short text is never taken for a part of a whole one.
Unambiguous == unit = "omac" => O!Unambiguous

\* CFB and RC2: wherever a loop stands, within its bounds and on whole blocks,
\* encryption, in place or not, has written the cipher text of RFC 4357, or CBC of
\* the padded text, as far as it has come and nothing behind; so has decryption
\* into another buffer, of any cipher text.
OutputIsPrefix ==
    /\ unit = "cfb" => C!TypeOK /\ C!OutputIsPrefix
    /\ unit = "rc2" => R!TypeOK /\ R!OutputIsPrefix

\* CFB: a wrong byte of the cipher text spoils its own place and the block behind
\* its block, and a right one nothing; decryption in place gives back the first
\* block only.
DamageIsLocal == unit = "cfb" => C!DamageIsLocal

\* What was encrypted or wrapped comes back, all of it with the right length,
\* under the same password only, and in place as far as the code lets it.
Recovers ==
    /\ unit = "rc2" => R!Recovers
    /\ unit = "keybag" => B!TypeOK /\ B!Recovers

\* A call that fails changes no length; one that is refused writes nothing; and a
\* text is accepted only with its length behind it.
FailureContained ==
    /\ unit = "rc2" => R!FailureKeepsLength
    /\ unit = "keybag" => B!FailureWritesNothing

\* The MAC of a key bag is that of the key which comes out of it, exactly if it
\* is the one that went in and was not wrapped in place; two texts have the same
\* IMIT exactly if they differ in zeros within the last, unfinished block.
MacSeparates ==
    /\ unit = "keybag" => B!MacSeparates
    /\ unit = "imit" => I!TypeOK /\ I!MacSeparates

-----------------------------------------------------------------------------
(***************************************************************************)
(* The values of the run.                                                  *)
(*                                                                         *)
(* Blocks have two bytes.  OMAC: the bytes that occur in the padding;      *)
(* texts of no, one half, one, one and a half and two blocks, in any cut.  *)
(* GOST 28147-89 CFB: a new key every two blocks and texts of up to five   *)
(* blocks, so that the key changes twice.  RC2 PBE: bytes of two bits,     *)
(* texts that end in what may be a padding of one and of two bytes,        *)
(* buffers from too small to more than enough, every bit error and every   *)
(* cut of the cipher text.  Key bag: counters of two bits, so that the     *)
(* last of five iterations has a number that was used before; password and *)
(* salt that are the same in a row.  IMIT: texts of up to two blocks of    *)
(* zeros and another byte, with initial states of both.                    *)
(***************************************************************************)

X == {Atom("x", 0, 1)}
Y == {Atom("y", 0, 1)}

MCPbeLens == {<<2, 1>>, <<0, 4>>, <<9, 3>>, <<2, 0>>}
MCPasswords == {<<>>, <<X>>}
MCSalts == {<<>>, <<Y>>, <<X, Y>>}
MCValues == {Zero, X}
MCStates == {<<Zero, Zero>>, <<X, Zero>>}
=============================================================================
