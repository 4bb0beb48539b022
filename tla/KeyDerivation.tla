--------------------------- MODULE KeyDerivation ----------------------------
(***************************************************************************)
(* The functions that derive keys, one group at a time: KDF_TREE, the TLS  *)
(* PRF and HKDF-Expand (KeyExpansion), PBKDF2, the label HKDF-Expand is    *)
(* called with for a TLS 1.3 secret (HkdfLabel), HMAC, and the keys and    *)
(* nonces of TLS records (TlsRecordKeys).                                  *)
(***************************************************************************)
EXTENDS SymbolicBytes

CONSTANTS
    HashLen,            \* bytes in a MAC of the key expansions, 32
    ByteRadix,          \* values of a byte, 256
    InBuf, MaxSeed, Labels, Seeds,              \* see KeyExpansion
    PbkdfLen, NumberRadix, BeSize, Salts,       \* see Pbkdf2
    Prefix, LabelBuf, Names,                    \* see HkdfLabel
    BlockSize, DigestSize, HmacKeys, Texts,     \* see HmacStreebog
    Seqs, Ivs,                                  \* see TlsRecordKeys
    MaxOut, MaxIter, MaxLabelled                \* bounds: bytes asked for, iterations

VARIABLES
    unit,       \* the group that is checked
    fn, active, len, label, seed, done, counter, chain, input,  \* see KeyExpansion
    at, iter, turn, mac, sum,   \* see Pbkdf2
    call, info,                 \* see HkdfLabel and HmacStreebog
    other,                      \* the call or the record before
    out, ret                    \* what the caller gets

expansion == <<fn, active, len, label, seed, done, counter, chain, input>>
iteration == <<at, iter, turn, mac, sum>>
packing == <<call, info, other>>
vars == <<unit, expansion, iteration, packing, out, ret>>

K == INSTANCE KeyExpansion WITH MaxBlocks <- ByteRadix - 1

P == INSTANCE Pbkdf2 WITH
    HashLen <- PbkdfLen, ByteRadix <- NumberRadix,
    out_len <- len, salt <- seed, block <- counter, off <- done, i <- turn, u <- mac, t <- sum

L == INSTANCE HkdfLabel WITH BufSize <- LabelBuf, Strings <- Names, MaxOut <- MaxLabelled

H == INSTANCE HmacStreebog WITH Strings <- Texts, before <- other

Tls == INSTANCE TlsRecordKeys WITH
    tree <- fn, iv <- seed, seq <- input, key <- chain, nonce <- mac

ASSUME ConstantsAssumption ==
    /\ K!SizeAssumption /\ P!SizeAssumption /\ L!SizeAssumption /\ H!SizeAssumption
    /\ Tls!NumberAssumption

NoExpansion ==
    /\ fn = "none" /\ active = FALSE /\ label = <<>> /\ chain = <<>> /\ input = <<>>
NoIteration == at = "idle" /\ iter = 0 /\ turn = 0 /\ mac = <<>> /\ sum = <<>>
NoPacking == call = <<>> /\ info = <<>> /\ other = <<>>

Init ==
    \/ unit = "expansion" /\ K!Init /\ NoIteration /\ NoPacking
    \/ unit = "pbkdf2" /\ P!Init /\ NoExpansion /\ NoPacking
    \/ /\ unit = "label" /\ L!Init /\ NoExpansion /\ NoIteration
       /\ len = 0 /\ seed = <<>> /\ done = 0 /\ counter = 0 /\ out = <<>>
    \/ /\ unit = "hmac" /\ H!Init /\ NoExpansion /\ NoIteration
       /\ len = 0 /\ seed = <<>> /\ done = 0 /\ counter = 0 /\ info = <<>> /\ ret = 0
    \/ /\ unit = "records" /\ Tls!Init /\ active = FALSE /\ label = <<>>
       /\ len = 0 /\ done = 0 /\ counter = 0
       /\ at = "idle" /\ iter = 0 /\ turn = 0 /\ sum = <<>>
       /\ call = <<>> /\ info = <<>> /\ out = <<>> /\ ret = 0

ExpansionStep ==
    /\ unit = "expansion" /\ K!Next
    /\ UNCHANGED <<unit, iteration, packing>>

IterationStep ==
    /\ unit = "pbkdf2" /\ P!Next
    /\ UNCHANGED <<unit, fn, active, label, chain, input, packing>>

PackingStep ==
    /\ unit = "label" /\ L!Next
    /\ UNCHANGED <<unit, expansion, iteration, out>>

HmacStep ==
    /\ unit = "hmac" /\ H!Next
    /\ UNCHANGED <<unit, expansion, iteration, info, ret>>

RecordStep ==
    /\ unit = "records" /\ Tls!Next
    /\ UNCHANGED <<unit, active, len, label, done, counter, at, iter, turn, sum,
                   call, info, out, ret>>

Next == ExpansionStep \/ IterationStep \/ PackingStep \/ HmacStep \/ RecordStep

Spec == Init /\ [][Next]_vars

-----------------------------------------------------------------------------

\* At every turn of every loop the caller's buffer holds as much of the
\* reference output as is done and is untouched behind; a call that returns 0
\* has done all of it.  No loop leaves its bounds, what is put together for a MAC
\* fits its buffer, and a nonce leaves MGM its first bit.
OutputIsPrefix ==
    /\ unit = "expansion" => K!TypeOK /\ K!OutputIsPrefix
    /\ unit = "pbkdf2" => P!TypeOK /\ P!OutputIsPrefix
    /\ unit = "label" => L!TypeOK
    /\ unit = "hmac" => H!TypeOK
    /\ unit = "records" => Tls!TypeOK

\* No two blocks of an output are the same: no block number, a byte or a word,
\* is used twice in a call.
BlocksDiffer ==
    /\ unit = "expansion" => K!BlocksDiffer
    /\ unit = "pbkdf2" => P!BlocksDiffer

\* A call that fails leaves the caller's buffer as it was, but for one case: an
\* info that fits in_buf in the first turn of HKDF and not in the second leaves
\* the first block behind.
FailureLeavesOneBlock == unit = "expansion" => K!FailureLeavesOneBlock

\* Two calls of gost_tls13_hkdf_expand_label that succeed hand HKDF the same
\* info only if they ask for as many bytes, with the same label and the same
\* context: keys for different purposes are different keys.
LabelSeparates == unit = "label" => L!LabelSeparates

\* HMAC authenticates its three parts as their concatenation, under the key if it
\* fits a block and under its digest if not.
ImplementsHmac == unit = "hmac" => H!ImplementsHmac

\* Two calls of HMAC return the same value only for the same key block and the same
\* concatenation: neither the border between the parts nor that between the
\* padding of the key and the text can move.
Unambiguous == unit = "hmac" => H!Unambiguous

\* Two records have the same key exactly when their numbers lie in the same section
\* of TLSTREE: no key is used longer, and none is made when it need not change.
KeyPerSection == unit = "records" => Tls!KeyPerSection

\* No two records of a connection have the same nonce.
NonceDiffers == unit = "records" => Tls!NonceDiffers

-----------------------------------------------------------------------------
(***************************************************************************)
(* The strings of the run.                                                 *)
(*                                                                         *)
(* MACs have two bytes.  A byte has four values in KeyExpansion, so that   *)
(* three blocks are the most its counter can tell apart, and the labels    *)
(* lie around the size of in_buf, in the first turn and in the others.     *)
(* PBKDF2 has block numbers of two bytes of two values: again three        *)
(* blocks.  HkdfLabel takes labels and contexts from none to one byte more *)
(* than a length byte can tell, in a buffer with room for most of both.    *)
(* HMAC has blocks of four bytes and digests of two and of four: keys that *)
(* are shorter than a block, a block and longer than a block, keys and     *)
(* texts that end in zero bytes or in a mask.  The numbers of records have *)
(* at most two ones, at either side of a border of one of the masks.       *)
(***************************************************************************)
MCLabels == {BytesOf("label", 0, n) : n \in 0 .. 6}
MCSeeds == {BytesOf("seed", 0, n) : n \in 0 .. 3}
MCSalts == {BytesOf("salt", 0, n) : n \in 0 .. 1}

MCPrefix == <<3>>
MCNames == {<<0>>, <<1>>, <<0, 1>>} \cup {[k \in 1 .. n |-> 0] : n \in {0, 2, 3, 4}}

MCDigestSize == [bits \in {256, 512} |-> IF bits = 256 THEN 2 ELSE 4]
MCHmacKeys == {<<>>, << Zero >>, BytesOf("key", 0, 4), BytesOf("key", 0, 5)}
MCTexts == {<<>>, << Zero >>, << Zero, {Atom("const", 54, 0)} >>}

MCBorders == {0, 2, 3, 5, 6, 12, 13, 15, 16, 18, 19, 28, 29, 31, 32, 35, 36, 58, 59, 63}
MCSeqs == {{}} \cup {{x, y} : x, y \in MCBorders}
MCIvs == {{}, {127, 63, 0}}
=============================================================================
