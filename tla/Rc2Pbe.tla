------------------------------- MODULE Rc2Pbe -------------------------------
(***************************************************************************)
(* gost_pfx_rc2_40_pbe_encrypt and _decrypt of src/generic/pfx_generic.c   *)
(* with the CBC mode of src/generic/rc2_generic.c, one action per turn of  *)
(* the loops over the blocks, one for the padding.  All calls are under    *)
(* one password.                                                           *)
(*                                                                         *)
(* The cipher is a symbolic permutation.  A byte that the caller can know  *)
(* the value of is made of bits, so that it can be compared with a length  *)
(* and spoilt by a bit error; what comes out of the cipher, and is not a   *)
(* block that went in, may have any value.                                 *)
(***************************************************************************)
EXTENDS SymbolicBytes

CONSTANTS
    BlockSize,      \* bytes in a block, 8
    Bits,           \* bits in a byte, 8
    InputSize,      \* bytes of the input buffer of the derivation, 4096
    HashBlock,      \* bytes its parts are repeated to a multiple of, 64
    Lens,           \* the lengths of password and salt the callers use
    TextValues,     \* the values of the bytes of their texts
    MaxLen,         \* bound: bytes of a text
    MaxRoom         \* bound: bytes of the buffer for the result

SizeAssumption ==
    /\ BlockSize \in Nat \ {0} /\ Bits \in Nat /\ BlockSize < 2 ^ Bits
    /\ MaxLen \in Nat /\ MaxRoom \in Nat
    /\ Lens \subseteq Nat \X Nat /\ TextValues \subseteq 0 .. 2 ^ Bits - 1

VARIABLES
    op, active,     \* the call, "enc" or "dec", and whether it still runs
    inplace,        \* do in and out start at the same byte?
    src, room,      \* what the caller put into in and into *out_len
    in, out,        \* what the buffers hold
    out_len, ret,   \* *out_len, and what the last call returned
    iv, off,        \* the local variables
    sealed          \* the text of the last encryption and what it gave

vars == <<op, active, inplace, src, room, in, out, out_len, ret, iv, off, sealed>>

-----------------------------------------------------------------------------

\* The byte of a value.
Value(v) == {Atom("bit", 0, k) : k \in {k \in 0 .. Bits - 1 : (v \div 2 ^ k) % 2 = 1}}

Known(byte) == \A a \in byte : a[1] = "bit"

rc2_encrypt_block(block) == BytesOf("E", block, BlockSize)

\* The inverse of it where there is one.
rc2_decrypt_block(block) ==
    LET made == {a[2] : a \in {a \in block[1] : a[1] = "E"}}
    IN  IF \E b \in made : block = rc2_encrypt_block(b)
        THEN CHOOSE b \in made : block = rc2_encrypt_block(b)
        ELSE BytesOf("D", block, BlockSize)

Iv == BytesOf("iv", 0, BlockSize)

\* What the output buffer held before; it is longer than *out_len says, to see
\* what is written behind that.
Old(n) == BytesOf("old", 0, n + BlockSize)

Block(buf, o) == SubSeq(buf, o + 1, o + BlockSize)

Store(buf, o, bytes) ==
    [i \in 1 .. Len(buf) |-> IF i \in o + 1 .. o + Len(bytes) THEN bytes[i - o] ELSE buf[i]]

RoundedUp(n) == n + Missing(n, HashBlock)

\* Does pkcs12_sha1_derive return -1?
DeriveRefused(pass_len, salt_len) ==
    \/ salt_len = 0
    \/ pass_len + salt_len > InputSize
    \/ RoundedUp(salt_len) + RoundedUp(pass_len) > InputSize

\* Mutant of pad_len: a text of whole blocks is not padded.
pad_len_None(len) == Missing(len, BlockSize)

pad_len(len) == BlockSize - (len % BlockSize)

\* Mutant of EncryptRefused: there must be room for the text, not for its padding.
EncryptRefused_Text(text, n, l) == n < Len(text) \/ DeriveRefused(l[1], l[2])

EncryptRefused(text, n, l) == n < Len(text) + pad_len(Len(text)) \/ DeriveRefused(l[1], l[2])

DecryptRefused(text, n, l) ==
    text = <<>> \/ Len(text) % BlockSize # 0 \/ n < Len(text) \/ DeriveRefused(l[1], l[2])

NoText == [text |-> <<>>, cipher |-> <<>>]

Init ==
    /\ op = "none" /\ active = FALSE /\ inplace = FALSE
    /\ src = <<>> /\ room = 0
    /\ in = <<>> /\ out = Old(0)
    /\ out_len = 0 /\ ret = 0
    /\ iv = Iv /\ off = 0
    /\ sealed = NoText

\* The entry of either function.
Call(fn, text, n, refused, place) ==
    /\ op = "none"
    /\ op' = fn /\ active' = ~refused /\ inplace' = place
    /\ src' = text /\ room' = n
    /\ in' = text
    /\ out' = IF place THEN Store(Old(n), 0, text) ELSE Old(n)
    /\ out_len' = n
    /\ ret' = IF refused THEN -1 ELSE 0
    /\ iv' = Iv /\ off' = 0
    /\ sealed' = IF fn = "enc" THEN NoText ELSE sealed

\* In place the buffer holds the text, and what has room behind it.
gost_pfx_rc2_40_pbe_encrypt(text, n, l, place) ==
    /\ place => Len(text) <= n
    /\ Call("enc", text, n, EncryptRefused(text, n, l), place)

gost_pfx_rc2_40_pbe_decrypt(text, n, l, place) ==
    /\ place => Len(text) <= n
    /\ Call("dec", text, n, DecryptRefused(text, n, l), place)

\* In place, in reads what is written to out.
Write(bytes) ==
    /\ out' = Store(out, off, bytes)
    /\ in' = IF inplace THEN First(out', Len(in)) ELSE in

EncryptTurn ==
    /\ op = "enc" /\ active /\ off + BlockSize <= Len(in)
    /\ LET c == rc2_encrypt_block(XorBytes(Block(in, off), iv))
       IN  Write(c) /\ iv' = c
    /\ off' = off + BlockSize
    /\ UNCHANGED <<op, active, inplace, src, room, out_len, ret, sealed>>

\* The last block is put together apart from the buffers.
LastBlock ==
    SubSeq(in, off + 1, Len(in)) \o [i \in 1 .. pad_len(Len(in)) |-> Value(pad_len(Len(in)))]

EncryptLast ==
    /\ op = "enc" /\ active /\ off + BlockSize > Len(in)
    /\ LET c == rc2_encrypt_block(XorBytes(LastBlock, iv))
       IN  Write(c) /\ iv' = c
    /\ off' = off + BlockSize
    /\ out_len' = Len(in) + pad_len(Len(in))
    /\ active' = FALSE /\ ret' = 0
    /\ sealed' = [text |-> src, cipher |-> First(out', out_len')]
    /\ UNCHANGED <<op, inplace, src, room>>

\* Mutant of NextIv: what was deciphered is chained.
NextIv_Plain(p, block) == p

\* The block that was read, as in holds it after out was written.
NextIv(p, block) == block

DecryptTurn ==
    /\ op = "dec" /\ active /\ off + BlockSize <= Len(in)
    /\ LET p == XorBytes(rc2_decrypt_block(Block(in, off)), iv)
       IN  Write(p) /\ iv' = NextIv(p, Block(in', off))
    /\ off' = off + BlockSize
    /\ UNCHANGED <<op, active, inplace, src, room, out_len, ret, sealed>>

\* The values the last block of out may have.
LastValues ==
    {val \in [1 .. BlockSize -> 0 .. 2 ^ Bits - 1] :
        \A i \in 1 .. BlockSize :
            LET byte == Block(out, off - BlockSize)[i]
            IN  Known(byte) => Value(val[i]) = byte}

\* Mutant of PaddingRight: only the last byte is looked at.
PaddingRight_Last(val) == val[BlockSize] \in 1 .. BlockSize

PaddingRight(val) ==
    LET p == val[BlockSize]
    IN  p \in 1 .. BlockSize /\ \A i \in 0 .. p - 1 : val[BlockSize - i] = p

\* The text stays in out, whether its padding is right or not.
Unpad ==
    /\ op = "dec" /\ active /\ off + BlockSize > Len(in)
    /\ \E val \in LastValues :
        /\ out_len' = IF PaddingRight(val) THEN Len(in) - val[BlockSize] ELSE out_len
        /\ ret' = IF PaddingRight(val) THEN 0 ELSE -1
    /\ active' = FALSE
    /\ UNCHANGED <<op, inplace, src, room, in, out, iv, off, sealed>>

\* The caller has seen the result and lets go of its buffers.
Release ==
    /\ op # "none" /\ ~active
    /\ op' = "none" /\ inplace' = FALSE
    /\ src' = <<>> /\ room' = 0
    /\ in' = <<>> /\ out' = Old(0)
    /\ out_len' = 0 /\ ret' = 0
    /\ iv' = Iv /\ off' = 0
    /\ UNCHANGED <<active, sealed>>

Texts == UNION {[1 .. n -> {Value(v) : v \in TextValues}] : n \in 0 .. MaxLen}

\* What arrives: what was encrypted last, cut anywhere, or with an error in one byte.
Damaged(pos, v) == [sealed.cipher EXCEPT ![pos] = Xor(@, Value(v))]

Arriving ==
    {First(sealed.cipher, n) : n \in 0 .. Len(sealed.cipher)}
        \cup {Damaged(pos, v) : pos \in 1 .. Len(sealed.cipher), v \in 1 .. 2 ^ Bits - 1}

Next ==
    \/ \E text \in Texts, n \in 0 .. MaxRoom, l \in Lens, place \in BOOLEAN :
            gost_pfx_rc2_40_pbe_encrypt(text, n, l, place)
    \/ \E text \in Arriving, n \in 0 .. MaxRoom, l \in Lens, place \in BOOLEAN :
            gost_pfx_rc2_40_pbe_decrypt(text, n, l, place)
    \/ EncryptTurn
    \/ EncryptLast
    \/ DecryptTurn
    \/ Unpad
    \/ Release

Spec == Init /\ [][Next]_vars

-----------------------------------------------------------------------------

\* Type invariant: the loops work on whole blocks, in a buffer of a fixed size.
TypeOK ==
    /\ op \in {"none", "enc", "dec"} /\ active \in BOOLEAN
    /\ ret \in {0, -1}
    /\ Len(in) = Len(src) /\ Len(out) = room + BlockSize
    /\ Len(iv) = BlockSize
    /\ off % BlockSize = 0 /\ off < Len(in) + BlockSize + 1
    /\ out_len \in 0 .. room

\* Wherever a loop stands, encryption, in place or not, has written CBC of the
\* padded text as far as it has come, and decryption into another buffer the
\* text of that: no more, and nothing behind.
OutputIsPrefix ==
    LET padded == src \o [i \in 1 .. pad_len(Len(src)) |-> Value(pad_len(Len(src)))]
        prev(buf, o) == IF o = 0 THEN Iv ELSE Block(buf, o - BlockSize)
        before == IF inplace THEN Store(Old(room), 0, src) ELSE Old(room)
        borders == {o \in 0 .. off - 1 : o % BlockSize = 0}
        encrypted == \A o \in borders :
            Block(out, o) = rc2_encrypt_block(XorBytes(Block(padded, o), prev(out, o)))
        decrypted == \A o \in borders :
            Block(out, o) = XorBytes(rc2_decrypt_block(Block(src, o)), prev(src, o))
    IN  /\ \A i \in off + 1 .. Len(out) : out[i] = before[i]
        /\ op = "enc" => encrypted
        /\ op = "dec" /\ ~inplace => decrypted

\* The text comes back from what was encrypted, with its length, whatever its
\* last bytes look like and however large the buffer.  In place this is so for
\* texts of one block; of a longer one the first block comes back and nothing
\* of the others, as each is chained to the deciphered block before it.
Recovers ==
    op = "dec" /\ ~active /\ off # 0 /\ src = sealed.cipher =>
        /\ ~inplace \/ Len(src) = BlockSize =>
            ret = 0 /\ out_len = Len(sealed.text) /\ First(out, out_len) = sealed.text
        /\ inplace =>
            \A i \in 1 .. Len(sealed.text) : out[i] = sealed.text[i] <=> i <= BlockSize

\* *out_len changes only when a call succeeds; a refused call writes nothing;
\* and a text is accepted only with a padding behind it that says its length.
FailureKeepsLength ==
    ~active =>
        /\ ret = -1 => out_len = room
        /\ ret = 0 /\ op = "dec" =>
            \A i \in out_len + 1 .. Len(src) :
                Known(out[i]) => out[i] = Value(Len(src) - out_len)

=============================================================================
