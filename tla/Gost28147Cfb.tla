---------------------------- MODULE Gost28147Cfb ----------------------------
(***************************************************************************)
(* gost28147_cfb_crypt of src/generic/gost28147_generic.c: cipher feedback *)
(* with CryptoPro key meshing, as gost_pfx_gost89_encrypt and _decrypt and *)
(* cryptopro_keybag_blob_crypt call it, under a key that is set anew for   *)
(* each call.  One action per turn of the loop over the blocks.            *)
(*                                                                         *)
(* The cipher is symbolic: key number k is what key_mesh has made of the   *)
(* caller's key in k calls, and a block encrypted under it is known by k   *)
(* and the block.  The text comes from a file: what is decrypted may       *)
(* differ in a byte from what was encrypted.                               *)
(***************************************************************************)
EXTENDS SymbolicBytes

CONSTANTS
    BlockSize,      \* bytes in a block, 8
    MeshSize,       \* bytes between two changes of the key, 1024
    MaxLen          \* bound: bytes of a text

SizeAssumption ==
    /\ BlockSize \in Nat \ {0}
    /\ MeshSize \in Nat \ {0} /\ MeshSize % BlockSize = 0
    /\ MaxLen \in Nat

VARIABLES
    active,             \* inside a call?
    enc, mesh,          \* the arguments of these names
    inplace,            \* are in and out the same buffer?
    src,                \* what the caller put into in
    in, out,            \* what the buffers hold
    key,                \* the number of the key in st
    cur_iv, off,        \* the local variables
    sealed              \* the text of the last encryption and what it gave

vars == <<active, enc, mesh, inplace, src, in, out, key, cur_iv, off, sealed>>

-----------------------------------------------------------------------------

Iv == BytesOf("iv", 0, BlockSize)
Text(n) == BytesOf("text", 0, n)

\* What the output buffer held before the call.
Old(n) == BytesOf("old", 0, n)

gost28147_encrypt_raw(k, block) == BytesOf("E", <<k, block>>, BlockSize)

\* Mutant of key_mesh: the iv is not encrypted under the new key.
key_mesh_KeepIv(k, block) == [key |-> k + 1, iv |-> block]

\* Key and iv after the change: the new key comes first and encrypts the iv.
key_mesh(k, block) == [key |-> k + 1, iv |-> gost28147_encrypt_raw(k + 1, block)]

\* Mutant of n: the last byte of a block is left for the next turn.
n_Short == IF Len(in) - off >= BlockSize THEN BlockSize - 1 ELSE Len(in) - off

\* The bytes this turn takes.
n == IF Len(in) - off > BlockSize THEN BlockSize ELSE Len(in) - off

\* Mutant of Meshes: the first key is used for one block more.
Meshes_Late == mesh /\ off > BlockSize /\ (off - BlockSize) % MeshSize = 0

\* Does this turn start with a new key?
Meshes == mesh /\ off # 0 /\ off % MeshSize = 0

\* The n bytes from offset at on are written.
Store(buf, at, bytes) ==
    [i \in 1 .. Len(buf) |-> IF i \in at + 1 .. at + Len(bytes) THEN bytes[i - at] ELSE buf[i]]

Init ==
    /\ active = FALSE /\ enc = TRUE /\ mesh = FALSE /\ inplace = FALSE
    /\ src = <<>> /\ in = <<>> /\ out = <<>>
    /\ key = 0 /\ cur_iv = Iv /\ off = 0
    /\ sealed = [mesh |-> FALSE, text |-> <<>>, cipher |-> <<>>]

gost28147_cfb_crypt(buf, e, m, place) ==
    /\ ~active
    /\ active' = TRUE /\ enc' = e /\ mesh' = m /\ inplace' = place
    /\ src' = buf /\ in' = buf
    /\ out' = IF place THEN buf ELSE Old(Len(buf))
    /\ key' = 0 /\ cur_iv' = Iv /\ off' = 0
    /\ UNCHANGED sealed

\* The text that was encrypted last, with a wrong byte at place pos (none if 0).
Damaged(pos) ==
    [i \in 1 .. Len(sealed.cipher) |->
        IF i = pos THEN Xor(sealed.cipher[i], {Atom("error", 0, 0)}) ELSE sealed.cipher[i]]

\* What is given to an encryption and to a decryption.
Plain == {Text(len) : len \in 0 .. MaxLen}
Cipher(m) == IF sealed.mesh = m THEN {Damaged(pos) : pos \in 0 .. Len(sealed.cipher)} ELSE {}

gost_pfx_gost89_encrypt(place) == \E buf \in Plain : gost28147_cfb_crypt(buf, TRUE, TRUE, place)

gost_pfx_gost89_decrypt(place) ==
    \E buf \in Cipher(TRUE) : gost28147_cfb_crypt(buf, FALSE, TRUE, place)

cryptopro_keybag_blob_crypt(e, place) ==
    \E buf \in IF e THEN Plain ELSE Cipher(FALSE) : gost28147_cfb_crypt(buf, e, FALSE, place)

\* Mutant of Feedback: what was written is fed back, in either direction.
Feedback_Written(written, read) == written

\* What is fed back: the cipher text, written or read.
Feedback(written, read) == IF enc THEN written ELSE read

\* One turn of the loop.  A byte of in is read again for the feedback after out
\* was written; in place it is then the byte that was written.
Turn ==
    /\ active /\ off < Len(in)
    /\ LET st == IF Meshes THEN key_mesh(key, cur_iv) ELSE [key |-> key, iv |-> cur_iv]
           gamma == gost28147_encrypt_raw(st.key, st.iv)
           c == [i \in 1 .. n |-> Xor(in[off + i], gamma[i])]
       IN  /\ key' = st.key
           /\ out' = Store(out, off, c)
           /\ in' = IF inplace THEN out' ELSE in
           /\ cur_iv' = [i \in 1 .. BlockSize |->
                            IF i <= n THEN Feedback(c[i], in'[off + i]) ELSE st.iv[i]]
           /\ off' = off + n
    /\ UNCHANGED <<active, enc, mesh, inplace, src, sealed>>

Return ==
    /\ active /\ off >= Len(in)
    /\ active' = FALSE
    /\ sealed' = IF enc THEN [mesh |-> mesh, text |-> src, cipher |-> out] ELSE sealed
    /\ UNCHANGED <<enc, mesh, inplace, src, in, out, key, cur_iv, off>>

Next ==
    \/ \E place \in BOOLEAN : gost_pfx_gost89_encrypt(place)
    \/ \E place \in BOOLEAN : gost_pfx_gost89_decrypt(place)
    \/ \E e, place \in BOOLEAN : cryptopro_keybag_blob_crypt(e, place)
    \/ Turn
    \/ Return

Spec == Init /\ [][Next]_vars

-----------------------------------------------------------------------------

\* The reference, RFC 4357 section 2.3.2, stated of a text and its cipher text:
\* byte i of the key stream is made under the key of its stretch from the cipher
\* block before it, which has been encrypted once more where the key changed.
KeyAt(i) == IF mesh THEN (i - 1) \div MeshSize ELSE 0

StreamByte(cipher, i) ==
    LET start == ((i - 1) \div BlockSize) * BlockSize
        last == IF start = 0 THEN Iv
                ELSE [k \in 1 .. BlockSize |-> cipher[start - BlockSize + k]]
        reg == IF mesh /\ start # 0 /\ start % MeshSize = 0
               THEN gost28147_encrypt_raw(KeyAt(i), last) ELSE last
    IN  gost28147_encrypt_raw(KeyAt(i), reg)[i - start]

\* Type invariant: the loop works on whole blocks up to the last, never behind
\* the end of the text, and in place there is one buffer.
TypeOK ==
    /\ {active, enc, mesh, inplace} \subseteq BOOLEAN
    /\ Len(src) \in 0 .. MaxLen
    /\ Len(in) = Len(src) /\ Len(out) = Len(src)
    /\ off \in 0 .. Len(src)
    /\ off = Len(src) \/ off % BlockSize = 0
    /\ Len(cur_iv) = BlockSize
    /\ key \in Nat
    /\ inplace => in = out

\* Wherever the loop stands, encryption, in place or not, has written the
\* cipher text of RFC 4357 as far as it has come and nothing behind; so has
\* decryption into another buffer, of any cipher text.
OutputIsPrefix ==
    enc \/ ~inplace =>
        LET cipher == IF enc THEN out ELSE src
            before == IF inplace THEN src ELSE Old(Len(src))
        IN  \A i \in 1 .. Len(src) :
                out[i] = IF i <= off THEN Xor(src[i], StreamByte(cipher, i)) ELSE before[i]

\* A wrong byte of the cipher text spoils its own place and the block behind
\* its block, and no more, whether the key changes there or not; a right one
\* nothing.  In place this is so in the first block only, and behind it nothing
\* is recovered at all: the feedback is read from the buffer after the
\* text was written there.
DamageIsLocal ==
    ~active /\ ~enc =>
        LET text == sealed.text
            wrong == {i \in 1 .. Len(src) : src[i] # sealed.cipher[i]}
            BlockOf(i) == (i - 1) \div BlockSize
            spoilt == wrong \cup {i \in 1 .. Len(src) : \E j \in wrong : BlockOf(i) = BlockOf(j) + 1}
        IN  {i \in 1 .. Len(src) : out[i] # text[i]} =
                IF inplace THEN {i \in 1 .. Len(src) : BlockOf(i) > 0} \cup (spoilt \cap 1 .. BlockSize)
                ELSE spoilt

=============================================================================
