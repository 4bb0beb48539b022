--------------------------- MODULE KuznyechikMgm ----------------------------
(***************************************************************************)
(* kuznyechik_mgm_encrypt and kuznyechik_mgm_decrypt of                    *)
(* src/generic/gost_tls_generic.c: the multilinear Galois mode of TLS 1.3. *)
(*                                                                         *)
(* The cipher is symbolic.  The counter blocks y and z are the encrypted   *)
(* nonce with what was added to their halves.  The product in GF(2^128) of *)
(* a hash key h and a block is kept as the set of h times each atom of the *)
(* block: it is linear in the block, as gf128_mul is.                      *)
(***************************************************************************)
EXTENDS SymbolicBytes

CONSTANTS
    BlockSize,      \* bytes in a block, 16
    TagSize,        \* bytes in a tag, 16
    HalfRadix,      \* values of half a block, 2^64
    Nonces,         \* the nonces the callers use, but for the first bit
    Ads,            \* the additional data they use
    Messages        \* the messages they use

\* No half of a counter block wraps.
LengthAssumption ==
    /\ {BlockSize, TagSize, HalfRadix} \subseteq Nat \ {0} /\ BlockSize > 1
    /\ Nonces # {} /\ Ads # {} /\ Messages # {}
    /\ \A x \in Ads : MadeOf("ad", x)
    /\ \A m \in Messages : MadeOf("msg", m)
    /\ \A x \in Ads, m \in Messages :
          Len(x) \div BlockSize + Len(m) \div BlockSize + 3 < HalfRadix

VARIABLES
    sent,       \* the arguments of the last encrypt
    wire,       \* the header, the out and the tag of the last encrypt
    given,      \* the arguments of the next decrypt
    verdict,    \* "idle", "sent", then what decrypt returned
    dst         \* the receiver's buffer

vars == <<sent, wire, given, verdict, dst>>

-----------------------------------------------------------------------------

Headers == [nonce : [top : {0, 1}, rest : Nonces], ad : Ads]

\* A block of cipher output with something added to its halves.
E0(nonce) == [of |-> nonce, left |-> 0, right |-> 0]
mgm_incr_r(c) == [c EXCEPT !.right = (@ + 1) % HalfRadix]

mgm_incr_l(c) == [c EXCEPT !.left = (@ + 1) % HalfRadix]

\* The first bit of the nonce says what the counter is for.
Y(nonce) == E0([nonce EXCEPT !.top = 0])
Z(nonce) == E0([nonce EXCEPT !.top = 1])

BlocksIn(n) == (n + BlockSize - 1) \div BlockSize

\* The blocks of a string, the last filled up with zeros.
BlocksOf(s) ==
    [k \in 1 .. BlocksIn(Len(s)) |-> [j \in 1 .. BlockSize |->
        LET p == (k - 1) * BlockSize + j IN IF p <= Len(s) THEN s[p] ELSE Zero]]

\* The loop that encrypts and decrypts.
Crypt(nonce, in) ==
    LET y[k \in 1 .. BlocksIn(Len(in)) + 1] ==
          IF k = 1 THEN Y(nonce) ELSE mgm_incr_r(y[k - 1])
        stream(k) == BytesOf("stream", y[k], BlockSize)
    IN  [p \in 1 .. Len(in) |->
            Xor(in[p], stream((p - 1) \div BlockSize + 1)[((p - 1) % BlockSize) + 1])]

gf128_mul(h, block) ==
    UNION {{Atom("product", <<h, j>>, x) : x \in block[j]} : j \in 1 .. BlockSize}

\* A length as a big-endian number of bits.
Bits(what, n) == IF n = 0 THEN Zero ELSE {Atom("bits", what, n)}
LenBlock(ad, ct) ==
    [j \in 1 .. BlockSize |-> IF j = 1 THEN Bits("ad", Len(ad))
                              ELSE IF j = 2 THEN Bits("ct", Len(ct)) ELSE Zero]

\* The blocks of the additional data, of the text and of the lengths, each
\* times a hash key of its own, z being incremented in between.
Sum(nonce, ad, ct) ==
    LET hashed == BlocksOf(ad) \o BlocksOf(ct) \o << LenBlock(ad, ct) >>
        turn[k \in 0 .. Len(hashed)] ==
          IF k = 0 THEN [z |-> Z(nonce), sum |-> Zero]
          ELSE [z |-> mgm_incr_l(turn[k - 1].z),
                sum |-> Xor(turn[k - 1].sum, gf128_mul(turn[k - 1].z, hashed[k]))]
    IN  turn[Len(hashed)].sum

Tag(nonce, ad, ct) == BytesOf("tag", Sum(nonce, ad, ct), TagSize)

\* Mutant of Encrypted: the last block of the text is not cut.
Encrypted_WholeBlocks(header, in) ==
    LET out == Crypt(header.nonce, in \o Zeros(Missing(Len(in), BlockSize)))
    IN  out \o Tag(header.nonce, header.ad, out)

\* Mutant of Encrypted: the tag is made from the plaintext.
Encrypted_TagFirst(header, in) ==
    Crypt(header.nonce, in) \o Tag(header.nonce, header.ad, in)

\* out and tag after encrypt
Encrypted(header, in) ==
    LET out == Crypt(header.nonce, in)
    IN  out \o Tag(header.nonce, header.ad, out)

Text(box) == First(box, Len(box) - TagSize)

secure_equal(x, y) == x = y
Authentic(header, box) ==
    secure_equal(Tag(header.nonce, header.ad, Text(box)), Last(box, TagSize))

\* Mutant of Decrypted: a bad tag is reported, the text is decrypted all the same.
Decrypted_NoWipe(header, box, buf) == Overwrite(buf, Crypt(header.nonce, Text(box)))

\* The buffer after decrypt: wiped when the tag is wrong, in place or not.
Decrypted(header, box, buf) ==
    IF Authentic(header, box) THEN Overwrite(buf, Crypt(header.nonce, Text(box)))
    ELSE Overwrite(buf, Zeros(Len(box) - TagSize))

-----------------------------------------------------------------------------
(***************************************************************************)
(* A sender, a receiver and what lies between them.                        *)
(***************************************************************************)
Longest == CHOOSE n \in {Len(m) : m \in Messages} : \A m \in Messages : Len(m) <= n
BufSize == Longest + 1
Stale == BytesOf("stale", 0, BufSize)

\* Between two exchanges nothing of the last one is left.
NoCall == CHOOSE s \in [header : Headers, msg : Messages] : TRUE
NoBox == [header |-> NoCall.header, box |-> Zeros(TagSize)]

Init ==
    /\ sent = NoCall
    /\ wire = NoBox
    /\ given = NoBox
    /\ verdict = "idle"
    /\ dst = Stale

\* RFC 9058 asks the caller for data or a text: the tag of nothing at all is
\* E(0) for every nonce, and the code does not look.
kuznyechik_mgm_encrypt(header, msg) ==
    /\ verdict = "idle"
    /\ header.ad # <<>> \/ msg # <<>>
    /\ sent' = [header |-> header, msg |-> msg]
    /\ wire' = [header |-> header, box |-> Encrypted(header, msg)]
    /\ given' = wire'
    /\ verdict' = "sent"
    /\ UNCHANGED dst

\* What arrives is not what was sent: a byte has changed, bytes of the text are
\* missing or zeros were added, the header is another one, or the border
\* between the additional data and the text has moved.
Flipped(box) ==
    {[box EXCEPT ![p] = Xor(@, {Atom("error", 0, 0)})] : p \in 1 .. Len(box)}
OtherLength(box) ==
    {First(box, n) \o Last(box, TagSize) : n \in 0 .. Len(box) - TagSize}
        \cup {Text(box) \o << Zero >> \o Last(box, TagSize)}

Arrive ==
    /\ verdict = "sent"
    /\ \/ \E box \in Flipped(wire.box) \cup OtherLength(wire.box) :
            given' = [wire EXCEPT !.box = box]
       \/ \E header \in Headers : given' = [wire EXCEPT !.header = header]
       \/ /\ wire.header.ad # <<>> /\ Len(wire.box) - TagSize < BufSize
          /\ First(wire.header.ad, Len(wire.header.ad) - 1) \in Ads
          /\ given' = [header |-> [wire.header EXCEPT !.ad = First(@, Len(@) - 1)],
                       box |-> Last(wire.header.ad, 1) \o wire.box]
    /\ UNCHANGED <<sent, wire, verdict, dst>>

\* decrypt, in place (in = out) or into a buffer that held something else.
kuznyechik_mgm_decrypt(inplace) ==
    /\ verdict = "sent"
    /\ LET before == IF inplace THEN Overwrite(Stale, Text(given.box)) ELSE Stale
       IN  dst' = Decrypted(given.header, given.box, before)
    /\ verdict' = IF Authentic(given.header, given.box) THEN "accepted" ELSE "rejected"
    /\ UNCHANGED <<sent, wire, given>>

Finish ==
    /\ verdict \in {"accepted", "rejected"}
    /\ sent' = NoCall
    /\ wire' = NoBox
    /\ given' = NoBox
    /\ verdict' = "idle"
    /\ dst' = Stale

Next ==
    \/ \E header \in Headers, msg \in Messages : kuznyechik_mgm_encrypt(header, msg)
    \/ Arrive
    \/ \E inplace \in BOOLEAN : kuznyechik_mgm_decrypt(inplace)
    \/ Finish

Spec == Init /\ [][Next]_vars

-----------------------------------------------------------------------------

\* Type invariant: the text is as long as the message and decrypt writes as
\* many bytes as the text has.
TypeOK ==
    /\ sent \in [header : Headers, msg : Messages]
    /\ wire.header \in Headers /\ given.header \in Headers
    /\ verdict \in {"idle", "sent", "accepted", "rejected"}
    /\ verdict = "idle" \/ Len(wire.box) = Len(sent.msg) + TagSize
    /\ Len(dst) = BufSize
    /\ \A p \in 1 .. BufSize : p > Len(given.box) - TagSize => dst[p] = Stale[p]

\* After a wrong tag all of the receiver's buffer that decrypt could have
\* written is zero: neither the message nor, in place, the text is left in it.
RejectionWipes ==
    verdict = "rejected" => \A p \in 1 .. Len(given.box) - TagSize : dst[p] = Zero

\* The reference, RFC 9058 section 4: block k of the text meets E(Y + k - 1), the
\* tag is E of the sum of the blocks times E(Z + k - 1).
RefBox(header, msg) ==
    LET nonce(top) == [of |-> [top |-> top, rest |-> header.nonce.rest]]
        y(k) == [of |-> nonce(0).of, left |-> 0, right |-> k - 1]
        z(k) == [of |-> nonce(1).of, left |-> k - 1, right |-> 0]
        ct == [p \in 1 .. Len(msg) |->
                  Xor(msg[p], {Atom("stream", y((p - 1) \div BlockSize + 1),
                                    ((p - 1) % BlockSize) + 1)})]
        hashed == BlocksOf(header.ad) \o BlocksOf(ct) \o << LenBlock(header.ad, ct) >>
        sum == UNION {gf128_mul(z(k), hashed[k]) : k \in 1 .. Len(hashed)}
    IN  ct \o [p \in 1 .. TagSize |-> {Atom("tag", sum, p)}]

\* The first bit of a nonce is not a part of it.
Canonical(header) == [header EXCEPT !.nonce.top = 0]

=============================================================================
