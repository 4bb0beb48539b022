-------------------------- MODULE ChaCha20Poly1305 --------------------------
(***************************************************************************)
(* The AEAD of src/generic/chacha20poly1305_generic.c and the stream       *)
(* cipher under it (chacha_api.c, chacha_generic.c), with the 64-bit nonce *)
(* (chacha20poly1305) and with the 192-bit one (xchacha20poly1305).        *)
(*                                                                         *)
(* The ChaCha core and the Poly1305 arithmetic are symbolic: a key stream  *)
(* byte is known by the state it was made from, a tag by its one-time key  *)
(* and by all the bytes absorbed.  That the tag depends on the bytes and   *)
(* not on how they are cut into updates is what Poly1305 implements.       *)
(***************************************************************************)
EXTENDS SymbolicBytes

CONSTANTS
    StreamBlock,    \* CHACHA_BLOCK_SIZE, 64
    OtkSize,        \* POLY1305_KEY_SIZE, 32
    MacBlock,       \* the 16 of the padding
    TagSize,        \* POLY1305_DIGEST_SIZE, 16
    CtrRadix,       \* values of the counter word x[12]: 2^32
    UintRadix,      \* values of an unsigned int: 2^32
    NonceWords,     \* values of one half of a nonce
    Ads,            \* the additional data the callers use
    Messages        \* the messages the callers use

\* size_t lengths are passed on as unsigned int: the callers stay below 2^32.
LengthAssumption ==
    /\ {StreamBlock, OtkSize, MacBlock, TagSize, CtrRadix, UintRadix} \subseteq Nat \ {0}
    /\ OtkSize <= StreamBlock /\ OtkSize < UintRadix
    /\ NonceWords # {} /\ Ads # {} /\ Messages # {}
    /\ \A s \in Ads : MadeOf("ad", s)
    /\ \A s \in Messages : MadeOf("msg", s)
    /\ \A s \in Ads \cup Messages : Len(s) + MacBlock + TagSize < UintRadix
    /\ \A s \in Messages : Len(s) \div StreamBlock + 2 < CtrRadix

VARIABLES
    sent,       \* the arguments of the last encrypt
    wire,       \* the header and the dst of the last encrypt
    given,      \* the arguments of the next decrypt
    verdict,    \* "idle", "sent", then what decrypt returned
    dst         \* the receiver's buffer

vars == <<sent, wire, given, verdict, dst>>

-----------------------------------------------------------------------------

\* An xchacha nonce has two halves of interest: the one that goes into the
\* subkey and the one that goes into the state.
Headers == [kind : {"chacha", "xchacha"}, hi : NonceWords, lo : NonceWords, ad : Ads]

\* struct chacha_state after chacha_init or xchacha_init
chacha_init(key, lo) == [key |-> key, ctr |-> 0, nonce |-> lo]
xchacha_init(header) == chacha_init(<<"subkey", header.hi>>, header.lo)

State0(header) ==
    IF header.kind = "xchacha" THEN xchacha_init(header)
    ELSE chacha_init(<<"key", 0>>, <<header.hi, header.lo>>)

\* chacha_block_generic: a block of key stream
chacha_block(state) == BytesOf("stream", state, StreamBlock)

\* Byte i (from 1) of the input meets the key stream block of its number: a
\* block that is used in part is used up.
chacha20_crypt(state, src) ==
    LET block(i) == chacha_block(
            [state EXCEPT !.ctr = (@ + (i - 1) \div StreamBlock) % CtrRadix])
    IN  [i \in 1 .. Len(src) % UintRadix |->
            Xor(src[i], block(i)[((i - 1) % StreamBlock) + 1])]

\* The state chacha20_crypt leaves behind.
AfterCrypt(state, len) ==
    [state EXCEPT !.ctr = (@ + (len + StreamBlock - 1) \div StreamBlock) % CtrRadix]

\* Mutant of MacInput: the lengths are not absorbed.
MacInput_NoLengths(ad, ct) ==
    ad \o Zeros(Missing(Len(ad), MacBlock)) \o ct \o Zeros(Missing(Len(ct), MacBlock))

\* What goes through poly1305_update.
MacInput(ad, ct) ==
    ad \o Zeros(Missing(Len(ad), MacBlock)) \o ct \o Zeros(Missing(Len(ct), MacBlock))
       \o << {Atom("le64", "ad", Len(ad))}, {Atom("le64", "ct", Len(ct))} >>

poly1305(otk, input) == BytesOf("tag", <<otk, input>>, TagSize)

\* The one-time key is taken from the first block of key stream.
OneTimeKey(header) == chacha20_crypt(State0(header), Zeros(OtkSize))
DataState(header) == AfterCrypt(State0(header), OtkSize)

\* Mutant of Encrypted: the tag is written behind the padding of the text.
Encrypted_Padded(header, src) ==
    LET ct == chacha20_crypt(DataState(header), src)
    IN  ct \o Zeros(Missing(Len(ct), MacBlock))
           \o poly1305(OneTimeKey(header), MacInput(header.ad, ct))

\* encrypt: the text, and the tag right behind it.
Encrypted(header, src) ==
    LET ct == chacha20_crypt(DataState(header), src)
    IN  ct \o poly1305(OneTimeKey(header), MacInput(header.ad, ct))

\* What decrypt returns.
Authentic(header, src) ==
    LET ct == First(src, Len(src) - TagSize)
    IN  Len(src) >= TagSize
        /\ poly1305(OneTimeKey(header), MacInput(header.ad, ct)) = Last(src, TagSize)

\* Mutant of Decrypted: the text is decrypted before the tag is compared.
Decrypted_Early(header, src, buf) ==
    IF Len(src) < TagSize THEN buf
    ELSE Overwrite(buf, chacha20_crypt(DataState(header), First(src, Len(src) - TagSize)))

\* The buffer after decrypt: it is written only when the tag is right.
Decrypted(header, src, buf) ==
    IF ~Authentic(header, src) THEN buf
    ELSE Overwrite(buf, chacha20_crypt(DataState(header), First(src, Len(src) - TagSize)))

-----------------------------------------------------------------------------
(***************************************************************************)
(* A sender, a receiver and what lies between them.                        *)
(***************************************************************************)
Longest == CHOOSE n \in {Len(m) : m \in Messages} : \A m \in Messages : Len(m) <= n
BufSize == Longest + TagSize + 1
Stale == BytesOf("stale", 0, BufSize)

\* Between two exchanges nothing of the last one is left.
NoCall == CHOOSE s \in [header : Headers, msg : Messages] : TRUE
NoBox == [header |-> NoCall.header, box |-> <<>>]

Init ==
    /\ sent = NoCall
    /\ wire = NoBox
    /\ given = NoBox
    /\ verdict = "idle"
    /\ dst = Stale

Seal(header, msg) ==
    /\ verdict = "idle"
    /\ sent' = [header |-> header, msg |-> msg]
    /\ wire' = [header |-> header, box |-> Encrypted(header, msg)]
    /\ given' = wire'
    /\ verdict' = "sent"
    /\ UNCHANGED dst

\* What arrives is not what was sent: a byte has changed, bytes are missing or
\* were inserted before the tag, the header is another one, or the border
\* between the additional data and the text has moved.
Flipped(box) ==
    {[box EXCEPT ![i] = Xor(@, {Atom("error", 0, 0)})] : i \in 1 .. Len(box)}
Shortened(box) ==
    {SubSeq(box, i, j) : i \in {1, 2}, j \in 0 .. Len(box)}
Lengthened(box) ==
    {First(box, Len(box) - TagSize) \o << Zero >> \o Last(box, TagSize)}

Arrive ==
    /\ verdict = "sent"
    /\ \/ \E box \in Flipped(wire.box) \cup Shortened(wire.box) \cup Lengthened(wire.box) :
            given' = [wire EXCEPT !.box = box]
       \/ \E header \in Headers : given' = [wire EXCEPT !.header = header]
       \/ /\ wire.header.ad # <<>>
          /\ First(wire.header.ad, Len(wire.header.ad) - 1) \in Ads
          /\ given' = [header |-> [wire.header EXCEPT !.ad = First(@, Len(@) - 1)],
                       box |-> Last(wire.header.ad, 1) \o wire.box]
    /\ UNCHANGED <<sent, wire, verdict, dst>>

\* decrypt, in place (src = dst) or into a buffer that held something else.
Open(inplace) ==
    /\ verdict = "sent"
    /\ LET before == IF inplace THEN Overwrite(Stale, given.box) ELSE Stale
       IN  dst' = Decrypted(given.header, given.box, before)
    /\ verdict' = IF Authentic(given.header, given.box) THEN "accepted" ELSE "rejected"
    /\ UNCHANGED <<sent, wire, given>>

Finish ==
    /\ verdict \in {"accepted", "rejected"}
    /\ sent' = NoCall
    /\ wire' = NoBox
    /\ given' = NoBox
    /\ verdict' = "idle"
    /\ dst' = Stale

Next ==
    \/ \E header \in Headers, msg \in Messages : Seal(header, msg)
    \/ Arrive
    \/ \E inplace \in BOOLEAN : Open(inplace)
    \/ Finish

Spec == Init /\ [][Next]_vars

-----------------------------------------------------------------------------

\* Type invariant: the box is the text and the tag, and decrypt writes inside
\* the receiver's buffer.
TypeOK ==
    /\ sent \in [header : Headers, msg : Messages]
    /\ wire.header \in Headers /\ given.header \in Headers
    /\ verdict = "idle" \/ Len(wire.box) = Len(sent.msg) + TagSize
    /\ Len(dst) = BufSize
    /\ verdict \in {"idle", "sent", "accepted", "rejected"}

\* A rejected text leaves nothing of the message in the receiver's buffer,
\* neither in place nor in a buffer of its own (a zero tells nothing).
NothingReleased ==
    verdict = "rejected" =>
        \A i \in 1 .. BufSize, j \in 1 .. Len(sent.msg) : dst[i] = sent.msg[j] => dst[i] = Zero

\* The reference, RFC 8439 section 2.8: block 0 of the key stream gives the
\* one-time key, the text starts with block 1.
KeyStream(header, block, n) == {Atom("stream", [State0(header) EXCEPT !.ctr = block], n)}

RefBox(header, msg) ==
    LET ct == [i \in 1 .. Len(msg) |->
                  Xor(msg[i], KeyStream(header, 1 + (i - 1) \div StreamBlock,
                                        ((i - 1) % StreamBlock) + 1))]
        padded(s) == [i \in 1 .. Len(s) + Missing(Len(s), MacBlock) |->
                         IF i <= Len(s) THEN s[i] ELSE Zero]
        otk == [i \in 1 .. OtkSize |-> KeyStream(header, 0, i)]
        input == padded(header.ad) \o padded(ct) \o
                 << {Atom("le64", "ad", Len(header.ad))}, {Atom("le64", "ct", Len(ct))} >>
    IN  ct \o [i \in 1 .. TagSize |-> {Atom("tag", <<otk, input>>, i)}]

=============================================================================
