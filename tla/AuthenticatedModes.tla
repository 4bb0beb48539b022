------------------------- MODULE AuthenticatedModes --------------------------
(***************************************************************************)
(* ChaCha20-Poly1305, MGM and KExp15, one of them at a time, against one   *)
(* abstract specification.                                                 *)
(***************************************************************************)
EXTENDS SymbolicBytes

CONSTANTS
    StreamBlock, OtkSize, MacBlock, CtrRadix, UintRadix,    \* see ChaCha20Poly1305
    NonceWords, ChaChaMessages,
    BlockSize, HalfRadix, Nonces, MgmMessages,              \* see KuznyechikMgm
    TagSize, Ads,                                           \* see both
    KeySize, MacSize, IvBytes, WrapKeys, Keys               \* see KeyExport

VARIABLES
    unit,                           \* the mode that is checked
    sent, wire, given, verdict,     \* see there
    dst                             \* the receiver's buffer

vars == <<unit, sent, wire, given, verdict, dst>>

C == INSTANCE ChaCha20Poly1305 WITH Messages <- ChaChaMessages

M == INSTANCE KuznyechikMgm WITH Messages <- MgmMessages

E == INSTANCE KeyExport WITH key <- dst

ASSUME ConstantsAssumption == C!LengthAssumption /\ M!LengthAssumption /\ E!SizeAssumption

Init ==
    \/ unit = "chacha20poly1305" /\ C!Init
    \/ unit = "mgm" /\ M!Init
    \/ unit = "kexp15" /\ E!Init

ChaCha20Poly1305Step == unit = "chacha20poly1305" /\ C!Next /\ UNCHANGED unit
MgmStep == unit = "mgm" /\ M!Next /\ UNCHANGED unit
KeyExportStep == unit = "kexp15" /\ E!Next /\ UNCHANGED unit

Next == ChaCha20Poly1305Step \/ MgmStep \/ KeyExportStep

Spec == Init /\ [][Next]_vars

-----------------------------------------------------------------------------

\* Type invariant: a box is the text and the tag and nothing else, and the
\* receiver writes inside its buffer.
TypeOK ==
    /\ unit = "chacha20poly1305" => C!TypeOK
    /\ unit = "mgm" => M!TypeOK
    /\ unit = "kexp15" => E!TypeOK

\* What a rejection leaves in the receiver's buffer, in place or not: nothing
\* of the message (ChaCha20-Poly1305), zeros as far as the text goes (MGM), the
\* key that was there before (KExp15); and no call writes beyond the buffer.
RejectionReleasesNothing ==
    /\ TypeOK
    /\ unit = "chacha20poly1305" => C!NothingReleased
    /\ unit = "mgm" => M!RejectionWipes
    /\ unit = "kexp15" => E!KeyOnlyIfAuthentic

AllHeaders ==
    ({"chacha20poly1305"} \X C!Headers) \cup ({"mgm"} \X {M!Canonical(h) : h \in M!Headers})
        \cup ({"kexp15"} \X E!Headers)

RefBox(header, msg) ==
    CASE header[1] = "chacha20poly1305" -> C!RefBox(header[2], msg)
      [] header[1] = "mgm" -> M!RefBox(header[2], msg)
      [] header[1] = "kexp15" -> E!RefBox(header[2], msg)

\* The header with the mode it belongs to; the first bit of an MGM nonce is not
\* a part of it.
Tagged(x) ==
    [x EXCEPT !.header = <<unit, IF unit = "mgm" THEN M!Canonical(@) ELSE @>>]

Abstract == INSTANCE AuthenticatedEncryption WITH
    Headers <- AllHeaders,
    Messages <- (ChaChaMessages \cup MgmMessages) \cup E!Messages,
    Box <- RefBox,
    sent <- Tagged(sent),
    given <- Tagged(given),
    plain <- dst

\* Each of the three implements authenticated encryption: what comes out is the
\* message that went in, under the same header, and nothing comes out of
\* anything else.
ImplementsAE == Abstract!Spec

-----------------------------------------------------------------------------
(***************************************************************************)
(* The values of the run.                                                  *)
(*                                                                         *)
(* ChaCha20 has a key stream block of three bytes and Poly1305 a block of  *)
(* two: messages end before, at and behind the end of either.  MGM has     *)
(* blocks of two: texts of none to three of them.  Additional data may end *)
(* in zeros, as padding does.  KExp15 exports keys of two bytes with MACs  *)
(* of two, with two of each kind of key and of iv.                         *)
(***************************************************************************)
MCAds == {<<>>, << {Atom("ad", 0, 1)} >>, << {Atom("ad", 0, 1)}, Zero >>,
          << {Atom("ad", 0, 1)}, Zero, Zero >>}
MCMessages(max) == {BytesOf("msg", 0, n) : n \in 0 .. max}
MCChaChaMessages == MCMessages(4)
MCMgmMessages == MCMessages(5)
MCIvBytes == {BytesOf("iv", n, 1) : n \in {1, 2}}
=============================================================================
