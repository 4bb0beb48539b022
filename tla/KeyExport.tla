----------------------------- MODULE KeyExport ------------------------------
(***************************************************************************)
(* kuznyechik_kexp15 and kuznyechik_kimp15 of                              *)
(* src/generic/gost_tls_generic.c: a key travels with its OMAC, both       *)
(* encrypted in counter mode.                                              *)
(*                                                                         *)
(* OMAC and the key stream are symbolic: the code takes the OMAC of one    *)
(* string (see Omac) and one call of CTR-ACPKM without sections (see       *)
(* CtrAcpkm), whose key stream depends on the key and on the iv.           *)
(***************************************************************************)
EXTENDS SymbolicBytes

CONSTANTS
    KeySize,        \* bytes in a key, 32
    MacSize,        \* bytes in a MAC, 16
    IvBytes,        \* the ivs the callers use, as strings
    WrapKeys,       \* the MAC keys and the encryption keys they use
    Keys            \* the names of the keys they export

\* All ivs have one length, half a block.
SizeAssumption ==
    /\ KeySize \in Nat \ {0} /\ MacSize \in Nat \ {0}
    /\ WrapKeys # {} /\ Keys # {} /\ IvBytes # {}
    /\ \A iv \in IvBytes : MadeOf("iv", iv)
    /\ \A iv, other \in IvBytes : Len(iv) = Len(other)

VARIABLES
    sent,       \* the arguments of the last kexp15
    wire,       \* the wrapping keys and the output of the last kexp15
    given,      \* the arguments of the next kimp15
    verdict,    \* "idle", "sent", then what kimp15 returned
    key         \* the receiver's key buffer

vars == <<sent, wire, given, verdict, key>>

-----------------------------------------------------------------------------

Headers == [mac_key : WrapKeys, enc_key : WrapKeys, iv : IvBytes]
Messages == {BytesOf("key", k, KeySize) : k \in Keys}

omac(mac_key, data) == BytesOf("omac", <<mac_key, data>>, MacSize)

\* CTR-ACPKM without sections: its own inverse.
ctr(enc_key, iv, in) == XorBytes(in, BytesOf("stream", <<enc_key, iv>>, Len(in)))

\* Mutant of Exported: the iv is not authenticated.
Exported_NoIv(header, k) == ctr(header.enc_key, header.iv, k \o omac(header.mac_key, k))

\* The 48 bytes kexp15 writes.
Exported(header, k) ==
    ctr(header.enc_key, header.iv, k \o omac(header.mac_key, header.iv \o k))

Plain(header, in) == ctr(header.enc_key, header.iv, in)

\* Does kimp15 return 0?
Authentic(header, in) ==
    omac(header.mac_key, header.iv \o First(Plain(header, in), KeySize))
        = Last(Plain(header, in), MacSize)

\* Mutant of Imported: the key is written before it is checked.
Imported_Early(header, in, buf) == First(Plain(header, in), KeySize)

\* Mutant of Imported: the key and the MAC are both written.
Imported_WithMac(header, in, buf) == IF Authentic(header, in) THEN Plain(header, in) ELSE buf

\* The key buffer after kimp15.
Imported(header, in, buf) ==
    IF Authentic(header, in) THEN First(Plain(header, in), KeySize) ELSE buf

-----------------------------------------------------------------------------

Old == BytesOf("old", 0, KeySize)

\* Between two exchanges nothing of the last one is left.
NoCall == CHOOSE s \in [header : Headers, msg : Messages] : TRUE
NoBox == [header |-> NoCall.header, box |-> Zeros(KeySize + MacSize)]

Init ==
    /\ sent = NoCall
    /\ wire = NoBox
    /\ given = NoBox
    /\ verdict = "idle"
    /\ key = Old

kuznyechik_kexp15(header, k) ==
    /\ verdict = "idle"
    /\ sent' = [header |-> header, msg |-> k]
    /\ wire' = [header |-> header, box |-> Exported(header, k)]
    /\ given' = wire'
    /\ verdict' = "sent"
    /\ UNCHANGED key

\* What arrives has a wrong byte or two, or is opened with other keys or
\* another iv.
Flip(box, p, e) == [box EXCEPT ![p] = Xor(@, {Atom("error", e, 0)})]

Arrive ==
    /\ verdict = "sent"
    /\ \/ \E p, q \in 1 .. KeySize + MacSize, e \in {1, 2} :
            given' = [wire EXCEPT !.box = Flip(Flip(@, p, 1), q, e)]
       \/ \E header \in Headers : given' = [wire EXCEPT !.header = header]
    /\ UNCHANGED <<sent, wire, verdict, key>>

kuznyechik_kimp15 ==
    /\ verdict = "sent"
    /\ key' = Imported(given.header, given.box, key)
    /\ verdict' = IF Authentic(given.header, given.box) THEN "accepted" ELSE "rejected"
    /\ UNCHANGED <<sent, wire, given>>

Finish ==
    /\ verdict \in {"accepted", "rejected"}
    /\ sent' = NoCall
    /\ wire' = NoBox
    /\ given' = NoBox
    /\ verdict' = "idle"
    /\ key' = Old

Next ==
    \/ \E header \in Headers, k \in Messages : kuznyechik_kexp15(header, k)
    \/ Arrive
    \/ kuznyechik_kimp15
    \/ Finish

Spec == Init /\ [][Next]_vars

-----------------------------------------------------------------------------

\* Type invariant: kimp15 writes a key and nothing behind it.
TypeOK ==
    /\ sent \in [header : Headers, msg : Messages]
    /\ wire.header \in Headers /\ given.header \in Headers
    /\ Len(wire.box) = KeySize + MacSize
    /\ Len(key) = KeySize
    /\ verdict \in {"idle", "sent", "accepted", "rejected"}

\* Unless kimp15 returns 0 the caller's key stays what it was.
KeyOnlyIfAuthentic == verdict # "accepted" => key = Old

\* The reference, RFC 9189 section 8.2.1, byte by byte.
RefBox(header, k) ==
    LET mac == [p \in 1 .. MacSize |-> {Atom("omac", <<header.mac_key, header.iv \o k>>, p)}]
        in == k \o mac
    IN  [p \in 1 .. KeySize + MacSize |->
            Xor(in[p], {Atom("stream", <<header.enc_key, header.iv>>, p)})]

=============================================================================
