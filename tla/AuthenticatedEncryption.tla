----------------------- MODULE AuthenticatedEncryption ----------------------
(***************************************************************************)
(* What the authenticated modes of libpogost (ChaCha20-Poly1305, MGM,      *)
(* KExp15) promise to a sender and a receiver that share a key.            *)
(*                                                                         *)
(* Whatever reaches the receiver, open accepts it exactly when it is the   *)
(* header and the box of the last seal, and what it then gives out is the  *)
(* message of that seal.                                                   *)
(***************************************************************************)
EXTENDS Integers, Sequences

CONSTANTS
    Headers,        \* what is authenticated and not sealed: nonce, data
    Messages,       \* sequences of bytes
    Box(_, _)       \* Box(header, message): the sealed message

VARIABLES
    sent,           \* the arguments of the last seal
    given,          \* what the receiver passes to open
    verdict,        \* "idle", "sent", then "accepted" or "rejected"
    plain           \* the receiver's output buffer

vars == <<sent, given, verdict, plain>>

Sent == [header : Headers, msg : Messages]
SealedBy(s) == [header |-> s.header, box |-> Box(s.header, s.msg)]

Init == verdict = "idle"

Seal ==
    /\ verdict = "idle"
    /\ sent' \in Sent
    /\ given' = SealedBy(sent')
    /\ verdict' = "sent"

\* Something else reaches the receiver.
Arrive ==
    /\ verdict = "sent"
    /\ UNCHANGED <<sent, verdict, plain>>

Open ==
    /\ verdict = "sent"
    /\ verdict' = IF given = SealedBy(sent) THEN "accepted" ELSE "rejected"
    /\ verdict' = "accepted" => SubSeq(plain', 1, Len(sent.msg)) = sent.msg
    /\ UNCHANGED <<sent, given>>

\* The receiver is done with its buffer.
Finish ==
    /\ verdict \in {"accepted", "rejected"}
    /\ verdict' = "idle"

Next == Seal \/ Arrive \/ Open \/ Finish

Spec == Init /\ [][Next]_vars

=============================================================================
