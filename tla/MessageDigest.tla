--------------------------- MODULE MessageDigest ----------------------------
(***************************************************************************)
(* What a streaming digest (Streebog, GOST R 34.11-94, SHA-1, BLAKE2s) or  *)
(* one-time authenticator (Poly1305) of libpogost promises to its caller.  *)
(*                                                                         *)
(* Between an init and the next final the context is nothing but the       *)
(* number of bytes absorbed: the result depends on the parameters of init  *)
(* and on the concatenation of the data, not on how the caller cut the     *)
(* data into updates, nor on what the context was used for before.  A      *)
(* context that has been finished promises nothing until the next init.    *)
(***************************************************************************)
EXTENDS Integers

CONSTANTS
    Params,     \* what init is called with: the digest size, the key
    Digest      \* Digest[p][n]: the digest of the first n bytes of the stream

VARIABLES
    phase,      \* "absorbing" from init to final, "spent" after final
    param,      \* the parameters of the last init
    taken,      \* bytes passed to update since the last init
    out         \* the result of the last final

vars == <<phase, param, taken, out>>

Init ==
    /\ phase = "absorbing"
    /\ param \in Params
    /\ taken = 0

Start ==
    /\ phase' = "absorbing"
    /\ param' \in Params
    /\ taken' = 0
    /\ UNCHANGED out

Absorb ==
    /\ phase = "absorbing"
    /\ taken' >= taken
    /\ UNCHANGED <<phase, param, out>>

Finish ==
    /\ phase = "absorbing"
    /\ phase' = "spent"
    /\ out' = Digest[param][taken]
    /\ UNCHANGED <<param, taken>>

\* The caller goes on with a finished context: no promise on out.
Misuse ==
    /\ phase = "spent"
    /\ UNCHANGED <<phase, param>>

Next == Start \/ Absorb \/ Finish \/ Misuse

Spec == Init /\ [][Next]_vars

=============================================================================
