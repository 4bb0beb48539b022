---------------------------- MODULE TlsRecordKeys ---------------------------
(***************************************************************************)
(* What src/generic/gost_tls_generic.c gives a TLS record layer for the    *)
(* record of a sequence number: its key (the three TLSTREE functions) and  *)
(* its nonce (gost_tls13_make_nonce).                                      *)
(*                                                                         *)
(* A number of 64 bits is the set of the positions of its ones, a mask is  *)
(* a set of positions, and & is the intersection.  A derived key is known  *)
(* by the key, the level and the seed it was derived from.                 *)
(***************************************************************************)
EXTENDS Integers

CONSTANTS
    Seqs,       \* the sequence numbers the callers use
    Ivs         \* the ivs they use, sets of positions in 128 bits

Bits64 == 0 .. 63

NumberAssumption == Seqs \subseteq SUBSET Bits64 /\ Ivs \subseteq SUBSET (0 .. 127)

VARIABLES
    tree,       \* the TLSTREE function the connection uses
    iv,         \* its iv
    seq, key, nonce,    \* the last record
    other       \* the sequence number, the key and the nonce of another record

vars == <<tree, iv, seq, key, nonce, other>>

-----------------------------------------------------------------------------

\* Mutant of Reversed: the bytes are read and written in the machine's order.
Reversed_Not(x) == x

\* The bytes of a number in the opposite order: get_le64 of a number that was
\* written big-endian, and put_le64 back.
Reversed(x) == {8 * (7 - (b \div 8)) + (b % 8) : b \in x}

gost_kdf_tree_256(k, label, seed) == <<k, label, seed>>

\* The masks of the three levels.
Mask(t, level) ==
    CASE t = "tls12" -> << 0 .. 31, (0 .. 39) \cup (43 .. 47), (0 .. 55) \cup (62 .. 63) >>[level]
      [] t = "mgm_l" -> << 59 .. 63, 36 .. 63, 13 .. 63 >>[level]
      [] t = "mgm_s" -> << 29 .. 63, 16 .. 63, 3 .. 63 >>[level]

\* The seed of a level, as a big-endian number.
Seed(t, level, s) ==
    IF t = "tls12" THEN Reversed(Reversed(s) \cap Mask(t, level)) ELSE s \cap Mask(t, level)

RecordKey(t, s) ==
    gost_kdf_tree_256(
        gost_kdf_tree_256(
            gost_kdf_tree_256("master", "level1", Seed(t, 1, s)),
            "level2", Seed(t, 2, s)),
        "level3", Seed(t, 3, s))

Xor(x, y) == (x \ y) \cup (y \ x)

\* Mutant: the first bit of the second half is cleared.
gost_tls13_make_nonce_Half(v, s) == Xor(v, s) \ {63}

\* The first bit is MGM's own.
gost_tls13_make_nonce(v, s) == Xor(v, s) \ {127}

Init ==
    /\ tree \in {"tls12", "mgm_l", "mgm_s"}
    /\ iv \in Ivs
    /\ seq \in Seqs
    /\ key = RecordKey(tree, seq)
    /\ nonce = gost_tls13_make_nonce(iv, seq)
    /\ other = [seq |-> seq, key |-> key, nonce |-> nonce]

\* A record, to be compared with the one remembered.
Record(s) ==
    /\ other.seq = seq
    /\ seq' = s
    /\ key' = RecordKey(tree, s)
    /\ nonce' = gost_tls13_make_nonce(iv, s)
    /\ UNCHANGED <<tree, iv, other>>

Remember ==
    /\ other' = [seq |-> seq, key |-> key, nonce |-> nonce]
    /\ UNCHANGED <<tree, iv, seq, key, nonce>>

Next ==
    \/ \E s \in Seqs : Record(s)
    \/ Remember

Spec == Init /\ [][Next]_vars

-----------------------------------------------------------------------------

\* Type invariant: the sequence number is added to the second half of the
\* nonce, and MGM finds the first bit free.
TypeOK ==
    /\ tree \in {"tls12", "mgm_l", "mgm_s"}
    /\ iv \in Ivs /\ seq \in Seqs /\ other.seq \in Seqs
    /\ nonce \in SUBSET (0 .. 126)

\* The records of a key: 2^6, 2^13 and 2^3 (RFC 9189 section 8.1, RFC 9367
\* section 4.1).
SectionBits == CASE tree = "tls12" -> 6 [] tree = "mgm_l" -> 13 [] tree = "mgm_s" -> 3

\* Two records have the same key exactly when their numbers differ in the bits
\* that count the records of a key: no key is used longer, and none is made
\* when the key need not change.
KeyPerSection ==
    (key = other.key) <=> \A b \in SectionBits .. 63 : (b \in seq <=> b \in other.seq)

\* No two records of a connection have the same nonce.
NonceDiffers == seq # other.seq => nonce # other.nonce

=============================================================================
