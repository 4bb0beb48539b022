------------------------------ MODULE CtrAcpkm ------------------------------
(***************************************************************************)
(* kuznyechik_ctr_acpkm of src/generic/gost_tls_generic.c: counter mode    *)
(* with a key that is replaced after every section of the text, one action *)
(* per turn of its loop.                                                   *)
(*                                                                         *)
(* The cipher is symbolic.  Key number n is what acpkm_next has made of    *)
(* the caller's key in n calls; a byte of key stream is known by the key,  *)
(* the counter block and the place in the block it comes from.             *)
(***************************************************************************)
EXTENDS Integers, Sequences

CONSTANTS
    BlockSize,      \* bytes in a block, 16
    CtrSize,        \* bytes in the counter block, 16
    IvSize,         \* bytes of it taken from the iv, 8
    Radix,          \* values of a byte, 256
    Sections,       \* the section sizes they use, 0 for none
    MaxLen          \* bound: bytes of text in one call

ASSUME SizeAssumption ==
    /\ BlockSize \in Nat \ {0} /\ Radix \in Nat \ {0, 1}
    /\ CtrSize \in Nat /\ IvSize \in 0 .. CtrSize
    /\ Sections \subseteq Nat /\ MaxLen \in Nat

CtrIndex == 0 .. CtrSize - 1
Counters == [CtrIndex -> 0 .. Radix - 1]

\* The callers use any iv.
Ivs == [0 .. IvSize - 1 -> 0 .. Radix - 1]

VARIABLES
    active,                 \* inside a call?
    len, iv, section_size,  \* its arguments
    key,                    \* the number of the key in ctx
    ctr, done,              \* the local variables
    out                     \* the key stream bytes that met the text so far

vars == <<active, len, iv, section_size, key, ctr, done, out>>

-----------------------------------------------------------------------------

\* Mutant of ctr_inc: the carry stays inside the last byte.
ctr_inc_NoCarry(c) == [c EXCEPT ![CtrSize - 1] = (@ + 1) % Radix]

\* Mutant of ctr_inc: the counter counts from the front.
ctr_inc_Front(c) ==
    [i \in CtrIndex |->
        IF \A j \in 0 .. i - 1 : c[j] = Radix - 1 THEN (c[i] + 1) % Radix ELSE c[i]]

\* A byte counts when all the bytes behind it have wrapped.
ctr_inc(c) ==
    [i \in CtrIndex |->
        IF \A j \in i + 1 .. CtrSize - 1 : c[j] = Radix - 1 THEN (c[i] + 1) % Radix ELSE c[i]]

acpkm_next(k) == k + 1

\* Mutant of Least: the last block is not cut to the rest of the text.
Least_Block(a, b) == b

Least(a, b) == IF a < b THEN a ELSE b

\* Mutant of Rekeys: the first section is one block longer.
Rekeys_Late == done > BlockSize /\ section_size # 0 /\ (done - BlockSize) % section_size = 0

\* Does this turn start a section?
Rekeys == done # 0 /\ section_size # 0 /\ done % section_size = 0

Init ==
    /\ active = FALSE
    /\ len = 0 /\ section_size = 0
    /\ iv \in Ivs
    /\ key = 0
    /\ ctr = [i \in CtrIndex |-> 0]
    /\ done = 0
    /\ out = <<>>

kuznyechik_ctr_acpkm(n, v, s) ==
    /\ ~active
    /\ active' = TRUE
    /\ len' = n /\ iv' = v /\ section_size' = s
    /\ key' = 0
    /\ ctr' = [i \in CtrIndex |-> IF i < IvSize THEN v[i] ELSE 0]
    /\ done' = 0
    /\ out' = <<>>

\* One turn of the loop.
Turn ==
    /\ active /\ done < len
    /\ LET take == Least(len - done, BlockSize)
       IN  /\ key' = IF Rekeys THEN acpkm_next(key) ELSE key
           /\ out' = out \o [i \in 1 .. take |-> [key |-> key', ctr |-> ctr, at |-> i - 1]]
           /\ done' = done + take
    /\ ctr' = ctr_inc(ctr)
    /\ UNCHANGED <<active, len, iv, section_size>>

Return ==
    /\ active /\ done >= len
    /\ active' = FALSE
    /\ UNCHANGED <<len, iv, section_size, key, ctr, done, out>>

Next ==
    \/ \E n \in 0 .. MaxLen, v \in Ivs, s \in Sections : kuznyechik_ctr_acpkm(n, v, s)
    \/ Turn
    \/ Return

Spec == Init /\ [][Next]_vars

-----------------------------------------------------------------------------

StreamByte == [key : Nat, ctr : Counters, at : 0 .. BlockSize - 1]

\* Type invariant: the loop never writes behind the end of the text, and works
\* on whole blocks up to the last.
TypeOK ==
    /\ active \in BOOLEAN
    /\ len \in 0 .. MaxLen /\ done \in 0 .. len
    /\ iv \in Ivs
    /\ section_size \in Sections \cup {0}
    /\ key \in Nat
    /\ ctr \in Counters
    /\ out \in Seq(StreamByte)
    /\ Len(out) = done
    /\ done = len \/ done % BlockSize = 0

\* Byte i of the text (from 1) is in section (i - 1) \div section_size and is
\* encrypted under the key of that number: no key is used for more than one
\* section, and none is skipped.  The loop looks for the end of a section only
\* between two blocks, so this holds for sections of whole blocks.
SectionsRekeyed ==
    section_size % BlockSize = 0 =>
        \A i \in 1 .. Len(out) :
            out[i].key = IF section_size = 0 THEN 0 ELSE (i - 1) \div section_size

\* No byte of key stream meets two bytes of the text, rekeying or not.
NoStreamReuse ==
    \A i, j \in 1 .. Len(out) : i # j => out[i] # out[j]

\* In how many counts n bytes come round: Radix to the power n.
Period[n \in 0 .. CtrSize] == IF n = 0 THEN 1 ELSE Radix * Period[n - 1]

\* A text too short to count past the half of the counter block that the iv
\* leaves free keeps the iv in the other half: the key streams of different ivs
\* have no counter block in common.
IvSeparates ==
    done <= BlockSize * Period[CtrSize - IvSize] =>
        \A i \in 1 .. Len(out), k \in 0 .. IvSize - 1 : out[i].ctr[k] = iv[k]

=============================================================================
