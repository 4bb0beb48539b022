------------------------------ MODULE HkdfLabel -----------------------------
(***************************************************************************)
(* gost_tls13_hkdf_expand_label of src/generic/gost_tls_generic.c: three   *)
(* lengths, a label and a context are packed into the info of              *)
(* gost_tls13_hkdf_expand (see KeyExpansion).                              *)
(***************************************************************************)
EXTENDS Integers, Sequences

CONSTANTS
    ByteRadix,      \* values of a byte, 256
    Prefix,         \* "tls13 "
    BufSize,        \* bytes in hkdf_label and in in_buf, 512
    HashLen,        \* bytes in a MAC, 32
    Strings,        \* the labels and contexts the callers use
    MaxOut          \* bound: bytes asked for

\* The lengths HKDF grants fit the two bytes that say how many bytes are asked for.
SizeAssumption ==
    /\ ByteRadix \in Nat \ {0, 1} /\ {BufSize, HashLen, MaxOut} \subseteq Nat
    /\ (ByteRadix - 1) * HashLen < ByteRadix * ByteRadix
    /\ Prefix \in Seq(0 .. ByteRadix - 1)
    /\ Strings \subseteq Seq(0 .. ByteRadix - 1)

VARIABLES
    call,       \* the arguments of the last call
    ret,        \* what it returned
    info,       \* hkdf_label, as far as it is filled
    other       \* the arguments, the result and the info of another call

vars == <<call, ret, info, other>>

-----------------------------------------------------------------------------

Calls == [len : 0 .. MaxOut, label : Strings, context : Strings]

put_be16(v) == <<(v \div ByteRadix) % ByteRadix, v % ByteRadix>>

\* Mutant of Packed: the length of the label is not in it.
Packed_NoLength(c) ==
    put_be16(c.len) \o Prefix \o c.label \o << Len(c.context) % ByteRadix >> \o c.context

Packed(c) ==
    put_be16(c.len)
        \o << (Len(Prefix) + Len(c.label)) % ByteRadix >> \o Prefix \o c.label
        \o << Len(c.context) % ByteRadix >> \o c.context

\* Mutant of Packs: the two lengths are each checked, their sum is not.
Packs_NoSum(c) == Len(Prefix) + Len(c.label) < ByteRadix /\ Len(c.context) < ByteRadix

\* The checks before the packing.
Packs(c) ==
    /\ Len(Prefix) + Len(c.label) < ByteRadix
    /\ Len(c.context) < ByteRadix
    /\ 2 + 1 + (Len(Prefix) + Len(c.label)) + 1 + Len(c.context) <= BufSize

\* What gost_tls13_hkdf_expand returns for this many bytes and this info.
hkdf_expand(len, i) ==
    IF len > (ByteRadix - 1) * HashLen \/ (len > 0 /\ Len(i) + 1 > BufSize)
         \/ (len > HashLen /\ HashLen + Len(i) + 1 > BufSize)
    THEN -1 ELSE 0

Result(c) ==
    IF Packs(c) THEN [ret |-> hkdf_expand(c.len, Packed(c)), info |-> Packed(c)]
    ELSE [ret |-> -1, info |-> <<>>]

Init ==
    /\ call \in Calls
    /\ ret = Result(call).ret
    /\ info = Result(call).info
    /\ other = [call |-> call, ret |-> ret, info |-> info]

\* A call, to be compared with the one remembered.
gost_tls13_hkdf_expand_label(c) ==
    /\ other.call = call
    /\ call' = c
    /\ ret' = Result(c).ret
    /\ info' = Result(c).info
    /\ UNCHANGED other

Remember ==
    /\ other' = [call |-> call, ret |-> ret, info |-> info]
    /\ UNCHANGED <<call, ret, info>>

Next ==
    \/ \E c \in Calls : gost_tls13_hkdf_expand_label(c)
    \/ Remember

Spec == Init /\ [][Next]_vars

-----------------------------------------------------------------------------

\* Type invariant: what is packed fits hkdf_label.
TypeOK ==
    /\ call \in Calls /\ other.call \in Calls
    /\ ret \in {0, -1}
    /\ Len(info) <= BufSize

\* Two calls that succeed hand HKDF the same info only if they ask for as many
\* bytes, with the same label and the same context: keys for different purposes
\* are different keys.
LabelSeparates ==
    ret = 0 /\ other.ret = 0 /\ info = other.info => call = other.call

=============================================================================
