--------------------------- MODULE SymbolicBytes ----------------------------
(***************************************************************************)
(* Bytes with an exclusive or, for the ciphers and authenticated modes.    *)
(*                                                                         *)
(* A byte is the set of the atoms it is the exclusive or of: a byte of a   *)
(* message, of a key stream, of a tag, a bit error.  Xor is the symmetric  *)
(* difference, so adding the same key stream twice gives the byte back,    *)
(* and adding two different ones never does.                               *)
(***************************************************************************)
EXTENDS Integers, Sequences

\* The i-th atom of a kind made from x.
Atom(kind, x, i) == <<kind, x, i>>

Zero == {}
Xor(a, b) == (a \ b) \cup (b \ a)

XorBytes(s, t) == [i \in 1 .. Len(s) |-> Xor(s[i], t[i])]
Zeros(n) == [i \in 1 .. n |-> Zero]

\* The n bytes of what is made from x.
BytesOf(kind, x, n) == [i \in 1 .. n |-> {Atom(kind, x, i)}]

\* A string of bytes that are made of atoms of one kind only: what a caller has
\* made has nothing to do with the key stream or with a tag.
MadeOf(kind, s) ==
    /\ s \in Seq({s[i] : i \in DOMAIN s})
    /\ \A i \in DOMAIN s : \A atom \in s[i] : atom[1] = kind

\* A string of bytes with no atom of a kind: it is not computed from what that
\* kind stands for.
FreeOf(kind, s) ==
    /\ s \in Seq({s[i] : i \in DOMAIN s})
    /\ \A i \in DOMAIN s : \A atom \in s[i] : atom[1] # kind

\* Bytes missing up to a whole number of blocks of n.
Missing(len, n) == IF len % n = 0 THEN 0 ELSE n - (len % n)

First(s, n) == SubSeq(s, 1, n)
Last(s, n) == SubSeq(s, Len(s) - n + 1, Len(s))

\* memcpy(buf, s, Len(s))
Overwrite(buf, s) == [i \in 1 .. Len(buf) |-> IF i <= Len(s) THEN s[i] ELSE buf[i]]

=============================================================================
