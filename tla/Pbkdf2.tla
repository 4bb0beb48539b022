------------------------------- MODULE Pbkdf2 -------------------------------
(***************************************************************************)
(* pbkdf2_streebog512 of src/generic/pbkdf2_generic.c: a loop over the     *)
(* blocks of the output, and in each a chain of MACs that are added up.    *)
(* One action per turn of either loop.                                     *)
(*                                                                         *)
(* HMAC under the password is symbolic, a function of the bytes            *)
(* authenticated (see HmacStreebog).                                       *)
(***************************************************************************)
EXTENDS SymbolicBytes

CONSTANTS
    HashLen,    \* bytes in a MAC, 64
    ByteRadix,  \* values of a byte, 256
    BeSize,     \* bytes in the block number, 4
    Salts,      \* the salts the callers use
    MaxIter,    \* bound: iterations asked for
    MaxOut      \* bound: bytes asked for

SizeAssumption ==
    /\ {HashLen, BeSize, MaxIter} \subseteq Nat \ {0} /\ ByteRadix \in Nat \ {0, 1}
    /\ MaxOut \in Nat
    /\ \A s \in Salts : s \in Seq({s[k] : k \in DOMAIN s})

VARIABLES
    at,             \* "idle", "block" or "chain": which loop is at its head
    out_len, salt, iter,    \* the arguments
    block, off, i,  \* the local variables
    u, t,
    out,            \* the caller's buffer
    ret             \* what the last call returned

vars == <<at, out_len, salt, iter, block, off, i, u, t, out, ret>>

-----------------------------------------------------------------------------

hmac(data) == BytesOf("hmac", data, HashLen)

\* ByteRadix to the power n
Power[n \in 0 .. BeSize] == IF n = 0 THEN 1 ELSE ByteRadix * Power[n - 1]

BlockRadix == Power[BeSize]     \* 2^32 in the code

\* Mutant of be: the last byte only.
be_Byte(n) == [k \in 1 .. BeSize |->
    IF k = BeSize THEN {Atom("byte", n % ByteRadix, 0)} ELSE {Atom("byte", 0, 0)}]

\* The block number, the most significant byte first.
be(n) == [k \in 1 .. BeSize |-> {Atom("byte", (n \div Power[BeSize - k]) % ByteRadix, 0)}]

BufSize == MaxOut + 1
Stale == BytesOf("stale", 0, BufSize)

\* The checks at the start: null is whether a pointer is null and its length is not.
Refused(null, n, c) == null \/ c = 0 \/ n > (BlockRadix - 1) * HashLen

Init ==
    /\ at = "idle"
    /\ out_len = 0 /\ salt = <<>> /\ iter = 1
    /\ block = 1 /\ off = 0 /\ i = 1
    /\ u = <<>> /\ t = <<>>
    /\ out = Stale
    /\ ret = 0

pbkdf2_streebog512(null, n, s, c) ==
    /\ at = "idle"
    /\ out_len' = n /\ salt' = s /\ iter' = c
    /\ at' = IF Refused(null, n, c) THEN "idle" ELSE "block"
    /\ ret' = IF Refused(null, n, c) THEN -1 ELSE 0
    /\ block' = 1 /\ off' = 0 /\ i' = 1
    /\ u' = <<>> /\ t' = <<>>
    /\ out' = Stale

\* The first MAC of a block.
FirstTurn ==
    /\ at = "block" /\ off < out_len
    /\ u' = hmac(salt \o be(block))
    /\ t' = u'
    /\ i' = 1
    /\ at' = "chain"
    /\ UNCHANGED <<out_len, salt, iter, block, off, out, ret>>

\* Mutant of ChainTurn: the MAC of the sum is taken, not that of the last MAC.
ChainTurn_Sum ==
    /\ at = "chain" /\ i < iter
    /\ u' = hmac(t)
    /\ t' = XorBytes(t, u')
    /\ i' = i + 1
    /\ UNCHANGED <<at, out_len, salt, iter, block, off, out, ret>>

\* One turn of the inner loop.
ChainTurn ==
    /\ at = "chain" /\ i < iter
    /\ u' = hmac(u)
    /\ t' = XorBytes(t, u')
    /\ i' = i + 1
    /\ UNCHANGED <<at, out_len, salt, iter, block, off, out, ret>>

\* Mutant of Room: the last block is not cut.
Room_Block == HashLen

Room == IF out_len - off > HashLen THEN HashLen ELSE out_len - off

\* The block is written, cut to what is left of the output.
EndBlock ==
    /\ at = "chain" /\ i >= iter
    /\ out' = [p \in 1 .. BufSize |-> IF p \in off + 1 .. off + Room THEN t[p - off] ELSE out[p]]
    /\ off' = off + Room
    /\ block' = (block + 1) % BlockRadix
    /\ at' = "block"
    /\ UNCHANGED <<out_len, salt, iter, i, u, t, ret>>

Return ==
    /\ at = "block" /\ off >= out_len
    /\ at' = "idle"
    /\ u' = <<>> /\ t' = <<>>
    /\ UNCHANGED <<out_len, salt, iter, block, off, i, out, ret>>

Next ==
    \/ \E null \in BOOLEAN, n \in 0 .. MaxOut, s \in Salts, c \in 0 .. MaxIter :
            pbkdf2_streebog512(null, n, s, c)
    \/ FirstTurn
    \/ ChainTurn
    \/ EndBlock
    \/ Return

Spec == Init /\ [][Next]_vars

-----------------------------------------------------------------------------
(***************************************************************************)
(* The reference, RFC 8018 section 5.2: block n is the sum of the first    *)
(* iter of U_1 = PRF(salt | n), U_k = PRF(U_k-1).                          *)
(***************************************************************************)
Number(n) == [k \in 1 .. BeSize |-> {Atom("byte", (n \div Power[BeSize - k]) % ByteRadix, 0)}]

F(n) ==
    LET U[k \in 1 .. iter] == IF k = 1 THEN hmac(salt \o Number(n)) ELSE hmac(U[k - 1])
    IN  [p \in 1 .. HashLen |-> UNION {U[k][p] : k \in 1 .. iter}]

Reference(p) == F((p - 1) \div HashLen + 1)[((p - 1) % HashLen) + 1]

\* Type invariant: no byte is written behind the end of the output, and every
\* block number fits its four bytes.
TypeOK ==
    /\ at \in {"idle", "block", "chain"} /\ ret \in {0, -1}
    /\ out_len \in 0 .. MaxOut /\ salt \in Salts \cup {<<>>} /\ iter \in 0 .. MaxIter
    /\ off \in 0 .. out_len
    /\ block \in 0 .. BlockRadix - 1
    /\ at = "chain" => block > 0 /\ i \in 1 .. iter
    /\ Len(out) = BufSize

\* At every turn the buffer holds as much of the reference output as is done
\* and is untouched behind; a call that returns 0 has done all of it, one that
\* returns -1 nothing.
OutputIsPrefix ==
    /\ \A p \in 1 .. BufSize : out[p] = IF p <= off THEN Reference(p) ELSE Stale[p]
    /\ at = "idle" => off = IF ret = 0 THEN out_len ELSE 0

\* No two blocks of the output are the same: the block number does not wrap
\* within a call.
BlocksDiffer ==
    \A j, k \in 1 .. off \div HashLen : j # k => out[j * HashLen] # out[k * HashLen]

=============================================================================
