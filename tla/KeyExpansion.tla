---------------------------- MODULE KeyExpansion ----------------------------
(***************************************************************************)
(* The functions of src/generic/gost_tls_generic.c that stretch a secret:  *)
(* gost_kdf_tree_256, gost_tls_prf_256 and gost_tls13_hkdf_expand.  Each   *)
(* is a loop over HMAC, one action per turn of it.                         *)
(*                                                                         *)
(* HMAC under the caller's secret is symbolic, a function of the bytes     *)
(* authenticated (see HmacStreebog); a byte of a counter or of a length is *)
(* its value.                                                              *)
(***************************************************************************)
EXTENDS SymbolicBytes

CONSTANTS
    HashLen,    \* bytes in a MAC, 32
    ByteRadix,  \* values of a byte, 256
    MaxBlocks,  \* 255
    InBuf,      \* bytes in in_buf of gost_tls13_hkdf_expand, 512
    MaxSeed,    \* 255
    Labels,     \* the labels (the info of HKDF) the callers use
    Seeds,      \* the seeds they use
    MaxOut      \* bound: bytes asked for in one call

\* Labels and seeds are strings, and no MAC of the secret is a byte of them.
SizeAssumption ==
    /\ \A s \in Labels \cup Seeds :
          /\ s \in Seq({s[k] : k \in DOMAIN s})
          /\ \A k \in DOMAIN s : \A e \in s[k] : e[1] # "hmac"
    /\ HashLen \in Nat \ {0}
    /\ ByteRadix \in Nat \ {0, 1}
    /\ MaxBlocks = ByteRadix - 1
    /\ {InBuf, MaxSeed, MaxOut} \subseteq Nat

VARIABLES
    fn,             \* the function that runs or ran last
    active,         \* inside a call?
    len, label, seed,   \* its arguments
    done, counter,  \* the local variables
    chain,          \* t of HKDF, a of the PRF
    input,          \* what was authenticated last
    out,            \* the caller's buffer
    ret             \* what the last call returned

vars == <<fn, active, len, label, seed, done, counter, chain, input, out, ret>>

-----------------------------------------------------------------------------

hmac(data) == BytesOf("hmac", data, HashLen)
Byte(n) == {Atom("byte", n, 0)}

\* A number as big-endian bytes, without leading zeros.
put_be(value) ==
    LET digits[v \in 0 .. value] ==
          IF v < ByteRadix THEN << Byte(v) >>
          ELSE Append(digits[v \div ByteRadix], Byte(v % ByteRadix))
    IN  digits[value]

BufSize == MaxOut + 1
Stale == BytesOf("stale", 0, BufSize)

KdfTreeRefused(n, s) == n = 0 \/ n % HashLen # 0 \/ n \div HashLen > MaxBlocks \/ Len(s) > MaxSeed

\* Mutant of HkdfRefused: the number of blocks is not limited.
HkdfRefused_NoLimit(n) == FALSE

HkdfRefused(n) == n > MaxBlocks * HashLen

\* The checks before the loop: the PRF has none.
Refused(f, n, s) ==
    \/ f = "kdf_tree" /\ KdfTreeRefused(n, s)
    \/ f = "hkdf" /\ HkdfRefused(n)

\* What the MAC of the next block is taken of.
KdfTreeInput == << Byte(counter) >> \o label \o << Byte(0) >> \o seed \o put_be(8 * len)
HkdfInput == (IF counter = 1 THEN <<>> ELSE chain) \o label \o << Byte(counter) >>
PrfInput == chain \o label \o seed

Input == CASE fn = "kdf_tree" -> KdfTreeInput
           [] fn = "hkdf" -> HkdfInput
           [] fn = "prf" -> PrfInput

\* Mutant of Fits: the chaining value is forgotten in the sum.
Fits_NoChain == Len(label) + 1 <= InBuf

\* Mutant of Fits: in_buf holds all the blocks so far.
Fits_AllBlocks == (counter - 1) * HashLen + Len(label) + 1 <= InBuf

\* The check inside the loop of HKDF.
Fits == (IF counter = 1 THEN 0 ELSE HashLen) + Len(label) + 1 <= InBuf

Init ==
    /\ fn = "prf" /\ active = FALSE
    /\ len = 0 /\ label = <<>> /\ seed = <<>>
    /\ done = 0 /\ counter = 1 /\ chain = <<>> /\ input = <<>>
    /\ out = Stale
    /\ ret = 0

Call(f, n, l, s) ==
    /\ ~active
    /\ fn' = f /\ len' = n /\ label' = l /\ seed' = s
    /\ active' = ~Refused(f, n, s)
    /\ ret' = IF Refused(f, n, s) THEN -1 ELSE 0
    /\ done' = 0 /\ counter' = 1
    /\ chain' = IF f = "prf" THEN hmac(l \o s) ELSE <<>>
    /\ input' = IF f = "prf" THEN l \o s ELSE <<>>
    /\ out' = Stale

Take == IF len - done < HashLen THEN len - done ELSE HashLen

\* The buffer with the next block in it.
Written(block) ==
    [i \in 1 .. BufSize |-> IF i \in done + 1 .. done + Take THEN block[i - done] ELSE out[i]]

\* Mutant of PrfChained: the PRF goes on from the block it has just written.
PrfChained_Block == hmac(Input)

\* a of the PRF
PrfChained == hmac(chain)

\* t of HKDF
HkdfChained == hmac(Input)

\* The chaining value after the turn: KDF_TREE has none.
Chained == CASE fn = "kdf_tree" -> chain
             [] fn = "hkdf" -> HkdfChained
             [] fn = "prf" -> PrfChained

\* One turn of the loop.
Turn ==
    /\ active /\ done < len
    /\ fn = "hkdf" => Fits
    /\ input' = Input
    /\ out' = Written(hmac(Input))
    /\ chain' = Chained
    /\ done' = done + Take
    /\ counter' = (counter + 1) % ByteRadix
    /\ UNCHANGED <<fn, active, len, label, seed, ret>>

\* The error return from inside the loop of HKDF: what was written stays.
GiveUp ==
    /\ active /\ done < len
    /\ fn = "hkdf" /\ ~Fits
    /\ active' = FALSE
    /\ ret' = -1
    /\ UNCHANGED <<fn, len, label, seed, done, counter, chain, input, out>>

Return ==
    /\ active /\ done >= len
    /\ active' = FALSE
    /\ UNCHANGED <<fn, len, label, seed, done, counter, chain, input, out, ret>>

Next ==
    \/ \E f \in {"kdf_tree", "prf", "hkdf"}, n \in 0 .. MaxOut, l \in Labels, s \in Seeds :
            Call(f, n, l, s)
    \/ Turn
    \/ GiveUp
    \/ Return

Spec == Init /\ [][Next]_vars

-----------------------------------------------------------------------------
(***************************************************************************)
(* The references: K(i) of R 50.1.113-2016 section 4.5, P_hash of RFC 5246 *)
(* section 5 and T(i) of RFC 5869 section 2.3, each block on its own.      *)
(***************************************************************************)
A(i) ==
    LET a[j \in 0 .. i] == IF j = 0 THEN label \o seed ELSE hmac(a[j - 1])
    IN  a[i]

T(i) ==
    LET t[j \in 0 .. i] ==
          IF j = 0 THEN <<>> ELSE hmac(t[j - 1] \o label \o << {Atom("byte", j, 0)} >>)
    IN  t[i]

ReferenceBlock(i) ==
    CASE fn = "kdf_tree" -> hmac(<< {Atom("byte", i, 0)} >> \o label \o << Byte(0) >>
                                   \o seed \o put_be(8 * len))
      [] fn = "hkdf" -> T(i)
      [] fn = "prf" -> hmac(A(i) \o label \o seed)

Reference(p) == ReferenceBlock((p - 1) \div HashLen + 1)[((p - 1) % HashLen) + 1]

\* Type invariant: the loops write no more than was asked for, and the bytes
\* HKDF puts together fit its buffer.
TypeOK ==
    /\ active \in BOOLEAN /\ ret \in {0, -1}
    /\ len \in 0 .. MaxOut /\ done \in 0 .. len
    /\ counter \in 0 .. ByteRadix - 1
    /\ fn = "hkdf" => Len(input) <= InBuf
    /\ Len(out) = BufSize

\* At every turn the buffer holds as much of the reference output as is done
\* and is untouched behind; a call that returns 0 has done all of it.
OutputIsPrefix ==
    /\ \A p \in 1 .. BufSize : out[p] = IF p <= done THEN Reference(p) ELSE Stale[p]
    /\ ~active /\ ret = 0 => done = len

\* No two blocks of the output are the same: the counter, a single byte, never
\* takes a value twice in a call.
BlocksDiffer ==
    \A i, j \in 1 .. done \div HashLen :
        i # j => out[i * HashLen] # out[j * HashLen]

\* A call that fails leaves the caller's buffer as it was, but for one case:
\* an info that fits in_buf in the first turn of HKDF and not in the second
\* leaves the first block behind.
FailureLeavesOneBlock ==
    ret = -1 => done = 0 \/ (fn = "hkdf" /\ done = HashLen /\ Len(label) + 1 <= InBuf)

=============================================================================
