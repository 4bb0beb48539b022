------------------------ MODULE BufferedDigestsProofs -----------------------
(***************************************************************************)
(* Theorems about the five block buffers, for every block size, radix and  *)
(* bound: each represents, at every moment, the bytes fed to it, and what  *)
(* it returns is the digest of the concatenated updates.                   *)
(*                                                                         *)
(* The names of a component's lemmas and definitions begin with the name   *)
(* of its instance: Blake, Poly, Sha, Gost, Streebog.  Each part has three *)
(* lemmas: its invariant holds at first, is preserved by every call, and   *)
(* what final returns is the reference.  The last part joins them.         *)
(***************************************************************************)
EXTENDS BufferedDigests, SequenceTheorems, TLAPS

-----------------------------------------------------------------------------
(***************************************************************************)
(* BLAKE2s.                                                                *)
(***************************************************************************)

BlakeContexts == Blake!blake2s_ctx
BlakeEntries == [m : Blake!Buffers, t : Blake!Words \X Blake!Words, last : BOOLEAN]

\* Byte i (from 0) of the input: the key block, if there is a key, and the stream.
BlakeStreamByte(p, i) ==
    IF i >= Blake!Prefix(p) THEN i - Blake!Prefix(p) + 1 ELSE Blake!KeyBlock(p.keylen)[i]
BlakeStreamBlock(p, j) == [i \in Blake!Index |-> BlakeStreamByte(p, (j - 1) * BlakeBlock + i)]

\* The first k compressions, none of them the last.
BlakeLogged(p, k) ==
    [j \in 1 .. k |-> [m |-> BlakeStreamBlock(p, j), t |-> Blake!Split(j * BlakeBlock), last |-> FALSE]]

\* A context that has compressed the first k blocks.
BlakeChained(c, p, k) ==
    /\ c.h.iv = p /\ c.outlen = p.outlen /\ c.f = FALSE
    /\ c.t = Blake!Split(k * BlakeBlock)
    /\ c.h.log = BlakeLogged(p, k)

\* The words of a number of bytes.
LEMMA BlakeSplitType ==
    ASSUME Blake!RadixAssumption, NEW n \in Nat
    PROVE  Blake!Split(n) \in Blake!Words \X Blake!Words
<1>1. BlakeRadix \in Nat \ {0}
  BY BlakeBlockAssumption DEF Blake!RadixAssumption
<1>2. n % BlakeRadix \in Blake!Words /\ n \div BlakeRadix \in Nat
  BY <1>1 DEF Blake!Words
<1>3. (n \div BlakeRadix) % BlakeRadix \in Blake!Words
  BY <1>1, <1>2 DEF Blake!Words
<1> QED BY <1>2, <1>3 DEF Blake!Split

\* Quotient and remainder by any number.
LEMMA BlakeQuotient ==
    ASSUME NEW R \in Nat \ {0}, NEW k \in Nat, NEW r \in 0 .. R - 1
    PROVE  (k * R + r) % R = r /\ (k * R + r) \div R = k
OBVIOUS

\* The counter counts, whatever of it is carried into the high word.
LEMMA BlakeCounterExact ==
    ASSUME Blake!RadixAssumption, NEW n \in Nat, NEW inc \in 0 .. BlakeBlock
    PROVE  Blake!blake2s_increment_counter(Blake!Split(n), inc) = Blake!Split(n + inc)
<1> DEFINE q == n \div BlakeRadix
           r == n % BlakeRadix
           low == (r + inc) % BlakeRadix
<1>1. BlakeRadix \in Nat \ {0} /\ inc \in Nat /\ inc < BlakeRadix
  BY BlakeBlockAssumption DEF Blake!RadixAssumption
<1>2. q \in Nat /\ r \in 0 .. BlakeRadix - 1 /\ n = q * BlakeRadix + r
  BY <1>1
<1>3. Blake!Split(n) = << r, q % BlakeRadix >>
  BY Zenon DEF Blake!Split
<1>4. Blake!blake2s_increment_counter(Blake!Split(n), inc)
        = << low, ((q % BlakeRadix) + IF low < inc THEN 1 ELSE 0) % BlakeRadix >>
  <2> HIDE DEF q, r
  <2>1. Blake!Split(n)[1] = r /\ Blake!Split(n)[2] = q % BlakeRadix
    BY <1>3
  <2> QED BY <2>1 DEF Blake!blake2s_increment_counter
<1>5. \A x \in Nat : \A y \in {0, 1} : ((x % BlakeRadix) + y) % BlakeRadix = (x + y) % BlakeRadix
  <2> SUFFICES ASSUME NEW x \in Nat, NEW y \in {0, 1}
               PROVE  ((x % BlakeRadix) + y) % BlakeRadix = (x + y) % BlakeRadix
    OBVIOUS
  <2> DEFINE a == x \div BlakeRadix
             b == x % BlakeRadix
  <2>1. a \in Nat /\ b \in 0 .. BlakeRadix - 1 /\ x = a * BlakeRadix + b
    BY <1>1
  <2> HIDE DEF a, b
  <2>2. CASE b + y < BlakeRadix
    <3>1. x + y = a * BlakeRadix + (b + y) /\ b + y \in 0 .. BlakeRadix - 1 /\ b + y = 0 * BlakeRadix + (b + y)
      BY <1>1, <2>1, <2>2
    <3>2. (a * BlakeRadix + (b + y)) % BlakeRadix = b + y /\ (0 * BlakeRadix + (b + y)) % BlakeRadix = b + y
      BY <1>1, <2>1, <3>1, BlakeQuotient
    <3> QED BY <3>1, <3>2 DEF b
  <2>3. CASE b + y >= BlakeRadix
    <3>1. x + y = (a + 1) * BlakeRadix + 0 /\ a + 1 \in Nat /\ b + y = 1 * BlakeRadix + 0 /\ 0 \in 0 .. BlakeRadix - 1
      BY <1>1, <2>1, <2>3
    <3>2. ((a + 1) * BlakeRadix + 0) % BlakeRadix = 0 /\ (1 * BlakeRadix + 0) % BlakeRadix = 0
      BY <1>1, <3>1, BlakeQuotient
    <3> QED BY <3>1, <3>2 DEF b
  <2> QED BY <1>1, <2>1, <2>2, <2>3
<1> HIDE DEF q, r
<1>6. CASE r + inc < BlakeRadix
  <2>1. /\ n + inc = q * BlakeRadix + (r + inc) /\ r + inc \in 0 .. BlakeRadix - 1
        /\ r + inc = 0 * BlakeRadix + (r + inc)
    BY <1>1, <1>2, <1>6
  <2>2. /\ (q * BlakeRadix + (r + inc)) % BlakeRadix = r + inc /\ (q * BlakeRadix + (r + inc)) \div BlakeRadix = q
        /\ (0 * BlakeRadix + (r + inc)) % BlakeRadix = r + inc
    BY <1>1, <1>2, <2>1, BlakeQuotient
  <2>3. low = r + inc /\ ~(low < inc)
    BY <1>1, <1>2, <2>1, <2>2
  <2>4. ((q % BlakeRadix) + 0) % BlakeRadix = (q + 0) % BlakeRadix
    BY <1>2, <1>5
  <2>5. q + 0 = q
    BY <1>2
  <2>6. Blake!blake2s_increment_counter(Blake!Split(n), inc) = << r + inc, q % BlakeRadix >>
    BY <1>4, <2>3, <2>4, <2>5
  <2>7. Blake!Split(n + inc) = << r + inc, q % BlakeRadix >>
    BY <2>1, <2>2 DEF Blake!Split
  <2> QED BY <2>6, <2>7
<1>7. CASE r + inc >= BlakeRadix
  <2> DEFINE d == r + inc - BlakeRadix
  <2>1. /\ n + inc = (q + 1) * BlakeRadix + d /\ d \in 0 .. BlakeRadix - 1 /\ d < inc
        /\ r + inc = 1 * BlakeRadix + d /\ q + 1 \in Nat
    BY <1>1, <1>2, <1>7
  <2> HIDE DEF d
  <2>2. /\ ((q + 1) * BlakeRadix + d) % BlakeRadix = d /\ ((q + 1) * BlakeRadix + d) \div BlakeRadix = q + 1
        /\ (1 * BlakeRadix + d) % BlakeRadix = d
    BY <1>1, <2>1, BlakeQuotient
  <2>3. low = d /\ low < inc
    BY <2>1, <2>2
  <2>4. ((q % BlakeRadix) + 1) % BlakeRadix = (q + 1) % BlakeRadix
    BY <1>2, <1>5
  <2>5. Blake!blake2s_increment_counter(Blake!Split(n), inc) = << d, (q + 1) % BlakeRadix >>
    BY <1>4, <2>3, <2>4
  <2>6. Blake!Split(n + inc) = << d, (q + 1) % BlakeRadix >>
    BY <2>1, <2>2 DEF Blake!Split
  <2> QED BY <2>5, <2>6
<1> QED BY <1>1, <1>2, <1>6, <1>7

\* The counter stays one.
LEMMA BlakeCounterType ==
    ASSUME Blake!RadixAssumption, NEW t \in Blake!Words \X Blake!Words,
    NEW inc \in 0 .. BlakeBlock
    PROVE  Blake!blake2s_increment_counter(t, inc) \in Blake!Words \X Blake!Words
<1> DEFINE low == (t[1] + inc) % BlakeRadix
           high == (t[2] + IF low < inc THEN 1 ELSE 0) % BlakeRadix
<1>1. BlakeRadix \in Nat \ {0}
  BY BlakeBlockAssumption DEF Blake!RadixAssumption
<1>2. t[1] \in Nat /\ t[2] \in Nat
  BY <1>1 DEF Blake!Words
<1>3. low \in Blake!Words
  BY <1>1, <1>2, BlakeBlockAssumption DEF Blake!Words
<1>4. high \in Blake!Words
  <2> HIDE DEF low
  <2>1. t[2] + (IF low < inc THEN 1 ELSE 0) \in Nat
    BY <1>2
  <2> QED BY <1>1, <2>1 DEF Blake!Words
<1>5. Blake!blake2s_increment_counter(t, inc) = << low, high >>
  BY Zenon DEF Blake!blake2s_increment_counter
<1> HIDE DEF low, high
<1> QED BY <1>3, <1>4, <1>5

\* One compression.
BlakeCompressedAs(c, t, log, e) ==
    /\ e \in BlakeContexts
    /\ e.t = t /\ e.h.log = log
    /\ e.h.iv = c.h.iv /\ e.f = c.f /\ e.outlen = c.outlen
    /\ e.buf = c.buf /\ e.buflen = c.buflen

\* One compression appends one entry, with the counter words it saw.
LEMMA BlakeCompressType ==
    ASSUME Blake!RadixAssumption, NEW c \in BlakeContexts, NEW m \in Blake!Buffers,
    NEW inc \in 0 .. BlakeBlock,
           NEW t, t = Blake!blake2s_increment_counter(c.t, inc),
           NEW log, log = Append(c.h.log, [m |-> m, t |-> t, last |-> c.f]),
           NEW e, e = Blake!Compress1(c, m, inc)
    PROVE  BlakeCompressedAs(c, t, log, e)
<1>1. /\ c.h \in Blake!Chain /\ c.t \in Blake!Words \X Blake!Words /\ c.f \in BOOLEAN
      /\ c.h.iv \in Blake!Params \cup {Blake!NoParams} /\ c.h.log \in Seq(BlakeEntries)
  BY DEF BlakeContexts, Blake!blake2s_ctx, Blake!Chain, BlakeEntries
<1>2. t \in Blake!Words \X Blake!Words
  BY <1>1, BlakeCounterType
<1> DEFINE x == [m |-> m, t |-> t, last |-> c.f]
<1>3. x \in BlakeEntries
  BY <1>1, <1>2 DEF BlakeEntries
<1>4. log = Append(c.h.log, x)
  OBVIOUS
<1> HIDE DEF x
<1>5. log \in Seq(BlakeEntries)
  BY <1>1, <1>3, <1>4, AppendProperties
<1> DEFINE h == [c.h EXCEPT !.log = log]
<1>6. e = [c EXCEPT !.t = t, !.h.log = Append(@, x)]
  BY Zenon DEF Blake!Compress1, x
<1>7. e = [c EXCEPT !.t = t, !.h = h]
  BY <1>1, <1>4, <1>6
<1>8. h \in Blake!Chain /\ h.log = log /\ h.iv = c.h.iv
  BY <1>1, <1>5 DEF Blake!Chain, BlakeEntries
<1> HIDE DEF h
<1>9. e \in BlakeContexts
  BY <1>2, <1>7, <1>8 DEF BlakeContexts, Blake!blake2s_ctx
<1>10. /\ e.t = t /\ e.h = h /\ e.f = c.f /\ e.outlen = c.outlen
       /\ e.buf = c.buf /\ e.buflen = c.buflen
  BY <1>7 DEF BlakeContexts, Blake!blake2s_ctx
<1> QED BY <1>8, <1>9, <1>10 DEF BlakeCompressedAs

\* A block of the input, a log of them, and one more.
LEMMA BlakeStreamType ==
    ASSUME Blake!LensAssumption, NEW p \in Blake!Params, NEW i \in Nat
    PROVE  BlakeStreamByte(p, i) \in Int
<1>1. Blake!Prefix(p) \in Nat
  BY BlakeBlockAssumption DEF Blake!Prefix
<1>2. CASE i >= Blake!Prefix(p)
  BY <1>1, <1>2 DEF BlakeStreamByte
<1>3. CASE ~(i >= Blake!Prefix(p))
  <2>1. i \in Blake!Index /\ p.keylen \in Nat
    <3>1. p.keylen \in KeyLens
      BY DEF Blake!Params
    <3>2. p.keylen \in Nat
      <4>1. KeyLens \subseteq 0 .. BlakeBlock
        BY DEF Blake!LensAssumption
      <4>2. p.keylen \in 0 .. BlakeBlock
        BY <3>1, <4>1
      <4> QED BY <4>2
    <3>3. Blake!Prefix(p) = 0 \/ Blake!Prefix(p) = BlakeBlock
      BY DEF Blake!Prefix
    <3> QED BY <1>3, <3>2, <3>3, BlakeBlockAssumption DEF Blake!Index
  <2>2. Blake!KeyBlock(p.keylen)[i] \in Int
    BY <2>1 DEF Blake!KeyBlock, Blake!Key, Blake!Zero, Blake!Lit
  <2> QED BY <1>3, <2>2 DEF BlakeStreamByte
<1> QED BY <1>2, <1>3

\* A block of the input, key block or message, fits the buffer.
LEMMA BlakeStreamBlockType ==
    ASSUME Blake!LensAssumption, NEW p \in Blake!Params, NEW j \in Nat \ {0}
    PROVE  BlakeStreamBlock(p, j) \in Blake!Buffers
<1>1. ASSUME NEW i \in Blake!Index
      PROVE  BlakeStreamByte(p, (j - 1) * BlakeBlock + i) \in Int
  <2>1. (j - 1) * BlakeBlock + i \in Nat
    BY BlakeBlockAssumption DEF Blake!Index
  <2> QED BY <2>1, BlakeStreamType
<1> QED BY <1>1 DEF BlakeStreamBlock, Blake!Buffers

\* The chain of the first k blocks is a chain,
LEMMA BlakeLoggedType ==
    ASSUME Blake!RadixAssumption, Blake!LensAssumption, NEW p \in Blake!Params,
    NEW k \in Nat
    PROVE  /\ BlakeLogged(p, k) \in [1 .. k -> BlakeEntries] /\ BlakeLogged(p, k) \in Seq(BlakeEntries)
           /\ Len(BlakeLogged(p, k)) = k
<1>1. ASSUME NEW j \in 1 .. k
      PROVE  [m |-> BlakeStreamBlock(p, j), t |-> Blake!Split(j * BlakeBlock), last |-> FALSE] \in BlakeEntries
  <2>1. BlakeStreamBlock(p, j) \in Blake!Buffers
    BY BlakeStreamBlockType
  <2>2. j * BlakeBlock \in Nat
    BY BlakeBlockAssumption
  <2>3. Blake!Split(j * BlakeBlock) \in Blake!Words \X Blake!Words
    BY <2>2, BlakeSplitType
  <2> QED BY <2>1, <2>3 DEF BlakeEntries
<1>2. BlakeLogged(p, k) \in [1 .. k -> BlakeEntries]
  BY <1>1 DEF BlakeLogged
<1> QED BY <1>2, SeqDef, LenProperties

\* and grows by the next block.
LEMMA BlakeLoggedAppend ==
    ASSUME Blake!RadixAssumption, Blake!LensAssumption, NEW p \in Blake!Params,
    NEW k \in Nat,
           NEW x, x = [m |-> BlakeStreamBlock(p, k + 1),
           t |-> Blake!Split((k + 1) * BlakeBlock), last |-> FALSE]
    PROVE  Append(BlakeLogged(p, k), x) = BlakeLogged(p, k + 1)
<1>1. BlakeLogged(p, k + 1) \in [1 .. k + 1 -> BlakeEntries]
  BY BlakeLoggedType
<1>2. /\ BlakeLogged(p, k) = [j \in 1 .. k |-> BlakeLogged(p, k + 1)[j]]
      /\ BlakeLogged(p, k + 1)[k + 1] = x
  <2> DEFINE entry(j) == [m |-> BlakeStreamBlock(p, j), t |-> Blake!Split(j * BlakeBlock),
                          last |-> FALSE]
  <2>1. BlakeLogged(p, k) = [j \in 1 .. k |-> entry(j)]
    BY DEF BlakeLogged
  <2>2. BlakeLogged(p, k + 1) = [j \in 1 .. k + 1 |-> entry(j)]
    BY DEF BlakeLogged
  <2>3. x = entry(k + 1)
    OBVIOUS
  <2> HIDE DEF entry
  <2>4. k + 1 \in 1 .. k + 1 /\ \A j \in 1 .. k : j \in 1 .. k + 1
    OBVIOUS
  <2> QED BY <2>1, <2>2, <2>3, <2>4
<1> QED BY <1>1, <1>2, Blake!AppendTable, BlakeBlockAssumption DEF Blake!BlockSizeAssumption

\* A block of the stream behind the key block is a block of the input.
LEMMA BlakeBlockOfStream ==
    ASSUME NEW p \in Blake!Params, NEW j \in Nat \ {0}, NEW data \in Nat \ {0},
           Blake!Prefix(p) + data - 1 = (j - 1) * BlakeBlock
    PROVE  Blake!BlockAt(data) = BlakeStreamBlock(p, j)
<1> DEFINE x == (j - 1) * BlakeBlock
<1>1. x \in Nat /\ Blake!Prefix(p) \in Nat /\ Blake!Prefix(p) + data - 1 = x
  BY BlakeBlockAssumption DEF Blake!Prefix
<1> HIDE DEF x
<1>2. ASSUME NEW i \in Blake!Index
      PROVE  BlakeStreamByte(p, x + i) = data + i
  <2>1. i \in Nat
    BY BlakeBlockAssumption DEF Blake!Index
  <2>2. x + i >= Blake!Prefix(p) /\ (x + i) - Blake!Prefix(p) + 1 = data + i
    BY <1>1, <2>1
  <2> QED BY <2>2 DEF BlakeStreamByte
<1> QED BY <1>2 DEF BlakeStreamBlock, Blake!BlockAt, x

\* Compressing the next block leads from k blocks to k + 1.
LEMMA BlakeChainedStep ==
    ASSUME Blake!RadixAssumption, Blake!LensAssumption, NEW p \in Blake!Params,
    NEW k \in Nat,
           NEW c \in BlakeContexts, BlakeChained(c, p, k),
           NEW m, m = BlakeStreamBlock(p, k + 1), NEW e, e = Blake!Compress1(c, m,
           BlakeBlock)
    PROVE  BlakeChained(e, p, k + 1)
<1> DEFINE t == Blake!blake2s_increment_counter(c.t, BlakeBlock)
           log == Append(c.h.log, [m |-> m, t |-> t, last |-> c.f])
<1>1. m \in Blake!Buffers /\ BlakeBlock \in 0 .. BlakeBlock
  BY BlakeStreamBlockType, BlakeBlockAssumption
<1>2. BlakeCompressedAs(c, t, log, e)
  <2>1. /\ t = Blake!blake2s_increment_counter(c.t, BlakeBlock)
        /\ log = Append(c.h.log, [m |-> m, t |-> t, last |-> c.f])
    OBVIOUS
  <2> HIDE DEF t, log
  <2> QED BY <1>1, <2>1, BlakeCompressType
<1>3. t = Blake!Split((k + 1) * BlakeBlock)
  <2>1. (k + 1) * BlakeBlock = k * BlakeBlock + BlakeBlock /\ k * BlakeBlock \in Nat
    BY BlakeBlockAssumption
  <2>2. Blake!blake2s_increment_counter(Blake!Split(k * BlakeBlock), BlakeBlock) = Blake!Split(k * BlakeBlock + BlakeBlock)
    BY <1>1, <2>1, BlakeCounterExact
  <2> QED BY <2>1, <2>2, Zenon DEF BlakeChained
<1> HIDE DEF t
<1>4. log = BlakeLogged(p, k + 1)
  <2> DEFINE x == [m |-> m, t |-> t, last |-> c.f]
  <2>1. x = [m |-> BlakeStreamBlock(p, k + 1), t |-> Blake!Split((k + 1) * BlakeBlock), last |-> FALSE]
    BY <1>3 DEF BlakeChained
  <2> HIDE DEF x
  <2>2. Append(BlakeLogged(p, k), x) = BlakeLogged(p, k + 1)
    BY <2>1, BlakeLoggedAppend
  <2> QED BY <2>2, Zenon DEF x, BlakeChained
<1> HIDE DEF log
<1> QED BY <1>2, <1>3, <1>4 DEF BlakeCompressedAs, BlakeChained

\* The compression of n blocks, as a function of the number of blocks.
BlakeRuns(f, c, data, n) ==
    /\ f \in [0 .. n -> BlakeContexts] /\ f[0] = c
    /\ \A i \in 1 .. n :
          f[i] = Blake!Compress1(f[i - 1], Blake!BlockAt(data + (i - 1) * BlakeBlock), BlakeBlock)

\* A compression makes a context of a context.
LEMMA BlakeCompress1Type ==
    ASSUME Blake!RadixAssumption, NEW c \in BlakeContexts, NEW m \in Blake!Buffers,
    NEW inc \in 0 .. BlakeBlock
    PROVE  /\ Blake!Compress1(c, m, inc) \in BlakeContexts
           /\ Blake!Compress1(c, m, inc).buf = c.buf
           /\ Blake!Compress1(c, m, inc).buflen = c.buflen
<1> DEFINE t == Blake!blake2s_increment_counter(c.t, inc)
           log == Append(c.h.log, [m |-> m, t |-> t, last |-> c.f])
           e == Blake!Compress1(c, m, inc)
<1>1. BlakeCompressedAs(c, t, log, e)
  <2>1. /\ t = Blake!blake2s_increment_counter(c.t, inc)
        /\ log = Append(c.h.log, [m |-> m, t |-> t, last |-> c.f])
        /\ e = Blake!Compress1(c, m, inc)
    OBVIOUS
  <2> HIDE DEF t, log, e
  <2> QED BY <2>1, BlakeCompressType
<1> HIDE DEF t, log
<1> QED BY <1>1 DEF BlakeCompressedAs

\* The loop of blake2s_compress is a run of its body, one block after the other.
LEMMA BlakeCompressRuns ==
    ASSUME Blake!RadixAssumption, NEW c \in BlakeContexts, NEW data \in Int, NEW n \in Nat
    PROVE  \E f : BlakeRuns(f, c, data, n) /\ Blake!blake2s_compress(c, data, n, BlakeBlock) = f[n]
<1> DEFINE At(i) == Blake!BlockAt(data + (i - 1) * BlakeBlock)
           turn == [i \in 1 .. n |-> [s \in BlakeContexts |-> Blake!Compress1(s, At(i), BlakeBlock)]]
<1>1. turn \in [1 .. n -> [BlakeContexts -> BlakeContexts]]
  <2>1. ASSUME NEW i \in 1 .. n, NEW s \in BlakeContexts
        PROVE  Blake!Compress1(s, At(i), BlakeBlock) \in BlakeContexts
    <3>1. data + (i - 1) * BlakeBlock \in Int
      BY BlakeBlockAssumption
    <3>2. At(i) \in Blake!Buffers
      BY <3>1, Blake!BlockAtType, BlakeBlockAssumption DEF Blake!BlockSizeAssumption
    <3>3. BlakeBlock \in 0 .. BlakeBlock
      BY BlakeBlockAssumption
    <3> HIDE DEF At
    <3> QED BY <3>2, <3>3, BlakeCompress1Type
  <2> HIDE DEF At
  <2> QED BY <2>1
<1> HIDE DEF At
<1>2. PICK f : f \in [0 .. n -> BlakeContexts] /\ f[0] = c /\ \A i \in 1 .. n : f[i] = turn[i][f[i - 1]]
  <2> HIDE DEF turn
  <2>1. \E f : Blake!Iterates(f, n, BlakeContexts, c, turn)
    BY <1>1, Blake!Iteration, Zenon, BlakeBlockAssumption DEF Blake!BlockSizeAssumption
  <2> QED BY <2>1, Zenon DEF Blake!Iterates
<1>3. \A i \in 1 .. n : f[i] = Blake!Compress1(f[i - 1], At(i), BlakeBlock)
  <2> SUFFICES ASSUME NEW i \in 1 .. n
               PROVE  f[i] = Blake!Compress1(f[i - 1], At(i), BlakeBlock)
    OBVIOUS
  <2>1. f[i - 1] \in BlakeContexts
    <3>1. i - 1 \in 0 .. n
      OBVIOUS
    <3> HIDE DEF turn
    <3> QED BY <1>2, <3>1
  <2>2. f[i] = turn[i][f[i - 1]]
    <3> HIDE DEF turn
    <3> QED BY <1>2
  <2>3. turn[i] = [s \in BlakeContexts |-> Blake!Compress1(s, At(i), BlakeBlock)]
    OBVIOUS
  <2> HIDE DEF turn
  <2> QED BY <2>1, <2>2, <2>3
<1>4. BlakeRuns(f, c, data, n)
  BY <1>2, <1>3, Zenon DEF BlakeRuns, At
<1> DEFINE Loop(after) == [j \in 0 .. n |->
              IF j = 0 THEN c ELSE Blake!Compress1(after[j - 1], At(j), BlakeBlock)]
           run == CHOOSE after : after = Loop(after)
<1>5. Blake!blake2s_compress(c, data, n, BlakeBlock) = run[n]
  BY Zenon DEF Blake!blake2s_compress, At
<1>6. f = Loop(f)
  <2> HIDE DEF turn
  <2>1. f = [j \in 0 .. n |-> f[j]]
    BY <1>2
  <2>2. ASSUME NEW j \in 0 .. n
        PROVE  f[j] = IF j = 0 THEN c ELSE Blake!Compress1(f[j - 1], At(j), BlakeBlock)
    <3>1. CASE j = 0
      BY <1>2, <3>1
    <3>2. CASE j \in 1 .. n
      BY <1>3, <3>2
    <3> QED BY <3>1, <3>2
  <2> QED BY <2>1, <2>2
<1>7. run = Loop(run)
  <2> HIDE DEF Loop
  <2> QED BY <1>6
<1>8. \A j \in 0 .. n : j \in {l \in 0 .. n : run[l] = f[l]}
  <2> DEFINE S == {l \in 0 .. n : run[l] = f[l]}
  <2>1. run[0] = c
    <3> HIDE DEF run
    <3> QED BY <1>7
  <2>2. 0 \in S
    <3> HIDE DEF run, turn
    <3>1. f[0] = c
      BY <1>2
    <3>2. 0 \in 0 .. n
      OBVIOUS
    <3> QED BY <2>1, <3>1, <3>2
  <2>3. ASSUME NEW k \in 0 .. n - 1, k \in S
        PROVE  k + 1 \in S
    <3> HIDE DEF run
    <3>1. k + 1 \in 0 .. n /\ k + 1 \in 1 .. n /\ k + 1 # 0 /\ (k + 1) - 1 = k
      OBVIOUS
    <3>2. run[k + 1] = Blake!Compress1(run[k], At(k + 1), BlakeBlock)
      <4>1. Loop(run)[k + 1] = Blake!Compress1(run[k], At(k + 1), BlakeBlock)
        BY <3>1
      <4> HIDE DEF Loop
      <4> QED BY <1>7, <4>1
    <3>3. f[k + 1] = Blake!Compress1(f[k], At(k + 1), BlakeBlock)
      BY <1>3, <3>1
    <3>4. run[k] = f[k]
      BY <2>3
    <3> QED BY <3>1, <3>2, <3>3, <3>4
  <2> HIDE DEF S
  <2>4. \A k \in 0 .. n : k \in S
    BY <2>2, <2>3, Blake!Induction, BlakeBlockAssumption DEF Blake!BlockSizeAssumption
  <2> QED BY <2>4 DEF S
<1>9. run[n] = f[n]
  <2> HIDE DEF run
  <2> QED BY <1>8
<1> HIDE DEF run
<1> QED BY <1>4, <1>5, <1>9

\* The loop makes a context of a context, and leaves the buffer alone;
LEMMA BlakeBulkType ==
    ASSUME Blake!RadixAssumption, NEW c \in BlakeContexts, NEW data \in Int, NEW n \in Nat,
           NEW e, e = Blake!blake2s_compress(c, data, n, BlakeBlock)
    PROVE  e \in BlakeContexts /\ e.buf = c.buf /\ e.buflen = c.buflen
<1>1. PICK f : BlakeRuns(f, c, data, n) /\ Blake!blake2s_compress(c, data, n, BlakeBlock) = f[n]
  BY BlakeCompressRuns
<1> DEFINE S == {i \in 0 .. n : f[i].buf = c.buf /\ f[i].buflen = c.buflen}
<1>2. 0 \in S
  BY <1>1 DEF BlakeRuns
<1>3. ASSUME NEW i \in 0 .. n - 1, i \in S
      PROVE  i + 1 \in S
  <2>1. i + 1 \in 0 .. n /\ i + 1 \in 1 .. n /\ (i + 1) - 1 = i /\ i \in 0 .. n
    OBVIOUS
  <2>2. f[i] \in BlakeContexts
    BY <1>1, <2>1 DEF BlakeRuns
  <2>3. data + i * BlakeBlock \in Int /\ BlakeBlock \in 0 .. BlakeBlock
    BY BlakeBlockAssumption
  <2> DEFINE m == Blake!BlockAt(data + i * BlakeBlock)
  <2>4. m \in Blake!Buffers
    BY <2>3, Blake!BlockAtType, BlakeBlockAssumption DEF Blake!BlockSizeAssumption
  <2>5. f[i + 1] = Blake!Compress1(f[i], m, BlakeBlock)
    BY <1>1, <2>1 DEF BlakeRuns
  <2> HIDE DEF m
  <2>6. f[i + 1].buf = f[i].buf /\ f[i + 1].buflen = f[i].buflen
    BY <2>2, <2>3, <2>4, <2>5, BlakeCompress1Type
  <2> QED BY <1>3, <2>1, <2>6
<1>4. \A i \in 0 .. n : i \in S
  <2> HIDE DEF S
  <2> QED BY <1>2, <1>3, Blake!Induction, BlakeBlockAssumption DEF Blake!BlockSizeAssumption
<1>5. f[n] \in BlakeContexts
  BY <1>1 DEF BlakeRuns
<1> QED BY <1>1, <1>4, <1>5

\* fed with the next n blocks of the message, it leads from k blocks to k + n.
LEMMA BlakeBulkChained ==
    ASSUME Blake!RadixAssumption, Blake!LensAssumption, NEW p \in Blake!Params,
    NEW k \in Nat,
           NEW c \in BlakeContexts, BlakeChained(c, p, k), NEW data \in Nat \ {0},
           Blake!Prefix(p) + data - 1 = k * BlakeBlock, NEW n \in Nat,
           NEW e, e = Blake!blake2s_compress(c, data, n, BlakeBlock)
    PROVE  BlakeChained(e, p, k + n)
<1>1. PICK f : BlakeRuns(f, c, data, n) /\ Blake!blake2s_compress(c, data, n, BlakeBlock) = f[n]
  BY BlakeCompressRuns
<1> DEFINE S == {i \in 0 .. n : BlakeChained(f[i], p, k + i)}
<1>2. 0 \in S
  BY <1>1 DEF BlakeRuns
<1>3. ASSUME NEW i \in 0 .. n - 1, i \in S
      PROVE  i + 1 \in S
  <2>1. i + 1 \in 0 .. n /\ i + 1 \in 1 .. n /\ (i + 1) - 1 = i /\ i \in 0 .. n /\ k + i \in Nat
    OBVIOUS
  <2>2. f[i] \in BlakeContexts
    BY <1>1, <2>1 DEF BlakeRuns
  <2> DEFINE x == i * BlakeBlock
             m == Blake!BlockAt(data + x)
  <2>3. f[i + 1] = Blake!Compress1(f[i], m, BlakeBlock)
    BY <1>1, <2>1 DEF BlakeRuns
  <2>4. x \in Nat /\ (k + i) * BlakeBlock = k * BlakeBlock + x /\ k * BlakeBlock \in Nat
    BY BlakeBlockAssumption
  <2>5. m = BlakeStreamBlock(p, (k + i) + 1)
    <3> DEFINE j == (k + i) + 1
               at == data + x
    <3>1. j \in Nat \ {0} /\ (j - 1) * BlakeBlock = k * BlakeBlock + x
      BY <2>4
    <3>2. at \in Nat \ {0}
      BY <2>4
    <3>3. Blake!Prefix(p) \in Nat
      BY BlakeBlockAssumption DEF Blake!Prefix
    <3>4. Blake!Prefix(p) + at - 1 = k * BlakeBlock + x
      BY <2>4, <3>3
    <3> HIDE DEF j, at, x
    <3>5. Blake!BlockAt(at) = BlakeStreamBlock(p, j)
      BY <3>1, <3>2, <3>4, BlakeBlockOfStream
    <3> QED BY <3>5 DEF at, j
  <2> HIDE DEF m
  <2>6. BlakeChained(f[i], p, k + i)
    BY <1>3
  <2>7. BlakeChained(f[i + 1], p, (k + i) + 1)
    BY <2>1, <2>2, <2>3, <2>5, <2>6, BlakeChainedStep
  <2>8. (k + i) + 1 = k + (i + 1)
    OBVIOUS
  <2> QED BY <2>1, <2>7, <2>8
<1>4. \A i \in 0 .. n : i \in S
  <2> HIDE DEF S
  <2> QED BY <1>2, <1>3, Blake!Induction, BlakeBlockAssumption DEF Blake!BlockSizeAssumption
<1> QED BY <1>1, <1>4

\* The first n bytes of the buffer are those of the input from byte x on.
BlakeStreams(b, n, p, x) == \A i \in 0 .. n - 1 : b[i] = BlakeStreamByte(p, x + i)

\* The context of t bytes of the stream.
BlakeRepresents(c, p, t) ==
    \E k \in Nat :
        /\ BlakeChained(c, p, k)
        /\ Blake!Prefix(p) + t = k * BlakeBlock + c.buflen
        /\ c.buflen = 0 => Blake!Prefix(p) + t = 0
        /\ BlakeStreams(c.buf, c.buflen, p, k * BlakeBlock)

\* Bytes of the stream copied behind bytes of the input.
LEMMA BlakeCopyStream ==
    ASSUME NEW p \in Blake!Params, NEW x \in Nat, NEW off \in Nat, NEW n \in Nat,
           off + n <= BlakeBlock, NEW data \in Nat \ {0}, Blake!Prefix(p) + data - 1 = x + off,
           NEW b, BlakeStreams(b, off, p, x)
    PROVE  BlakeStreams(Blake!Copy(b, off, data, n), off + n, p, x)
<1> SUFFICES ASSUME NEW i \in 0 .. off + n - 1
             PROVE  Blake!Copy(b, off, data, n)[i] = BlakeStreamByte(p, x + i)
  BY DEF BlakeStreams
<1>1. i \in Blake!Index /\ i \in Nat
  BY BlakeBlockAssumption DEF Blake!Index
<1>2. Blake!Copy(b, off, data, n)[i] = IF i \in off .. off + n - 1 THEN data + (i - off) ELSE b[i]
  BY <1>1 DEF Blake!Copy
<1>3. CASE i < off
  BY <1>2, <1>3 DEF BlakeStreams
<1>4. CASE i >= off
  <2>1. Blake!Prefix(p) \in Nat
    BY BlakeBlockAssumption DEF Blake!Prefix
  <2>2. x + i >= Blake!Prefix(p) /\ (x + i) - Blake!Prefix(p) + 1 = data + (i - off)
    BY <1>1, <1>4, <2>1
  <2>3. BlakeStreamByte(p, x + i) = data + (i - off)
    BY <2>2 DEF BlakeStreamByte
  <2> QED BY <1>1, <1>2, <1>4, <2>3
<1> QED BY <1>1, <1>3, <1>4

\* A full buffer of them is the block.
LEMMA BlakeFullStream ==
    ASSUME NEW p \in Blake!Params, NEW j \in Nat \ {0}, NEW b \in Blake!Buffers,
           BlakeStreams(b, BlakeBlock, p, (j - 1) * BlakeBlock)
    PROVE  b = BlakeStreamBlock(p, j)
BY DEF Blake!Buffers, Blake!Index, BlakeStreamBlock, BlakeStreams

\* The buffer gives way.
BlakeOverflowAs(c, b, e) ==
    /\ b \in Blake!Buffers /\ [c EXCEPT !.buf = b] \in BlakeContexts
    /\ e = [Blake!Compress1([c EXCEPT !.buf = b], b, BlakeBlock) EXCEPT !.buflen = 0]
    /\ e \in BlakeContexts /\ e.buf = b /\ e.buflen = 0

\* A full buffer that gives way is empty, and its block is compressed;
LEMMA BlakeOverflowType ==
    ASSUME Blake!RadixAssumption, NEW c \in BlakeContexts, NEW in \in Int,
           NEW fill, fill = BlakeBlock - c.buflen,
           NEW b, b = Blake!Copy(c.buf, c.buflen, in, fill),
           NEW e, e = Blake!Overflow(c, in, fill)
    PROVE  BlakeOverflowAs(c, b, e)
<1> DEFINE d == [c EXCEPT !.buf = b]
           f == Blake!Compress1(d, b, BlakeBlock)
<1>1. c.buf \in Blake!Buffers /\ c.buflen \in 0 .. BlakeBlock /\ c.buflen \in Int /\ fill \in Int
  BY BlakeBlockAssumption DEF BlakeContexts, Blake!blake2s_ctx
<1>2. b \in Blake!Buffers
  BY <1>1, Blake!CopyType, BlakeBlockAssumption DEF Blake!BlockSizeAssumption
<1>3. e = [f EXCEPT !.buflen = 0]
  BY Zenon DEF Blake!Overflow
<1>4. d \in BlakeContexts /\ d.buf = b
  BY <1>2 DEF BlakeContexts, Blake!blake2s_ctx
<1>5. f \in BlakeContexts /\ f.buf = b
  <2> HIDE DEF d
  <2>1. BlakeBlock \in 0 .. BlakeBlock
    BY BlakeBlockAssumption
  <2> QED BY <1>2, <1>4, <2>1, BlakeCompress1Type
<1> HIDE DEF f
<1>6. e \in BlakeContexts /\ e.buf = b /\ e.buflen = 0
  BY <1>3, <1>5, BlakeBlockAssumption DEF BlakeContexts, Blake!blake2s_ctx
<1> QED BY <1>2, <1>3, <1>4, <1>6 DEF BlakeOverflowAs, f

\* All that Chained speaks of.
LEMMA BlakeChainedSame ==
    ASSUME NEW c, NEW d, NEW p, NEW k, BlakeChained(c, p, k),
           d.h = c.h, d.t = c.t, d.f = c.f, d.outlen = c.outlen
    PROVE  BlakeChained(d, p, k)
BY DEF BlakeChained

\* when what it is filled up with is input, it was the next block of the input.
LEMMA BlakeOverflowChained ==
    ASSUME Blake!RadixAssumption, Blake!LensAssumption, NEW p \in Blake!Params,
    NEW k \in Nat,
           NEW c \in BlakeContexts, BlakeChained(c, p, k),
           BlakeStreams(c.buf, c.buflen, p, k * BlakeBlock),
           NEW in \in Nat \ {0}, Blake!Prefix(p) + in - 1 = k * BlakeBlock + c.buflen,
           NEW fill, fill = BlakeBlock - c.buflen,
           NEW e, e = Blake!Overflow(c, in, fill)
    PROVE  BlakeChained(e, p, k + 1)
<1> DEFINE b == Blake!Copy(c.buf, c.buflen, in, fill)
           d == [c EXCEPT !.buf = b]
           f == Blake!Compress1(d, b, BlakeBlock)
           x == k * BlakeBlock
<1>1. /\ BlakeOverflowAs(c, b, e) /\ d \in BlakeContexts
      /\ e = [f EXCEPT !.buflen = 0]
  <2>1. b = Blake!Copy(c.buf, c.buflen, in, fill) /\ in \in Int
    OBVIOUS
  <2> HIDE DEF b
  <2>2. BlakeOverflowAs(c, b, e)
    BY <2>1, BlakeOverflowType
  <2> QED BY <2>2, Zenon DEF BlakeOverflowAs
<1>2. c.buflen \in Nat /\ fill \in Nat /\ c.buflen + fill = BlakeBlock /\ x \in Nat
  BY BlakeBlockAssumption DEF BlakeContexts, Blake!blake2s_ctx
<1>3. b = BlakeStreamBlock(p, k + 1)
  <2>1. BlakeStreams(b, BlakeBlock, p, x)
    <3>1. /\ c.buflen + fill <= BlakeBlock /\ Blake!Prefix(p) + in - 1 = x + c.buflen
          /\ BlakeStreams(c.buf, c.buflen, p, x)
      BY <1>2, BlakeBlockAssumption
    <3> HIDE DEF x
    <3>2. BlakeStreams(Blake!Copy(c.buf, c.buflen, in, fill), c.buflen + fill, p, x)
      BY <1>2, <3>1, BlakeCopyStream
    <3> QED BY <1>2, <3>2
  <2>2. b \in Blake!Buffers
    BY <1>1 DEF BlakeOverflowAs
  <2> HIDE DEF b
  <2>3. BlakeStreams(b, BlakeBlock, p, ((k + 1) - 1) * BlakeBlock)
    BY <2>1
  <2>4. k + 1 \in Nat \ {0}
    OBVIOUS
  <2> QED BY <2>2, <2>3, <2>4, BlakeFullStream
<1>4. d.h = c.h /\ d.t = c.t /\ d.f = c.f /\ d.outlen = c.outlen
  <2> HIDE DEF b
  <2> QED BY DEF BlakeContexts, Blake!blake2s_ctx
<1> HIDE DEF b, d
<1>5. BlakeChained(d, p, k)
  BY <1>4, BlakeChainedSame
<1>6. BlakeChained(f, p, k + 1)
  BY <1>1, <1>3, <1>5, BlakeChainedStep
<1>7. f \in BlakeContexts
  <2>1. BlakeBlock \in 0 .. BlakeBlock /\ b \in Blake!Buffers
    BY <1>1, BlakeBlockAssumption DEF BlakeOverflowAs
  <2> QED BY <1>1, <2>1, BlakeCompress1Type
<1> HIDE DEF f
<1>8. e.h = f.h /\ e.t = f.t /\ e.f = f.f /\ e.outlen = f.outlen
  BY <1>1, <1>7 DEF BlakeContexts, Blake!blake2s_ctx
<1> QED BY <1>6, <1>8, BlakeChainedSame

\* The whole blocks of the rest leave at least one byte and at most a block.
LEMMA BlakeBulkExact ==
    ASSUME NEW inlen \in Nat, NEW n, n = Blake!BulkBlocks(inlen)
    PROVE  /\ n \in Nat /\ n * BlakeBlock \in Nat
           /\ inlen <= BlakeBlock => n = 0 /\ n * BlakeBlock = 0
           /\ inlen > BlakeBlock => inlen - n * BlakeBlock \in 1 .. BlakeBlock
<1>1. CASE inlen <= BlakeBlock
  <2>1. n = 0
    BY <1>1, BlakeBlockAssumption DEF Blake!BulkBlocks
  <2> QED BY <1>1, <2>1, BlakeBlockAssumption
<1>2. CASE inlen > BlakeBlock
  <2> DEFINE m == inlen + BlakeBlock - 1
             q == m \div BlakeBlock
             r == m % BlakeBlock
             x == q * BlakeBlock
  <2>1. m \in Nat
    BY BlakeBlockAssumption
  <2>2. q \in Nat /\ r \in Blake!Index /\ m = x + r
    <3> HIDE DEF m
    <3> QED BY <2>1, Blake!DivMod, BlakeBlockAssumption DEF Blake!BlockSizeAssumption
  <2>3. n = q - 1
    BY <1>2 DEF Blake!BulkBlocks
  <2> HIDE DEF q, r
  <2>4. q # 0
    <3>1. q = 0 => x = 0
      BY BlakeBlockAssumption
    <3> HIDE DEF x
    <3> QED BY <1>2, <2>2, <3>1, BlakeBlockAssumption DEF Blake!Index
  <2>5. n \in Nat /\ n * BlakeBlock = x - BlakeBlock /\ x \in Nat /\ n * BlakeBlock \in Nat
    BY <2>2, <2>3, <2>4, BlakeBlockAssumption
  <2> HIDE DEF x
  <2> DEFINE y == n * BlakeBlock
  <2> HIDE DEF y
  <2>6. y = x - BlakeBlock /\ y \in Nat
    BY <2>5 DEF y
  <2>7. inlen - y \in 1 .. BlakeBlock
    BY <2>1, <2>2, <2>5, <2>6, BlakeBlockAssumption DEF Blake!Index
  <2> QED BY <1>2, <2>5, <2>7, BlakeBlockAssumption DEF y
<1> QED BY <1>1, <1>2, BlakeBlockAssumption

\* The parts of an update.
BlakeUpdatedAs(c, in, inlen, fill, c1, n, c2, rest, e) ==
    /\ fill \in 0 .. inlen /\ n \in Nat /\ rest \in 1 .. BlakeBlock
    /\ c2.buflen + rest <= BlakeBlock
    /\ c1 \in BlakeContexts /\ c2 \in BlakeContexts /\ c2.buf = c1.buf /\ c2.buflen = c1.buflen
    /\ e \in BlakeContexts
    /\ e.h = c2.h /\ e.t = c2.t /\ e.f = c2.f /\ e.outlen = c2.outlen
    /\ e.buf = Blake!Copy(c2.buf, c2.buflen, in + (fill + n * BlakeBlock), rest)
    /\ e.buflen = c2.buflen + rest
    /\ Blake!Overflows(c, inlen) =>
          fill = BlakeBlock - c.buflen /\ c1 = Blake!Overflow(c, in, fill) /\ c1.buflen = 0
    /\ ~Blake!Overflows(c, inlen) => fill = 0 /\ c1 = c /\ n = 0

\* An update in its three parts: overflow, bulk, tail.
LEMMA BlakeUpdatedParts ==
    ASSUME Blake!RadixAssumption, NEW c \in BlakeContexts, NEW in \in Int,
    NEW inlen \in Nat \ {0},
           NEW fill, fill = IF Blake!Overflows(c, inlen) THEN BlakeBlock - c.buflen ELSE 0,
           NEW c1, c1 = IF Blake!Overflows(c, inlen) THEN Blake!Overflow(c, in,
           fill) ELSE c,
           NEW n, n = Blake!BulkBlocks(inlen - fill),
           NEW c2, c2 = Blake!blake2s_compress(c1, in + fill, n, BlakeBlock),
           NEW rest, rest = inlen - (fill + n * BlakeBlock),
           NEW e, e = Blake!Updated(c, in, inlen)
    PROVE  BlakeUpdatedAs(c, in, inlen, fill, c1, n, c2, rest, e)
<1>1. c.buflen \in 0 .. BlakeBlock /\ c.buflen \in Nat /\ BlakeBlock \in Nat \ {0}
  BY BlakeBlockAssumption DEF BlakeContexts, Blake!blake2s_ctx
<1>2. fill \in 0 .. inlen /\ fill \in Nat /\ inlen - fill \in Nat
  BY <1>1 DEF Blake!Overflows
<1> DEFINE y == n * BlakeBlock
           done == fill + y
<1>3. /\ n \in Nat /\ y \in Nat
      /\ inlen - fill <= BlakeBlock => n = 0 /\ y = 0
      /\ inlen - fill > BlakeBlock => (inlen - fill) - y \in 1 .. BlakeBlock
  <2> DEFINE m == inlen - fill
  <2>1. m \in Nat /\ n = Blake!BulkBlocks(m)
    BY <1>2
  <2> HIDE DEF m
  <2>2. /\ n \in Nat /\ y \in Nat
        /\ m <= BlakeBlock => n = 0 /\ y = 0
        /\ m > BlakeBlock => m - y \in 1 .. BlakeBlock
    BY <2>1, BlakeBulkExact
  <2> QED BY <2>2 DEF m
<1>4. rest = inlen - done
  OBVIOUS
<1>5. e = [c2 EXCEPT !.buf = Blake!Copy(@, c2.buflen, in + done, inlen - done),
                     !.buflen = @ + inlen - done]
  <2>1. e = LET d == fill + n * BlakeBlock
            IN  [c2 EXCEPT !.buf = Blake!Copy(@, c2.buflen, in + d, inlen - d),
                           !.buflen = @ + inlen - d]
    BY Zenon DEF Blake!Updated
  <2> QED BY <2>1
<1> HIDE DEF y
<1>6. c1 \in BlakeContexts /\ (Blake!Overflows(c, inlen) => c1.buflen = 0)
  <2>1. CASE Blake!Overflows(c, inlen)
    <3> DEFINE b == Blake!Copy(c.buf, c.buflen, in, fill)
               o == Blake!Overflow(c, in, fill)
    <3>1. b = Blake!Copy(c.buf, c.buflen, in, fill) /\ o = Blake!Overflow(c, in, fill)
      OBVIOUS
    <3>2. fill = BlakeBlock - c.buflen /\ c1 = o
      BY <2>1
    <3> HIDE DEF b, o
    <3>3. BlakeOverflowAs(c, b, o)
      BY <3>1, <3>2, BlakeOverflowType
    <3> QED BY <3>2, <3>3 DEF BlakeOverflowAs
  <2>2. CASE ~Blake!Overflows(c, inlen)
    BY <2>2
  <2> QED BY <2>1, <2>2
<1>7. c2 \in BlakeContexts /\ c2.buf = c1.buf /\ c2.buflen = c1.buflen
  <2>1. in + fill \in Int
    BY <1>2
  <2> QED BY <1>3, <1>6, <2>1, BlakeBulkType
<1>8. CASE Blake!Overflows(c, inlen)
  <2>1. fill = BlakeBlock - c.buflen /\ c1 = Blake!Overflow(c, in, fill) /\ inlen > fill
    BY <1>8, <1>1 DEF Blake!Overflows
  <2>2. rest \in 1 .. BlakeBlock /\ c2.buflen = 0 /\ c2.buflen + rest <= BlakeBlock
    <3>1. rest = (inlen - fill) - y
      BY <1>2, <1>3, <1>4
    <3> QED BY <1>1, <1>2, <1>3, <1>6, <1>7, <1>8, <2>1, <3>1
  <2> HIDE DEF done
  <2>3. done \in Nat
    BY <1>2, <1>3 DEF done
  <2> DEFINE b == Blake!Copy(c2.buf, c2.buflen, in + done, rest)
  <2>4. e = [c2 EXCEPT !.buf = b, !.buflen = c2.buflen + rest]
    <3>1. c2.buflen + inlen - done = c2.buflen + rest
      BY <1>1, <1>4, <2>2, <2>3
    <3>2. e = [c2 EXCEPT !.buf = b, !.buflen = c2.buflen + inlen - done]
      BY <1>4, <1>5, <1>7 DEF BlakeContexts, Blake!blake2s_ctx
    <3> QED BY <3>1, <3>2
  <2>5. b \in Blake!Buffers
    <3>1. c2.buf \in Blake!Buffers /\ c2.buflen \in Int /\ in + done \in Int /\ rest \in Int
      BY <1>7, <2>2, <2>3 DEF BlakeContexts, Blake!blake2s_ctx
    <3> QED BY <3>1, Blake!CopyType, BlakeBlockAssumption DEF Blake!BlockSizeAssumption
  <2>6. b = Blake!Copy(c2.buf, c2.buflen, in + (fill + n * BlakeBlock), rest)
    BY DEF done, y
  <2> HIDE DEF b
  <2>7. c2.buflen + rest \in 0 .. BlakeBlock
    BY <2>2
  <2>8. e \in BlakeContexts
    BY <1>7, <2>4, <2>5, <2>7 DEF BlakeContexts, Blake!blake2s_ctx
  <2>9. /\ e.h = c2.h /\ e.t = c2.t /\ e.f = c2.f /\ e.outlen = c2.outlen
        /\ e.buf = b /\ e.buflen = c2.buflen + rest
    BY <1>7, <2>4 DEF BlakeContexts, Blake!blake2s_ctx
  <2> QED BY <1>2, <1>3, <1>6, <1>7, <1>8, <2>1, <2>2, <2>6, <2>8, <2>9, Zenon DEF BlakeUpdatedAs
<1>9. CASE ~Blake!Overflows(c, inlen)
  <2>1. fill = 0 /\ c1 = c /\ inlen <= BlakeBlock - c.buflen
    BY <1>9, <1>1 DEF Blake!Overflows
  <2>2. n = 0 /\ y = 0 /\ rest = inlen
    BY <1>1, <1>3, <1>4, <2>1
  <2>3. rest \in 1 .. BlakeBlock /\ c2.buflen + rest <= BlakeBlock
    BY <1>1, <1>7, <2>1, <2>2
  <2> HIDE DEF done
  <2>4. done \in Nat
    BY <1>2, <1>3 DEF done
  <2> DEFINE b == Blake!Copy(c2.buf, c2.buflen, in + done, rest)
  <2>5. e = [c2 EXCEPT !.buf = b, !.buflen = c2.buflen + rest]
    <3>1. c2.buflen + inlen - done = c2.buflen + rest
      BY <1>1, <1>4, <1>7, <2>1, <2>4
    <3>2. e = [c2 EXCEPT !.buf = b, !.buflen = c2.buflen + inlen - done]
      BY <1>4, <1>5, <1>7 DEF BlakeContexts, Blake!blake2s_ctx
    <3> QED BY <3>1, <3>2
  <2>6. b \in Blake!Buffers
    <3>1. c2.buf \in Blake!Buffers /\ c2.buflen \in Int /\ in + done \in Int /\ rest \in Int
      BY <1>7, <2>3, <2>4 DEF BlakeContexts, Blake!blake2s_ctx
    <3> QED BY <3>1, Blake!CopyType, BlakeBlockAssumption DEF Blake!BlockSizeAssumption
  <2>7. b = Blake!Copy(c2.buf, c2.buflen, in + (fill + n * BlakeBlock), rest)
    BY DEF done, y
  <2> HIDE DEF b
  <2>8. c2.buflen + rest \in 0 .. BlakeBlock
    BY <1>1, <1>7, <2>1, <2>3
  <2>9. e \in BlakeContexts
    BY <1>7, <2>5, <2>6, <2>8 DEF BlakeContexts, Blake!blake2s_ctx
  <2>10. /\ e.h = c2.h /\ e.t = c2.t /\ e.f = c2.f /\ e.outlen = c2.outlen
         /\ e.buf = b /\ e.buflen = c2.buflen + rest
    BY <1>7, <2>5 DEF BlakeContexts, Blake!blake2s_ctx
  <2> QED BY <1>2, <1>3, <1>6, <1>7, <1>9, <2>1, <2>2, <2>3, <2>7, <2>9, <2>10, Zenon DEF BlakeUpdatedAs
<1> QED BY <1>8, <1>9

\* update keeps a context well formed
LEMMA BlakeUpdatedType ==
    ASSUME Blake!RadixAssumption, NEW c \in BlakeContexts, NEW in \in Int,
    NEW inlen \in Nat \ {0}
    PROVE  Blake!Updated(c, in, inlen) \in BlakeContexts
<1> DEFINE fill == IF Blake!Overflows(c, inlen) THEN BlakeBlock - c.buflen ELSE 0
           c1 == IF Blake!Overflows(c, inlen) THEN Blake!Overflow(c, in, fill) ELSE c
           n == Blake!BulkBlocks(inlen - fill)
           c2 == Blake!blake2s_compress(c1, in + fill, n, BlakeBlock)
           rest == inlen - (fill + n * BlakeBlock)
           e == Blake!Updated(c, in, inlen)
<1>1. /\ fill = IF Blake!Overflows(c, inlen) THEN BlakeBlock - c.buflen ELSE 0
      /\ c1 = IF Blake!Overflows(c, inlen) THEN Blake!Overflow(c, in, fill) ELSE c
      /\ n = Blake!BulkBlocks(inlen - fill)
      /\ c2 = Blake!blake2s_compress(c1, in + fill, n, BlakeBlock)
      /\ rest = inlen - (fill + n * BlakeBlock)
      /\ e = Blake!Updated(c, in, inlen)
  OBVIOUS
<1> HIDE DEF fill, c1, n, c2, rest, e
<1>2. BlakeUpdatedAs(c, in, inlen, fill, c1, n, c2, rest, e)
  BY <1>1, BlakeUpdatedParts
<1> QED BY <1>1, <1>2 DEF BlakeUpdatedAs

\* and takes its bytes in order.
LEMMA BlakeUpdatedRepresents ==
    ASSUME Blake!RadixAssumption, Blake!LensAssumption, NEW p \in Blake!Params,
    NEW t \in Nat,
           NEW c \in BlakeContexts, BlakeRepresents(c, p, t),
           NEW in, in = t + 1, NEW inlen \in Nat \ {0}
    PROVE  BlakeRepresents(Blake!Updated(c, in, inlen), p, t + inlen)
<1>1. PICK k \in Nat :
        /\ BlakeChained(c, p, k)
        /\ Blake!Prefix(p) + t = k * BlakeBlock + c.buflen
        /\ c.buflen = 0 => Blake!Prefix(p) + t = 0
        /\ BlakeStreams(c.buf, c.buflen, p, k * BlakeBlock)
  BY DEF BlakeRepresents
<1> DEFINE fill == IF Blake!Overflows(c, inlen) THEN BlakeBlock - c.buflen ELSE 0
           c1 == IF Blake!Overflows(c, inlen) THEN Blake!Overflow(c, in, fill) ELSE c
           n == Blake!BulkBlocks(inlen - fill)
           c2 == Blake!blake2s_compress(c1, in + fill, n, BlakeBlock)
           rest == inlen - (fill + n * BlakeBlock)
           e == Blake!Updated(c, in, inlen)
<1>2. /\ fill = IF Blake!Overflows(c, inlen) THEN BlakeBlock - c.buflen ELSE 0
      /\ c1 = IF Blake!Overflows(c, inlen) THEN Blake!Overflow(c, in, fill) ELSE c
      /\ n = Blake!BulkBlocks(inlen - fill)
      /\ c2 = Blake!blake2s_compress(c1, in + fill, n, BlakeBlock)
      /\ rest = inlen - (fill + n * BlakeBlock)
      /\ e = Blake!Updated(c, in, inlen)
  OBVIOUS
<1> HIDE DEF fill, c1, n, c2, rest, e
<1>3. in \in Int /\ in \in Nat \ {0}
  OBVIOUS
<1>4. BlakeUpdatedAs(c, in, inlen, fill, c1, n, c2, rest, e)
  BY <1>2, <1>3, BlakeUpdatedParts
<1> DEFINE x == k * BlakeBlock
           y == n * BlakeBlock
<1>5. x \in Nat /\ y \in Nat /\ Blake!Prefix(p) \in Nat /\ n \in Nat /\ fill \in Nat
      /\ c.buflen \in Nat /\ BlakeBlock \in Nat \ {0} /\ rest \in Nat \ {0}
  <2>1. n \in Nat /\ fill \in Nat /\ rest \in Nat \ {0}
    BY <1>4 DEF BlakeUpdatedAs
  <2>2. x \in Nat /\ y \in Nat
    BY <2>1, BlakeBlockAssumption
  <2> QED BY <2>1, <2>2, BlakeBlockAssumption DEF Blake!Prefix, BlakeContexts, Blake!blake2s_ctx
<1>6. x = k * BlakeBlock /\ y = n * BlakeBlock
  OBVIOUS
<1> HIDE DEF x, y
<1>7. inlen = (fill + y) + rest
  BY <1>2, <1>5, <1>6
<1>10. Blake!Prefix(p) + t = x + c.buflen
  BY <1>1, <1>6
<1>8. CASE Blake!Overflows(c, inlen)
  <2>1. fill = BlakeBlock - c.buflen /\ c1 = Blake!Overflow(c, in, fill) /\ c1.buflen = 0
    BY <1>4, <1>8 DEF BlakeUpdatedAs
  <2>2. BlakeChained(c1, p, k + 1)
    <3>1. Blake!Prefix(p) + in - 1 = k * BlakeBlock + c.buflen
      BY <1>1, <1>5, <1>6
    <3> QED BY <1>1, <1>3, <2>1, <3>1, BlakeOverflowChained
  <2>3. in + fill \in Nat \ {0} /\ Blake!Prefix(p) + (in + fill) - 1 = (k + 1) * BlakeBlock
    <3>1. (k + 1) * BlakeBlock = x + BlakeBlock
      BY <1>5, <1>6
    <3>2. in + fill \in Nat \ {0}
      BY <1>5
    <3>3. Blake!Prefix(p) + (in + fill) - 1 = x + BlakeBlock
      BY <1>5, <1>10, <2>1
    <3> QED BY <3>1, <3>2, <3>3
  <2>4. c1 \in BlakeContexts /\ c2.buflen = 0
    BY <1>4, <2>1 DEF BlakeUpdatedAs
  <2> DEFINE g == (k + 1) + n
             z == g * BlakeBlock
  <2>5. BlakeChained(c2, p, g)
    <3> DEFINE l == k + 1
               at == in + fill
    <3>1. l \in Nat /\ at \in Nat \ {0} /\ BlakeChained(c1, p, l) /\ Blake!Prefix(p) + at - 1 = l * BlakeBlock
          /\ c2 = Blake!blake2s_compress(c1, at, n, BlakeBlock)
      BY <1>2, <2>2, <2>3
    <3> HIDE DEF l, at
    <3>2. BlakeChained(c2, p, l + n)
      BY <1>5, <2>4, <3>1, BlakeBulkChained
    <3> QED BY <3>2 DEF l
  <2>6. BlakeChained(e, p, g)
    <3>1. e.h = c2.h /\ e.t = c2.t /\ e.f = c2.f /\ e.outlen = c2.outlen
      BY <1>4 DEF BlakeUpdatedAs
    <3> HIDE DEF g
    <3> QED BY <2>5, <3>1, BlakeChainedSame
  <2>7. g \in Nat /\ z = x + BlakeBlock + y
    BY <1>5, <1>6
  <2>8. z \in Nat
    BY <1>5, <2>7
  <2> HIDE DEF z
  <2>9. e.buflen = rest /\ e.buf = Blake!Copy(c2.buf, 0, in + (fill + y), rest)
    BY <1>4, <1>5, <1>6, <2>4 DEF BlakeUpdatedAs
  <2>10. BlakeStreams(e.buf, rest, p, z)
    <3> DEFINE at == in + (fill + y)
    <3>1. at \in Nat \ {0} /\ Blake!Prefix(p) + at - 1 = z + 0
      <4>1. at \in Nat \ {0}
        BY <1>5
      <4>2. Blake!Prefix(p) + at - 1 = x + BlakeBlock + y
        BY <1>5, <1>10, <2>1
      <4> HIDE DEF at
      <4> QED BY <1>5, <2>7, <2>8, <4>1, <4>2
    <3>2. 0 + rest <= BlakeBlock /\ 0 \in Nat /\ 0 + rest = rest
      BY <1>4, <1>5 DEF BlakeUpdatedAs
    <3>3. BlakeStreams(c2.buf, 0, p, z)
      BY DEF BlakeStreams
    <3> HIDE DEF at
    <3>4. BlakeStreams(Blake!Copy(c2.buf, 0, at, rest), 0 + rest, p, z)
      BY <1>5, <2>8, <3>1, <3>2, <3>3, BlakeCopyStream
    <3> QED BY <2>9, <3>2, <3>4 DEF at
  <2>11. Blake!Prefix(p) + (t + inlen) = z + e.buflen
    BY <1>1, <1>5, <1>6, <1>7, <2>1, <2>7, <2>9
  <2> HIDE DEF g
  <2>12. /\ Blake!Prefix(p) + (t + inlen) = g * BlakeBlock + e.buflen
         /\ e.buflen # 0
         /\ BlakeStreams(e.buf, e.buflen, p, g * BlakeBlock)
    BY <1>5, <2>9, <2>10, <2>11 DEF z
  <2> QED BY <1>2, <2>6, <2>7, <2>12 DEF BlakeRepresents, BlakeStreams
<1>9. CASE ~Blake!Overflows(c, inlen)
  <2>1. fill = 0 /\ c1 = c /\ n = 0 /\ y = 0
    <3>1. fill = 0 /\ c1 = c /\ n = 0
      BY <1>4, <1>9 DEF BlakeUpdatedAs
    <3> QED BY <1>5, <1>6, <3>1
  <2>2. BlakeRuns([i \in 0 .. 0 |-> c], c, in + fill, 0)
    BY DEF BlakeRuns
  <2>3. c2 = c
    <3>1. in + fill \in Int
      BY <1>3, <1>5
    <3>2. PICK f : BlakeRuns(f, c, in + fill, 0) /\ Blake!blake2s_compress(c, in + fill, 0, BlakeBlock) = f[0]
      BY <3>1, BlakeCompressRuns
    <3> QED BY <1>2, <2>1, <3>2 DEF BlakeRuns
  <2>4. BlakeChained(e, p, k)
    <3>1. e.h = c.h /\ e.t = c.t /\ e.f = c.f /\ e.outlen = c.outlen
      BY <1>4, <2>3 DEF BlakeUpdatedAs
    <3> QED BY <1>1, <3>1, BlakeChainedSame
  <2>5. e.buflen = c.buflen + rest /\ e.buf = Blake!Copy(c.buf, c.buflen, in, rest)
        /\ c.buflen + rest <= BlakeBlock
    <3>1. in + (fill + y) = in
      BY <1>3, <2>1
    <3> QED BY <1>4, <1>6, <2>3, <3>1 DEF BlakeUpdatedAs
  <2>6. BlakeStreams(e.buf, c.buflen + rest, p, x)
    <3>1. Blake!Prefix(p) + in - 1 = x + c.buflen
      BY <1>1, <1>5, <1>6
    <3>2. BlakeStreams(c.buf, c.buflen, p, x)
      BY <1>1, <1>6
    <3>3. BlakeStreams(Blake!Copy(c.buf, c.buflen, in, rest), c.buflen + rest, p, x)
      BY <1>3, <1>5, <2>5, <3>1, <3>2, BlakeCopyStream
    <3> QED BY <2>5, <3>3
  <2>7. Blake!Prefix(p) + (t + inlen) = x + e.buflen /\ e.buflen # 0
    BY <1>1, <1>5, <1>6, <1>7, <2>1, <2>5
  <2> QED BY <1>2, <1>6, <2>4, <2>5, <2>6, <2>7 DEF BlakeRepresents, BlakeStreams
<1> QED BY <1>8, <1>9

\* The first context of a message.
LEMMA BlakeInitialRepresents ==
    ASSUME Blake!RadixAssumption, Blake!LensAssumption, NEW c, c.buf \in Blake!Buffers,
    NEW p \in Blake!Params
    PROVE  /\ Blake!blake2s_init_(c, p) \in BlakeContexts
           /\ BlakeRepresents(Blake!blake2s_init_(c, p), p, 0)
<1> DEFINE d == Blake!blake2s_init_(c, p)
           buf == IF p.keylen = 0 THEN c.buf ELSE Blake!KeyBlock(p.keylen)
           buflen == IF p.keylen = 0 THEN 0 ELSE BlakeBlock
<1>1. buf \in Blake!Buffers /\ buflen \in 0 .. BlakeBlock
  <2>1. Blake!KeyBlock(p.keylen) \in Blake!Buffers
    <3>1. \A i \in Blake!Index : Blake!Key(i) \in Int
      BY BlakeBlockAssumption DEF Blake!Key, Blake!Index
    <3>2. Blake!Zero \in Int
      BY DEF Blake!Zero, Blake!Lit
    <3> QED BY <3>1, <3>2 DEF Blake!KeyBlock, Blake!Buffers
  <2> QED BY <2>1, BlakeBlockAssumption
<1>2. d = [h |-> [iv |-> p, log |-> <<>>], t |-> <<0, 0>>, f |-> FALSE,
           buf |-> buf, buflen |-> buflen, outlen |-> p.outlen]
  BY Zenon DEF Blake!blake2s_init_
<1> HIDE DEF buf, buflen, d
<1>3. 0 \in Blake!Words /\ << 0, 0 >> \in Blake!Words \X Blake!Words
  BY BlakeBlockAssumption DEF Blake!Words, Blake!RadixAssumption
<1>4. p.outlen \in OutLens
  BY DEF Blake!Params
<1>5. [iv |-> p, log |-> <<>>] \in Blake!Chain
  BY DEF Blake!Chain
<1>6. d \in BlakeContexts
  BY <1>1, <1>2, <1>3, <1>4, <1>5 DEF BlakeContexts, Blake!blake2s_ctx
<1>7. Blake!Split(0 * BlakeBlock) = << 0, 0 >>
  <2>1. 0 * BlakeBlock = 0 /\ BlakeRadix \in Nat \ {0}
    BY BlakeBlockAssumption DEF Blake!RadixAssumption
  <2>2. 0 % BlakeRadix = 0 /\ 0 \div BlakeRadix = 0
    BY <2>1
  <2> QED BY <2>1, <2>2 DEF Blake!Split
<1>8. BlakeLogged(p, 0) = <<>>
  BY DEF BlakeLogged
<1>9. BlakeChained(d, p, 0)
  BY <1>2, <1>7, <1>8 DEF BlakeChained
<1>10. Blake!Prefix(p) + 0 = 0 * BlakeBlock + d.buflen /\ (d.buflen = 0 => Blake!Prefix(p) + 0 = 0)
  BY <1>2, BlakeBlockAssumption DEF Blake!Prefix, buflen
<1>11. \A i \in 0 .. d.buflen - 1 : d.buf[i] = BlakeStreamByte(p, 0 * BlakeBlock + i)
  <2>1. CASE p.keylen = 0
    BY <1>2, <2>1 DEF buflen
  <2>2. CASE p.keylen # 0
    <3>1. d.buflen = BlakeBlock /\ d.buf = Blake!KeyBlock(p.keylen) /\ Blake!Prefix(p) = BlakeBlock
      BY <1>2, <2>2 DEF buflen, buf, Blake!Prefix
    <3>2. \A i \in 0 .. BlakeBlock - 1 : 0 * BlakeBlock + i = i /\ ~(i >= BlakeBlock)
      BY BlakeBlockAssumption
    <3> QED BY <3>1, <3>2 DEF BlakeStreamByte
  <2> QED BY <2>1, <2>2
<1> QED BY <1>6, <1>9, <1>10, <1>11, Zenon DEF BlakeRepresents, BlakeStreams, d

\* The finish of any context is a digest.
LEMMA BlakeFinishedType ==
    ASSUME Blake!RadixAssumption, NEW c \in BlakeContexts
    PROVE  Blake!DigestOf(Blake!Finished(c)) \in [h : Blake!Chain, outlen : OutLens \cup {0}]
<1> DEFINE b == Blake!Fill(c.buf, c.buflen, Blake!Zero, BlakeBlock - c.buflen)
           d == [c EXCEPT !.f = TRUE, !.buf = b]
           e == Blake!Compress1(d, b, c.buflen)
<1>1. c.buf \in Blake!Buffers /\ c.buflen \in 0 .. BlakeBlock
  BY DEF BlakeContexts, Blake!blake2s_ctx
<1>2. b \in Blake!Buffers
  <2>1. Blake!Zero \in Int /\ c.buflen \in Int /\ BlakeBlock - c.buflen \in Int
    BY <1>1, BlakeBlockAssumption DEF Blake!Zero, Blake!Lit
  <2> QED BY <1>1, <2>1, Blake!FillType, BlakeBlockAssumption DEF Blake!BlockSizeAssumption
<1> HIDE DEF b
<1>3. d \in BlakeContexts
  BY <1>2 DEF BlakeContexts, Blake!blake2s_ctx
<1>4. Blake!Finished(c) = e
  BY Zenon DEF Blake!Finished, b
<1> HIDE DEF d
<1>5. e \in BlakeContexts
  BY <1>1, <1>2, <1>3, BlakeCompress1Type
<1> HIDE DEF e
<1> QED BY <1>4, <1>5 DEF Blake!DigestOf, BlakeContexts, Blake!blake2s_ctx

\* Before its end the input is what was compressed and buffered.
LEMMA BlakeInputIsStream ==
    ASSUME NEW p, NEW t \in Nat, NEW i \in Nat, i < Blake!Prefix(p) + t
    PROVE  Blake!InputByte(p, t, i) = BlakeStreamByte(p, i)
<1>1. Blake!Prefix(p) \in Nat
  BY BlakeBlockAssumption DEF Blake!Prefix
<1>2. ~(i >= Blake!Prefix(p) + t)
  BY <1>1
<1> QED BY <1>2 DEF Blake!InputByte, BlakeStreamByte

\* Before the end of the input its blocks are those of the unpadded stream.
LEMMA BlakeInputBlocks ==
    ASSUME NEW p, NEW t \in Nat, NEW k \in Nat, k * BlakeBlock <= Blake!Prefix(p) + t,
    NEW j \in 1 .. k
    PROVE  Blake!InputBlock(p, t, j) = BlakeStreamBlock(p, j)
<1> DEFINE x == (j - 1) * BlakeBlock
           m == k - j
           y == m * BlakeBlock
<1>1. j - 1 \in Nat /\ m \in Nat
  OBVIOUS
<1>2. x \in Nat /\ y \in Nat /\ k * BlakeBlock = x + BlakeBlock + y
  BY <1>1, BlakeBlockAssumption
<1>3. Blake!Prefix(p) \in Nat
  BY BlakeBlockAssumption DEF Blake!Prefix
<1> DEFINE z == k * BlakeBlock
<1>4. z = x + BlakeBlock + y /\ z <= Blake!Prefix(p) + t
  BY <1>2
<1> HIDE DEF x, y, z
<1>5. ASSUME NEW i \in Blake!Index
      PROVE  Blake!InputByte(p, t, x + i) = BlakeStreamByte(p, x + i)
  <2>1. x + i \in Nat /\ x + i < Blake!Prefix(p) + t
    BY <1>2, <1>3, <1>4, BlakeBlockAssumption DEF Blake!Index
  <2> QED BY <2>1, BlakeInputIsStream
<1> QED BY <1>5, Zenon DEF Blake!InputBlock, BlakeStreamBlock, x

\* The number of blocks: a whole last block is a last block.
LEMMA BlakeBlockCountExact ==
    ASSUME NEW k \in Nat, NEW u \in 0 .. BlakeBlock, NEW total, total = k * BlakeBlock + u,
           u = 0 => total = 0
    PROVE  Blake!BlockCount(total) = k + 1 /\ (u = 0 => k = 0)
<1> DEFINE x == k * BlakeBlock
<1>1. x \in Nat /\ total = x + u
  BY BlakeBlockAssumption
<1>2. k # 0 => x # 0
  BY BlakeBlockAssumption
<1>3. CASE u = 0
  <2> HIDE DEF x
  <2>1. total = 0 /\ k = 0
    BY <1>1, <1>2, <1>3
  <2> QED BY <2>1 DEF Blake!BlockCount
<1>4. CASE u # 0
  <2>1. u - 1 \in Blake!Index /\ k + 1 \in Nat
    BY <1>4, BlakeBlockAssumption DEF Blake!Index
  <2>2. (k + 1) * BlakeBlock = x + BlakeBlock
    BY BlakeBlockAssumption
  <2>3. ((k + 1) * BlakeBlock + (u - 1)) \div BlakeBlock = k + 1
    BY <2>1, Blake!DivModUnique, BlakeBlockAssumption DEF Blake!BlockSizeAssumption
  <2> HIDE DEF x
  <2>4. total + BlakeBlock - 1 = (x + BlakeBlock) + (u - 1) /\ total # 0
    BY <1>1, <1>4, BlakeBlockAssumption
  <2> QED BY <1>4, <2>2, <2>3, <2>4 DEF Blake!BlockCount
<1> QED BY <1>3, <1>4

\* The finish of a context that represents t bytes is the padded input.
LEMMA BlakeFinalIsReference ==
    ASSUME Blake!RadixAssumption, Blake!LensAssumption, NEW p \in Blake!Params,
    NEW t \in Nat,
           NEW c \in BlakeContexts, BlakeRepresents(c, p, t)
    PROVE  Blake!DigestOf(Blake!Finished(c)) = Blake!Reference(p, t)
<1>1. PICK k \in Nat :
        /\ BlakeChained(c, p, k)
        /\ Blake!Prefix(p) + t = k * BlakeBlock + c.buflen
        /\ c.buflen = 0 => Blake!Prefix(p) + t = 0
        /\ \A i \in 0 .. c.buflen - 1 : c.buf[i] = BlakeStreamByte(p, k * BlakeBlock + i)
  BY Zenon DEF BlakeRepresents, BlakeStreams
<1> DEFINE u == c.buflen
           total == Blake!Prefix(p) + t
           n == Blake!BlockCount(total)
           b == Blake!Fill(c.buf, u, Blake!Zero, BlakeBlock - u)
           d == [c EXCEPT !.f = TRUE, !.buf = b]
           e == Blake!Compress1(d, b, u)
           tt == Blake!blake2s_increment_counter(d.t, u)
           log == Append(d.h.log, [m |-> b, t |-> tt, last |-> d.f])
           ref == [j \in 1 .. n |->
                    [m |-> Blake!InputBlock(p, t, j),
                     t |-> Blake!Split(IF j < n THEN j * BlakeBlock ELSE total),
                     last |-> j = n]]
           x == k * BlakeBlock
<1>2. Blake!Reference(p, t) = [h |-> [iv |-> p, log |-> ref], outlen |-> p.outlen]
  BY Zenon DEF Blake!Reference
<1>3. Blake!Finished(c) = e
  BY Zenon DEF Blake!Finished
<1>4. u \in 0 .. BlakeBlock /\ u \in Nat /\ c.buf \in Blake!Buffers /\ Blake!Prefix(p) \in Nat /\ x \in Nat
  BY BlakeBlockAssumption DEF BlakeContexts, Blake!blake2s_ctx, Blake!Prefix
<1>5. total = x + u /\ total \in Nat /\ x <= Blake!Prefix(p) + t
  <2>1. Blake!Prefix(p) + t = x + u
    BY <1>1
  <2> HIDE DEF x, u
  <2> QED BY <1>4, <2>1
<1>6. n = k + 1 /\ (u = 0 => k = 0)
  <2>1. total = k * BlakeBlock + u /\ (u = 0 => total = 0)
    BY <1>1
  <2> HIDE DEF total, u
  <2> QED BY <1>4, <2>1, BlakeBlockCountExact
<1>7. b \in Blake!Buffers /\ \A i \in Blake!Index : b[i] = IF i < u THEN c.buf[i] ELSE Blake!Zero
  <2>1. Blake!Zero \in Int /\ u \in Int /\ BlakeBlock - u \in Int
    BY <1>4, BlakeBlockAssumption DEF Blake!Zero, Blake!Lit
  <2> HIDE DEF u
  <2>2. b \in Blake!Buffers
    BY <1>4, <2>1, Blake!FillType, BlakeBlockAssumption DEF Blake!BlockSizeAssumption
  <2>3. u + (BlakeBlock - u) - 1 = BlakeBlock - 1
    BY <1>4, BlakeBlockAssumption
  <2>4. \A i \in Blake!Index : b[i] = IF i \in u .. BlakeBlock - 1 THEN Blake!Zero ELSE c.buf[i]
    BY <2>3 DEF Blake!Fill
  <2> HIDE DEF b
  <2> QED BY <1>4, <2>2, <2>4, BlakeBlockAssumption DEF Blake!Index
<1> HIDE DEF b
<1>8. d \in BlakeContexts /\ d.h = c.h /\ d.t = c.t /\ d.f = TRUE /\ d.outlen = c.outlen
  BY <1>7 DEF BlakeContexts, Blake!blake2s_ctx
<1>9. BlakeCompressedAs(d, tt, log, e)
  <2>1. /\ tt = Blake!blake2s_increment_counter(d.t, u)
        /\ log = Append(d.h.log, [m |-> b, t |-> tt, last |-> d.f])
        /\ e = Blake!Compress1(d, b, u)
    OBVIOUS
  <2> HIDE DEF tt, log, e, d, u
  <2> QED BY <1>4, <1>7, <1>8, <2>1, BlakeCompressType
<1>10. tt = Blake!Split(total)
  <2>1. d.t = Blake!Split(x)
    BY <1>1, <1>8 DEF BlakeChained
  <2> HIDE DEF x, u, d
  <2>2. Blake!blake2s_increment_counter(Blake!Split(x), u) = Blake!Split(x + u)
    BY <1>4, BlakeCounterExact
  <2> QED BY <1>5, <2>1, <2>2, Zenon
<1>11. log = Append(BlakeLogged(p, k), [m |-> b, t |-> Blake!Split(total), last |-> TRUE])
  BY <1>1, <1>8, <1>10, Zenon DEF BlakeChained
<1> HIDE DEF tt, log, e, d
<1>12. Blake!InputBlock(p, t, k + 1) = b
  <2>1. (k + 1) - 1 = k
    OBVIOUS
  <2>2. ASSUME NEW i \in Blake!Index
        PROVE  Blake!InputByte(p, t, x + i) = b[i]
    <3>1. i \in Nat
      BY BlakeBlockAssumption DEF Blake!Index
    <3>2. CASE i < u
      <4>1. c.buf[i] = BlakeStreamByte(p, x + i)
        BY <1>1, <1>4, <3>1, <3>2
      <4> HIDE DEF x, u
      <4>2. x + i < Blake!Prefix(p) + t /\ x + i \in Nat
        BY <1>4, <1>5, <3>1, <3>2 DEF total
      <4>3. Blake!InputByte(p, t, x + i) = BlakeStreamByte(p, x + i)
        BY <4>2, BlakeInputIsStream
      <4> QED BY <1>7, <3>2, <4>1, <4>3
    <3>3. CASE ~(i < u)
      <4> HIDE DEF x, u
      <4>1. x + i >= Blake!Prefix(p) + t
        BY <1>4, <1>5, <3>1, <3>3 DEF total
      <4>2. Blake!InputByte(p, t, x + i) = Blake!Zero
        BY <4>1 DEF Blake!InputByte
      <4> QED BY <1>7, <3>3, <4>2
    <3> QED BY <3>2, <3>3
  <2>3. Blake!InputBlock(p, t, k + 1) = [i \in Blake!Index |-> Blake!InputByte(p, t, x + i)]
    BY <2>1 DEF Blake!InputBlock
  <2> HIDE DEF x
  <2> QED BY <1>7, <2>2, <2>3 DEF Blake!Buffers
<1> HIDE DEF total, n, u, x
<1> DEFINE last == [m |-> b, t |-> Blake!Split(total), last |-> TRUE]
<1>13. ref[k + 1] = last
  <2>1. k + 1 \in 1 .. n /\ ~(k + 1 < n) /\ k + 1 = n
    BY <1>6
  <2> QED BY <1>12, <2>1
<1>14. \A j \in 1 .. k : ref[j] = BlakeLogged(p, k)[j]
  <2> SUFFICES ASSUME NEW j \in 1 .. k
               PROVE  ref[j] = BlakeLogged(p, k)[j]
    OBVIOUS
  <2>1. j \in 1 .. n /\ j < n /\ j # n
    BY <1>6
  <2>2. Blake!InputBlock(p, t, j) = BlakeStreamBlock(p, j)
    <3>1. k * BlakeBlock <= Blake!Prefix(p) + t
      BY <1>5 DEF x
    <3> QED BY <3>1, BlakeInputBlocks
  <2>3. ref[j] = [m |-> BlakeStreamBlock(p, j), t |-> Blake!Split(j * BlakeBlock), last |-> FALSE]
    BY <2>1, <2>2
  <2>4. BlakeLogged(p, k)[j] = [m |-> BlakeStreamBlock(p, j), t |-> Blake!Split(j * BlakeBlock), last |-> FALSE]
    BY DEF BlakeLogged
  <2> HIDE DEF ref
  <2> QED BY <2>3, <2>4
<1>15. ref = [j \in 1 .. k + 1 |-> ref[j]]
  BY <1>6
<1> HIDE DEF ref
<1>16. last \in BlakeEntries
  <2>1. Blake!Split(total) \in Blake!Words \X Blake!Words
    BY <1>5, BlakeSplitType
  <2> QED BY <1>7, <2>1 DEF BlakeEntries
<1> HIDE DEF last
<1>17. /\ ref \in [1 .. k + 1 -> BlakeEntries]
       /\ BlakeLogged(p, k) = [j \in 1 .. k |-> ref[j]]
  <2>1. BlakeLogged(p, k) \in [1 .. k -> BlakeEntries]
    BY BlakeLoggedType
  <2>2. ASSUME NEW j \in 1 .. k + 1
        PROVE  ref[j] \in BlakeEntries
    <3>1. CASE j = k + 1
      BY <1>13, <1>16, <3>1
    <3>2. CASE j # k + 1
      <4>1. j \in 1 .. k
        BY <3>2
      <4> QED BY <1>14, <2>1, <4>1
    <3> QED BY <3>1, <3>2
  <2>3. ref \in [1 .. k + 1 -> BlakeEntries]
    BY <1>15, <2>2
  <2>4. BlakeLogged(p, k) = [j \in 1 .. k |-> ref[j]]
    BY <1>14, <2>1
  <2> QED BY <2>3, <2>4
<1>18. Append([j \in 1 .. k |-> ref[j]], ref[k + 1]) = ref
  BY <1>17, Blake!AppendTable, BlakeBlockAssumption DEF Blake!BlockSizeAssumption
<1>19. log = ref
  <2>1. log = Append(BlakeLogged(p, k), last)
    BY <1>11 DEF last
  <2> QED BY <1>13, <1>17, <1>18, <2>1
<1>20. e.h = [iv |-> p, log |-> ref] /\ e.outlen = p.outlen
  <2>1. e.h \in Blake!Chain /\ e.h.log = ref /\ e.h.iv = p /\ e.outlen = p.outlen
    BY <1>1, <1>8, <1>9, <1>19 DEF BlakeCompressedAs, BlakeChained, BlakeContexts,
      Blake!blake2s_ctx
  <2> QED BY <2>1 DEF Blake!Chain
<1> QED BY <1>2, <1>3, <1>20 DEF Blake!DigestOf

-----------------------------------------------------------------------------
\* In terms of the invariant.
BlakeIsPrefix(c, p, t) ==
    LET k == Len(c.h.log)
        total == Blake!Prefix(p) + t
    IN  /\ c.h.iv = p /\ c.outlen = p.outlen /\ ~c.f
        /\ total = k * BlakeBlock + c.buflen
        /\ c.buflen = 0 => total = 0
        /\ c.t = Blake!Split(k * BlakeBlock)
        /\ \A j \in 1 .. k : c.h.log[j] =
              [m |-> Blake!InputBlock(p, t, j), t |-> Blake!Split(j * BlakeBlock), last |-> FALSE]
        /\ \A i \in 0 .. c.buflen - 1 : c.buf[i] = Blake!InputByte(p, t, k * BlakeBlock + i)

\* What the buffer holds is input.
LEMMA BlakeBufferedInput ==
    ASSUME NEW p, NEW t \in Nat, NEW k \in Nat, NEW u \in Nat,
           Blake!Prefix(p) + t = k * BlakeBlock + u, NEW i \in 0 .. u - 1
    PROVE  Blake!InputByte(p, t, k * BlakeBlock + i) = BlakeStreamByte(p, k * BlakeBlock + i)
<1> DEFINE x == k * BlakeBlock
<1>1. x \in Nat /\ Blake!Prefix(p) + t = x + u
  BY BlakeBlockAssumption
<1> HIDE DEF x
<1>2. x + i \in Nat /\ x + i < Blake!Prefix(p) + t
  BY <1>1
<1>3. Blake!InputByte(p, t, x + i) = BlakeStreamByte(p, x + i)
  BY <1>2, BlakeInputIsStream
<1> QED BY <1>3 DEF x

\* What has been compressed is input too.
LEMMA BlakeCompressedInput ==
    ASSUME NEW p, NEW t \in Nat, NEW k \in Nat, NEW u \in Nat,
           Blake!Prefix(p) + t = k * BlakeBlock + u, NEW j \in 1 .. k
    PROVE  Blake!InputBlock(p, t, j) = BlakeStreamBlock(p, j)
<1> DEFINE x == k * BlakeBlock
<1>1. x \in Nat /\ Blake!Prefix(p) + t = x + u
  BY BlakeBlockAssumption
<1> HIDE DEF x
<1>2. x <= Blake!Prefix(p) + t
  BY <1>1
<1>3. k * BlakeBlock <= Blake!Prefix(p) + t
  BY <1>2 DEF x
<1> QED BY <1>3, BlakeInputBlocks

\* A context represents t bytes if it is as the invariant says.
LEMMA BlakePrefixIsRepresents ==
    ASSUME Blake!RadixAssumption, Blake!LensAssumption, NEW p \in Blake!Params,
    NEW t \in Nat, NEW c \in BlakeContexts
    PROVE  BlakeIsPrefix(c, p, t) <=> BlakeRepresents(c, p, t)
<1>1. /\ c.h.log \in Seq(BlakeEntries) /\ Len(c.h.log) \in Nat
      /\ c.h.log = [j \in 1 .. Len(c.h.log) |-> c.h.log[j]]
      /\ c.f \in BOOLEAN /\ c.buflen \in Nat
  <2>1. c.h.log \in Seq(BlakeEntries) /\ c.f \in BOOLEAN /\ c.buflen \in Nat
    BY BlakeBlockAssumption DEF BlakeContexts, Blake!blake2s_ctx, Blake!Chain, BlakeEntries
  <2> QED BY <2>1, LenProperties
<1>2. ASSUME BlakeIsPrefix(c, p, t)
      PROVE  BlakeRepresents(c, p, t)
  <2> DEFINE k == Len(c.h.log)
  <2>1. /\ c.h.iv = p /\ c.outlen = p.outlen /\ c.f = FALSE
        /\ Blake!Prefix(p) + t = k * BlakeBlock + c.buflen
        /\ c.buflen = 0 => Blake!Prefix(p) + t = 0
        /\ c.t = Blake!Split(k * BlakeBlock)
        /\ \A j \in 1 .. k : c.h.log[j] =
              [m |-> Blake!InputBlock(p, t, j), t |-> Blake!Split(j * BlakeBlock), last |-> FALSE]
        /\ \A i \in 0 .. c.buflen - 1 : c.buf[i] = Blake!InputByte(p, t, k * BlakeBlock + i)
    BY <1>1, <1>2, Zenon DEF BlakeIsPrefix
  <2>2. k \in Nat /\ c.h.log = [j \in 1 .. k |-> c.h.log[j]]
    BY <1>1
  <2> HIDE DEF k
  <2> DEFINE u == c.buflen
  <2>8. u \in Nat /\ Blake!Prefix(p) + t = k * BlakeBlock + u
    BY <1>1, <2>1
  <2>3. \A j \in 1 .. k : Blake!InputBlock(p, t, j) = BlakeStreamBlock(p, j)
    <3> HIDE DEF u
    <3> QED BY <2>2, <2>8, BlakeCompressedInput
  <2>4. \A j \in 1 .. k : c.h.log[j] =
              [m |-> BlakeStreamBlock(p, j), t |-> Blake!Split(j * BlakeBlock), last |-> FALSE]
    BY <2>1, <2>3
  <2>5. c.h.log = BlakeLogged(p, k)
    BY <2>2, <2>4 DEF BlakeLogged
  <2>6. ASSUME NEW i \in 0 .. c.buflen - 1
        PROVE  c.buf[i] = BlakeStreamByte(p, k * BlakeBlock + i)
    <3>1. Blake!InputByte(p, t, k * BlakeBlock + i) = BlakeStreamByte(p, k * BlakeBlock + i)
      <4>1. i \in 0 .. u - 1
        OBVIOUS
      <4> HIDE DEF u
      <4> QED BY <2>2, <2>8, <4>1, BlakeBufferedInput
    <3> QED BY <2>1, <3>1
  <2>7. BlakeChained(c, p, k) /\ BlakeStreams(c.buf, c.buflen, p, k * BlakeBlock)
    BY <2>1, <2>5, <2>6, Zenon DEF BlakeChained, BlakeStreams
  <2> QED BY <2>1, <2>2, <2>7, Zenon DEF BlakeRepresents
<1>3. ASSUME BlakeRepresents(c, p, t)
      PROVE  BlakeIsPrefix(c, p, t)
  <2>1. PICK k \in Nat :
          /\ BlakeChained(c, p, k)
          /\ Blake!Prefix(p) + t = k * BlakeBlock + c.buflen
          /\ c.buflen = 0 => Blake!Prefix(p) + t = 0
          /\ \A i \in 0 .. c.buflen - 1 : c.buf[i] = BlakeStreamByte(p, k * BlakeBlock + i)
    BY <1>3, Zenon DEF BlakeRepresents, BlakeStreams
  <2>2. c.h.log = BlakeLogged(p, k) /\ Len(c.h.log) = k
    BY <2>1, BlakeLoggedType DEF BlakeChained
  <2>3. ASSUME NEW j \in 1 .. k
        PROVE  c.h.log[j] =
                 [m |-> Blake!InputBlock(p, t, j), t |-> Blake!Split(j * BlakeBlock), last |-> FALSE]
    <3>1. Blake!InputBlock(p, t, j) = BlakeStreamBlock(p, j)
      BY <1>1, <2>1, BlakeCompressedInput
    <3> QED BY <2>2, <3>1 DEF BlakeLogged
  <2>4. ASSUME NEW i \in 0 .. c.buflen - 1
        PROVE  c.buf[i] = Blake!InputByte(p, t, k * BlakeBlock + i)
    <3>1. Blake!InputByte(p, t, k * BlakeBlock + i) = BlakeStreamByte(p, k * BlakeBlock + i)
      BY <1>1, <2>1, BlakeBufferedInput
    <3> QED BY <2>1, <3>1
  <2>5. c.h.iv = p /\ c.outlen = p.outlen /\ ~c.f /\ c.t = Blake!Split(k * BlakeBlock)
    BY <2>1 DEF BlakeChained
  <2> QED BY <2>1, <2>2, <2>3, <2>4, <2>5, Zenon DEF BlakeIsPrefix
<1> QED BY <1>2, <1>3

BlakeInv == Blake!TypeOK /\ Blake!StateIsPrefix

\* The cleared context is one.
LEMMA BlakeWipedType ==
    ASSUME Blake!RadixAssumption
    PROVE  Blake!Wiped \in BlakeContexts
<1>1. Blake!ZeroBlock \in Blake!Buffers
  BY DEF Blake!ZeroBlock, Blake!Buffers, Blake!Zero, Blake!Lit
<1>2. << 0, 0 >> \in Blake!Words \X Blake!Words /\ 0 \in 0 .. BlakeBlock
  BY BlakeBlockAssumption DEF Blake!Words, Blake!RadixAssumption
<1>3. [iv |-> Blake!NoParams, log |-> <<>>] \in Blake!Chain
  BY DEF Blake!Chain
<1> QED BY <1>1, <1>2, <1>3 DEF Blake!Wiped, BlakeContexts, Blake!blake2s_ctx

\* The inductive invariant holds at first
LEMMA BlakeInitInv ==
    ASSUME Blake!RadixAssumption, Blake!LensAssumption
    PROVE  Blake!Init => BlakeInv
<1> SUFFICES ASSUME Blake!Init
             PROVE  BlakeInv
  OBVIOUS
<1> DEFINE c == [buf |-> [i \in Blake!Index |-> Blake!Poison]]
<1>1. c.buf \in Blake!Buffers
  BY DEF Blake!Buffers, Blake!Poison
<1>2. ctx = Blake!blake2s_init_(c, param) /\ param \in Blake!Params
  BY DEF Blake!Init
<1> HIDE DEF c
<1>3. ctx \in BlakeContexts /\ BlakeRepresents(ctx, param, 0)
  BY <1>1, <1>2, BlakeInitialRepresents
<1>4. Blake!TypeOK
  <2>1. taken \in 0 .. MaxTaken
    BY DEF Blake!Init, Blake!LensAssumption
  <2>2. out \in [h : Blake!Chain, outlen : OutLens \cup {0}]
    BY <1>3 DEF Blake!Init, Blake!DigestOf, BlakeContexts, Blake!blake2s_ctx
  <2> QED BY <1>2, <1>3, <2>1, <2>2 DEF Blake!Init, Blake!TypeOK, BlakeContexts
<1>5. BlakeIsPrefix(ctx, param, taken)
  BY <1>2, <1>3, BlakePrefixIsRepresents DEF Blake!Init
<1>6. Blake!StateIsPrefix
  BY <1>5, Zenon DEF Blake!StateIsPrefix, BlakeIsPrefix
<1> QED BY <1>4, <1>6 DEF BlakeInv

\* and is preserved by every call,
LEMMA BlakeStepInv ==
    ASSUME Blake!RadixAssumption, Blake!LensAssumption, BlakeInv, Blake!Next
    PROVE  BlakeInv'
<1>0. /\ ctx \in BlakeContexts /\ ctx.buf \in Blake!Buffers /\ taken \in Nat /\ MaxTaken \in Nat
      /\ phase \in {"absorbing", "spent"} /\ param \in Blake!Params /\ taken \in 0 .. MaxTaken
      /\ out \in [h : Blake!Chain, outlen : OutLens \cup {0}]
  BY DEF BlakeInv, Blake!TypeOK, BlakeContexts, Blake!blake2s_ctx, Blake!LensAssumption
<1>1. ASSUME NEW p \in Blake!Params, Blake!blake2s_init(p)
      PROVE  BlakeInv'
  <2>1. ctx' \in BlakeContexts /\ BlakeRepresents(ctx', param', taken') /\ param' = p /\ taken' = 0
    BY <1>0, <1>1, BlakeInitialRepresents DEF Blake!blake2s_init
  <2>2. Blake!TypeOK'
    BY <1>0, <1>1, <2>1 DEF Blake!blake2s_init, Blake!TypeOK, BlakeContexts
  <2>3. BlakeIsPrefix(ctx', param', taken')
    BY <2>1, BlakePrefixIsRepresents
  <2>4. Blake!StateIsPrefix'
    BY <2>3, Zenon DEF Blake!StateIsPrefix, BlakeIsPrefix
  <2> QED BY <2>2, <2>4 DEF BlakeInv
<1>2. ASSUME NEW inlen \in 0 .. MaxTaken, Blake!blake2s_update(inlen)
      PROVE  BlakeInv'
  <2>1. inlen \in Nat /\ taken + inlen \in 0 .. MaxTaken /\ taken + 1 \in Int
    BY <1>0, <1>2 DEF Blake!blake2s_update
  <2>2. ctx' \in BlakeContexts
    <3>1. CASE inlen = 0
      BY <1>0, <1>2, <3>1 DEF Blake!blake2s_update
    <3>2. CASE inlen # 0
      <4>1. Blake!Updated(ctx, taken + 1, inlen) \in BlakeContexts
        BY <1>0, <2>1, <3>2, BlakeUpdatedType
      <4> QED BY <1>2, <3>2, <4>1 DEF Blake!blake2s_update
    <3> QED BY <3>1, <3>2
  <2>3. param' = param /\ taken' = taken + inlen /\ phase' = phase
    BY <1>2 DEF Blake!blake2s_update
  <2>4. Blake!TypeOK'
    BY <1>0, <1>2, <2>1, <2>2 DEF Blake!blake2s_update, Blake!TypeOK, BlakeContexts
  <2>5. ASSUME phase = "absorbing"
        PROVE  BlakeIsPrefix(ctx', param', taken')
    <3>1. BlakeIsPrefix(ctx, param, taken)
      BY <2>5, Zenon DEF BlakeInv, Blake!StateIsPrefix, BlakeIsPrefix
    <3>2. BlakeRepresents(ctx, param, taken)
      BY <1>0, <3>1, BlakePrefixIsRepresents
    <3>3. BlakeRepresents(ctx', param, taken + inlen)
      <4>1. CASE inlen = 0
        <5>1. taken + inlen = taken /\ ctx' = ctx
          BY <1>0, <1>2, <4>1 DEF Blake!blake2s_update
        <5> QED BY <3>2, <5>1
      <4>2. CASE inlen # 0
        <5>1. BlakeRepresents(Blake!Updated(ctx, taken + 1, inlen), param, taken + inlen)
          BY <1>0, <2>1, <3>2, <4>2, BlakeUpdatedRepresents
        <5> QED BY <1>2, <4>2, <5>1 DEF Blake!blake2s_update
      <4> QED BY <4>1, <4>2
    <3>4. taken' \in Nat /\ param' \in Blake!Params /\ BlakeRepresents(ctx', param', taken')
      BY <1>0, <2>1, <2>3, <3>3
    <3> QED BY <2>2, <3>4, BlakePrefixIsRepresents
  <2>6. Blake!StateIsPrefix'
    BY <2>3, <2>5, Zenon DEF Blake!StateIsPrefix, BlakeIsPrefix
  <2> QED BY <2>4, <2>6 DEF BlakeInv
<1>3. ASSUME Blake!blake2s_final
      PROVE  BlakeInv'
  <2>1. ctx' \in BlakeContexts /\ out' \in [h : Blake!Chain, outlen : OutLens \cup {0}]
    BY <1>0, <1>3, BlakeWipedType, BlakeFinishedType DEF Blake!blake2s_final
  <2>2. Blake!TypeOK'
    BY <1>0, <1>3, <2>1 DEF Blake!blake2s_final, Blake!TypeOK, BlakeContexts
  <2>3. Blake!StateIsPrefix'
    BY <1>3 DEF Blake!blake2s_final, Blake!StateIsPrefix
  <2> QED BY <2>2, <2>3 DEF BlakeInv
<1> QED BY <1>1, <1>2, <1>3 DEF Blake!Next

\* and what a call returns is the reference.
LEMMA BlakeReturnsReference ==
    ASSUME Blake!RadixAssumption, Blake!LensAssumption, BlakeInv, phase = "absorbing",
    Blake!blake2s_final
    PROVE  out' = Blake!Reference(param, taken)
<1>1. ctx \in BlakeContexts /\ taken \in Nat /\ param \in Blake!Params
  BY DEF BlakeInv, Blake!TypeOK, BlakeContexts
<1>2. BlakeIsPrefix(ctx, param, taken)
  BY Zenon DEF BlakeInv, Blake!StateIsPrefix, BlakeIsPrefix
<1>3. BlakeRepresents(ctx, param, taken)
  BY <1>1, <1>2, BlakePrefixIsRepresents
<1> QED BY <1>1, <1>3, BlakeFinalIsReference DEF Blake!blake2s_final

-----------------------------------------------------------------------------
(***************************************************************************)
(* Poly1305.                                                               *)
(***************************************************************************)

(***************************************************************************)
(* Types.                                                                  *)
(***************************************************************************)

PolyMarked == [m : Poly!Buffers, hibit : {0, 1}]
PolyContexts == Poly!poly1305_desc_ctx

\* A block of the message, marked, is one that can be absorbed.
LEMMA PolyMarkedType ==
    /\ \A data \in Int : [m |-> Poly!BlockAt(data), hibit |-> 1] \in PolyMarked
    /\ \A j \in Int : Poly!MessageBlock(j) \in PolyMarked
<1>1. \A data \in Int : [m |-> Poly!BlockAt(data), hibit |-> 1] \in PolyMarked
  BY Poly!BlockAtType, PolyBlockAssumption DEF PolyMarked, Poly!BlockSizeAssumption
<1>2. \A j \in Int : (j - 1) * PolyBlock + 1 \in Int
  BY PolyBlockAssumption
<1> QED BY <1>1, <1>2 DEF Poly!MessageBlock

\* Absorbing a block changes nothing but the list of the absorbed.
LEMMA PolyAbsorb1Type ==
    ASSUME NEW d \in PolyContexts, NEW m \in Poly!Buffers, NEW hibit \in {0, 1}
    PROVE  /\ Poly!Absorb1(d, m, hibit) \in PolyContexts
           /\ Poly!Absorb1(d, m, hibit).key = d.key
           /\ Poly!Absorb1(d, m, hibit).buf = d.buf
           /\ Poly!Absorb1(d, m, hibit).buflen = d.buflen
<1> DEFINE e == [m |-> m, hibit |-> hibit]
           b == Append(d.blocks, e)
<1>1. d.blocks \in Seq(PolyMarked) /\ e \in PolyMarked
  BY DEF PolyContexts, Poly!poly1305_desc_ctx, Poly!Absorbed, PolyMarked
<1> HIDE DEF e
<1>2. b \in Seq(PolyMarked)
  BY <1>1, AppendProperties
<1>3. Poly!Absorb1(d, m, hibit) = [d EXCEPT !.blocks = b]
  BY Zenon DEF Poly!Absorb1, e
<1> HIDE DEF b
<1>4. b \in Poly!Absorbed
  BY <1>2 DEF Poly!Absorbed, PolyMarked
<1> QED BY <1>3, <1>4 DEF PolyContexts, Poly!poly1305_desc_ctx, b, e

\* It goes to the end of it.
LEMMA PolyAbsorb1Appends ==
    ASSUME NEW d \in PolyContexts, NEW m, NEW hibit, NEW e, e = [m |-> m, hibit |-> hibit],
           NEW b, b = Append(d.blocks, e)
    PROVE  Poly!Absorb1(d, m, hibit).blocks = b
<1>1. Poly!Absorb1(d, m, hibit) = [d EXCEPT !.blocks = b]
  BY Zenon DEF Poly!Absorb1
<1> QED BY <1>1 DEF PolyContexts, Poly!poly1305_desc_ctx

\* poly1305_blocks leaves the buffer alone.
LEMMA PolyBlocksType ==
    ASSUME NEW d \in PolyContexts, NEW src \in Int, NEW n \in Nat,
           NEW more, more = [j \in 1 .. n |->
               [m |-> Poly!BlockAt(src + (j - 1) * PolyBlock), hibit |-> 1]],
           NEW all, all = d.blocks \o more
    PROVE  /\ Poly!poly1305_blocks(d, src, n) \in PolyContexts
           /\ Poly!poly1305_blocks(d, src, n).blocks = all
           /\ Poly!poly1305_blocks(d, src, n).key = d.key
           /\ Poly!poly1305_blocks(d, src, n).buf = d.buf
           /\ Poly!poly1305_blocks(d, src, n).buflen = d.buflen
<1>1. more \in [1 .. n -> PolyMarked]
  <2>1. \A j \in 1 .. n : src + (j - 1) * PolyBlock \in Int
    BY PolyBlockAssumption
  <2> QED BY <2>1, PolyMarkedType
<1>2. more \in Seq(PolyMarked) /\ d.blocks \in Seq(PolyMarked)
  BY <1>1, SeqDef DEF PolyContexts, Poly!poly1305_desc_ctx, Poly!Absorbed, PolyMarked
<1>3. all \in Poly!Absorbed
  BY <1>2, ConcatProperties DEF Poly!Absorbed, PolyMarked
<1>4. Poly!poly1305_blocks(d, src, n) = [d EXCEPT !.blocks = all]
  BY Zenon DEF Poly!poly1305_blocks
<1> QED BY <1>3, <1>4 DEF PolyContexts, Poly!poly1305_desc_ctx

\* Topping up leaves the buffer empty.
LEMMA PolyTopUpType ==
    ASSUME NEW d \in PolyContexts, NEW src \in Int
    PROVE  /\ Poly!TopUp(d, src) \in PolyContexts
           /\ Poly!TopUp(d, src).key = d.key
           /\ Poly!TopUp(d, src).buflen = 0
           /\ Poly!TopUpLen(d) \in 0 .. PolyBlock
<1>1. d.buflen \in 0 .. PolyBlock - 1 /\ d.buf \in Poly!Buffers
  BY DEF PolyContexts, Poly!poly1305_desc_ctx
<1>2. Poly!TopUpLen(d) \in 0 .. PolyBlock
  BY <1>1, PolyBlockAssumption DEF Poly!TopUpLen
<1>3. CASE d.buflen = 0
  BY <1>2, <1>3 DEF Poly!TopUp
<1>4. CASE d.buflen # 0
  <2> DEFINE b == Poly!Copy(d.buf, d.buflen, src, Poly!TopUpLen(d))
             e == [d EXCEPT !.buf = b, !.buflen = 0]
  <2>1. b \in Poly!Buffers
    BY <1>1, <1>2, Poly!CopyType, PolyBlockAssumption DEF Poly!BlockSizeAssumption
  <2>2. Poly!TopUp(d, src) = Poly!Absorb1(e, b, 1)
    BY <1>4 DEF Poly!TopUp
  <2> HIDE DEF b
  <2>3. e \in PolyContexts /\ e.key = d.key /\ e.buflen = 0
    <3>1. 0 \in 0 .. PolyBlock - 1
      BY PolyBlockAssumption
    <3> QED BY <2>1, <3>1 DEF PolyContexts, Poly!poly1305_desc_ctx
  <2> HIDE DEF e
  <2>4. /\ Poly!Absorb1(e, b, 1) \in PolyContexts
        /\ Poly!Absorb1(e, b, 1).key = e.key
        /\ Poly!Absorb1(e, b, 1).buflen = e.buflen
    BY <2>1, <2>3, PolyAbsorb1Type
  <2> QED BY <1>2, <2>2, <2>3, <2>4
<1> QED BY <1>3, <1>4

\* The last memcpy of update stays inside the buffer.
LEMMA PolyKeepTailType ==
    ASSUME NEW d \in PolyContexts, NEW src \in Int, NEW n \in Nat, d.buflen + n < PolyBlock
    PROVE  /\ Poly!KeepTail(d, src, n) \in PolyContexts
           /\ Poly!KeepTail(d, src, n).key = d.key
           /\ Poly!KeepTail(d, src, n).blocks = d.blocks
           /\ Poly!KeepTail(d, src, n).buflen = d.buflen + n
           /\ n # 0 => Poly!KeepTail(d, src, n).buf = Poly!Copy(d.buf, d.buflen, src, n)
           /\ n = 0 => Poly!KeepTail(d, src, n).buf = d.buf
<1> DEFINE b == Poly!Copy(d.buf, d.buflen, src, n)
<1>1. d.buflen \in 0 .. PolyBlock - 1 /\ d.buf \in Poly!Buffers
  BY DEF PolyContexts, Poly!poly1305_desc_ctx
<1>2. CASE n = 0
  BY <1>1, <1>2 DEF Poly!KeepTail
<1>3. CASE n # 0
  <2>1. b \in Poly!Buffers
    BY <1>1, Poly!CopyType, PolyBlockAssumption DEF Poly!BlockSizeAssumption
  <2>2. Poly!KeepTail(d, src, n) = [d EXCEPT !.buf = b, !.buflen = @ + n]
    BY <1>3 DEF Poly!KeepTail
  <2> HIDE DEF b
  <2>3. d.buflen + n \in 0 .. PolyBlock - 1
    BY <1>1, PolyBlockAssumption
  <2>4. /\ Poly!KeepTail(d, src, n) \in PolyContexts
        /\ Poly!KeepTail(d, src, n).key = d.key
        /\ Poly!KeepTail(d, src, n).blocks = d.blocks
        /\ Poly!KeepTail(d, src, n).buflen = d.buflen + n
        /\ Poly!KeepTail(d, src, n).buf = b
    BY <2>1, <2>2, <2>3 DEF PolyContexts, Poly!poly1305_desc_ctx
  <2> QED BY <1>3, <2>4 DEF b
<1> QED BY <1>2, <1>3

\* The sum in the test of update does not wrap, so the test says whether the
\* bytes fill the buffer.
LEMMA PolyCompletesExact ==
    ASSUME Poly!UintAssumption, NEW d \in PolyContexts, NEW n \in 0 .. MaxTaken
    PROVE  Poly!Completes(d, n) <=> d.buflen + n >= PolyBlock
<1> DEFINE s == d.buflen + n
<1>1. s \in Nat /\ s < UintRadix /\ UintRadix \in Nat
  BY PolyBlockAssumption DEF Poly!UintAssumption, PolyContexts, Poly!poly1305_desc_ctx
<1> HIDE DEF s
<1>2. s % UintRadix = s
  BY <1>1
<1> QED BY <1>2 DEF s, Poly!Completes

\* What is left after the top up, when the bytes complete a block.
LEMMA PolyRestType ==
    ASSUME NEW d \in PolyContexts, NEW n \in Nat, d.buflen + n >= PolyBlock
    PROVE  /\ n - Poly!TopUpLen(d) \in Nat
           /\ (n - Poly!TopUpLen(d)) \div PolyBlock \in Nat
           /\ (n - Poly!TopUpLen(d)) % PolyBlock \in Poly!Index
           /\ n - Poly!TopUpLen(d) = ((n - Poly!TopUpLen(d)) \div PolyBlock) * PolyBlock
                                  + ((n - Poly!TopUpLen(d)) % PolyBlock)
<1>1. n - Poly!TopUpLen(d) \in Nat
  BY PolyBlockAssumption DEF Poly!TopUpLen, PolyContexts, Poly!poly1305_desc_ctx
<1> QED BY <1>1, Poly!DivMod, PolyBlockAssumption DEF Poly!BlockSizeAssumption

\* update keeps the context well formed, whatever the bytes are.
LEMMA PolyUpdatedType ==
    ASSUME Poly!UintAssumption, NEW d \in PolyContexts, NEW src \in Int,
    NEW n \in 0 .. MaxTaken
    PROVE  Poly!Updated(d, src, n) \in PolyContexts /\ Poly!Updated(d, src, n).key = d.key
<1>1. n \in Nat /\ d.buflen \in Nat
  BY PolyBlockAssumption DEF Poly!UintAssumption, PolyContexts, Poly!poly1305_desc_ctx
<1>2. CASE d.buflen + n < PolyBlock
  <2>1. ~ Poly!Completes(d, n)
    BY <1>1, <1>2, PolyCompletesExact, PolyBlockAssumption
  <2> QED BY <1>1, <1>2, <2>1, PolyKeepTailType DEF Poly!Updated
<1>3. CASE d.buflen + n >= PolyBlock
  <2> DEFINE l == Poly!TopUpLen(d)
             k == (n - l) \div PolyBlock
             r == (n - l) % PolyBlock
             e == Poly!TopUp(d, src)
             f == Poly!poly1305_blocks(e, src + l, k)
  <2>1. l \in Nat /\ k \in Nat /\ r \in Poly!Index
    <3>1. l \in Nat
      BY PolyTopUpType, PolyBlockAssumption
    <3> HIDE DEF l
    <3>2. k \in Nat /\ r \in Poly!Index
      BY <1>1, <1>3, PolyRestType DEF l
    <3> QED BY <3>1, <3>2
  <2>2. Poly!Updated(d, src, n) = Poly!KeepTail(f, src + l + k * PolyBlock, r)
    BY <1>3, PolyCompletesExact DEF Poly!Updated
  <2>3. e \in PolyContexts /\ e.key = d.key /\ e.buflen = 0
    BY PolyTopUpType
  <2> HIDE DEF l, k, r, e
  <2>4. f \in PolyContexts /\ f.key = d.key /\ f.buflen = 0
    <3> DEFINE more == [j \in 1 .. k |->
                  [m |-> Poly!BlockAt(src + l + (j - 1) * PolyBlock), hibit |-> 1]]
    <3>1. src + l \in Int
      BY <2>1
    <3>2. more = [j \in 1 .. k |->
                  [m |-> Poly!BlockAt((src + l) + (j - 1) * PolyBlock), hibit |-> 1]]
      OBVIOUS
    <3> HIDE DEF more
    <3> DEFINE all == e.blocks \o more
    <3>3. all = e.blocks \o more
      OBVIOUS
    <3> HIDE DEF all
    <3>4. /\ f \in PolyContexts
          /\ f.key = e.key
          /\ f.buflen = e.buflen
      BY <2>1, <2>3, <3>1, <3>2, <3>3, PolyBlocksType
    <3> QED BY <2>3, <3>4
  <2> HIDE DEF f
  <2>5. src + l + k * PolyBlock \in Int /\ r \in Nat /\ r < PolyBlock
    BY <2>1, PolyBlockAssumption DEF Poly!Index
  <2> QED BY <2>2, <2>4, <2>5, PolyKeepTailType
<1> QED BY <1>1, <1>2, <1>3, PolyBlockAssumption

\* A context that was just initialised is well formed.
LEMMA PolyInitialType ==
    ASSUME NEW d \in PolyContexts, NEW key \in Keys \cup {NoKey}
    PROVE  Poly!InitialDesc(d, key) \in PolyContexts /\ Poly!ClearedDesc \in PolyContexts
<1>1. << >> \in Poly!Absorbed /\ 0 \in 0 .. PolyBlock - 1
  BY PolyBlockAssumption DEF Poly!Absorbed
<1>2. Poly!ZeroBlock \in Poly!Buffers
  BY DEF Poly!ZeroBlock, Poly!Buffers, Poly!Zero, Poly!Lit
<1> QED BY <1>1, <1>2 DEF PolyContexts, Poly!poly1305_desc_ctx, Poly!InitialDesc,
  Poly!ClearedDesc

\* What final pads is well formed,
LEMMA PolyPaddedType ==
    ASSUME NEW d \in PolyContexts
    PROVE  Poly!Padded(d) \in PolyContexts /\ Poly!Padded(d).key = d.key
<1>1. d.buflen \in Poly!Index /\ d.buf \in Poly!Buffers
  BY DEF PolyContexts, Poly!poly1305_desc_ctx, Poly!Index
<1>2. CASE d.buflen = 0
  BY <1>2 DEF Poly!Padded
<1>3. CASE d.buflen # 0
  <2> DEFINE a == [d.buf EXCEPT ![d.buflen] = Poly!Lit(1)]
             b == Poly!Fill(a, d.buflen + 1, Poly!Zero, PolyBlock - (d.buflen + 1))
             e == [d EXCEPT !.buf = b]
  <2>1. a \in Poly!Buffers
    BY <1>1 DEF Poly!Buffers, Poly!Lit
  <2>2. d.buflen + 1 \in Int /\ Poly!Zero \in Int /\ PolyBlock - (d.buflen + 1) \in Int
    BY <1>1, PolyBlockAssumption DEF Poly!Index, Poly!Zero, Poly!Lit
  <2>3. Poly!Padded(d) = Poly!Absorb1(e, b, 0)
    BY <1>3 DEF Poly!Padded
  <2> HIDE DEF a
  <2>4. b \in Poly!Buffers
    BY <2>1, <2>2, Poly!FillType, PolyBlockAssumption DEF Poly!BlockSizeAssumption
  <2> HIDE DEF b
  <2>5. e \in PolyContexts /\ e.key = d.key
    BY <2>4 DEF PolyContexts, Poly!poly1305_desc_ctx
  <2> HIDE DEF e
  <2>6. Poly!Absorb1(e, b, 0) \in PolyContexts /\ Poly!Absorb1(e, b, 0).key = e.key
    BY <2>4, <2>5, PolyAbsorb1Type
  <2> QED BY <2>3, <2>5, <2>6
<1> QED BY <1>2, <1>3

\* and so is the tag.
LEMMA PolyTagType ==
    ASSUME NEW d \in PolyContexts
    PROVE  Poly!TagOf(d) \in [key : Keys \cup {NoKey}, blocks : Poly!Absorbed]
BY DEF Poly!TagOf, PolyContexts, Poly!poly1305_desc_ctx

\* Between two calls the buffer is never full, so that the memcpys of update
\* and final stay inside it: at first
LEMMA PolyInitType ==
    ASSUME Poly!UintAssumption
    PROVE  Poly!Init => Poly!TypeOK
<1> SUFFICES ASSUME Poly!Init
             PROVE  Poly!TypeOK
  OBVIOUS
<1>1. Poly!ClearedDesc \in PolyContexts /\ param \in Keys \cup {NoKey}
  <2>1. << >> \in Poly!Absorbed /\ 0 \in 0 .. PolyBlock - 1
    BY PolyBlockAssumption DEF Poly!Absorbed
  <2>2. Poly!ZeroBlock \in Poly!Buffers
    BY DEF Poly!ZeroBlock, Poly!Buffers, Poly!Zero, Poly!Lit
  <2> QED BY <2>1, <2>2 DEF PolyContexts, Poly!poly1305_desc_ctx, Poly!ClearedDesc, Poly!Init
<1>2. ctx \in PolyContexts
  BY <1>1, PolyInitialType DEF Poly!Init
<1>3. out \in [key : Keys \cup {NoKey}, blocks : Poly!Absorbed]
  BY <1>2, PolyTagType DEF Poly!Init
<1> QED BY <1>2, <1>3 DEF Poly!Init, Poly!TypeOK, PolyContexts, Poly!UintAssumption

\* and after every call.
LEMMA PolyStepType ==
    ASSUME Poly!UintAssumption, Poly!TypeOK, Poly!Next
    PROVE  Poly!TypeOK'
<1>0. ctx \in PolyContexts
  BY DEF Poly!TypeOK, PolyContexts
<1>1. ASSUME NEW key \in Keys, Poly!poly1305_init(key)
      PROVE  Poly!TypeOK'
  <2>1. ctx' \in PolyContexts
    BY <1>0, <1>1, PolyInitialType DEF Poly!poly1305_init
  <2> QED BY <1>1, <2>1 DEF Poly!poly1305_init, Poly!TypeOK, PolyContexts, Poly!UintAssumption
<1>2. ASSUME NEW nbytes \in 0 .. MaxTaken, Poly!poly1305_update(nbytes)
      PROVE  Poly!TypeOK'
  <2>1. taken + 1 \in Int
    BY DEF Poly!TypeOK
  <2>2. ctx' \in PolyContexts
    BY <1>0, <1>2, <2>1, PolyUpdatedType DEF Poly!poly1305_update
  <2>3. taken' \in 0 .. MaxTaken
    BY <1>2 DEF Poly!poly1305_update, Poly!TypeOK, Poly!UintAssumption
  <2> QED BY <1>2, <2>2, <2>3 DEF Poly!poly1305_update, Poly!TypeOK, PolyContexts
<1>3. CASE Poly!poly1305_final
  <2>1. out' \in [key : Keys \cup {NoKey}, blocks : Poly!Absorbed]
    BY <1>0, <1>3, PolyPaddedType, PolyTagType DEF Poly!poly1305_final
  <2>2. ctx' \in PolyContexts
    <3>1. NoKey \in Keys \cup {NoKey}
      OBVIOUS
    <3> QED BY <1>0, <1>3, <3>1, PolyInitialType DEF Poly!poly1305_final
  <2> QED BY <1>3, <2>1, <2>2 DEF Poly!poly1305_final, Poly!TypeOK, PolyContexts
<1> QED BY <1>1, <1>2, <1>3 DEF Poly!Next

-----------------------------------------------------------------------------
(***************************************************************************)
(* What a context represents.                                              *)
(***************************************************************************)

\* The blocks of a context that represents t bytes.
LEMMA PolyRepresentsSplit ==
    ASSUME NEW d \in PolyContexts, NEW t \in Nat, Poly!Represents(d, t)
    PROVE  \E k \in Nat : /\ k = Len(d.blocks)
                          /\ t = k * PolyBlock + d.buflen
                          /\ d.blocks = [j \in 1 .. k |-> Poly!MessageBlock(j)]
                          /\ Poly!Holds(d.buf, d.buflen, k * PolyBlock + 1)
<1>1. Len(d.blocks) \in Nat
  BY LenProperties DEF PolyContexts, Poly!poly1305_desc_ctx, Poly!Absorbed
<1> QED BY <1>1 DEF Poly!Represents

\* k whole blocks and the rest in the buffer represent their bytes.
LEMMA PolyRepresentsJoin ==
    ASSUME NEW d, NEW k \in Nat, d.blocks = [j \in 1 .. k |-> Poly!MessageBlock(j)],
           Poly!Holds(d.buf, d.buflen, k * PolyBlock + 1)
    PROVE  Poly!Represents(d, k * PolyBlock + d.buflen)
<1>1. d.blocks \in [1 .. k -> PolyMarked]
  BY PolyMarkedType
<1>2. Len(d.blocks) = k
  <2>1. d.blocks \in Seq(PolyMarked)
    BY <1>1, SeqDef
  <2> QED BY <1>1, <2>1, LenProperties
<1> QED BY <1>2 DEF Poly!Represents

\* A context that was just initialised represents no bytes.
LEMMA PolyInitialRepresents ==
    ASSUME NEW d, NEW key
    PROVE  Poly!Represents(Poly!InitialDesc(d, key), 0)
<1> DEFINE e == Poly!InitialDesc(d, key)
<1>1. e.blocks = << >> /\ e.buflen = 0
  BY DEF Poly!InitialDesc
<1>2. << >> = [j \in 1 .. 0 |-> Poly!MessageBlock(j)]
  OBVIOUS
<1> HIDE DEF e
<1>3. Poly!Represents(e, 0 * PolyBlock + e.buflen)
  <2>1. Poly!Holds(e.buf, e.buflen, 0 * PolyBlock + 1)
    BY <1>1, Poly!HoldsNothing, PolyBlockAssumption DEF Poly!BlockSizeAssumption
  <2>2. e.blocks = [j \in 1 .. 0 |-> Poly!MessageBlock(j)]
    BY <1>1, <1>2
  <2> QED BY <2>1, <2>2, PolyRepresentsJoin
<1>4. 0 * PolyBlock + e.buflen = 0
  BY <1>1, PolyBlockAssumption
<1> QED BY <1>3, <1>4 DEF e

\* Topping up absorbs the block that the buffer and the new bytes make.
LEMMA PolyTopUpRepresents ==
    ASSUME NEW d \in PolyContexts, NEW t \in Nat, Poly!Represents(d, t)
    PROVE  Poly!Represents(Poly!TopUp(d, t + 1), t + Poly!TopUpLen(d))
<1>1. PICK k \in Nat : /\ k = Len(d.blocks)
                       /\ t = k * PolyBlock + d.buflen
                       /\ d.blocks = [j \in 1 .. k |-> Poly!MessageBlock(j)]
                       /\ Poly!Holds(d.buf, d.buflen, k * PolyBlock + 1)
  BY PolyRepresentsSplit
<1>2. d.buflen \in 0 .. PolyBlock - 1 /\ d.buf \in Poly!Buffers
  BY DEF PolyContexts, Poly!poly1305_desc_ctx
<1>3. CASE d.buflen = 0
  BY <1>3 DEF Poly!TopUp, Poly!TopUpLen
<1>4. CASE d.buflen # 0
  <2> DEFINE n == PolyBlock - d.buflen
             b == Poly!Copy(d.buf, d.buflen, t + 1, n)
             e == [d EXCEPT !.buf = b, !.buflen = 0]
             f == Poly!Absorb1(e, b, 1)
             p == k * PolyBlock + 1
  <2>1. n \in Nat /\ d.buflen + n = PolyBlock /\ Poly!TopUpLen(d) = n
    BY <1>2, <1>4, PolyBlockAssumption DEF Poly!TopUpLen
  <2>2. p \in Int /\ t + 1 \in Int /\ p = (t + 1) - d.buflen /\ d.buflen \in Nat
    BY <1>1, <1>2, PolyBlockAssumption
  <2>3. Poly!TopUp(d, t + 1) = f
    BY <1>4, <2>1 DEF Poly!TopUp
  <2>4. b = Poly!BlockAt(p) /\ b \in Poly!Buffers
    <3>1. Poly!Holds(d.buf, d.buflen, (t + 1) - d.buflen)
      BY <1>1, <2>2
    <3> HIDE DEF n, p
    <3>2. Poly!Holds(b, d.buflen + n, (t + 1) - d.buflen)
      BY <2>1, <2>2, <3>1, Poly!CopyExtends, PolyBlockAssumption
        DEF Poly!BlockSizeAssumption
    <3>3. b \in Poly!Buffers
      BY <1>2, <2>1, <2>2, Poly!CopyType, PolyBlockAssumption DEF Poly!BlockSizeAssumption
    <3> HIDE DEF b
    <3> QED BY <2>1, <2>2, <3>2, <3>3, Poly!FullBuffer, PolyBlockAssumption DEF Poly!BlockSizeAssumption
  <2>5. e \in PolyContexts /\ e.blocks = d.blocks /\ e.buflen = 0
    <3>1. 0 \in 0 .. PolyBlock - 1
      BY PolyBlockAssumption
    <3> HIDE DEF b
    <3> QED BY <2>4, <3>1 DEF PolyContexts, Poly!poly1305_desc_ctx
  <2>6. [m |-> b, hibit |-> 1] = Poly!MessageBlock(k + 1)
    <3>1. (k + 1) - 1 = k
      OBVIOUS
    <3> HIDE DEF b
    <3> QED BY <2>4, <3>1 DEF Poly!MessageBlock
  <2> HIDE DEF b, e, n, p
  <2>7. /\ f.blocks = Append(d.blocks, Poly!MessageBlock(k + 1))
        /\ f.buflen = 0
    <3> DEFINE w == Poly!MessageBlock(k + 1)
               all == Append(d.blocks, w)
    <3>1. w = [m |-> b, hibit |-> 1] /\ all = Append(e.blocks, w)
      BY <2>5, <2>6
    <3> HIDE DEF w, all
    <3>2. f.blocks = all
      BY <2>5, <3>1, PolyAbsorb1Appends
    <3>3. f.buflen = e.buflen
      BY <2>4, <2>5, PolyAbsorb1Type
    <3> QED BY <2>5, <3>2, <3>3, Zenon DEF all, w
  <2> HIDE DEF f
  <2>8. f.blocks = [j \in 1 .. k + 1 |-> Poly!MessageBlock(j)]
    <3> DEFINE g == [j \in 1 .. k + 1 |-> Poly!MessageBlock(j)]
    <3>1. g \in [1 .. k + 1 -> PolyMarked]
      BY PolyMarkedType
    <3>2. d.blocks = [j \in 1 .. k |-> g[j]] /\ Poly!MessageBlock(k + 1) = g[k + 1]
      BY <1>1
    <3> HIDE DEF g
    <3>3. Append([j \in 1 .. k |-> g[j]], g[k + 1]) = g
      BY <3>1, Poly!AppendTable, PolyBlockAssumption DEF Poly!BlockSizeAssumption
    <3> QED BY <2>7, <3>2, <3>3 DEF g
  <2>9. k + 1 \in Nat /\ (k + 1) * PolyBlock + f.buflen = t + n
    <3> DEFINE x == k * PolyBlock
               y == (k + 1) * PolyBlock
    <3>1. y = x + PolyBlock /\ x \in Nat
      BY PolyBlockAssumption
    <3>2. t = x + d.buflen /\ k + 1 \in Nat
      BY <1>1
    <3> HIDE DEF x, y
    <3>3. y + 0 = t + n
      BY <1>2, <2>1, <3>1, <3>2, PolyBlockAssumption
    <3> QED BY <2>7, <3>2, <3>3 DEF y
  <2>10. Poly!Represents(f, (k + 1) * PolyBlock + f.buflen)
    BY <2>7, <2>8, <2>9, Poly!HoldsNothing, PolyRepresentsJoin, PolyBlockAssumption
      DEF Poly!BlockSizeAssumption
  <2> QED BY <2>1, <2>3, <2>9, <2>10
<1> QED BY <1>3, <1>4

\* The whole blocks of the input are absorbed in order.
LEMMA PolyBlocksRepresent ==
    ASSUME NEW d \in PolyContexts, NEW t \in Nat, Poly!Represents(d, t), d.buflen = 0,
    NEW n \in Nat
    PROVE  Poly!Represents(Poly!poly1305_blocks(d, t + 1, n), t + n * PolyBlock)
<1> DEFINE more == [j \in 1 .. n |->
                      [m |-> Poly!BlockAt((t + 1) + (j - 1) * PolyBlock), hibit |-> 1]]
           e == Poly!poly1305_blocks(d, t + 1, n)
<1>1. PICK k \in Nat : /\ k = Len(d.blocks)
                       /\ t = k * PolyBlock + d.buflen
                       /\ d.blocks = [j \in 1 .. k |-> Poly!MessageBlock(j)]
                       /\ Poly!Holds(d.buf, d.buflen, k * PolyBlock + 1)
  BY PolyRepresentsSplit
<1> DEFINE g == [j \in 1 .. k + n |-> Poly!MessageBlock(j)]
<1>2. e.blocks = d.blocks \o more /\ e.buflen = d.buflen
  <2> DEFINE all == d.blocks \o more
  <2>1. e = [d EXCEPT !.blocks = all]
    BY Zenon DEF Poly!poly1305_blocks
  <2> HIDE DEF e, all
  <2>2. e.blocks = all /\ e.buflen = d.buflen
    BY <2>1 DEF PolyContexts, Poly!poly1305_desc_ctx
  <2> QED BY <2>2, Zenon DEF all
<1> HIDE DEF e
<1>3. g \in [1 .. k + n -> PolyMarked]
  BY PolyMarkedType
<1>4. more = [j \in 1 .. n |-> g[k + j]]
  <2>1. ASSUME NEW j \in 1 .. n
        PROVE  [m |-> Poly!BlockAt((t + 1) + (j - 1) * PolyBlock), hibit |-> 1] = g[k + j]
    <3>1. (t + 1) + (j - 1) * PolyBlock = ((k + j) - 1) * PolyBlock + 1
      BY <1>1, PolyBlockAssumption
    <3>2. g[k + j] = Poly!MessageBlock(k + j)
      OBVIOUS
    <3> HIDE DEF g
    <3> QED BY <3>1, <3>2 DEF Poly!MessageBlock
  <2> HIDE DEF g
  <2> QED BY <2>1
<1>5. d.blocks = [j \in 1 .. k |-> g[j]]
  BY <1>1
<1>6. e.blocks = g
  <2> HIDE DEF g, more
  <2>1. [j \in 1 .. k |-> g[j]] \o [j \in 1 .. n |-> g[k + j]] = g
    BY <1>3, Poly!ConcatTable, PolyBlockAssumption DEF Poly!BlockSizeAssumption
  <2> QED BY <1>2, <1>4, <1>5, <2>1
<1>7. k + n \in Nat /\ (k + n) * PolyBlock + e.buflen = t + n * PolyBlock
  BY <1>1, <1>2, PolyBlockAssumption
<1>8. Poly!Represents(e, (k + n) * PolyBlock + e.buflen)
  BY <1>2, <1>6, <1>7, Poly!HoldsNothing, PolyRepresentsJoin, PolyBlockAssumption
    DEF Poly!BlockSizeAssumption
<1> QED BY <1>7, <1>8 DEF e

\* The tail is kept behind what the buffer holds.
LEMMA PolyKeepTailRepresents ==
    ASSUME NEW d \in PolyContexts, NEW t \in Nat, Poly!Represents(d, t),
           NEW n \in Nat, d.buflen + n < PolyBlock
    PROVE  Poly!Represents(Poly!KeepTail(d, t + 1, n), t + n)
<1> DEFINE e == Poly!KeepTail(d, t + 1, n)
<1>1. PICK k \in Nat : /\ k = Len(d.blocks)
                       /\ t = k * PolyBlock + d.buflen
                       /\ d.blocks = [j \in 1 .. k |-> Poly!MessageBlock(j)]
                       /\ Poly!Holds(d.buf, d.buflen, k * PolyBlock + 1)
  BY PolyRepresentsSplit
<1>2. d.buflen \in Nat /\ t + 1 \in Int
  BY PolyBlockAssumption DEF PolyContexts, Poly!poly1305_desc_ctx
<1>3. /\ e.blocks = d.blocks
      /\ e.buflen = d.buflen + n
      /\ n # 0 => e.buf = Poly!Copy(d.buf, d.buflen, t + 1, n)
      /\ n = 0 => e.buf = d.buf
  BY <1>2, PolyKeepTailType
<1> HIDE DEF e
<1>4. Poly!Holds(e.buf, e.buflen, k * PolyBlock + 1)
  <2>1. CASE n = 0
    BY <1>1, <1>2, <1>3, <2>1
  <2>2. CASE n # 0
    <3>1. k * PolyBlock + 1 = (t + 1) - d.buflen
      BY <1>1, <1>2, PolyBlockAssumption
    <3>2. Poly!Holds(Poly!Copy(d.buf, d.buflen, t + 1, n), d.buflen + n, (t + 1) - d.buflen)
      <4>1. Poly!Holds(d.buf, d.buflen, (t + 1) - d.buflen) /\ d.buflen + n <= PolyBlock
        BY <1>1, <1>2, <3>1, PolyBlockAssumption
      <4> QED BY <1>2, <4>1, Poly!CopyExtends, PolyBlockAssumption DEF Poly!BlockSizeAssumption
    <3> QED BY <1>3, <2>2, <3>1, <3>2
  <2> QED BY <2>1, <2>2
<1>5. k * PolyBlock + e.buflen = t + n
  BY <1>1, <1>2, <1>3, PolyBlockAssumption
<1>6. Poly!Represents(e, k * PolyBlock + e.buflen)
  BY <1>1, <1>3, <1>4, PolyRepresentsJoin
<1> QED BY <1>5, <1>6 DEF e

\* update absorbs its bytes.
LEMMA PolyUpdatedRepresents ==
    ASSUME Poly!UintAssumption, NEW d \in PolyContexts, NEW t \in Nat, Poly!Represents(d,
    t),
           NEW n \in 0 .. MaxTaken
    PROVE  Poly!Represents(Poly!Updated(d, t + 1, n), t + n)
<1>1. n \in Nat /\ d.buflen \in Nat /\ t + 1 \in Int
  BY PolyBlockAssumption DEF Poly!UintAssumption, PolyContexts, Poly!poly1305_desc_ctx
<1>2. CASE d.buflen + n < PolyBlock
  <2>1. ~ Poly!Completes(d, n)
    BY <1>1, <1>2, PolyCompletesExact, PolyBlockAssumption
  <2> QED BY <1>1, <1>2, <2>1, PolyKeepTailRepresents DEF Poly!Updated
<1>3. CASE d.buflen + n >= PolyBlock
  <2> DEFINE l == Poly!TopUpLen(d)
             k == (n - l) \div PolyBlock
             r == (n - l) % PolyBlock
             e == Poly!TopUp(d, t + 1)
             f == Poly!poly1305_blocks(e, t + 1 + l, k)
             u == t + l
             v == u + k * PolyBlock
  <2>1. Poly!Updated(d, t + 1, n) = Poly!KeepTail(f, t + 1 + l + k * PolyBlock, r)
    BY <1>3, PolyCompletesExact DEF Poly!Updated
  <2>2. l \in Nat
    BY PolyTopUpType, PolyBlockAssumption
  <2>3. n - l \in Nat /\ k \in Nat /\ r \in Poly!Index /\ n - l = k * PolyBlock + r
    BY <1>1, <1>3, PolyRestType
  <2>4. e \in PolyContexts /\ e.buflen = 0
    BY <1>1, PolyTopUpType
  <2>5. Poly!Represents(e, u)
    BY PolyTopUpRepresents
  <2> HIDE DEF l, k, r, e
  <2>6. /\ u \in Nat /\ v \in Nat /\ r \in Nat /\ r < PolyBlock
        /\ t + 1 + l = u + 1
        /\ t + 1 + l + k * PolyBlock = v + 1
        /\ v + r = t + n
    BY <1>1, <2>2, <2>3, PolyBlockAssumption DEF Poly!Index
  <2> HIDE DEF u
  <2>7. f = Poly!poly1305_blocks(e, u + 1, k)
    BY <2>6
  <2>8. Poly!Represents(f, v)
    BY <2>3, <2>4, <2>5, <2>6, <2>7, PolyBlocksRepresent
  <2>9. f \in PolyContexts /\ f.buflen = 0
    <3> DEFINE more == [j \in 1 .. k |->
                  [m |-> Poly!BlockAt((u + 1) + (j - 1) * PolyBlock), hibit |-> 1]]
    <3>1. u + 1 \in Int
      BY <2>6
    <3>2. more = [j \in 1 .. k |->
                  [m |-> Poly!BlockAt((u + 1) + (j - 1) * PolyBlock), hibit |-> 1]]
      OBVIOUS
    <3> DEFINE all == e.blocks \o more
    <3> HIDE DEF more, f
    <3>3. all = e.blocks \o more
      OBVIOUS
    <3> HIDE DEF all
    <3>4. f \in PolyContexts /\ f.buflen = e.buflen
      BY <2>3, <2>4, <2>7, <3>1, <3>2, <3>3, PolyBlocksType
    <3> QED BY <2>4, <3>4
  <2> HIDE DEF f, v
  <2>10. Poly!Represents(Poly!KeepTail(f, v + 1, r), v + r)
    BY <2>6, <2>8, <2>9, PolyKeepTailRepresents
  <2> QED BY <2>1, <2>6, <2>10
<1> QED BY <1>1, <1>2, <1>3, PolyBlockAssumption

\* The finish of a context that represents t bytes is the tag of t bytes.
LEMMA PolyFinalIsReference ==
    ASSUME NEW d \in PolyContexts, NEW t \in Nat, Poly!Represents(d, t)
    PROVE  Poly!TagOf(Poly!Padded(d)) = Poly!Reference(d.key, t)
<1>1. PICK k \in Nat : /\ k = Len(d.blocks)
                       /\ t = k * PolyBlock + d.buflen
                       /\ d.blocks = [j \in 1 .. k |-> Poly!MessageBlock(j)]
                       /\ Poly!Holds(d.buf, d.buflen, k * PolyBlock + 1)
  BY PolyRepresentsSplit
<1>2. d.buflen \in Poly!Index /\ d.buf \in Poly!Buffers
  BY DEF PolyContexts, Poly!poly1305_desc_ctx, Poly!Index
<1>3. t \div PolyBlock = k /\ t % PolyBlock = d.buflen
  BY <1>1, <1>2, Poly!DivModUnique, PolyBlockAssumption DEF Poly!BlockSizeAssumption
<1> DEFINE whole == [j \in 1 .. k |-> Poly!MessageBlock(j)]
<1>4. Poly!Reference(d.key, t) =
        [key |-> d.key,
         blocks |-> IF d.buflen = 0 THEN whole
                    ELSE Append(whole, [m |-> Poly!PaddedTail(k, d.buflen), hibit |-> 0])]
  BY <1>3 DEF Poly!Reference
<1>5. CASE d.buflen = 0
  BY <1>1, <1>4, <1>5 DEF Poly!Padded, Poly!TagOf
<1>6. CASE d.buflen # 0
  <2> DEFINE a == [d.buf EXCEPT ![d.buflen] = Poly!Lit(1)]
             b == Poly!Fill(a, d.buflen + 1, Poly!Zero, PolyBlock - (d.buflen + 1))
             e == [d EXCEPT !.buf = b]
  <2>1. Poly!Padded(d) = Poly!Absorb1(e, b, 0)
    BY <1>6 DEF Poly!Padded
  <2>2. a \in Poly!Buffers
    BY <1>2 DEF Poly!Buffers, Poly!Lit
  <2>3. b = Poly!PaddedTail(k, d.buflen)
    <3>1. ASSUME NEW i \in Poly!Index
          PROVE  b[i] = IF i < d.buflen THEN k * PolyBlock + 1 + i
                        ELSE IF i = d.buflen THEN Poly!Lit(1) ELSE Poly!Zero
      <4>1. b[i] = IF i \in d.buflen + 1 .. PolyBlock - 1 THEN Poly!Zero ELSE a[i]
        <5>1. d.buflen + 1 + (PolyBlock - (d.buflen + 1)) - 1 = PolyBlock - 1
          BY <1>2, PolyBlockAssumption DEF Poly!Index
        <5> HIDE DEF a
        <5> QED BY <5>1 DEF Poly!Fill
      <4>2. a[i] = IF i = d.buflen THEN Poly!Lit(1) ELSE d.buf[i]
        BY <1>2 DEF Poly!Buffers
      <4>3. i < d.buflen => d.buf[i] = k * PolyBlock + 1 + i
        BY <1>1, <1>2, PolyBlockAssumption DEF Poly!Holds, Poly!Index
      <4> HIDE DEF a, b
      <4> QED BY <1>2, <4>1, <4>2, <4>3, PolyBlockAssumption DEF Poly!Index
    <3>2. b = [i \in Poly!Index |-> b[i]]
      BY DEF Poly!Fill
    <3> HIDE DEF b
    <3> QED BY <3>1, <3>2 DEF Poly!PaddedTail
  <2>4. b \in Poly!Buffers
    <3>1. d.buflen + 1 \in Int /\ Poly!Zero \in Int /\ PolyBlock - (d.buflen + 1) \in Int
      BY <1>2, PolyBlockAssumption DEF Poly!Index, Poly!Zero, Poly!Lit
    <3> HIDE DEF a
    <3> QED BY <2>2, <3>1, Poly!FillType, PolyBlockAssumption DEF Poly!BlockSizeAssumption
  <2> HIDE DEF b
  <2>5. e \in PolyContexts /\ e.key = d.key /\ e.blocks = d.blocks
    BY <2>4 DEF PolyContexts, Poly!poly1305_desc_ctx
  <2> HIDE DEF e
  <2>6. /\ Poly!Absorb1(e, b, 0).key = d.key
        /\ Poly!Absorb1(e, b, 0).blocks = Append(d.blocks, [m |-> b, hibit |-> 0])
    <3> DEFINE w == [m |-> b, hibit |-> 0]
               all == Append(d.blocks, w)
    <3>1. w = [m |-> b, hibit |-> 0] /\ all = Append(e.blocks, w)
      BY <2>5
    <3> HIDE DEF w, all
    <3>2. Poly!Absorb1(e, b, 0).blocks = all
      BY <2>5, <3>1, PolyAbsorb1Appends
    <3>3. Poly!Absorb1(e, b, 0).key = e.key
      BY <2>4, <2>5, PolyAbsorb1Type
    <3> QED BY <2>5, <3>2, <3>3, Zenon DEF all, w
  <2>7. Poly!TagOf(Poly!Padded(d)) = [key |-> d.key,
                            blocks |-> Append(d.blocks, [m |-> b, hibit |-> 0])]
    BY <2>1, <2>6, Zenon DEF Poly!TagOf
  <2> QED BY <1>1, <1>4, <1>6, <2>3, <2>7
<1> QED BY <1>5, <1>6

PolyInv == Poly!TypeOK /\ Poly!StateIsPrefix

\* The inductive invariant holds at first
LEMMA PolyInitInv ==
    ASSUME Poly!UintAssumption
    PROVE  Poly!Init => PolyInv
<1> SUFFICES ASSUME Poly!Init
             PROVE  PolyInv
  OBVIOUS
<1>1. ctx.key = param
  BY DEF Poly!Init, Poly!InitialDesc
<1>2. Poly!StateIsPrefix
  BY <1>1, PolyInitialRepresents DEF Poly!Init, Poly!StateIsPrefix
<1> QED BY <1>2, PolyInitType DEF PolyInv

\* and is preserved by every call,
LEMMA PolyStepInv ==
    ASSUME Poly!UintAssumption, PolyInv, Poly!Next
    PROVE  PolyInv'
<1>0. ctx \in PolyContexts /\ taken \in Nat /\ taken + 1 \in Int
  BY DEF PolyInv, Poly!TypeOK, PolyContexts
<1>1. ASSUME NEW key \in Keys, Poly!poly1305_init(key)
      PROVE  Poly!StateIsPrefix'
  <2>1. ctx'.key = param'
    BY <1>1 DEF Poly!poly1305_init, Poly!InitialDesc
  <2> QED BY <1>1, <2>1, PolyInitialRepresents DEF Poly!poly1305_init, Poly!StateIsPrefix
<1>2. ASSUME NEW nbytes \in 0 .. MaxTaken, Poly!poly1305_update(nbytes)
      PROVE  Poly!StateIsPrefix'
  <2>1. CASE phase = "absorbing"
    <3>1. Poly!Represents(ctx, taken) /\ ctx.key = param
      BY <2>1 DEF PolyInv, Poly!StateIsPrefix
    <3>2. Poly!Represents(Poly!Updated(ctx, taken + 1, nbytes), taken + nbytes)
      BY <1>0, <3>1, PolyUpdatedRepresents
    <3>3. Poly!Updated(ctx, taken + 1, nbytes).key = ctx.key
      BY <1>0, PolyUpdatedType
    <3> QED BY <1>2, <3>1, <3>2, <3>3 DEF Poly!poly1305_update, Poly!StateIsPrefix
  <2>2. CASE phase # "absorbing"
    BY <1>2, <2>2 DEF Poly!poly1305_update, Poly!StateIsPrefix
  <2> QED BY <2>1, <2>2
<1>3. ASSUME Poly!poly1305_final
      PROVE  Poly!StateIsPrefix'
  BY <1>3 DEF Poly!poly1305_final, Poly!StateIsPrefix
<1>4. Poly!StateIsPrefix'
  BY <1>1, <1>2, <1>3 DEF Poly!Next
<1>5. Poly!TypeOK
  BY DEF PolyInv
<1>6. Poly!TypeOK'
  BY <1>5, PolyStepType
<1> QED BY <1>4, <1>6 DEF PolyInv

\* and what a call returns is the reference.
LEMMA PolyReturnsReference ==
    ASSUME Poly!UintAssumption, PolyInv, phase = "absorbing", Poly!poly1305_final
    PROVE  out' = Poly!Reference(param, taken)
<1>1. ctx \in PolyContexts /\ taken \in Nat
  BY DEF PolyInv, Poly!TypeOK, PolyContexts
<1>2. Poly!Represents(ctx, taken) /\ ctx.key = param
  BY DEF PolyInv, Poly!StateIsPrefix
<1> QED BY <1>1, <1>2, PolyFinalIsReference DEF Poly!poly1305_final

-----------------------------------------------------------------------------
(***************************************************************************)
(* SHA-1.                                                                  *)
(***************************************************************************)

ShaContexts == Sha!sha1_ctx
ShaSpelled(k) == [j \in 1 .. k |-> Sha!BlockAt((j - 1) * ShaBlock + 1)]

\* The context of t bytes of which k blocks have been compressed.
ShaRepresents(c, t) ==
    \E k \in Nat :
        /\ t = k * ShaBlock + c.used
        /\ c.h = ShaSpelled(k)
        /\ Sha!Holds(c.block, c.used, k * ShaBlock + 1)

\* A context whose block may be full, as inside a call.
ShaFull == [h : Seq(Sha!Buffers), block : Sha!Buffers, bits : 0 .. Sha!BitsRadix - 1, used : 0 .. ShaBlock]

\* What the loop of update goes through.
ShaLoops == [c : ShaContexts, data : Int, len : Nat]

\* The length field counts modulo a positive number.
LEMMA ShaRadixType ==
    ASSUME Sha!LenAssumption
    PROVE  Sha!BitsRadix \in Nat \ {0} /\ Sha!LenAt \in 1 .. ShaBlock - 1
<1>1. LenBytes \in 0 .. LenBytes
  BY DEF Sha!LenAssumption
<1>2. ByteRadix ^ LenBytes \in Nat \ {0}
  BY <1>1 DEF Sha!LenAssumption
<1>3. Sha!BitsRadix \in Nat \ {0}
  BY <1>2 DEF Sha!BitsRadix
<1> QED BY <1>3, ShaBlockAssumption DEF Sha!LenAssumption, Sha!LenAt

\* A length byte is a byte the code writes.
LEMMA ShaLenByteType ==
    ASSUME Sha!LenAssumption, NEW bits \in Nat, NEW i \in 0 .. LenBytes - 1
    PROVE  Sha!LenByte(bits, i) \in Int
<1> DEFINE q == ByteRadix ^ (LenBytes - 1 - i)
<1>1. LenBytes - 1 - i \in 0 .. LenBytes
  BY DEF Sha!LenAssumption
<1>2. q \in Nat \ {0} /\ ByteRadix \in Nat \ {0}
  BY <1>1 DEF Sha!LenAssumption
<1>3. Sha!LenByte(bits, i) = Sha!Lit((bits \div q) % ByteRadix)
  BY Zenon DEF Sha!LenByte
<1> HIDE DEF q
<1>4. bits \div q \in Nat
  BY <1>2
<1>5. (bits \div q) % ByteRadix \in Int
  BY <1>2, <1>4
<1> QED BY <1>3, <1>5 DEF Sha!Lit

\* The list of the first k blocks, and one more.
LEMMA ShaSpelledType ==
    ASSUME NEW k \in Nat
    PROVE  ShaSpelled(k) \in [1 .. k -> Sha!Buffers] /\ ShaSpelled(k) \in Seq(Sha!Buffers) /\ Len(ShaSpelled(k)) = k
<1>1. \A j \in 1 .. k : (j - 1) * ShaBlock + 1 \in Int
  BY ShaBlockAssumption
<1>2. ShaSpelled(k) \in [1 .. k -> Sha!Buffers]
  BY <1>1, Sha!BlockAtType, ShaBlockAssumption DEF ShaSpelled, Sha!BlockSizeAssumption
<1> QED BY <1>2, SeqDef, LenProperties

\* The blocks of the message, one more.
LEMMA ShaSpelledAppend ==
    ASSUME NEW k \in Nat, NEW b, b = Sha!BlockAt(k * ShaBlock + 1)
    PROVE  Append(ShaSpelled(k), b) = ShaSpelled(k + 1)
<1>1. ShaSpelled(k + 1) \in [1 .. k + 1 -> Sha!Buffers]
  BY ShaSpelledType
<1>2. (k + 1) - 1 = k
  OBVIOUS
<1>3. /\ ShaSpelled(k) = [j \in 1 .. k |-> ShaSpelled(k + 1)[j]]
      /\ ShaSpelled(k + 1)[k + 1] = b
  BY <1>2 DEF ShaSpelled
<1> QED BY <1>1, <1>3, Sha!AppendTable, ShaBlockAssumption DEF Sha!BlockSizeAssumption

\* Compressing the block changes nothing but the list.
LEMMA ShaBlockType ==
    ASSUME NEW c \in ShaFull, NEW h, h = Append(c.h, c.block)
    PROVE  /\ Sha!sha1_block(c) = [c EXCEPT !.h = h]
           /\ h \in Seq(Sha!Buffers)
           /\ Sha!sha1_block(c).h = h /\ Sha!sha1_block(c).block = c.block
           /\ Sha!sha1_block(c).bits = c.bits /\ Sha!sha1_block(c).used = c.used
<1> USE DEF ShaFull
<1>1. h \in Seq(Sha!Buffers)
  BY AppendProperties
<1>2. Sha!sha1_block(c) = [c EXCEPT !.h = h]
  BY Zenon DEF Sha!sha1_block
<1> QED BY <1>1, <1>2

\* A turn takes as much of the input as the block has room for.
ShaTake(s) == IF ShaBlock - s.c.used > s.len THEN s.len ELSE ShaBlock - s.c.used

ShaTurned(s, take, b, e) ==
    /\ e \in ShaLoops
    /\ e.c.bits = s.c.bits
    /\ take \in 0 .. s.len /\ s.c.used + take <= ShaBlock
    /\ e.len = s.len - take
    /\ e.data = s.data + take
    /\ e.c.block = b
    /\ s.c.used + take < ShaBlock =>
          e.len = 0 /\ e.c.h = s.c.h /\ e.c.used = s.c.used + take
    /\ s.c.used + take = ShaBlock =>
          e.c.used = 0 /\ e.c.h = Append(s.c.h, b)

\* A turn of the copying loop, by what it does.
LEMMA ShaTurnType ==
    ASSUME Sha!LenAssumption, NEW s \in ShaLoops,
           NEW take, take = ShaTake(s),
           NEW b, b = Sha!Copy(s.c.block, s.c.used, s.data, take),
           NEW e, e = Sha!Turn(s)
    PROVE  ShaTurned(s, take, b, e)
<1> DEFINE u == s.c.used + take
           d == [s.c EXCEPT !.block = b, !.used = u]
           f == IF u = ShaBlock THEN [Sha!sha1_block(d) EXCEPT !.used = 0] ELSE d
<1>1. /\ s.c \in ShaContexts /\ s.len \in Nat /\ s.data \in Int
      /\ s.c.used \in 0 .. ShaBlock - 1 /\ s.c.block \in Sha!Buffers
  BY DEF ShaLoops, ShaContexts, Sha!sha1_ctx
<1>2. take \in 0 .. s.len /\ u \in 0 .. ShaBlock /\ (u < ShaBlock => take = s.len)
  BY <1>1, ShaBlockAssumption DEF ShaTake
<1>3. b \in Sha!Buffers
  <2>1. s.c.used \in Int /\ take \in Int
    BY <1>1, <1>2
  <2> DEFINE x == s.c.block
             y == s.c.used
             z == s.data
  <2>2. x \in Sha!Buffers /\ y \in Int /\ z \in Int /\ b = Sha!Copy(x, y, z, take)
    BY <1>1, <2>1
  <2> HIDE DEF x, y, z
  <2> QED BY <2>1, <2>2, Sha!CopyType, ShaBlockAssumption DEF Sha!BlockSizeAssumption
<1>4. e = [c |-> f, data |-> s.data + take, len |-> s.len - take]
  <2>1. /\ (LET c == [s.c EXCEPT !.block = Sha!Copy(@, s.c.used, s.data, take), !.used = @ + take]
            IN  c) = d
    BY <1>1 DEF ShaContexts, Sha!sha1_ctx, ShaFull
  <2>2. d.used = u
    BY <1>1 DEF ShaContexts, Sha!sha1_ctx, ShaFull
  <2>3. e = [c |-> IF d.used = ShaBlock THEN [Sha!sha1_block(d) EXCEPT !.used = 0] ELSE d,
                   data |-> s.data + take, len |-> s.len - take]
    BY <2>1, Zenon DEF Sha!Turn, ShaTake
  <2> HIDE DEF d, u
  <2> QED BY <2>2, <2>3
<1>5. /\ d \in ShaFull /\ d.h = s.c.h /\ d.block = b /\ d.used = u /\ d.bits = s.c.bits
  BY <1>1, <1>2, <1>3 DEF ShaContexts, Sha!sha1_ctx, ShaFull
<1>6. CASE u < ShaBlock
  <2>1. f = d
    <3> HIDE DEF u, d
    <3> QED BY <1>6, ShaBlockAssumption
  <2> HIDE DEF d, f
  <2>2. d.used \in 0 .. ShaBlock - 1
    BY <1>2, <1>5, <1>6, ShaBlockAssumption
  <2> HIDE DEF u
  <2>3. d \in ShaContexts
    BY <1>5, <2>2 DEF ShaContexts, Sha!sha1_ctx, ShaFull
  <2>4. e.c = d /\ e.len = s.len - take /\ e.data = s.data + take
    BY <1>4, <2>1
  <2>5. e \in ShaLoops
    BY <1>1, <1>2, <1>4, <2>1, <2>3 DEF ShaLoops
  <2>6. /\ e.c.bits = s.c.bits /\ e.c.block = b /\ e.c.h = s.c.h /\ e.c.used = u
        /\ e.len = 0 /\ u # ShaBlock
    BY <1>1, <1>2, <1>5, <1>6, <2>4, ShaBlockAssumption
  <2> QED BY <1>2, <2>4, <2>5, <2>6 DEF u, ShaTurned
<1>7. CASE u = ShaBlock
  <2> DEFINE h == Append(s.c.h, b)
             g == [d EXCEPT !.h = h]
  <2>1. h = Append(d.h, d.block)
    BY <1>5
  <2> HIDE DEF d, u, h
  <2>2. h \in Seq(Sha!Buffers) /\ Sha!sha1_block(d) = g
    BY <1>5, <2>1, ShaBlockType
  <2>3. f = [g EXCEPT !.used = 0]
    BY <1>7, <2>2
  <2> HIDE DEF f
  <2>4. f \in ShaContexts /\ f.h = h /\ f.block = b /\ f.used = 0 /\ f.bits = s.c.bits
    <3>1. 0 \in 0 .. ShaBlock - 1
      BY ShaBlockAssumption
    <3> QED BY <1>5, <2>2, <2>3, <3>1 DEF ShaContexts, Sha!sha1_ctx, ShaFull
  <2>5. e \in ShaLoops
    BY <1>1, <1>2, <1>4, <2>4 DEF ShaLoops
  <2>6. e.c = f /\ e.len = s.len - take /\ e.data = s.data + take
    BY <1>4
  <2>7. /\ e.c.bits = s.c.bits /\ e.c.block = b /\ e.c.h = h /\ e.c.used = 0
    BY <2>4, <2>6
  <2>8. u <= ShaBlock /\ ~(u < ShaBlock)
    BY <1>7, ShaBlockAssumption
  <2> HIDE DEF g
  <2>9. /\ e \in ShaLoops /\ e.c.bits = s.c.bits
        /\ take \in 0 .. s.len /\ u <= ShaBlock
        /\ e.len = s.len - take /\ e.data = s.data + take /\ e.c.block = b
        /\ u < ShaBlock => e.len = 0 /\ e.c.h = s.c.h /\ e.c.used = u
        /\ u = ShaBlock => e.c.used = 0 /\ e.c.h = h
    BY <1>2, <2>5, <2>6, <2>7, <2>8
  <2> QED BY <2>9, Zenon DEF u, h, ShaTurned
<1> QED BY <1>2, <1>6, <1>7, ShaBlockAssumption

\* The loop, as a function of the number of turns.
ShaRuns(f, x, n) ==
    /\ f \in [0 .. n -> ShaLoops] /\ f[0] = x
    /\ \A i \in 1 .. n : f[i] = IF f[i - 1].len = 0 THEN f[i - 1] ELSE Sha!Turn(f[i - 1])

\* The length in bits stays in its range.
LEMMA ShaBitsType ==
    ASSUME Sha!LenAssumption, NEW c \in ShaContexts, NEW len \in Nat
    PROVE  (c.bits + 8 * len) % Sha!BitsRadix \in 0 .. Sha!BitsRadix - 1
<1>1. Sha!BitsRadix \in Nat \ {0}
  BY ShaRadixType
<1>2. c.bits \in 0 .. Sha!BitsRadix - 1
  BY DEF ShaContexts, Sha!sha1_ctx
<1>3. c.bits + 8 * len \in Nat
  BY <1>1, <1>2
<1> QED BY <1>1, <1>3

\* update is the end of such a run.
LEMMA ShaUpdatedRuns ==
    ASSUME Sha!LenAssumption, NEW c \in ShaContexts, NEW data \in Int, NEW len \in Nat,
           NEW x, x = [c |-> [c EXCEPT !.bits = (@ + 8 * len) % Sha!BitsRadix],
                       data |-> data, len |-> len],
           NEW n, n = len \div ShaBlock + 2
    PROVE  /\ x \in ShaLoops
           /\ n \in Nat
           /\ \E f : ShaRuns(f, x, n) /\ Sha!Updated(c, data, len) = f[n].c
<1>1. n \in Nat
  BY Sha!DivMod, ShaBlockAssumption DEF Sha!BlockSizeAssumption
<1>2. x \in ShaLoops
  <2>1. (c.bits + 8 * len) % Sha!BitsRadix \in 0 .. Sha!BitsRadix - 1
    BY ShaBitsType
  <2> DEFINE bits == (c.bits + 8 * len) % Sha!BitsRadix
             d == [c EXCEPT !.bits = bits]
  <2>2. x = [c |-> d, data |-> data, len |-> len]
    OBVIOUS
  <2>3. bits \in 0 .. Sha!BitsRadix - 1
    BY <2>1
  <2> HIDE DEF bits
  <2>4. d \in ShaContexts
    BY <2>3 DEF ShaContexts, Sha!sha1_ctx
  <2> HIDE DEF d
  <2> QED BY <2>2, <2>4 DEF ShaLoops
<1> DEFINE turn == [i \in 1 .. n |-> [s \in ShaLoops |-> IF s.len = 0 THEN s ELSE Sha!Turn(s)]]
<1>3. turn \in [1 .. n -> [ShaLoops -> ShaLoops]]
  <2>1. \A s \in ShaLoops : Sha!Turn(s) \in ShaLoops
    BY ShaTurnType DEF ShaTurned
  <2> QED BY <2>1
<1>4. PICK f : f \in [0 .. n -> ShaLoops] /\ f[0] = x /\ \A i \in 1 .. n : f[i] = turn[i][f[i - 1]]
  <2> HIDE DEF turn
  <2>1. \E f : Sha!Iterates(f, n, ShaLoops, x, turn)
    BY <1>1, <1>2, <1>3, Sha!Iteration, Zenon, ShaBlockAssumption
      DEF Sha!BlockSizeAssumption
  <2> QED BY <2>1, Zenon DEF Sha!Iterates
<1>5. \A i \in 1 .. n : f[i] = IF f[i - 1].len = 0 THEN f[i - 1] ELSE Sha!Turn(f[i - 1])
  <2>1. \A i \in 1 .. n : f[i - 1] \in ShaLoops
    BY <1>1, <1>4
  <2> QED BY <1>4, <2>1
<1>6. ShaRuns(f, x, n)
  BY <1>4, <1>5 DEF ShaRuns
<1> DEFINE Loop(after) == [i \in 0 .. n |->
              IF i = 0 THEN x
              ELSE IF after[i - 1].len = 0 THEN after[i - 1] ELSE Sha!Turn(after[i - 1])]
           run == CHOOSE after : after = Loop(after)
<1>7. Sha!Updated(c, data, len) = run[n].c
  BY Zenon DEF Sha!Updated
<1>8. f = Loop(f)
  <2>1. f = [i \in 0 .. n |-> f[i]]
    BY <1>4
  <2>2. \A i \in 0 .. n : f[i] = IF i = 0 THEN x
              ELSE IF f[i - 1].len = 0 THEN f[i - 1] ELSE Sha!Turn(f[i - 1])
    BY <1>1, <1>4, <1>5
  <2> QED BY <2>1, <2>2
<1>9. run = Loop(run)
  <2> HIDE DEF Loop
  <2> QED BY <1>8
<1>10. \A i \in 0 .. n : i \in {j \in 0 .. n : run[j] = f[j]}
  <2> DEFINE S == {j \in 0 .. n : run[j] = f[j]}
  <2>1. run[0] = x
    <3> HIDE DEF run
    <3> QED BY <1>1, <1>9
  <2>2. 0 \in S
    <3> HIDE DEF run
    <3> QED BY <1>1, <1>4, <2>1
  <2>3. ASSUME NEW k \in 0 .. n - 1, k \in S
        PROVE  k + 1 \in S
    <3> HIDE DEF run
    <3>1. run[k + 1] = IF run[k].len = 0 THEN run[k] ELSE Sha!Turn(run[k])
      <4>1. k + 1 \in 0 .. n /\ k + 1 # 0 /\ (k + 1) - 1 = k
        BY <1>1
      <4>2. Loop(run)[k + 1] = IF run[k].len = 0 THEN run[k] ELSE Sha!Turn(run[k])
        BY <4>1
      <4> HIDE DEF Loop
      <4> QED BY <1>9, <4>2
    <3>2. f[k + 1] = IF f[k].len = 0 THEN f[k] ELSE Sha!Turn(f[k])
      <4>1. k + 1 \in 1 .. n /\ (k + 1) - 1 = k
        BY <1>1
      <4> QED BY <1>5, <4>1
    <3>3. run[k] = f[k]
      BY <2>3
    <3>4. k + 1 \in 0 .. n
      BY <1>1
    <3> QED BY <3>1, <3>2, <3>3, <3>4
  <2> HIDE DEF S
  <2>4. \A k \in 0 .. n : k \in S
    BY <1>1, <2>2, <2>3, Sha!Induction, ShaBlockAssumption DEF Sha!BlockSizeAssumption
  <2> QED BY <2>4 DEF S
<1>11. run[n] = f[n]
  <2> HIDE DEF run
  <2> QED BY <1>1, <1>10
<1> HIDE DEF run
<1> QED BY <1>1, <1>2, <1>6, <1>7, <1>11

\* Quotients by any number, as by the block size.
LEMMA ShaRemainder ==
    ASSUME NEW R \in Nat \ {0}, NEW k \in Nat, NEW r \in 0 .. R - 1
    PROVE  (k * R + r) % R = r
OBVIOUS

\* The remainder of a sum.
LEMMA ShaModSum ==
    ASSUME NEW R \in Nat \ {0}, NEW x \in Nat, NEW y \in Nat
    PROVE  ((x % R) + y) % R = (x + y) % R
<1> DEFINE q == x \div R
           r == x % R
           p == (r + y) \div R
           z == (r + y) % R
<1>1. q \in Nat /\ r \in 0 .. R - 1 /\ x = q * R + r
  OBVIOUS
<1> HIDE DEF q, r
<1>2. r + y \in Nat
  BY <1>1
<1>3. p \in Nat /\ z \in 0 .. R - 1 /\ r + y = p * R + z
  BY <1>2
<1> HIDE DEF p, z
<1>4. q + p \in Nat /\ x + y = (q + p) * R + z
  BY <1>1, <1>3
<1> DEFINE s == q + p
<1> HIDE DEF s
<1>5. s \in Nat /\ x + y = s * R + z
  BY <1>4 DEF s
<1>6. (s * R + z) % R = z
  BY <1>3, <1>5, ShaRemainder
<1> QED BY <1>5, <1>6 DEF z, r

\* A turn takes its bytes in order.
LEMMA ShaTurnRepresents ==
    ASSUME Sha!LenAssumption, NEW s \in ShaLoops, NEW t \in Nat, ShaRepresents(s.c, t),
    s.data = t + 1
    PROVE  ShaRepresents(Sha!Turn(s).c, t + ShaTake(s))
<1> DEFINE take == ShaTake(s)
           b == Sha!Copy(s.c.block, s.c.used, s.data, take)
           e == Sha!Turn(s)
<1>1. PICK k \in Nat : /\ t = k * ShaBlock + s.c.used
                       /\ s.c.h = ShaSpelled(k)
                       /\ Sha!Holds(s.c.block, s.c.used, k * ShaBlock + 1)
  BY DEF ShaRepresents
<1>2. /\ e \in ShaLoops
      /\ take \in 0 .. s.len /\ s.c.used + take <= ShaBlock
      /\ e.c.block = b
      /\ s.c.used + take < ShaBlock => e.c.h = s.c.h /\ e.c.used = s.c.used + take
      /\ s.c.used + take = ShaBlock => e.c.used = 0 /\ e.c.h = Append(s.c.h, b)
  <2>1. /\ take = ShaTake(s) /\ b = Sha!Copy(s.c.block, s.c.used, s.data, take) /\ e = Sha!Turn(s)
    OBVIOUS
  <2> HIDE DEF take, b, e
  <2>2. ShaTurned(s, take, b, e)
    BY <2>1, ShaTurnType
  <2> QED BY <2>2 DEF ShaTurned
<1>3. s.c.used \in 0 .. ShaBlock - 1 /\ s.len \in Nat /\ s.c.block \in Sha!Buffers
  BY DEF ShaLoops, ShaContexts, Sha!sha1_ctx
<1> DEFINE x == k * ShaBlock
<1>4. x \in Nat /\ x = k * ShaBlock
  BY ShaBlockAssumption
<1> HIDE DEF take, e, x
<1>5. take \in Nat /\ s.c.used \in Nat /\ s.data \in Int /\ s.data - s.c.used = x + 1
  BY <1>1, <1>2, <1>3, <1>4, ShaBlockAssumption
<1>6. Sha!Holds(b, s.c.used + take, x + 1)
  <2>1. Sha!Holds(s.c.block, s.c.used, s.data - s.c.used)
    BY <1>1, <1>4, <1>5
  <2>2. Sha!Holds(b, s.c.used + take, s.data - s.c.used)
    BY <1>2, <1>5, <2>1, Sha!CopyExtends, ShaBlockAssumption DEF Sha!BlockSizeAssumption
  <2> QED BY <1>5, <2>2
<1>7. CASE s.c.used + take < ShaBlock
  <2>1. t + take = x + (s.c.used + take)
    BY <1>1, <1>3, <1>4, <1>5
  <2> HIDE DEF b
  <2> QED BY <1>1, <1>2, <1>4, <1>6, <1>7, <2>1 DEF ShaRepresents, e, take
<1>8. CASE s.c.used + take = ShaBlock
  <2>1. b \in Sha!Buffers
    BY <1>3, <1>5, Sha!CopyType, ShaBlockAssumption DEF Sha!BlockSizeAssumption
  <2> HIDE DEF b
  <2>2. b = Sha!BlockAt(x + 1)
    BY <1>4, <1>6, <1>8, <2>1, Sha!FullBuffer, ShaBlockAssumption
      DEF Sha!BlockSizeAssumption
  <2>3. e.c.h = ShaSpelled(k + 1) /\ e.c.used = 0
    <3>1. Append(ShaSpelled(k), b) = ShaSpelled(k + 1)
      BY <1>4, <2>2, ShaSpelledAppend
    <3> QED BY <1>1, <1>2, <1>8, <3>1
  <2>4. t + take = (k + 1) * ShaBlock + e.c.used
    <3>1. (k + 1) * ShaBlock = x + ShaBlock
      BY <1>4, ShaBlockAssumption
    <3>2. t + take = x + ShaBlock
      BY <1>1, <1>3, <1>4, <1>5, <1>8
    <3>3. x + ShaBlock \in Nat
      BY <1>4, ShaBlockAssumption
    <3> QED BY <2>3, <3>1, <3>2, <3>3
  <2>5. Sha!Holds(e.c.block, e.c.used, (k + 1) * ShaBlock + 1)
    BY <2>3, Sha!HoldsNothing, ShaBlockAssumption DEF Sha!BlockSizeAssumption
  <2>6. k + 1 \in Nat
    OBVIOUS
  <2> QED BY <2>3, <2>4, <2>5, <2>6 DEF ShaRepresents, e, take
<1> QED BY <1>2, <1>3, <1>5, <1>7, <1>8, ShaBlockAssumption

\* After i turns of a run that began at byte t with len bytes.
ShaRan(s, i, t, len) ==
    /\ s.len <= len
    /\ s.data = (t + (len - s.len)) + 1
    /\ ShaRepresents(s.c, t + (len - s.len))
    /\ i > 0 => s.len = 0 \/ (s.c.used = 0 /\ s.len + (i - 1) * ShaBlock <= len)

\* A turn feeds the next bytes of the message: what the context represents after it,
LEMMA ShaRanTurn ==
    ASSUME Sha!LenAssumption, NEW s \in ShaLoops, NEW i \in Nat, NEW t \in Nat,
    NEW len \in Nat,
           ShaRan(s, i, t, len), s.len # 0,
           NEW e, e = Sha!Turn(s)
    PROVE  ShaRan(e, i + 1, t, len) /\ e.c.bits = s.c.bits
<1>0. (i + 1) - 1 = i /\ i + 1 > 0
  OBVIOUS
<1> DEFINE take == ShaTake(s)
           b == Sha!Copy(s.c.block, s.c.used, s.data, take)
           u == t + (len - s.len)
<1>1. e = Sha!Turn(s)
  OBVIOUS
<1>2. /\ e \in ShaLoops
      /\ e.c.bits = s.c.bits
      /\ take \in 0 .. s.len /\ s.c.used + take <= ShaBlock
      /\ e.len = s.len - take
      /\ e.data = s.data + take
      /\ s.c.used + take < ShaBlock => e.len = 0
      /\ s.c.used + take = ShaBlock => e.c.used = 0
  <2>1. take = ShaTake(s) /\ b = Sha!Copy(s.c.block, s.c.used, s.data, take)
    OBVIOUS
  <2> HIDE DEF take, b
  <2>2. ShaTurned(s, take, b, e)
    BY <1>1, <2>1, ShaTurnType
  <2> QED BY <2>2 DEF ShaTurned
<1>3. s.c.used \in 0 .. ShaBlock - 1 /\ s.len \in Nat /\ s.data \in Int
  BY DEF ShaLoops, ShaContexts, Sha!sha1_ctx
<1>4. u \in Nat /\ s.data = u + 1
  BY <1>3 DEF ShaRan
<1>5. ShaRepresents(e.c, u + take)
  BY <1>1, <1>4, ShaTurnRepresents DEF ShaRan
<1> HIDE DEF take
<1>6. /\ u + take = t + (len - e.len) /\ e.len <= len /\ e.data = (t + (len - e.len)) + 1
      /\ take \in Nat /\ e.len \in Nat
  BY <1>2, <1>3, <1>4 DEF ShaRan
<1>7. e.len = 0 \/ (e.c.used = 0 /\ e.len + i * ShaBlock <= len)
  <2>1. CASE s.c.used + take < ShaBlock
    BY <1>2, <2>1
  <2>2. CASE s.c.used + take = ShaBlock
    <3>1. CASE i = 0
      <4>1. i * ShaBlock = 0
        BY <3>1, ShaBlockAssumption
      <4> QED BY <1>2, <1>6, <2>2, <4>1
    <3>2. CASE i > 0
      <4>1. s.c.used = 0 /\ s.len + (i - 1) * ShaBlock <= len
        BY <3>2 DEF ShaRan
      <4>2. i * ShaBlock = (i - 1) * ShaBlock + ShaBlock /\ (i - 1) * ShaBlock \in Nat
        BY <3>2, ShaBlockAssumption
      <4> DEFINE y == (i - 1) * ShaBlock
      <4> HIDE DEF y
      <4>3. s.len + y <= len /\ i * ShaBlock = y + ShaBlock /\ y \in Nat
        BY <4>1, <4>2 DEF y
      <4>4. e.len + (y + ShaBlock) <= len
        BY <1>2, <1>3, <1>6, <2>2, <4>1, <4>3, ShaBlockAssumption
      <4> DEFINE z == i * ShaBlock
      <4> HIDE DEF z
      <4>5. e.c.used = 0 /\ e.len + z <= len
        BY <1>2, <2>2, <4>3, <4>4 DEF z
      <4> QED BY <4>5 DEF z
    <3> QED BY <3>1, <3>2
  <2>3. s.c.used + take < ShaBlock \/ s.c.used + take = ShaBlock
    BY <1>2, <1>3, <1>6, ShaBlockAssumption
  <2> QED BY <2>1, <2>2, <2>3
<1> QED BY <1>0, <1>2, <1>5, <1>6, <1>7 DEF ShaRan

\* as the step of the induction over the turns.
LEMMA ShaRanStep ==
    ASSUME Sha!LenAssumption, NEW s \in ShaLoops, NEW i \in Nat, NEW t \in Nat,
    NEW len \in Nat,
           ShaRan(s, i, t, len),
           NEW e, e = IF s.len = 0 THEN s ELSE Sha!Turn(s)
    PROVE  ShaRan(e, i + 1, t, len) /\ e.c.bits = s.c.bits
<1>1. CASE s.len = 0
  <2>1. (i + 1) - 1 = i /\ i + 1 > 0 /\ e = s
    BY <1>1
  <2> QED BY <1>1, <2>1 DEF ShaRan
<1>2. CASE s.len # 0
  <2>1. e = Sha!Turn(s)
    BY <1>2
  <2> QED BY <1>2, <2>1, ShaRanTurn
<1> QED BY <1>1, <1>2

\* update keeps a context well formed and counts its bytes; and if the context
\* represented t bytes of the stream, it represents t + len of them.
LEMMA ShaUpdatedType ==
    ASSUME Sha!LenAssumption, NEW c \in ShaContexts, NEW data \in Int, NEW len \in Nat
    PROVE  Sha!Updated(c, data, len) \in ShaContexts
<1> DEFINE n == len \div ShaBlock + 2
           x == [c |-> [c EXCEPT !.bits = (@ + 8 * len) % Sha!BitsRadix],
                 data |-> data, len |-> len]
<1>1. n \in Nat /\ \E f : ShaRuns(f, x, n) /\ Sha!Updated(c, data, len) = f[n].c
  BY ShaUpdatedRuns
<1>2. PICK f : ShaRuns(f, x, n) /\ Sha!Updated(c, data, len) = f[n].c
  BY <1>1
<1> HIDE DEF n, x
<1>3. n \in 0 .. n
  BY <1>1
<1>4. f[n] \in ShaLoops
  BY <1>2, <1>3 DEF ShaRuns
<1> QED BY <1>2, <1>4 DEF ShaLoops

\* An update of any length feeds just its bytes.
LEMMA ShaUpdatedRepresents ==
    ASSUME Sha!LenAssumption, NEW c \in ShaContexts, NEW t \in Nat, ShaRepresents(c, t),
    NEW len \in Nat
    PROVE  /\ ShaRepresents(Sha!Updated(c, t + 1, len), t + len)
           /\ Sha!Updated(c, t + 1, len).bits = (c.bits + 8 * len) % Sha!BitsRadix
<1> DEFINE n == len \div ShaBlock + 2
           bits == (c.bits + 8 * len) % Sha!BitsRadix
           d == [c EXCEPT !.bits = bits]
           x == [c |-> d, data |-> t + 1, len |-> len]
<1>1. x \in ShaLoops /\ n \in Nat /\ \E f : ShaRuns(f, x, n) /\ Sha!Updated(c, t + 1, len) = f[n].c
  <2>1. x = [c |-> [c EXCEPT !.bits = (@ + 8 * len) % Sha!BitsRadix], data |-> t + 1, len |-> len]
    OBVIOUS
  <2>2. t + 1 \in Int
    OBVIOUS
  <2> HIDE DEF x
  <2> QED BY <2>1, <2>2, ShaUpdatedRuns
<1>2. PICK f : ShaRuns(f, x, n) /\ Sha!Updated(c, t + 1, len) = f[n].c
  BY <1>1
<1>3. /\ d.h = c.h /\ d.block = c.block /\ d.used = c.used /\ d.bits = bits
  <2> HIDE DEF bits
  <2> QED BY DEF ShaContexts, Sha!sha1_ctx
<1>4. x.c = d /\ x.data = t + 1 /\ x.len = len
  OBVIOUS
<1> HIDE DEF bits, d, x
<1>5. ShaRan(x, 0, t, len)
  <2>1. ShaRepresents(d, t)
    BY <1>3 DEF ShaRepresents
  <2>2. t + (len - len) = t /\ len <= len
    OBVIOUS
  <2> QED BY <1>4, <2>1, <2>2 DEF ShaRan
<1> DEFINE S == {i \in 0 .. n : ShaRan(f[i], i, t, len) /\ f[i].c.bits = bits}
<1>6. 0 \in S
  BY <1>1, <1>2, <1>3, <1>4, <1>5 DEF ShaRuns
<1>7. ASSUME NEW i \in 0 .. n - 1, i \in S
      PROVE  i + 1 \in S
  <2> HIDE DEF n
  <2>1. i \in Nat /\ i \in 0 .. n /\ i + 1 \in 1 .. n /\ i + 1 \in 0 .. n /\ (i + 1) - 1 = i
    BY <1>1
  <2>2. f[i] \in ShaLoops
    BY <1>2, <2>1 DEF ShaRuns
  <2>3. f[i + 1] = IF f[i].len = 0 THEN f[i] ELSE Sha!Turn(f[i])
    BY <1>2, <2>1 DEF ShaRuns
  <2>4. ShaRan(f[i], i, t, len) /\ f[i].c.bits = bits
    BY <1>7
  <2>5. ShaRan(f[i + 1], i + 1, t, len) /\ f[i + 1].c.bits = f[i].c.bits
    BY <2>1, <2>2, <2>3, <2>4, ShaRanStep
  <2> QED BY <2>1, <2>4, <2>5
<1>8. \A i \in 0 .. n : i \in S
  <2> HIDE DEF S, n
  <2> QED BY <1>1, <1>6, <1>7, Sha!Induction, ShaBlockAssumption DEF Sha!BlockSizeAssumption
<1>9. ShaRan(f[n], n, t, len) /\ f[n].c.bits = bits /\ f[n] \in ShaLoops
  <2>1. n \in 0 .. n
    <3> HIDE DEF n
    <3> QED BY <1>1
  <2> HIDE DEF n
  <2> QED BY <1>2, <1>8, <2>1 DEF ShaRuns
<1>10. f[n].len = 0
  <2> DEFINE q == len \div ShaBlock
             y == q * ShaBlock
             z == (n - 1) * ShaBlock
  <2>1. n = q + 2 /\ q \in Nat /\ len < y + ShaBlock /\ y \in Nat
    <3>1. q \in Nat /\ len % ShaBlock \in Sha!Index /\ len = y + (len % ShaBlock)
      BY Sha!DivMod, ShaBlockAssumption DEF Sha!BlockSizeAssumption
    <3>2. y \in Nat
      BY <3>1, ShaBlockAssumption
    <3> QED BY <3>1, <3>2, ShaBlockAssumption DEF Sha!Index
  <2> HIDE DEF q, n
  <2>2. z = y + ShaBlock
    BY <2>1, ShaBlockAssumption
  <2>3. f[n].len \in Nat
    BY <1>9 DEF ShaLoops
  <2>4. f[n].len = 0 \/ f[n].len + z <= len
    BY <1>9, <2>1 DEF ShaRan
  <2> HIDE DEF y, z
  <2> QED BY <2>1, <2>2, <2>3, <2>4, ShaBlockAssumption
<1>11. ShaRepresents(f[n].c, t + len)
  <2>1. t + (len - 0) = t + len
    OBVIOUS
  <2> QED BY <1>9, <1>10, <2>1 DEF ShaRan
<1> QED BY <1>2, <1>9, <1>11 DEF bits

\* The first context of a message.
LEMMA ShaInitialRepresents ==
    ASSUME Sha!LenAssumption, NEW c, c.block \in Sha!Buffers
    PROVE  /\ Sha!InitialCtx(c) \in ShaContexts /\ ShaRepresents(Sha!InitialCtx(c), 0)
           /\ Sha!InitialCtx(c).bits = 0
<1>1. Sha!InitialCtx(c) \in ShaContexts
  <2>1. 0 \in 0 .. ShaBlock - 1 /\ 0 \in 0 .. Sha!BitsRadix - 1
    BY ShaBlockAssumption, ShaRadixType
  <2>2. <<>> \in Seq(Sha!Buffers)
    OBVIOUS
  <2> QED BY <2>1, <2>2 DEF Sha!InitialCtx, ShaContexts, Sha!sha1_ctx
<1>2. ShaSpelled(0) = <<>>
  BY DEF ShaSpelled
<1>3. 0 = 0 * ShaBlock + 0
  BY ShaBlockAssumption
<1>4. Sha!Holds(c.block, 0, 0 * ShaBlock + 1)
  BY Sha!HoldsNothing, ShaBlockAssumption DEF Sha!BlockSizeAssumption
<1>5. ShaRepresents(Sha!InitialCtx(c), 0)
  BY <1>2, <1>3, <1>4 DEF ShaRepresents, Sha!InitialCtx
<1> QED BY <1>1, <1>5 DEF Sha!InitialCtx

\* The finish: the marker,
ShaMarkedAs(c, b, d) ==
    /\ b \in Sha!Buffers /\ d \in ShaFull
    /\ d.h = c.h /\ d.block = b /\ d.bits = c.bits /\ d.used = c.used + 1

\* The marker takes the next byte of the block; it may fill it.
LEMMA ShaMarkedType ==
    ASSUME NEW c \in ShaContexts, NEW b, b = [c.block EXCEPT ![c.used] = Sha!Lit(128)],
           NEW d, d = Sha!Marked(c)
    PROVE  ShaMarkedAs(c, b, d)
<1>1. c.used \in Sha!Index /\ c.block \in Sha!Buffers /\ Sha!Lit(128) \in Int
  BY DEF ShaContexts, Sha!sha1_ctx, Sha!Index, Sha!Lit
<1>2. b \in Sha!Buffers
  BY <1>1 DEF Sha!Buffers
<1>3. d = [c EXCEPT !.block = b, !.used = c.used + 1]
  <2>1. d = [c EXCEPT !.block = [c.block EXCEPT ![c.used] = Sha!Lit(128)], !.used = c.used + 1]
    <3> HIDE DEF Sha!Lit
    <3> QED BY DEF Sha!Marked, ShaContexts, Sha!sha1_ctx
  <2> QED BY <2>1
<1>4. c.used + 1 \in 0 .. ShaBlock
  BY <1>1, ShaBlockAssumption DEF Sha!Index
<1> HIDE DEF Sha!Lit
<1> QED BY <1>2, <1>3, <1>4 DEF ShaContexts, Sha!sha1_ctx, ShaMarkedAs, ShaFull

\* zeros up to the end of a block without room for the length,
ShaSpilledAs(d, b, h, e) ==
    /\ b \in Sha!Buffers
    /\ e \in ShaContexts /\ e.bits = d.bits /\ e.used <= Sha!LenAt
    /\ d.used <= Sha!LenAt => e = d
    /\ d.used > Sha!LenAt => e.h = h /\ e.block = b /\ e.used = 0

\* Where the length does not fit behind the marker, the block is filled up and compressed.
LEMMA ShaSpilledType ==
    ASSUME Sha!LenAssumption, NEW d \in ShaFull,
           NEW b, b = Sha!Fill(d.block, d.used, Sha!Zero, ShaBlock - d.used),
           NEW h, h = Append(d.h, b),
           NEW e, e = Sha!Spilled(d)
    PROVE  ShaSpilledAs(d, b, h, e)
<1> USE DEF ShaFull, ShaSpilledAs
<1>1. Sha!LenAt \in 1 .. ShaBlock - 1
  BY ShaRadixType
<1>2. Sha!Zero \in Int /\ d.used \in Int /\ ShaBlock - d.used \in Int
  BY ShaBlockAssumption DEF Sha!Zero, Sha!Lit
<1>3. b \in Sha!Buffers
  BY <1>2, Sha!FillType, ShaBlockAssumption DEF Sha!BlockSizeAssumption
<1>4. CASE d.used <= Sha!LenAt
  <2>1. e = d
    BY <1>1, <1>4 DEF Sha!Spilled
  <2>2. d.used \in 0 .. ShaBlock - 1
    BY <1>1, <1>4, ShaBlockAssumption
  <2> QED BY <1>1, <1>3, <1>4, <2>1, <2>2 DEF ShaContexts, Sha!sha1_ctx
<1>5. CASE d.used > Sha!LenAt
  <2> DEFINE f == [d EXCEPT !.block = b]
             g == [f EXCEPT !.h = h]
  <2>1. e = [Sha!sha1_block(f) EXCEPT !.used = 0]
    BY <1>5 DEF Sha!Spilled
  <2>2. f \in ShaFull /\ f.h = d.h /\ f.block = b
    BY <1>3
  <2>3. h = Append(f.h, f.block)
    BY <2>2
  <2> HIDE DEF f
  <2>4. h \in Seq(Sha!Buffers) /\ Sha!sha1_block(f) = g
    BY <2>2, <2>3, ShaBlockType
  <2>5. e = [g EXCEPT !.used = 0]
    BY <2>1, <2>4
  <2>6. 0 \in 0 .. ShaBlock - 1 /\ 0 <= Sha!LenAt
    BY <1>1, ShaBlockAssumption
  <2>7. e = [f EXCEPT !.h = h, !.used = 0]
    BY <2>2, <2>5
  <2>8. f.bits = d.bits
    BY DEF f
  <2>9. e \in ShaContexts /\ e.bits = f.bits /\ e.h = h /\ e.block = f.block /\ e.used = 0
    BY <2>2, <2>4, <2>6, <2>7 DEF ShaContexts, Sha!sha1_ctx
  <2>10. ~(d.used <= Sha!LenAt)
    BY <1>1, <1>5, ShaBlockAssumption
  <2> HIDE DEF g
  <2> QED BY <1>3, <1>5, <2>2, <2>6, <2>8, <2>9, <2>10
<1>6. d.used <= Sha!LenAt \/ d.used > Sha!LenAt
  BY <1>1, ShaBlockAssumption
<1> QED BY <1>4, <1>5, <1>6

\* and the block with the length.
ShaLastBlock(s) ==
    LET padded == Sha!Fill(s.block, s.used, Sha!Zero, Sha!LenAt - s.used)
    IN  [i \in Sha!Index |-> IF i >= Sha!LenAt THEN Sha!LenByte(s.bits,
    i - Sha!LenAt) ELSE padded[i]]

\* A finished context is one.
LEMMA ShaFinishedType ==
    ASSUME Sha!LenAssumption, NEW c \in ShaContexts,
           NEW s, s = Sha!Spilled(Sha!Marked(c)),
           NEW h, h = Append(s.h, ShaLastBlock(s))
    PROVE  /\ s \in ShaContexts /\ s.bits = c.bits
           /\ ShaLastBlock(s) \in Sha!Buffers
           /\ Sha!Finished(c) \in ShaContexts
           /\ Sha!Finished(c).h = h /\ h \in Seq(Sha!Buffers)
<1> DEFINE d == Sha!Marked(c)
           b == [c.block EXCEPT ![c.used] = Sha!Lit(128)]
           b2 == Sha!Fill(d.block, d.used, Sha!Zero, ShaBlock - d.used)
           h2 == Append(d.h, b2)
           block == ShaLastBlock(s)
           e == [s EXCEPT !.block = block]
<1>1. d \in ShaFull /\ d.bits = c.bits
  <2>1. b = [c.block EXCEPT ![c.used] = Sha!Lit(128)] /\ d = Sha!Marked(c)
    OBVIOUS
  <2> HIDE DEF b, d
  <2>2. ShaMarkedAs(c, b, d)
    BY <2>1, ShaMarkedType
  <2> QED BY <2>2 DEF ShaMarkedAs
<1>2. s \in ShaContexts /\ s.bits = c.bits /\ s.used <= Sha!LenAt
  <2>1. b2 = Sha!Fill(d.block, d.used, Sha!Zero, ShaBlock - d.used) /\ h2 = Append(d.h, b2) /\ s = Sha!Spilled(d)
    OBVIOUS
  <2> HIDE DEF b2, h2, d
  <2>2. ShaSpilledAs(d, b2, h2, s)
    BY <1>1, <2>1, ShaSpilledType
  <2> QED BY <1>1, <2>2 DEF ShaSpilledAs
<1>3. block \in Sha!Buffers
  <2> DEFINE padded == Sha!Fill(s.block, s.used, Sha!Zero, Sha!LenAt - s.used)
  <2>1. s.block \in Sha!Buffers /\ s.used \in Int /\ Sha!Zero \in Int /\ Sha!LenAt - s.used \in Int
    BY <1>2, ShaRadixType, ShaBlockAssumption DEF ShaContexts, Sha!sha1_ctx, Sha!Zero,
      Sha!Lit
  <2>2. padded \in Sha!Buffers
    BY <2>1, Sha!FillType, ShaBlockAssumption DEF Sha!BlockSizeAssumption
  <2>3. s.bits \in Nat
    BY <1>2, ShaRadixType DEF ShaContexts, Sha!sha1_ctx
  <2>4. ASSUME NEW i \in Sha!Index, i >= Sha!LenAt
        PROVE  Sha!LenByte(s.bits, i - Sha!LenAt) \in Int
    <3>1. i - Sha!LenAt \in 0 .. LenBytes - 1
      BY <2>4, ShaRadixType, ShaBlockAssumption DEF Sha!LenAt, Sha!Index, Sha!LenAssumption
    <3> QED BY <2>3, <3>1, ShaLenByteType
  <2>5. block = [i \in Sha!Index |-> IF i >= Sha!LenAt THEN Sha!LenByte(s.bits, i - Sha!LenAt) ELSE padded[i]]
    BY DEF ShaLastBlock
  <2> HIDE DEF padded, block
  <2>6. \A i \in Sha!Index : (IF i >= Sha!LenAt THEN Sha!LenByte(s.bits, i - Sha!LenAt) ELSE padded[i]) \in Int
    BY <2>2, <2>4 DEF Sha!Buffers
  <2> QED BY <2>5, <2>6 DEF Sha!Buffers
<1>4. Sha!Finished(c) = Sha!sha1_block(e)
  <2>1. c.bits = s.bits
    BY <1>2
  <2> QED BY <2>1, Zenon DEF Sha!Finished, ShaLastBlock
<1> HIDE DEF block
<1>5. e \in ShaContexts /\ e.h = s.h /\ e.block = block
  BY <1>2, <1>3 DEF ShaContexts, Sha!sha1_ctx
<1> HIDE DEF e
<1>6. h = Append(e.h, e.block)
  BY <1>5 DEF block
<1>7. e \in ShaFull
  BY <1>5, ShaBlockAssumption DEF ShaContexts, Sha!sha1_ctx, ShaFull
<1>8. h \in Seq(Sha!Buffers) /\ Sha!sha1_block(e) = [e EXCEPT !.h = h]
  BY <1>6, <1>7, ShaBlockType
<1>9. Sha!Finished(c) \in ShaContexts /\ Sha!Finished(c).h = h
  BY <1>4, <1>5, <1>8 DEF ShaContexts, Sha!sha1_ctx
<1> QED BY <1>2, <1>3, <1>8, <1>9 DEF block

\* The length field of t bytes, and what stands before it in its block.
ShaTail(k, t, from) ==
    [i \in Sha!Index |-> IF i >= Sha!LenAt THEN Sha!LenByte((8 * t) % Sha!BitsRadix, i - Sha!LenAt)
                     ELSE IF i < from THEN k * ShaBlock + 1 + i
                     ELSE IF i = from THEN Sha!Lit(128) ELSE Sha!Zero]

\* Which block the tail of the message, the marker and the length come to lie in.
LEMMA ShaTotalBlocksExact ==
    ASSUME Sha!LenAssumption, NEW k \in Nat, NEW u \in Sha!Index, NEW t,
    t = k * ShaBlock + u
    PROVE  /\ u + 1 <= Sha!LenAt => Sha!TotalBlocks(t) = k + 1
           /\ u + 1 > Sha!LenAt => Sha!TotalBlocks(t) = k + 2
<1> DEFINE x == k * ShaBlock
           y == (k + 1) * ShaBlock
           z == (k + 2) * ShaBlock
<1>1. x \in Nat /\ y = x + ShaBlock /\ z = y + ShaBlock
  BY ShaBlockAssumption
<1> HIDE DEF x, y, z
<1>2. t = x + u /\ u \in Nat /\ u < ShaBlock
  BY ShaBlockAssumption DEF x, Sha!Index
<1>3. ASSUME u + 1 <= Sha!LenAt
      PROVE  Sha!TotalBlocks(t) = k + 1
  <2>1. t + 1 + LenBytes + ShaBlock - 1 = y + (u + LenBytes)
    BY <1>1, <1>2, ShaBlockAssumption DEF Sha!LenAssumption
  <2>2. u + LenBytes \in Sha!Index /\ k + 1 \in Nat
    BY <1>2, <1>3, ShaBlockAssumption DEF Sha!LenAssumption, Sha!LenAt, Sha!Index
  <2>3. ((k + 1) * ShaBlock + (u + LenBytes)) \div ShaBlock = k + 1
    BY <2>2, Sha!DivModUnique, ShaBlockAssumption DEF Sha!BlockSizeAssumption
  <2> QED BY <2>1, <2>3 DEF Sha!TotalBlocks, y
<1>4. ASSUME u + 1 > Sha!LenAt
      PROVE  Sha!TotalBlocks(t) = k + 2
  <2>1. t + 1 + LenBytes + ShaBlock - 1 = z + (u + LenBytes - ShaBlock)
    BY <1>1, <1>2, ShaBlockAssumption DEF Sha!LenAssumption
  <2>2. u + LenBytes - ShaBlock \in Sha!Index /\ k + 2 \in Nat
    BY <1>2, <1>4, ShaBlockAssumption DEF Sha!LenAssumption, Sha!LenAt, Sha!Index
  <2>3. ((k + 2) * ShaBlock + (u + LenBytes - ShaBlock)) \div ShaBlock = k + 2
    BY <2>2, Sha!DivModUnique, ShaBlockAssumption DEF Sha!BlockSizeAssumption
  <2> QED BY <2>1, <2>3 DEF Sha!TotalBlocks, z
<1> QED BY <1>3, <1>4

\* Byte i of block j + 1 of the padded message.
LEMMA ShaPaddedByteExact ==
    ASSUME Sha!LenAssumption, NEW k \in Nat, NEW u \in Sha!Index, NEW t,
    t = k * ShaBlock + u,
           NEW n, n = Sha!TotalBlocks(t), NEW j \in 0 .. n - 1, NEW i \in Sha!Index
    PROVE  Sha!PaddedByte(t, j * ShaBlock + i) =
             IF j < k THEN j * ShaBlock + 1 + i
             ELSE IF j = k /\ i < u THEN k * ShaBlock + 1 + i
             ELSE IF j = k /\ i = u THEN Sha!Lit(128)
             ELSE IF j = n - 1 /\ i >= Sha!LenAt THEN Sha!LenByte((8 * t) % Sha!BitsRadix,
             i - Sha!LenAt)
             ELSE Sha!Zero
<1> DEFINE x == k * ShaBlock
           y == j * ShaBlock
           end == n * ShaBlock
           m == n - 1 - j
           w == m * ShaBlock
<1>1. (n = k + 1 \/ n = k + 2) /\ (u + 1 <= Sha!LenAt => n = k + 1) /\ (u + 1 > Sha!LenAt => n = k + 2)
  <2>1. u + 1 <= Sha!LenAt \/ u + 1 > Sha!LenAt
    BY ShaRadixType, ShaBlockAssumption DEF Sha!Index
  <2> QED BY <2>1, ShaTotalBlocksExact
<1>2. j \in Nat /\ n \in Nat /\ m \in Nat
  BY <1>1
<1>3. x \in Nat /\ y \in Nat /\ w \in Nat
  BY <1>2, ShaBlockAssumption
<1>4. end = y + w + ShaBlock
  BY <1>2, ShaBlockAssumption
<1>5. ASSUME NEW p
      PROVE  Sha!PaddedByte(t, p) =
               IF p < t THEN p + 1
               ELSE IF p = t THEN Sha!Lit(128)
               ELSE IF p < end - LenBytes THEN Sha!Zero
               ELSE Sha!LenByte((8 * t) % Sha!BitsRadix, p - (end - LenBytes))
  <2> DEFINE total == Sha!TotalBlocks(t) * ShaBlock
  <2>1. Sha!PaddedByte(t, p) =
          IF p < t THEN p + 1
          ELSE IF p = t THEN Sha!Lit(128)
          ELSE IF p < total - LenBytes THEN Sha!Zero
          ELSE Sha!LenByte((8 * t) % Sha!BitsRadix, p - (total - LenBytes))
    BY Zenon DEF Sha!PaddedByte
  <2>2. total = end
    OBVIOUS
  <2> HIDE DEF total, end
  <2> QED BY <2>1, <2>2
<1>6. i \in Nat /\ i < ShaBlock /\ u \in Nat /\ u < ShaBlock /\ t = x + u /\ ShaBlock \in Nat
  BY ShaBlockAssumption DEF Sha!Index
<1>7. Sha!LenAt \in Nat /\ Sha!LenAt = ShaBlock - LenBytes /\ LenBytes \in Nat
  BY ShaBlockAssumption DEF Sha!LenAt, Sha!LenAssumption
<1>8. j < k => y + ShaBlock <= x
  <2> DEFINE p == k - 1 - j
             q == p * ShaBlock
  <2>1. j < k => p \in Nat
    BY <1>2
  <2>2. j < k => q \in Nat /\ x = y + ShaBlock + q
    BY <1>2, <2>1, ShaBlockAssumption
  <2> HIDE DEF x, y, q
  <2> QED BY <1>3, <2>2, ShaBlockAssumption
<1>9. j > k => j = k + 1 /\ n = k + 2 /\ y = x + ShaBlock
  <2>1. j > k => j = k + 1 /\ n = k + 2
    BY <1>1
  <2>2. j = k + 1 => y = x + ShaBlock
    BY ShaBlockAssumption
  <2> QED BY <2>1, <2>2
<1>10. j = k => y = x
  OBVIOUS
<1>11. j = n - 1 => w = 0
  BY <1>2, ShaBlockAssumption
<1>12. j # n - 1 => (j = n - 2 /\ w = ShaBlock) \/ j < k
  <2>1. j # n - 1 => m = 1 \/ j < k
    BY <1>1
  <2>2. m = 1 => w = ShaBlock /\ j = n - 2
    BY <1>2, ShaBlockAssumption
  <2> QED BY <2>1, <2>2
<1> HIDE DEF x, y, w, end, m
<1>13. CASE j < k
  <2>1. y + i < t /\ y + i + 1 = y + 1 + i
    BY <1>3, <1>6, <1>8, <1>13
  <2> QED BY <1>5, <1>13, <2>1 DEF y
<1>14. CASE j = k /\ i < u
  <2>1. y + i < t /\ y + i + 1 = x + 1 + i /\ ~(j < k)
    BY <1>3, <1>6, <1>10, <1>14
  <2> QED BY <1>5, <1>14, <2>1 DEF y, x
<1>15. CASE j = k /\ i = u
  <2>1. ~(y + i < t) /\ y + i = t /\ ~(j < k) /\ ~(i < u)
    BY <1>3, <1>6, <1>10, <1>15
  <2> QED BY <1>5, <1>15, <2>1 DEF y
<1>16. CASE (j = k /\ i > u) \/ j > k
  <2>1. ~(y + i < t) /\ ~(y + i = t) /\ ~(j < k) /\ ~(j = k /\ i < u) /\ ~(j = k /\ i = u)
    BY <1>2, <1>3, <1>6, <1>9, <1>10, <1>16
  <2>2. CASE j = n - 1
    <3>1. /\ y + i < end - LenBytes <=> ~(i >= Sha!LenAt)
          /\ y + i - (end - LenBytes) = i - Sha!LenAt
      BY <1>3, <1>4, <1>6, <1>7, <1>11, <2>2
    <3> DEFINE at == i - Sha!LenAt
               p == y + i
    <3> HIDE DEF at, p
    <3>2. /\ p < end - LenBytes <=> ~(i >= Sha!LenAt)
          /\ p - (end - LenBytes) = at
          /\ ~(p < t) /\ ~(p = t)
      BY <1>3, <1>4, <1>6, <1>7, <2>1, <3>1 DEF at, p
    <3>3. Sha!PaddedByte(t, p) = IF i >= Sha!LenAt THEN Sha!LenByte((8 * t) % Sha!BitsRadix, at) ELSE Sha!Zero
      BY <1>5, <3>2
    <3>4. Sha!PaddedByte(t, y + i) =
            IF i >= Sha!LenAt THEN Sha!LenByte((8 * t) % Sha!BitsRadix,
            i - Sha!LenAt) ELSE Sha!Zero
      BY <3>3, Zenon DEF p, at
    <3> QED BY <2>1, <2>2, <3>4, Zenon DEF y
  <2>3. CASE j # n - 1
    <3>1. j = n - 2 /\ w = ShaBlock
      BY <1>12, <2>1, <2>3
    <3>2. y + i < end - LenBytes
      BY <1>3, <1>4, <1>6, <1>7, <3>1
    <3> QED BY <1>5, <2>1, <2>3, <3>2 DEF y
  <2> QED BY <2>2, <2>3
<1> QED BY <1>2, <1>6, <1>13, <1>14, <1>15, <1>16

\* The finish of a context that represents t bytes is the padded message.
LEMMA ShaFinalIsReference ==
    ASSUME Sha!LenAssumption, NEW c \in ShaContexts, NEW t \in Nat, ShaRepresents(c, t),
           c.bits = (8 * t) % Sha!BitsRadix
    PROVE  Sha!Finished(c).h = Sha!Reference(t)
<1>1. PICK k \in Nat : /\ t = k * ShaBlock + c.used
                       /\ c.h = ShaSpelled(k)
                       /\ Sha!Holds(c.block, c.used, k * ShaBlock + 1)
  BY DEF ShaRepresents
<1> DEFINE u == c.used
           n == Sha!TotalBlocks(t)
           d == Sha!Marked(c)
           b == [c.block EXCEPT ![u] = Sha!Lit(128)]
           b2 == Sha!Fill(d.block, d.used, Sha!Zero, ShaBlock - d.used)
           h2 == Append(d.h, b2)
           s == Sha!Spilled(d)
           last == ShaLastBlock(s)
           h == Append(s.h, last)
           ref == [j \in 1 .. n |-> [i \in Sha!Index |-> Sha!PaddedByte(t, (j - 1) * ShaBlock + i)]]
<1>2. u \in Sha!Index /\ u \in Nat /\ u < ShaBlock /\ c.block \in Sha!Buffers /\ t = k * ShaBlock + u
  BY <1>1, ShaBlockAssumption DEF ShaContexts, Sha!sha1_ctx, Sha!Index
<1>3. /\ d \in ShaFull
      /\ b \in Sha!Buffers /\ d.h = c.h /\ d.block = b /\ d.bits = c.bits /\ d.used = u + 1
  <2>1. b = [c.block EXCEPT ![c.used] = Sha!Lit(128)] /\ d = Sha!Marked(c)
    OBVIOUS
  <2> HIDE DEF b, d
  <2>2. ShaMarkedAs(c, b, d)
    BY <2>1, ShaMarkedType
  <2> QED BY <2>2 DEF ShaMarkedAs
<1>4. /\ b2 \in Sha!Buffers /\ s \in ShaContexts /\ s.bits = c.bits /\ s.used <= Sha!LenAt
      /\ d.used <= Sha!LenAt => s = d
      /\ d.used > Sha!LenAt => s.h = h2 /\ s.block = b2 /\ s.used = 0
  <2>1. b2 = Sha!Fill(d.block, d.used, Sha!Zero, ShaBlock - d.used) /\ h2 = Append(d.h, b2) /\ s = Sha!Spilled(d)
    OBVIOUS
  <2> HIDE DEF b2, h2, d, s
  <2>2. ShaSpilledAs(d, b2, h2, s)
    BY <1>3, <2>1, ShaSpilledType
  <2> QED BY <1>3, <2>2 DEF ShaSpilledAs
<1>5. Sha!Finished(c).h = h /\ last \in Sha!Buffers
  <2>1. s = Sha!Spilled(Sha!Marked(c)) /\ h = Append(s.h, ShaLastBlock(s))
    OBVIOUS
  <2> HIDE DEF s, h
  <2> QED BY <2>1, ShaFinishedType
<1>6. Sha!Reference(t) = ref
  BY Zenon DEF Sha!Reference
<1>7. Sha!LenAt \in Nat /\ Sha!LenAt < ShaBlock /\ Sha!LenAt > 0
  BY ShaRadixType, ShaBlockAssumption
<1>8. (u + 1 <= Sha!LenAt => n = k + 1) /\ (u + 1 > Sha!LenAt => n = k + 2)
  <2> HIDE DEF u, n
  <2> QED BY <1>2, ShaTotalBlocksExact DEF n
<1>9. ASSUME NEW i \in Sha!Index
      PROVE  /\ i < u => b[i] = k * ShaBlock + 1 + i
             /\ i = u => b[i] = Sha!Lit(128)
  <2>1. b[i] = IF i = u THEN Sha!Lit(128) ELSE c.block[i]
    BY <1>2 DEF Sha!Buffers
  <2>2. i < u => c.block[i] = k * ShaBlock + 1 + i
    BY <1>1, <1>2 DEF Sha!Holds, Sha!Index
  <2> HIDE DEF b, u, Sha!Lit
  <2> QED BY <1>2, <2>1, <2>2, ShaBlockAssumption DEF Sha!Index
<1> HIDE DEF u, n, d, b, b2, h2, s, h, last
<1>10. /\ n \in Nat /\ ref = [j \in 1 .. n |-> ref[j]] /\ k <= n
       /\ \A j \in 1 .. n : ref[j] = [i \in Sha!Index |-> Sha!PaddedByte(t, (j - 1) * ShaBlock + i)]
  <2>1. n \in Nat /\ k <= n
    BY <1>2, <1>7, <1>8
  <2> QED BY <2>1
<1> HIDE DEF ref
<1>11. ASSUME NEW j \in 1 .. n, NEW i \in Sha!Index
       PROVE  /\ ref[j] = [l \in Sha!Index |-> ref[j][l]]
              /\ ref[j][i] =
                   IF j - 1 < k THEN (j - 1) * ShaBlock + 1 + i
                   ELSE IF j - 1 = k /\ i < u THEN k * ShaBlock + 1 + i
                   ELSE IF j - 1 = k /\ i = u THEN Sha!Lit(128)
                   ELSE IF j - 1 = n - 1 /\ i >= Sha!LenAt THEN Sha!LenByte((8 * t) % Sha!BitsRadix, i - Sha!LenAt)
                   ELSE Sha!Zero
  <2> DEFINE g == j - 1
  <2>1. g \in 0 .. n - 1 /\ n = Sha!TotalBlocks(t)
    BY <1>10 DEF n
  <2>2. ref[j] = [l \in Sha!Index |-> Sha!PaddedByte(t, g * ShaBlock + l)]
    BY <1>10
  <2> HIDE DEF g
  <2>3. Sha!PaddedByte(t, g * ShaBlock + i) =
             IF g < k THEN g * ShaBlock + 1 + i
             ELSE IF g = k /\ i < u THEN k * ShaBlock + 1 + i
             ELSE IF g = k /\ i = u THEN Sha!Lit(128)
             ELSE IF g = n - 1 /\ i >= Sha!LenAt THEN Sha!LenByte((8 * t) % Sha!BitsRadix,
             i - Sha!LenAt)
             ELSE Sha!Zero
    BY <1>2, <2>1, ShaPaddedByteExact
  <2>4. ref[j][i] = Sha!PaddedByte(t, g * ShaBlock + i)
    BY <2>2
  <2>5. ref[j] = [l \in Sha!Index |-> ref[j][l]]
    BY <2>2
  <2> QED BY <2>3, <2>4, <2>5, Zenon DEF g
<1>12. \A j \in 1 .. k : ref[j] = Sha!BlockAt((j - 1) * ShaBlock + 1)
  <2> SUFFICES ASSUME NEW j \in 1 .. k
               PROVE  ref[j] = Sha!BlockAt((j - 1) * ShaBlock + 1)
    OBVIOUS
  <2>1. j \in 1 .. n /\ j - 1 < k
    BY <1>10
  <2>2. \A i \in Sha!Index : ref[j][i] = (j - 1) * ShaBlock + 1 + i
    BY <1>11, <2>1
  <2>3. ref[j] = [i \in Sha!Index |-> ref[j][i]]
    BY <1>10, <2>1
  <2> QED BY <2>2, <2>3 DEF Sha!BlockAt
<1>13. ShaSpelled(k) = [j \in 1 .. k |-> ref[j]]
  BY <1>12 DEF ShaSpelled
<1>14. ASSUME u + 1 <= Sha!LenAt
       PROVE  h = ref
  <2>1. n = k + 1 /\ s = d /\ s.used = u + 1 /\ s.block = b /\ s.h = ShaSpelled(k)
    BY <1>1, <1>3, <1>4, <1>8, <1>14
  <2>2. last = ref[k + 1]
    <3> DEFINE padded == Sha!Fill(s.block, s.used, Sha!Zero, Sha!LenAt - s.used)
    <3>1. last = [i \in Sha!Index |-> IF i >= Sha!LenAt THEN Sha!LenByte(s.bits, i - Sha!LenAt) ELSE padded[i]]
      BY DEF ShaLastBlock, last
    <3>2. ASSUME NEW i \in Sha!Index
          PROVE  padded[i] = IF i \in u + 1 .. Sha!LenAt - 1 THEN Sha!Zero ELSE b[i]
      <4>1. s.used + (Sha!LenAt - s.used) - 1 = Sha!LenAt - 1
        BY <1>2, <1>7, <2>1
      <4> QED BY <2>1, <4>1 DEF Sha!Fill
    <3> HIDE DEF padded, Sha!Lit
    <3>3. k + 1 \in 1 .. n /\ (k + 1) - 1 = k /\ n - 1 = k
      BY <1>10, <2>1
    <3>4. ASSUME NEW i \in Sha!Index
          PROVE  (IF i >= Sha!LenAt THEN Sha!LenByte(s.bits, i - Sha!LenAt) ELSE padded[i]) = ref[k + 1][i]
      <4>1. ref[k + 1][i] = IF i < u THEN k * ShaBlock + 1 + i
                            ELSE IF i = u THEN Sha!Lit(128)
                            ELSE IF i >= Sha!LenAt THEN Sha!LenByte((8 * t) % Sha!BitsRadix, i - Sha!LenAt)
                            ELSE Sha!Zero
        <5> DEFINE j == k + 1
        <5>1. j \in 1 .. n /\ j - 1 = k /\ ~(j - 1 < k) /\ j - 1 = n - 1
          BY <3>3
        <5> HIDE DEF j
        <5>3. ref[j][i] =
                   IF j - 1 < k THEN (j - 1) * ShaBlock + 1 + i
                   ELSE IF j - 1 = k /\ i < u THEN k * ShaBlock + 1 + i
                   ELSE IF j - 1 = k /\ i = u THEN Sha!Lit(128)
                   ELSE IF j - 1 = n - 1 /\ i >= Sha!LenAt THEN Sha!LenByte((8 * t) % Sha!BitsRadix, i - Sha!LenAt)
                   ELSE Sha!Zero
          BY <1>11, <5>1
        <5> QED BY <5>1, <5>3, Zenon DEF j
      <4>2. s.bits = (8 * t) % Sha!BitsRadix
        BY <1>4
      <4>3. i \in Nat
        BY ShaBlockAssumption DEF Sha!Index
      <4> DEFINE ll == Sha!LenByte((8 * t) % Sha!BitsRadix, i - Sha!LenAt)
                 xx == k * ShaBlock + 1 + i
      <4>4. /\ ref[k + 1][i] = IF i < u THEN xx ELSE IF i = u THEN Sha!Lit(128)
                               ELSE IF i >= Sha!LenAt THEN ll ELSE Sha!Zero
            /\ Sha!LenByte(s.bits, i - Sha!LenAt) = ll
            /\ i < u => b[i] = xx
            /\ i = u => b[i] = Sha!Lit(128)
        BY <1>9, <4>1, <4>2
      <4> HIDE DEF ll, xx
      <4> QED BY <1>2, <1>7, <1>14, <3>2, <4>3, <4>4
    <3>5. ref[k + 1] = [i \in Sha!Index |-> ref[k + 1][i]]
      BY <1>10, <3>3
    <3> QED BY <3>1, <3>4, <3>5
  <2>3. ref \in [1 .. k + 1 -> Sha!Buffers]
    <3>1. \A j \in 1 .. k : ref[j] \in Sha!Buffers
      BY <1>13, ShaSpelledType
    <3>2. \A j \in 1 .. k + 1 : ref[j] \in Sha!Buffers
      BY <1>5, <2>2, <3>1
    <3> QED BY <1>10, <2>1, <3>2
  <2>4. Append([j \in 1 .. k |-> ref[j]], ref[k + 1]) = ref
    BY <2>3, Sha!AppendTable, ShaBlockAssumption DEF Sha!BlockSizeAssumption
  <2>5. h = Append(s.h, last)
    BY DEF h
  <2> QED BY <1>13, <2>1, <2>2, <2>4, <2>5
<1>15. ASSUME u + 1 > Sha!LenAt
       PROVE  h = ref
  <2>1. n = k + 2 /\ s.used = 0 /\ s.block = b2 /\ s.h = h2
    BY <1>3, <1>4, <1>8, <1>15
  <2>2. b2 = ref[k + 1]
    <3>1. d.used + (ShaBlock - d.used) - 1 = ShaBlock - 1
      BY <1>2, <1>3, ShaBlockAssumption
    <3>2. b2 = [i \in Sha!Index |-> IF i \in u + 1 .. ShaBlock - 1 THEN Sha!Zero ELSE b[i]]
      BY <1>3, <3>1 DEF b2, Sha!Fill
    <3>3. k + 1 \in 1 .. n /\ (k + 1) - 1 = k /\ n - 1 = k + 1
      BY <1>10, <2>1
    <3> HIDE DEF Sha!Lit
    <3>4. ASSUME NEW i \in Sha!Index
          PROVE  (IF i \in u + 1 .. ShaBlock - 1 THEN Sha!Zero ELSE b[i]) = ref[k + 1][i]
      <4>1. ref[k + 1][i] = IF i < u THEN k * ShaBlock + 1 + i
                            ELSE IF i = u THEN Sha!Lit(128) ELSE Sha!Zero
        <5> DEFINE j == k + 1
        <5>1. j \in 1 .. n /\ j - 1 = k /\ ~(j - 1 < k) /\ ~(j - 1 = n - 1)
          BY <3>3
        <5> HIDE DEF j
        <5>3. ref[j][i] =
                   IF j - 1 < k THEN (j - 1) * ShaBlock + 1 + i
                   ELSE IF j - 1 = k /\ i < u THEN k * ShaBlock + 1 + i
                   ELSE IF j - 1 = k /\ i = u THEN Sha!Lit(128)
                   ELSE IF j - 1 = n - 1 /\ i >= Sha!LenAt THEN Sha!LenByte((8 * t) % Sha!BitsRadix, i - Sha!LenAt)
                   ELSE Sha!Zero
          BY <1>11, <5>1
        <5> QED BY <5>1, <5>3, Zenon DEF j
      <4>2. i \in Nat /\ i < ShaBlock
        BY ShaBlockAssumption DEF Sha!Index
      <4> DEFINE xx == k * ShaBlock + 1 + i
      <4>3. /\ ref[k + 1][i] = IF i < u THEN xx ELSE IF i = u THEN Sha!Lit(128) ELSE Sha!Zero
            /\ i < u => b[i] = xx
            /\ i = u => b[i] = Sha!Lit(128)
        BY <1>9, <4>1
      <4> HIDE DEF xx
      <4> QED BY <1>2, <4>2, <4>3, ShaBlockAssumption
    <3>5. ref[k + 1] = [i \in Sha!Index |-> ref[k + 1][i]]
      BY <1>10, <3>3
    <3> QED BY <3>2, <3>4, <3>5
  <2>3. last = ref[k + 2]
    <3> DEFINE padded == Sha!Fill(s.block, s.used, Sha!Zero, Sha!LenAt - s.used)
    <3>1. last = [i \in Sha!Index |-> IF i >= Sha!LenAt THEN Sha!LenByte(s.bits, i - Sha!LenAt) ELSE padded[i]]
      BY DEF ShaLastBlock, last
    <3>2. ASSUME NEW i \in Sha!Index
          PROVE  i < Sha!LenAt => padded[i] = Sha!Zero
      <4>1. 0 + (Sha!LenAt - 0) - 1 = Sha!LenAt - 1 /\ i \in Nat
        BY <1>7, ShaBlockAssumption DEF Sha!Index
      <4> QED BY <1>7, <2>1, <4>1 DEF Sha!Fill
    <3> HIDE DEF padded, Sha!Lit
    <3>3. k + 2 \in 1 .. n /\ (k + 2) - 1 = k + 1 /\ n - 1 = k + 1
      BY <1>10, <2>1
    <3>4. ASSUME NEW i \in Sha!Index
          PROVE  (IF i >= Sha!LenAt THEN Sha!LenByte(s.bits, i - Sha!LenAt) ELSE padded[i]) = ref[k + 2][i]
      <4>1. ~(k + 1 < k) /\ k + 1 # k
        OBVIOUS
      <4>2. ref[k + 2][i] = IF i >= Sha!LenAt THEN Sha!LenByte((8 * t) % Sha!BitsRadix, i - Sha!LenAt) ELSE Sha!Zero
        BY <1>11, <3>3, <4>1
      <4>3. s.bits = (8 * t) % Sha!BitsRadix
        BY <1>4
      <4>4. i \in Nat
        BY ShaBlockAssumption DEF Sha!Index
      <4> QED BY <1>7, <3>2, <4>2, <4>3, <4>4
    <3>5. ref[k + 2] = [i \in Sha!Index |-> ref[k + 2][i]]
      BY <1>10, <3>3
    <3> QED BY <3>1, <3>4, <3>5
  <2>4. ref \in [1 .. (k + 1) + 1 -> Sha!Buffers] /\ n = (k + 1) + 1 /\ k + 1 \in Nat
    <3>1. \A j \in 1 .. k : ref[j] \in Sha!Buffers
      BY <1>13, ShaSpelledType
    <3>2. \A j \in 1 .. k + 2 : ref[j] \in Sha!Buffers
      BY <1>4, <1>5, <2>2, <2>3, <3>1
    <3> QED BY <1>10, <2>1, <3>2
  <2> DEFINE r1 == [j \in 1 .. k + 1 |-> ref[j]]
  <2>5. Append(r1, ref[(k + 1) + 1]) = ref
    BY <2>4, Sha!AppendTable, ShaBlockAssumption DEF Sha!BlockSizeAssumption
  <2>6. r1 \in [1 .. k + 1 -> Sha!Buffers] /\ r1[k + 1] = ref[k + 1]
        /\ [j \in 1 .. k |-> r1[j]] = [j \in 1 .. k |-> ref[j]]
    BY <2>4
  <2> HIDE DEF r1
  <2>7. Append([j \in 1 .. k |-> r1[j]], r1[k + 1]) = r1
    BY <2>6, Sha!AppendTable, ShaBlockAssumption DEF Sha!BlockSizeAssumption
  <2>8. h2 = r1
    <3>1. h2 = Append(ShaSpelled(k), ref[k + 1])
      BY <1>1, <1>3, <2>2 DEF h2
    <3> QED BY <1>13, <2>6, <2>7, <3>1
  <2>9. h = Append(s.h, last) /\ (k + 1) + 1 = k + 2
    BY DEF h
  <2> QED BY <2>1, <2>3, <2>5, <2>8, <2>9
<1>16. u + 1 <= Sha!LenAt \/ u + 1 > Sha!LenAt
  BY <1>2, <1>7
<1> QED BY <1>5, <1>6, <1>14, <1>15, <1>16

-----------------------------------------------------------------------------
\* In terms of the invariant.
ShaIsPrefix(c, t) ==
    LET k == Len(c.h)
    IN  /\ t = k * ShaBlock + c.used
        /\ c.bits = (8 * t) % Sha!BitsRadix
        /\ c.h = [j \in 1 .. k |-> Sha!BlockAt((j - 1) * ShaBlock + 1)]
        /\ Sha!Holds(c.block, c.used, k * ShaBlock + 1)

\* A context represents t bytes if it is as the invariant says.
LEMMA ShaPrefixIsRepresents ==
    ASSUME NEW c \in ShaContexts, NEW t
    PROVE  ShaIsPrefix(c, t) <=> ShaRepresents(c, t) /\ c.bits = (8 * t) % Sha!BitsRadix
<1>1. Len(c.h) \in Nat
  BY LenProperties DEF ShaContexts, Sha!sha1_ctx
<1>2. ASSUME ShaIsPrefix(c, t)
      PROVE  ShaRepresents(c, t) /\ c.bits = (8 * t) % Sha!BitsRadix
  BY <1>1, <1>2, Zenon DEF ShaIsPrefix, ShaRepresents, ShaSpelled
<1>3. ASSUME ShaRepresents(c, t), c.bits = (8 * t) % Sha!BitsRadix
      PROVE  ShaIsPrefix(c, t)
  <2>1. PICK k \in Nat : /\ t = k * ShaBlock + c.used
                         /\ c.h = ShaSpelled(k)
                         /\ Sha!Holds(c.block, c.used, k * ShaBlock + 1)
    BY <1>3 DEF ShaRepresents
  <2>2. Len(c.h) = k
    BY <2>1, ShaSpelledType
  <2> QED BY <1>3, <2>1, <2>2, Zenon DEF ShaIsPrefix, ShaSpelled
<1> QED BY <1>2, <1>3

\* The number of bits after len more bytes.
LEMMA ShaBitsOfSum ==
    ASSUME Sha!LenAssumption, NEW t \in Nat, NEW len \in Nat,
           NEW bits, bits = (8 * t) % Sha!BitsRadix
    PROVE  (bits + 8 * len) % Sha!BitsRadix = (8 * (t + len)) % Sha!BitsRadix
<1>1. Sha!BitsRadix \in Nat \ {0}
  BY ShaRadixType
<1>2. 8 * t \in Nat /\ 8 * len \in Nat /\ 8 * t + 8 * len = 8 * (t + len)
  OBVIOUS
<1> DEFINE x == 8 * t
           y == 8 * len
<1> HIDE DEF x, y
<1>3. x \in Nat /\ y \in Nat /\ x + y = 8 * (t + len)
  BY <1>2 DEF x, y
<1>4. ((x % Sha!BitsRadix) + y) % Sha!BitsRadix = (x + y) % Sha!BitsRadix
  BY <1>1, <1>3, ShaModSum
<1>5. bits = x % Sha!BitsRadix
  BY DEF x
<1> QED BY <1>3, <1>4, <1>5, Zenon DEF y

ShaInv == Sha!TypeOK /\ Sha!StateIsPrefix

\* The inductive invariant holds at first
LEMMA ShaInitInv ==
    ASSUME Sha!LenAssumption
    PROVE  Sha!Init => ShaInv
<1> SUFFICES ASSUME Sha!Init
             PROVE  ShaInv
  OBVIOUS
<1> DEFINE c == [block |-> [i \in Sha!Index |-> Sha!Poison]]
<1>1. c.block \in Sha!Buffers
  BY DEF Sha!Buffers, Sha!Poison
<1>2. ctx = Sha!InitialCtx(c)
  BY DEF Sha!Init
<1> HIDE DEF c
<1>3. ctx \in ShaContexts /\ ShaRepresents(ctx, 0) /\ ctx.bits = 0
  BY <1>1, <1>2, ShaInitialRepresents
<1>4. Sha!TypeOK
  <2>1. taken \in 0 .. MaxTaken /\ out \in Seq(Sha!Buffers)
    BY DEF Sha!Init, Sha!LenAssumption
  <2> QED BY <1>3, <2>1 DEF Sha!Init, Sha!TypeOK, ShaContexts
<1>5. (8 * 0) % Sha!BitsRadix = 0
  BY ShaRadixType
<1>6. Sha!StateIsPrefix
  BY <1>3, <1>5, ShaPrefixIsRepresents DEF Sha!StateIsPrefix, ShaIsPrefix, Sha!Init
<1> QED BY <1>4, <1>6 DEF ShaInv

\* and is preserved by every call,
LEMMA ShaStepInv ==
    ASSUME Sha!LenAssumption, ShaInv, Sha!Next
    PROVE  ShaInv'
<1>0. /\ ctx \in ShaContexts /\ ctx.block \in Sha!Buffers /\ taken \in Nat /\ MaxTaken \in Nat
      /\ phase \in {"absorbing", "spent"} /\ out \in Seq(Sha!Buffers) /\ taken \in 0 .. MaxTaken
  BY DEF ShaInv, Sha!TypeOK, ShaContexts, Sha!sha1_ctx, Sha!LenAssumption
<1>1. ASSUME Sha!sha1_init
      PROVE  ShaInv'
  <2>1. ctx' \in ShaContexts /\ ShaRepresents(ctx', 0) /\ ctx'.bits = 0
    BY <1>0, <1>1, ShaInitialRepresents DEF Sha!sha1_init
  <2>2. Sha!TypeOK'
    BY <1>0, <1>1, <2>1 DEF Sha!sha1_init, Sha!TypeOK, ShaContexts
  <2>3. (8 * 0) % Sha!BitsRadix = 0
    BY ShaRadixType
  <2>4. Sha!StateIsPrefix'
    BY <1>1, <2>1, <2>3, ShaPrefixIsRepresents DEF Sha!StateIsPrefix, ShaIsPrefix,
      Sha!sha1_init
  <2> QED BY <2>2, <2>4 DEF ShaInv
<1>2. ASSUME NEW len \in 0 .. MaxTaken, Sha!sha1_update(len)
      PROVE  ShaInv'
  <2>1. len \in Nat /\ taken + len \in 0 .. MaxTaken /\ taken + 1 \in Int
    BY <1>0, <1>2 DEF Sha!sha1_update
  <2>2. ctx' \in ShaContexts
    BY <1>0, <1>2, <2>1, ShaUpdatedType DEF Sha!sha1_update
  <2>3. Sha!TypeOK'
    BY <1>0, <1>2, <2>1, <2>2 DEF Sha!sha1_update, Sha!TypeOK, ShaContexts
  <2>4. ASSUME phase = "absorbing"
        PROVE  ShaIsPrefix(ctx', taken')
    <3>1. ShaRepresents(ctx, taken) /\ ctx.bits = (8 * taken) % Sha!BitsRadix
      BY <1>0, <2>4, ShaPrefixIsRepresents DEF ShaInv, Sha!StateIsPrefix, ShaIsPrefix
    <3>2. /\ ShaRepresents(ctx', taken + len)
          /\ ctx'.bits = (ctx.bits + 8 * len) % Sha!BitsRadix
      BY <1>0, <1>2, <2>1, <3>1, ShaUpdatedRepresents DEF Sha!sha1_update
    <3>3. (ctx.bits + 8 * len) % Sha!BitsRadix = (8 * (taken + len)) % Sha!BitsRadix
      BY <1>0, <2>1, <3>1, ShaBitsOfSum
    <3>4. taken' = taken + len
      BY <1>2 DEF Sha!sha1_update
    <3>5. ShaRepresents(ctx', taken') /\ ctx'.bits = (8 * taken') % Sha!BitsRadix
      BY <3>2, <3>3, <3>4
    <3> QED BY <2>2, <3>5, ShaPrefixIsRepresents
  <2>5. Sha!StateIsPrefix'
    <3>1. phase' = phase
      BY <1>2 DEF Sha!sha1_update
    <3> QED BY <2>4, <3>1 DEF Sha!StateIsPrefix, ShaIsPrefix
  <2> QED BY <2>3, <2>5 DEF ShaInv
<1>3. ASSUME Sha!sha1_final
      PROVE  ShaInv'
  <2> DEFINE s == Sha!Spilled(Sha!Marked(ctx))
             h == Append(s.h, ShaLastBlock(s))
  <2>1. Sha!Finished(ctx) \in ShaContexts /\ Sha!Finished(ctx).h \in Seq(Sha!Buffers)
    <3>1. s = Sha!Spilled(Sha!Marked(ctx)) /\ h = Append(s.h, ShaLastBlock(s))
      OBVIOUS
    <3> HIDE DEF s, h
    <3> QED BY <1>0, <3>1, ShaFinishedType
  <2>2. Sha!TypeOK'
    BY <1>0, <1>3, <2>1 DEF Sha!sha1_final, Sha!TypeOK, ShaContexts
  <2>3. Sha!StateIsPrefix'
    BY <1>3 DEF Sha!sha1_final, Sha!StateIsPrefix
  <2> QED BY <2>2, <2>3 DEF ShaInv
<1> QED BY <1>1, <1>2, <1>3 DEF Sha!Next

\* and what a call returns is the reference.
LEMMA ShaReturnsReference ==
    ASSUME Sha!LenAssumption, ShaInv, phase = "absorbing", Sha!sha1_final
    PROVE  out' = Sha!Reference(taken)
<1>1. ctx \in ShaContexts /\ taken \in Nat
  BY DEF ShaInv, Sha!TypeOK, ShaContexts
<1>2. ShaRepresents(ctx, taken) /\ ctx.bits = (8 * taken) % Sha!BitsRadix
  BY <1>1, ShaPrefixIsRepresents DEF ShaInv, Sha!StateIsPrefix, ShaIsPrefix
<1> QED BY <1>1, <1>2, ShaFinalIsReference DEF Sha!sha1_final

-----------------------------------------------------------------------------
(***************************************************************************)
(* GOST R 34.11-94.                                                        *)
(***************************************************************************)

GostContexts == Gost!gost3411_94_ctx
GostSpelled(k) == [j \in 1 .. k |-> Gost!BlockAt((j - 1) * GostBlock + 1)]
GostMixed(k) == [j \in 1 .. k |-> Gost!Word(Gost!BlockAt((j - 1) * GostBlock + 1))]

\* The context of t bytes of which k blocks have been mixed in.
GostRepresents(c, t) ==
    \E k \in Nat :
        /\ t = k * GostBlock + c.left
        /\ c.len = k * GostBlock
        /\ c.sum = GostSpelled(k)
        /\ c.h = GostMixed(k)
        /\ Gost!Holds(c.rem, c.left, k * GostBlock + 1)

\* Where block j of the stream begins is a pointer.
LEMMA GostBlockStart ==
    ASSUME NEW j \in Int
    PROVE  (j - 1) * GostBlock + 1 \in Int
BY GostBlockAssumption

\* The lists of the first k blocks are lists of blocks and of words.
LEMMA GostListsType ==
    ASSUME NEW k \in Nat
    PROVE  /\ GostSpelled(k) \in [1 .. k -> Gost!Buffers]
           /\ GostMixed(k) \in [1 .. k -> Gost!U256]
           /\ GostSpelled(k) \in Seq(Gost!Buffers) /\ Len(GostSpelled(k)) = k
           /\ GostMixed(k) \in Seq(Gost!U256) /\ Len(GostMixed(k)) = k
<1>1. GostSpelled(k) \in [1 .. k -> Gost!Buffers]
  BY GostBlockStart, Gost!BlockAtType, GostBlockAssumption DEF GostSpelled,
    Gost!BlockSizeAssumption
<1>2. ASSUME NEW m \in Gost!Buffers PROVE Gost!Word(m) \in Gost!U256
  <2>1. <<m>> \in Seq(Gost!Buffers)
    OBVIOUS
  <2> QED BY <2>1 DEF Gost!Word, Gost!U256
<1>3. GostMixed(k) \in [1 .. k -> Gost!U256]
  BY <1>2, GostBlockStart, Gost!BlockAtType, GostBlockAssumption DEF GostMixed,
    Gost!BlockSizeAssumption
<1> QED BY <1>1, <1>3, SeqDef, LenProperties

\* A block of the stream goes behind the lists,
LEMMA GostListsAppend ==
    ASSUME NEW k \in Nat, NEW b, b = Gost!BlockAt(k * GostBlock + 1)
    PROVE  /\ Append(GostSpelled(k), b) = GostSpelled(k + 1)
           /\ Append(GostMixed(k), Gost!Word(b)) = GostMixed(k + 1)
<1>1. GostSpelled(k + 1) \in [1 .. k + 1 -> Gost!Buffers] /\ GostMixed(k + 1) \in [1 .. k + 1 -> Gost!U256]
  BY GostListsType
<1>2. (k + 1) - 1 = k
  OBVIOUS
<1>3. /\ GostSpelled(k) = [j \in 1 .. k |-> GostSpelled(k + 1)[j]]
      /\ GostSpelled(k + 1)[k + 1] = b
  BY <1>2 DEF GostSpelled
<1>4. /\ GostMixed(k) = [j \in 1 .. k |-> GostMixed(k + 1)[j]]
      /\ GostMixed(k + 1)[k + 1] = Gost!Word(b)
  BY <1>2 DEF GostMixed
<1> QED BY <1>1, <1>3, <1>4, Gost!AppendTable, GostBlockAssumption
  DEF Gost!BlockSizeAssumption

\* and so do n of them.
LEMMA GostListsConcat ==
    ASSUME NEW k \in Nat, NEW n \in Nat, NEW data, data = k * GostBlock + 1
    PROVE  /\ GostSpelled(k) \o [j \in 1 .. n |-> Gost!BlockAt(data + (j - 1) * GostBlock)]
                = GostSpelled(k + n)
           /\ GostMixed(k) \o [j \in 1 .. n |-> Gost!Word(Gost!BlockAt(data + (j - 1) * GostBlock))]
                = GostMixed(k + n)
<1>1. GostSpelled(k + n) \in [1 .. k + n -> Gost!Buffers] /\ GostMixed(k + n) \in [1 .. k + n -> Gost!U256]
  BY GostListsType
<1>2. \A j \in 1 .. n : data + (j - 1) * GostBlock = ((k + j) - 1) * GostBlock + 1
  BY GostBlockAssumption
<1>3. /\ GostSpelled(k) = [j \in 1 .. k |-> GostSpelled(k + n)[j]]
      /\ GostMixed(k) = [j \in 1 .. k |-> GostMixed(k + n)[j]]
  BY DEF GostSpelled, GostMixed
<1>4. /\ [j \in 1 .. n |-> Gost!BlockAt(data + (j - 1) * GostBlock)]
            = [j \in 1 .. n |-> GostSpelled(k + n)[k + j]]
      /\ [j \in 1 .. n |-> Gost!Word(Gost!BlockAt(data + (j - 1) * GostBlock))]
            = [j \in 1 .. n |-> GostMixed(k + n)[k + j]]
  <2>1. \A j \in 1 .. n : /\ GostSpelled(k + n)[k + j] = Gost!BlockAt(data + (j - 1) * GostBlock)
                          /\ GostMixed(k + n)[k + j] = Gost!Word(Gost!BlockAt(data + (j - 1) * GostBlock))
    BY <1>2 DEF GostSpelled, GostMixed
  <2> QED BY <2>1
<1> QED BY <1>1, <1>3, <1>4, Gost!ConcatTable, GostBlockAssumption
  DEF Gost!BlockSizeAssumption

\* The context a call begins with.
LEMMA GostZeroRepresents ==
    ASSUME Gost!BoundsAssumption
    PROVE  Gost!ZeroCtx \in GostContexts /\ GostRepresents(Gost!ZeroCtx, 0)
<1>1. Gost!ZeroCtx \in GostContexts
  <2>1. Gost!ZeroBlock \in Gost!Buffers
    BY DEF Gost!ZeroBlock, Gost!Buffers, Gost!Zero, Gost!Lit
  <2>2. <<>> \in Seq(Gost!U256) /\ <<>> \in Seq(Gost!Buffers)
    OBVIOUS
  <2>3. 0 \in 0 .. GostBlock - 1 /\ 0 \in 0 .. GostRadix - 1
    BY GostBlockAssumption DEF Gost!BoundsAssumption
  <2> QED BY <2>1, <2>2, <2>3 DEF Gost!ZeroCtx, GostContexts, Gost!gost3411_94_ctx
<1>2. GostSpelled(0) = <<>> /\ GostMixed(0) = <<>>
  BY DEF GostSpelled, GostMixed
<1>3. 0 = 0 * GostBlock + 0 /\ 0 = 0 * GostBlock
  BY GostBlockAssumption
<1>4. Gost!Holds(Gost!ZeroBlock, 0, 0 * GostBlock + 1)
  BY Gost!HoldsNothing, GostBlockAssumption DEF Gost!BlockSizeAssumption
<1>5. GostRepresents(Gost!ZeroCtx, 0)
  BY <1>2, <1>3, <1>4 DEF GostRepresents, Gost!ZeroCtx
<1> QED BY <1>1, <1>5

\* Whole blocks of the input are mixed in and summed up in order.
LEMMA GostWholeBlocksRepresent ==
    ASSUME Gost!BoundsAssumption,
           NEW c \in GostContexts, NEW t \in Nat, GostRepresents(c, t), c.left = 0,
           NEW n \in Nat, t + n * GostBlock <= MaxTaken,
           NEW e, e = Gost!WholeBlocks(c, t + 1, n)
    PROVE  e \in GostContexts /\ GostRepresents(e, t + n * GostBlock) /\ e.left = 0
<1>1. PICK k \in Nat : /\ t = k * GostBlock + c.left
                       /\ c.len = k * GostBlock
                       /\ c.sum = GostSpelled(k)
                       /\ c.h = GostMixed(k)
                       /\ Gost!Holds(c.rem, c.left, k * GostBlock + 1)
  BY DEF GostRepresents
<1> DEFINE h == GostMixed(k + n)
           s == GostSpelled(k + n)
           l == (k + n) * GostBlock
<1>2. t + 1 = k * GostBlock + 1
  BY <1>1, GostBlockAssumption
<1>3. (c.len + n * GostBlock) % GostRadix = l
  <2>1. c.len + n * GostBlock = l /\ l = t + n * GostBlock
    BY <1>1, GostBlockAssumption
  <2>2. l \in Nat
    BY GostBlockAssumption
  <2> HIDE DEF l
  <2>3. l < GostRadix /\ GostRadix \in Nat
    BY <2>1, <2>2 DEF Gost!BoundsAssumption
  <2> QED BY <2>1, <2>2, <2>3
<1>4. e = [c EXCEPT !.h = h, !.sum = s, !.len = l]
  <2> DEFINE hs == GostMixed(k) \o [j \in 1 .. n |-> Gost!Word(Gost!BlockAt(t + 1 + (j - 1) * GostBlock))]
             bs == GostSpelled(k) \o [j \in 1 .. n |-> Gost!BlockAt(t + 1 + (j - 1) * GostBlock)]
  <2>1. hs = h /\ bs = s
    BY <1>2, GostListsConcat
  <2>2. Gost!WholeBlocks(c, t + 1, n) =
          [c EXCEPT !.h = hs, !.sum = bs, !.len = (c.len + n * GostBlock) % GostRadix]
    BY <1>1 DEF Gost!WholeBlocks
  <2> HIDE DEF hs, bs, h, s, l
  <2> QED BY <1>3, <2>1, <2>2
<1>5. h \in Seq(Gost!U256) /\ s \in Seq(Gost!Buffers)
  <2>1. k + n \in Nat
    OBVIOUS
  <2> QED BY <2>1, GostListsType
<1>6. l \in 0 .. GostRadix - 1
  <2>1. l = t + n * GostBlock /\ l \in Nat
    BY <1>1, GostBlockAssumption
  <2> HIDE DEF l
  <2> QED BY <2>1 DEF Gost!BoundsAssumption
<1>7. t + n * GostBlock = l + 0
  BY <1>1, GostBlockAssumption
<1>8. Gost!Holds(c.rem, 0, l + 1)
  BY Gost!HoldsNothing, GostBlockAssumption DEF Gost!BlockSizeAssumption
<1>9. k + n \in Nat
  OBVIOUS
<1>10. l = (k + n) * GostBlock /\ s = GostSpelled(k + n) /\ h = GostMixed(k + n)
  OBVIOUS
<1> HIDE DEF h, s, l
<1>11. e \in GostContexts /\ e.left = 0 /\ e.h = h /\ e.sum = s /\ e.len = l /\ e.rem = c.rem
  BY <1>4, <1>5, <1>6 DEF GostContexts, Gost!gost3411_94_ctx
<1>12. GostRepresents(e, t + n * GostBlock)
  BY <1>7, <1>8, <1>9, <1>10, <1>11 DEF GostRepresents
<1> QED BY <1>11, <1>12

\* The bytes that complete no block stay in the remainder.
LEMMA GostKeepTailRepresents ==
    ASSUME NEW c \in GostContexts, NEW t \in Nat, GostRepresents(c, t), c.left = 0,
           NEW n \in Nat, n < GostBlock,
           NEW e, e = Gost!KeepTail(c, t + 1, n)
    PROVE  e \in GostContexts /\ GostRepresents(e, t + n)
<1>1. CASE n = 0
  BY <1>1 DEF Gost!KeepTail
<1>2. CASE n # 0
  <2>1. PICK k \in Nat : /\ t = k * GostBlock + c.left
                         /\ c.len = k * GostBlock
                         /\ c.sum = GostSpelled(k)
                         /\ c.h = GostMixed(k)
                         /\ Gost!Holds(c.rem, c.left, k * GostBlock + 1)
    BY DEF GostRepresents
  <2> DEFINE b == Gost!Copy(c.rem, 0, t + 1, n)
  <2>2. c.rem \in Gost!Buffers
    BY DEF GostContexts, Gost!gost3411_94_ctx
  <2>3. b \in Gost!Buffers
    BY <2>2, Gost!CopyType, GostBlockAssumption DEF Gost!BlockSizeAssumption
  <2>4. Gost!Holds(b, n, t + 1)
    <3>1. Gost!Holds(c.rem, 0, (t + 1) - 0)
      BY Gost!HoldsNothing, GostBlockAssumption DEF Gost!BlockSizeAssumption
    <3>2. 0 + n <= GostBlock /\ 0 + n = n /\ (t + 1) - 0 = t + 1 /\ t + 1 \in Int /\ 0 \in Nat
      BY GostBlockAssumption
    <3>3. Gost!Holds(b, 0 + n, (t + 1) - 0)
      BY <3>1, <3>2, Gost!CopyExtends, GostBlockAssumption DEF Gost!BlockSizeAssumption
    <3> QED BY <3>2, <3>3
  <2>5. e = [c EXCEPT !.rem = b, !.left = n]
    BY <1>2 DEF Gost!KeepTail
  <2> HIDE DEF b
  <2>6. /\ e \in GostContexts /\ e.left = n /\ e.rem = b
        /\ e.h = c.h /\ e.sum = c.sum /\ e.len = c.len
    <3>1. n \in 0 .. GostBlock - 1
      BY GostBlockAssumption
    <3> QED BY <2>3, <2>5, <3>1 DEF GostContexts, Gost!gost3411_94_ctx
  <2>7. t = k * GostBlock /\ t + n = k * GostBlock + n
    BY <2>1, GostBlockAssumption
  <2>8. GostRepresents(e, t + n)
    BY <2>1, <2>4, <2>6, <2>7 DEF GostRepresents
  <2> QED BY <2>6, <2>8
<1> QED BY <1>1, <1>2

\* What is left of the input when the remainder is empty.
LEMMA GostRestRepresents ==
    ASSUME Gost!BoundsAssumption,
           NEW c \in GostContexts, NEW t \in Nat, GostRepresents(c, t), c.left = 0,
           NEW n \in Nat, t + n <= MaxTaken,
           NEW e, e = Gost!Rest(c, t + 1, n)
    PROVE  e \in GostContexts /\ GostRepresents(e, t + n)
<1> DEFINE k == n \div GostBlock
           r == n % GostBlock
           u == t + k * GostBlock
           f == Gost!WholeBlocks(c, t + 1, k)
<1>1. k \in Nat /\ r \in Gost!Index /\ n = k * GostBlock + r
  BY Gost!DivMod, GostBlockAssumption DEF Gost!BlockSizeAssumption
<1>2. e = Gost!KeepTail(f, t + 1 + k * GostBlock, r)
  BY DEF Gost!Rest
<1>3. f = Gost!WholeBlocks(c, t + 1, k) /\ u = t + k * GostBlock
  OBVIOUS
<1> HIDE DEF k, r, f, u
<1>4. /\ r \in Nat /\ r < GostBlock /\ u \in Nat
      /\ t + 1 + k * GostBlock = u + 1
      /\ u <= MaxTaken /\ t + n = u + r
  <2> DEFINE x == k * GostBlock
  <2>1. x \in Nat /\ x = k * GostBlock
    BY <1>1, GostBlockAssumption
  <2> HIDE DEF x
  <2>2. MaxTaken \in Nat
    BY DEF Gost!BoundsAssumption
  <2> QED BY <1>1, <1>3, <2>1, <2>2, GostBlockAssumption DEF Gost!Index
<1>5. f \in GostContexts /\ GostRepresents(f, u) /\ f.left = 0
  BY <1>1, <1>3, <1>4, GostWholeBlocksRepresent
<1>6. e = Gost!KeepTail(f, u + 1, r)
  BY <1>2, <1>4
<1>7. e \in GostContexts /\ GostRepresents(e, u + r)
  BY <1>4, <1>5, <1>6, GostKeepTailRepresents
<1> QED BY <1>4, <1>7

\* The block completed from the remainder is mixed in and summed up.
LEMMA GostStepRepresents ==
    ASSUME Gost!BoundsAssumption,
           NEW c \in GostContexts, NEW t \in Nat, GostRepresents(c, t), c.left # 0,
           NEW n \in Nat, n = GostBlock - c.left, t + n <= MaxTaken,
           NEW r, r = Gost!Copy(c.rem, c.left, t + 1, n),
           NEW e, e = Gost!Step([c EXCEPT !.rem = r, !.left = 0], r)
    PROVE  e \in GostContexts /\ GostRepresents(e, t + n) /\ e.left = 0
<1>1. PICK k \in Nat : /\ t = k * GostBlock + c.left
                       /\ c.len = k * GostBlock
                       /\ c.sum = GostSpelled(k)
                       /\ c.h = GostMixed(k)
                       /\ Gost!Holds(c.rem, c.left, k * GostBlock + 1)
  BY DEF GostRepresents
<1> DEFINE h == GostMixed(k + 1)
           s == GostSpelled(k + 1)
           l == (k + 1) * GostBlock
           x == k * GostBlock
<1>2. /\ x \in Nat /\ l \in Nat /\ l = x + GostBlock
      /\ t = x + c.left /\ c.len = x /\ c.left \in Nat /\ t + n = l
  <2>1. c.left \in Nat
    BY GostBlockAssumption DEF GostContexts, Gost!gost3411_94_ctx
  <2>2. x \in Nat /\ l = x + GostBlock
    BY GostBlockAssumption
  <2>3. t = x + c.left /\ c.len = x
    BY <1>1
  <2> HIDE DEF x, l
  <2> QED BY <2>1, <2>2, <2>3, GostBlockAssumption
<1>3. c.rem \in Gost!Buffers
  BY DEF GostContexts, Gost!gost3411_94_ctx
<1>4. r \in Gost!Buffers
  <2>1. c.left \in Int /\ t + 1 \in Int /\ n \in Int
    <3> HIDE DEF x, l
    <3> QED BY <1>2
  <2> QED BY <1>3, <2>1, Gost!CopyType, GostBlockAssumption DEF Gost!BlockSizeAssumption
<1>5. r = Gost!BlockAt(x + 1)
  <2>1. c.left + n = GostBlock /\ t + 1 \in Int /\ (t + 1) - c.left = x + 1 /\ x + 1 \in Int
    <3> HIDE DEF x, l
    <3> QED BY <1>2, GostBlockAssumption
  <2>2. Gost!Holds(c.rem, c.left, (t + 1) - c.left)
    BY <1>1, <2>1
  <2>3. Gost!Holds(Gost!Copy(c.rem, c.left, t + 1, n), c.left + n, (t + 1) - c.left)
    <3>1. c.left + n <= GostBlock
      BY <2>1, GostBlockAssumption
    <3> QED BY <1>2, <2>1, <2>2, <3>1, Gost!CopyExtends, GostBlockAssumption DEF Gost!BlockSizeAssumption
  <2>4. Gost!Holds(r, GostBlock, x + 1)
    BY <2>1, <2>3
  <2> QED BY <1>4, <2>1, <2>4, Gost!FullBuffer, GostBlockAssumption DEF Gost!BlockSizeAssumption
<1>6. Append(GostSpelled(k), r) = s /\ Append(GostMixed(k), Gost!Word(r)) = h
  BY <1>5, GostListsAppend
<1>7. (c.len + GostBlock) % GostRadix = l
  <2> HIDE DEF x, l
  <2>1. l < GostRadix /\ GostRadix \in Nat
    BY <1>2 DEF Gost!BoundsAssumption
  <2> QED BY <1>2, <2>1
<1>8. e = [c EXCEPT !.h = h, !.sum = s, !.len = l, !.rem = r, !.left = 0]
  <2> DEFINE hs == Append(c.h, Gost!Word(r))
             bs == Append(c.sum, r)
             d == [c EXCEPT !.rem = r, !.left = 0]
  <2>1. hs = h /\ bs = s
    BY <1>1, <1>6
  <2>2. d.h = c.h /\ d.sum = c.sum /\ d.len = c.len
    BY DEF GostContexts, Gost!gost3411_94_ctx
  <2>3. e = [d EXCEPT !.h = Append(d.h, Gost!Word(r)), !.sum = Append(d.sum, r),
                      !.len = (d.len + GostBlock) % GostRadix]
    BY Zenon DEF Gost!Step, Gost!hash_step, Gost!add_blocks
  <2>4. e = [d EXCEPT !.h = hs, !.sum = bs, !.len = l]
    <3> HIDE DEF d, l
    <3> QED BY <1>7, <2>2, <2>3
  <2> HIDE DEF hs, bs, h, s, l
  <2>5. e = [d EXCEPT !.h = h, !.sum = s, !.len = l]
    BY <2>1, <2>4
  <2> QED BY <2>5 DEF GostContexts, Gost!gost3411_94_ctx
<1>9. h \in Seq(Gost!U256) /\ s \in Seq(Gost!Buffers) /\ k + 1 \in Nat
  BY GostListsType
<1>10. l \in 0 .. GostRadix - 1 /\ 0 \in 0 .. GostBlock - 1
  <2> HIDE DEF x, l
  <2> QED BY <1>2, GostBlockAssumption DEF Gost!BoundsAssumption
<1>11. t + n = l + 0
  <2> HIDE DEF x, l
  <2> QED BY <1>2
<1>12. Gost!Holds(r, 0, l + 1)
  BY Gost!HoldsNothing, GostBlockAssumption DEF Gost!BlockSizeAssumption
<1>13. l = (k + 1) * GostBlock /\ s = GostSpelled(k + 1) /\ h = GostMixed(k + 1)
  OBVIOUS
<1> HIDE DEF h, s, l, x
<1>14. e \in GostContexts /\ e.left = 0 /\ e.h = h /\ e.sum = s /\ e.len = l /\ e.rem = r
  BY <1>4, <1>8, <1>9, <1>10 DEF GostContexts, Gost!gost3411_94_ctx
<1>15. GostRepresents(e, t + n)
  BY <1>9, <1>11, <1>12, <1>13, <1>14 DEF GostRepresents
<1> QED BY <1>14, <1>15

\* update takes its bytes, wherever the parts before it ended.
LEMMA GostUpdateRepresents ==
    ASSUME Gost!BoundsAssumption,
           NEW c \in GostContexts, NEW t \in Nat, GostRepresents(c, t),
           NEW n \in Nat, t + n <= MaxTaken
    PROVE  Gost!update(c, t + 1, n) \in GostContexts /\ GostRepresents(Gost!update(c, t + 1, n), t + n)
<1> DEFINE u == Gost!update(c, t + 1, n)
<1>0. c.left \in 0 .. GostBlock - 1 /\ c.rem \in Gost!Buffers /\ MaxTaken \in Nat /\ t + 1 \in Int
  BY DEF GostContexts, Gost!gost3411_94_ctx, Gost!BoundsAssumption
<1>1. CASE c.left = 0
  <2>1. u = Gost!Rest(c, t + 1, n)
    BY <1>1 DEF Gost!update
  <2> QED BY <1>1, <2>1, GostRestRepresents
<1>2. CASE c.left # 0 /\ c.left + n < GostBlock
  <2> DEFINE r == Gost!Copy(c.rem, c.left, t + 1, n)
             e == [c EXCEPT !.rem = r, !.left = c.left + n]
  <2>1. u = e
    <3>1. (IF GostBlock - c.left > n THEN n ELSE GostBlock - c.left) = n
      BY <1>0, <1>2, GostBlockAssumption
    <3> QED BY <1>2, <3>1 DEF Gost!update
  <2>2. r \in Gost!Buffers
    BY <1>0, Gost!CopyType, GostBlockAssumption DEF Gost!BlockSizeAssumption
  <2>3. PICK k \in Nat : /\ t = k * GostBlock + c.left
                         /\ c.len = k * GostBlock
                         /\ c.sum = GostSpelled(k)
                         /\ c.h = GostMixed(k)
                         /\ Gost!Holds(c.rem, c.left, k * GostBlock + 1)
    BY DEF GostRepresents
  <2>4. k * GostBlock + 1 = (t + 1) - c.left /\ k * GostBlock + (c.left + n) = t + n
    BY <1>0, <2>3, GostBlockAssumption
  <2>5. Gost!Holds(r, c.left + n, k * GostBlock + 1)
    <3>1. Gost!Holds(c.rem, c.left, (t + 1) - c.left) /\ c.left + n <= GostBlock /\ c.left \in Nat
      BY <1>0, <1>2, <2>3, <2>4, GostBlockAssumption
    <3>2. Gost!Holds(r, c.left + n, (t + 1) - c.left)
      BY <1>0, <3>1, Gost!CopyExtends, GostBlockAssumption DEF Gost!BlockSizeAssumption
    <3> QED BY <2>4, <3>2
  <2> HIDE DEF r, u
  <2>6. /\ e \in GostContexts /\ e.left = c.left + n /\ e.rem = r
        /\ e.h = c.h /\ e.sum = c.sum /\ e.len = c.len
    <3>1. c.left + n \in 0 .. GostBlock - 1
      BY <1>0, <1>2, GostBlockAssumption
    <3> QED BY <2>2, <3>1 DEF GostContexts, Gost!gost3411_94_ctx
  <2> HIDE DEF e
  <2>7. GostRepresents(e, t + n)
    BY <2>3, <2>4, <2>5, <2>6 DEF GostRepresents
  <2> QED BY <2>1, <2>6, <2>7 DEF u
<1>3. CASE c.left # 0 /\ c.left + n >= GostBlock
  <2> DEFINE m == GostBlock - c.left
             r == Gost!Copy(c.rem, c.left, t + 1, m)
             e == Gost!Step([c EXCEPT !.rem = r, !.left = 0], r)
             v == t + m
  <2>1. u = Gost!Rest(e, t + 1 + m, n - m)
    <3>1. (IF GostBlock - c.left > n THEN n ELSE GostBlock - c.left) = m
      BY <1>0, <1>3, GostBlockAssumption
    <3>2. ~ (c.left + m < GostBlock)
      BY <1>0, GostBlockAssumption
    <3> QED BY <1>3, <3>1, <3>2 DEF Gost!update
  <2>2. /\ m \in Nat /\ n - m \in Nat /\ t + m <= MaxTaken /\ t + m \in Nat
        /\ t + 1 + m = v + 1 /\ v + (n - m) = t + n /\ v \in Nat
    BY <1>0, <1>3, GostBlockAssumption
  <2>3. e \in GostContexts /\ GostRepresents(e, v) /\ e.left = 0
    BY <1>3, <2>2, GostStepRepresents
  <2> HIDE DEF m, e, v, u
  <2>4. u = Gost!Rest(e, v + 1, n - m)
    BY <2>1, <2>2
  <2>5. u \in GostContexts /\ GostRepresents(u, v + (n - m))
    BY <2>2, <2>3, <2>4, GostRestRepresents
  <2> QED BY <2>2, <2>5 DEF u
<1> QED BY <1>0, <1>1, <1>2, <1>3, GostBlockAssumption

\* What the finish returns for a context of t bytes is the reference.
LEMMA GostFinalIsReference ==
    ASSUME Gost!BoundsAssumption,
           NEW c \in GostContexts, NEW t \in 0 .. MaxTaken, GostRepresents(c, t)
    PROVE  Gost!final(c) = Gost!Reference(t) /\ Gost!final(c) \in Seq(Gost!U256)
<1>1. PICK k \in Nat : /\ t = k * GostBlock + c.left
                       /\ c.len = k * GostBlock
                       /\ c.sum = GostSpelled(k)
                       /\ c.h = GostMixed(k)
                       /\ Gost!Holds(c.rem, c.left, k * GostBlock + 1)
  BY DEF GostRepresents
<1> DEFINE n == (t + GostBlock - 1) \div GostBlock
           block == [j \in 1 .. n |-> [i \in Gost!Index |->
                      LET p == (j - 1) * GostBlock + i IN IF p < t THEN p + 1 ELSE Gost!Zero]]
           buf == [i \in Gost!Index |-> IF i < c.left THEN c.rem[i] ELSE Gost!Zero]
           x == k * GostBlock
<1>2. /\ x \in Nat /\ t = x + c.left /\ c.len = x
      /\ c.left \in Nat /\ c.left < GostBlock /\ GostBlock \in Nat /\ MaxTaken \in Nat
      /\ 8 * t \in Nat /\ 8 * t < GostRadix /\ t < GostRadix /\ GostRadix \in Nat /\ t \in Nat
  <2>1. x \in Nat
    BY GostBlockAssumption
  <2>2. t = x + c.left /\ c.len = x
    BY <1>1
  <2> HIDE DEF x
  <2> QED BY <2>1, <2>2, GostBlockAssumption DEF GostContexts, Gost!gost3411_94_ctx, Gost!BoundsAssumption
<1>3. (c.len + c.left) % GostRadix = t /\ (8 * t) % GostRadix = 8 * t
  <2> HIDE DEF x
  <2> QED BY <1>2
<1>4. n = IF c.left = 0 THEN k ELSE k + 1
  <2>1. CASE c.left = 0
    <3>1. t + GostBlock - 1 = k * GostBlock + (GostBlock - 1)
      <4> HIDE DEF x
      <4> QED BY <1>2, <2>1 DEF x
    <3>2. GostBlock - 1 \in Gost!Index
      BY GostBlockAssumption DEF Gost!Index
    <3>3. (k * GostBlock + (GostBlock - 1)) \div GostBlock = k
      BY <3>2, Gost!DivModUnique, GostBlockAssumption DEF Gost!BlockSizeAssumption
    <3> QED BY <2>1, <3>1, <3>3
  <2>2. CASE c.left # 0
    <3>1. c.left - 1 \in Gost!Index
      BY <1>2, <2>2, GostBlockAssumption DEF Gost!Index
    <3>2. t + GostBlock - 1 = (k + 1) * GostBlock + (c.left - 1)
      <4>1. (k + 1) * GostBlock = x + GostBlock
        BY GostBlockAssumption
      <4> HIDE DEF x
      <4> QED BY <1>2, <2>2, <4>1
    <3>3. ((k + 1) * GostBlock + (c.left - 1)) \div GostBlock = k + 1
      <4>1. k + 1 \in Nat
        OBVIOUS
      <4> QED BY <3>1, <4>1, Gost!DivModUnique, GostBlockAssumption DEF Gost!BlockSizeAssumption
    <3> QED BY <2>2, <3>2, <3>3
  <2> QED BY <2>1, <2>2
<1>5. ASSUME NEW j \in 1 .. k, NEW i \in Gost!Index
      PROVE  /\ (j - 1) * GostBlock + i < t
             /\ (j - 1) * GostBlock + i + 1 = (j - 1) * GostBlock + 1 + i
             /\ (j - 1) * GostBlock + i \in Nat
  <2> DEFINE y == (j - 1) * GostBlock
  <2>1. y \in Nat /\ y + GostBlock <= x
    <3>1. j - 1 \in Nat /\ k - j \in Nat
      OBVIOUS
    <3> DEFINE q == j - 1
               z == k - j
    <3>2. q \in Nat /\ z \in Nat /\ k = q + z + 1
      BY <3>1
    <3>3. y = q * GostBlock
      OBVIOUS
    <3> HIDE DEF q, z, y
    <3>4. q * GostBlock \in Nat /\ z * GostBlock \in Nat
      BY <3>2, GostBlockAssumption
    <3>5. x = q * GostBlock + z * GostBlock + GostBlock
      BY <3>2, GostBlockAssumption
    <3> HIDE DEF x
    <3> QED BY <3>3, <3>4, <3>5, GostBlockAssumption
  <2> HIDE DEF x, y
  <2>2. y + i < t /\ y + i + 1 = y + 1 + i /\ y + i \in Nat
    BY <1>2, <2>1 DEF Gost!Index
  <2> QED BY <2>2 DEF y
<1>6. \A j \in 1 .. n : j \in 1 .. k => block[j] = GostSpelled(k)[j]
  <2> SUFFICES ASSUME NEW j \in 1 .. n, j \in 1 .. k
               PROVE  block[j] = GostSpelled(k)[j]
    OBVIOUS
  <2>1. GostSpelled(k)[j] = [i \in Gost!Index |-> (j - 1) * GostBlock + 1 + i]
    BY DEF GostSpelled, Gost!BlockAt
  <2>2. block[j] = [i \in Gost!Index |->
            IF (j - 1) * GostBlock + i < t THEN (j - 1) * GostBlock + i + 1 ELSE Gost!Zero]
    <3> HIDE DEF n
    <3> QED OBVIOUS
  <2> HIDE DEF block, n
  <2>3. \A i \in Gost!Index :
            (IF (j - 1) * GostBlock + i < t THEN (j - 1) * GostBlock + i + 1 ELSE Gost!Zero)
                = (j - 1) * GostBlock + 1 + i
    BY <1>5
  <2> QED BY <2>1, <2>2, <2>3
<1>7. c.left # 0 => block[k + 1] = buf
  <2> SUFFICES ASSUME c.left # 0
               PROVE  block[k + 1] = buf
    OBVIOUS
  <2>1. (k + 1) - 1 = k /\ k + 1 \in 1 .. n
    BY <1>4
  <2>2. block[k + 1] = [i \in Gost!Index |-> IF x + i < t THEN x + i + 1 ELSE Gost!Zero]
    <3> HIDE DEF n
    <3> QED BY <2>1
  <2>3. ASSUME NEW i \in Gost!Index
        PROVE  (IF x + i < t THEN x + i + 1 ELSE Gost!Zero) = IF i < c.left THEN c.rem[i] ELSE Gost!Zero
    <3>1. i < c.left => c.rem[i] = x + 1 + i
      BY <1>1, <1>2 DEF Gost!Holds, Gost!Index
    <3> HIDE DEF x
    <3> QED BY <1>2, <3>1 DEF Gost!Index
  <2> HIDE DEF block, n, x
  <2> QED BY <2>2, <2>3
<1>8. buf \in Gost!Buffers
  <2>1. \A i \in Gost!Index : c.rem[i] \in Int
    BY DEF GostContexts, Gost!gost3411_94_ctx, Gost!Buffers
  <2>2. Gost!Zero \in Int
    BY DEF Gost!Zero, Gost!Lit
  <2> QED BY <2>1, <2>2 DEF Gost!Buffers
<1>9. n \in Nat /\ block \in [1 .. n -> Gost!Buffers]
  <2>1. n \in Nat
    <3> HIDE DEF n
    <3> QED BY <1>4
  <2>2. ASSUME NEW j \in 1 .. n
        PROVE  block[j] \in Gost!Buffers
    <3>1. j \in 1 .. k \/ (c.left # 0 /\ j = k + 1)
      <4> HIDE DEF n
      <4> QED BY <1>4
    <3>2. j \in 1 .. k => GostSpelled(k)[j] \in Gost!Buffers
      BY GostListsType
    <3> HIDE DEF block, n, buf
    <3> QED BY <1>6, <1>7, <1>8, <3>1, <3>2
  <2> HIDE DEF n
  <2>3. block = [j \in 1 .. n |-> block[j]]
    OBVIOUS
  <2> HIDE DEF block
  <2> QED BY <2>1, <2>2, <2>3
<1> DEFINE sum == IF c.left # 0 THEN Append(c.sum, buf) ELSE c.sum
           h1 == IF c.left # 0 THEN Append(c.h, Gost!Word(buf)) ELSE c.h
           mixed == [j \in 1 .. n |-> Gost!Word(block[j])]
<1>10. ASSUME NEW m \in Gost!Buffers
       PROVE  Gost!Word(m) \in Gost!U256
  <2>1. <<m>> \in Seq(Gost!Buffers)
    OBVIOUS
  <2> QED BY <2>1 DEF Gost!Word, Gost!U256
<1>11. mixed \in [1 .. n -> Gost!U256]
  <2> HIDE DEF n, block
  <2> QED BY <1>9, <1>10
<1>12. sum = block /\ h1 = mixed
  <2>1. CASE c.left = 0
    <3>1. n = k
      <4> HIDE DEF n
      <4> QED BY <1>4, <2>1
    <3> HIDE DEF n
    <3>2. block = GostSpelled(k)
      <4>1. block = [j \in 1 .. k |-> block[j]] /\ GostSpelled(k) = [j \in 1 .. k |-> GostSpelled(k)[j]]
        BY <3>1 DEF GostSpelled
      <4> HIDE DEF block
      <4> QED BY <1>6, <3>1, <4>1
    <3>3. mixed = GostMixed(k)
      <4>1. \A j \in 1 .. k : block[j] = Gost!BlockAt((j - 1) * GostBlock + 1)
        BY <3>2 DEF GostSpelled
      <4> HIDE DEF block
      <4> QED BY <3>1, <4>1 DEF GostMixed
    <3> HIDE DEF block, mixed
    <3> QED BY <1>1, <2>1, <3>2, <3>3
  <2>2. CASE c.left # 0
    <3>1. n = k + 1 /\ k + 1 \in 1 .. n
      <4> HIDE DEF n
      <4> QED BY <1>4, <2>2
    <3> HIDE DEF n
    <3>2. GostSpelled(k) = [j \in 1 .. k |-> block[j]]
      <4>1. GostSpelled(k) = [j \in 1 .. k |-> GostSpelled(k)[j]]
        BY DEF GostSpelled
      <4> HIDE DEF block
      <4> QED BY <1>6, <3>1, <4>1
    <3>3. GostMixed(k) = [j \in 1 .. k |-> mixed[j]]
      <4>1. \A j \in 1 .. k : block[j] = Gost!BlockAt((j - 1) * GostBlock + 1)
        <5> HIDE DEF block
        <5> QED BY <1>6, <3>1 DEF GostSpelled
      <4>2. \A j \in 1 .. k : mixed[j] = Gost!Word(block[j])
        BY <3>1
      <4> HIDE DEF block, mixed
      <4> QED BY <4>1, <4>2 DEF GostMixed
    <3>4. mixed[k + 1] = Gost!Word(buf) /\ block[k + 1] = buf
      <4>1. mixed[k + 1] = Gost!Word(block[k + 1])
        BY <3>1
      <4> HIDE DEF block, mixed, buf
      <4> QED BY <1>7, <2>2, <4>1
    <3>5. sum = Append(c.sum, buf) /\ h1 = Append(c.h, Gost!Word(buf))
      BY <2>2
    <3> HIDE DEF block, mixed, buf, sum, h1
    <3>6. /\ Append([j \in 1 .. k |-> block[j]], block[k + 1]) = block
          /\ Append([j \in 1 .. k |-> mixed[j]], mixed[k + 1]) = mixed
      BY <1>9, <1>11, <3>1, Gost!AppendTable, GostBlockAssumption
        DEF Gost!BlockSizeAssumption
    <3> QED BY <1>1, <3>2, <3>3, <3>4, <3>5, <3>6
  <2> QED BY <2>1, <2>2
<1> DEFINE steps == IF n = 0 THEN << Gost!Num(0) >> ELSE mixed
           h2 == IF t = 0 THEN Append(h1, Gost!Num(0)) ELSE h1
           end == [blocks |-> block, count |-> 0]
<1>13. h2 = steps
  <2>1. t = 0 <=> n = 0
    <3>1. k = 0 => x = 0
      BY GostBlockAssumption
    <3>2. k # 0 => x >= GostBlock
      <4>1. k # 0 => k - 1 \in Nat /\ x = (k - 1) * GostBlock + GostBlock
        BY GostBlockAssumption
      <4>2. k # 0 => (k - 1) * GostBlock \in Nat
        BY GostBlockAssumption
      <4> HIDE DEF x
      <4> QED BY <4>1, <4>2, GostBlockAssumption
    <3> HIDE DEF n, x
    <3> QED BY <1>2, <1>4, <3>1, <3>2, GostBlockAssumption
  <2>2. n = 0 => mixed = <<>>
    <3> HIDE DEF n, block
    <3> QED OBVIOUS
  <2> HIDE DEF n, mixed, h1
  <2>3. Append(<<>>, Gost!Num(0)) = << Gost!Num(0) >>
    OBVIOUS
  <2> QED BY <1>12, <2>1, <2>2, <2>3
<1>14. /\ Gost!Num(0) \in Gost!U256 /\ Gost!Num(8 * t) \in Gost!U256 /\ end \in Gost!U256
       /\ steps \in Seq(Gost!U256)
  <2>1. <<>> \in Seq(Gost!Buffers)
    OBVIOUS
  <2>2. Gost!Num(0) \in Gost!U256 /\ Gost!Num(8 * t) \in Gost!U256
    BY <1>2, <2>1 DEF Gost!Num, Gost!U256
  <2>3. block \in Seq(Gost!Buffers) /\ mixed \in Seq(Gost!U256)
    <3> HIDE DEF n, block, mixed
    <3> QED BY <1>9, <1>11, SeqDef
  <2> HIDE DEF n, block, mixed
  <2>4. end \in Gost!U256
    BY <2>3 DEF Gost!U256
  <2>5. << Gost!Num(0) >> \in Seq(Gost!U256)
    BY <2>2
  <2> QED BY <2>2, <2>3, <2>4, <2>5
<1>15. Gost!final(c) = Append(Append(h2, Gost!Num(8 * t)), end)
  <2>1. Gost!final(c) = Append(Append(h2, Gost!Num((8 * t) % GostRadix)), [blocks |-> sum, count |-> 0])
    BY <1>3, Zenon DEF Gost!final, Gost!hash_step, Gost!add_blocks
  <2> QED BY <1>3, <1>12, <2>1, Zenon
<1>16. Gost!Reference(t) = steps \o << Gost!Num(8 * t), end >>
  BY Zenon DEF Gost!Reference
<1> HIDE DEF end, h2, steps, n, x
<1>17. Append(Append(steps, Gost!Num(8 * t)), end) = steps \o << Gost!Num(8 * t), end >>
  BY <1>14
<1>18. Append(Append(steps, Gost!Num(8 * t)), end) \in Seq(Gost!U256)
  BY <1>14, AppendProperties
<1> QED BY <1>13, <1>15, <1>16, <1>17, <1>18, Zenon

-----------------------------------------------------------------------------
\* In terms of the invariant.
GostIsPrefix(c, t) ==
    LET k == Len(c.h)
    IN  /\ t = k * GostBlock + c.left
        /\ c.len = k * GostBlock
        /\ c.sum = [j \in 1 .. k |-> Gost!BlockAt((j - 1) * GostBlock + 1)]
        /\ c.h = [j \in 1 .. k |-> Gost!Word(c.sum[j])]
        /\ Gost!Holds(c.rem, c.left, k * GostBlock + 1)

\* A context represents t bytes if it is as the invariant says.
LEMMA GostPrefixIsRepresents ==
    ASSUME NEW c \in GostContexts, NEW t
    PROVE  GostIsPrefix(c, t) <=> GostRepresents(c, t)
<1>1. Len(c.h) \in Nat
  BY LenProperties DEF GostContexts, Gost!gost3411_94_ctx
<1>2. ASSUME NEW k \in Nat, c.sum = GostSpelled(k)
      PROVE  [j \in 1 .. k |-> Gost!Word(c.sum[j])] = GostMixed(k)
  <2>1. \A j \in 1 .. k : GostSpelled(k)[j] = Gost!BlockAt((j - 1) * GostBlock + 1)
    BY DEF GostSpelled
  <2> QED BY <1>2, <2>1 DEF GostMixed
<1>3. ASSUME GostIsPrefix(c, t)
      PROVE  GostRepresents(c, t)
  <2> DEFINE k == Len(c.h)
  <2>1. c.sum = GostSpelled(k)
    BY <1>3 DEF GostIsPrefix, GostSpelled
  <2>2. c.h = GostMixed(k)
    BY <1>1, <1>2, <1>3, <2>1 DEF GostIsPrefix
  <2> QED BY <1>1, <1>3, <2>1, <2>2 DEF GostIsPrefix, GostRepresents
<1>4. ASSUME GostRepresents(c, t)
      PROVE  GostIsPrefix(c, t)
  <2>1. PICK k \in Nat : /\ t = k * GostBlock + c.left
                         /\ c.len = k * GostBlock
                         /\ c.sum = GostSpelled(k)
                         /\ c.h = GostMixed(k)
                         /\ Gost!Holds(c.rem, c.left, k * GostBlock + 1)
    BY <1>4 DEF GostRepresents
  <2>2. Len(c.h) = k
    BY <2>1, GostListsType
  <2>3. c.h = [j \in 1 .. k |-> Gost!Word(c.sum[j])]
    BY <1>2, <2>1
  <2>4. c.sum = [j \in 1 .. k |-> Gost!BlockAt((j - 1) * GostBlock + 1)]
    BY <2>1 DEF GostSpelled
  <2> QED BY <2>1, <2>2, <2>3, <2>4 DEF GostIsPrefix
<1> QED BY <1>3, <1>4

GostInv == Gost!TypeOK /\ Gost!StateIsPrefix

\* The inductive invariant holds at first
LEMMA GostInitInv ==
    ASSUME Gost!BoundsAssumption
    PROVE  Gost!Init => GostInv
<1> SUFFICES ASSUME Gost!Init
             PROVE  GostInv
  OBVIOUS
<1>1. ctx \in GostContexts /\ GostRepresents(ctx, taken)
  BY GostZeroRepresents DEF Gost!Init
<1>2. Gost!TypeOK
  <2>1. taken \in 0 .. MaxTaken /\ out \in Seq(Gost!U256)
    BY DEF Gost!Init, Gost!BoundsAssumption
  <2> QED BY <1>1, <2>1 DEF Gost!Init, Gost!TypeOK, GostContexts
<1>3. Gost!StateIsPrefix
  BY <1>1, GostPrefixIsRepresents DEF Gost!StateIsPrefix, GostIsPrefix, Gost!Init
<1> QED BY <1>2, <1>3 DEF GostInv

\* and is preserved by every call,
LEMMA GostStepInv ==
    ASSUME Gost!BoundsAssumption, GostInv, Gost!Next
    PROVE  GostInv'
<1>0. ctx \in GostContexts /\ taken \in Nat /\ MaxTaken \in Nat
  BY DEF GostInv, Gost!TypeOK, GostContexts, Gost!BoundsAssumption
<1>1. ASSUME Gost!Call
      PROVE  GostInv'
  <2>1. ctx' \in GostContexts /\ GostRepresents(ctx', taken')
    BY <1>1, GostZeroRepresents DEF Gost!Call
  <2>2. Gost!TypeOK'
    BY <1>0, <1>1, <2>1 DEF Gost!Call, GostInv, Gost!TypeOK, GostContexts
  <2>3. Gost!StateIsPrefix'
    BY <1>1, <2>1, GostPrefixIsRepresents DEF Gost!StateIsPrefix, GostIsPrefix, Gost!Call
  <2> QED BY <2>2, <2>3 DEF GostInv
<1>2. ASSUME NEW len \in 0 .. MaxTaken, Gost!Part(len)
      PROVE  GostInv'
  <2>1. GostRepresents(ctx, taken)
    BY <1>0, <1>2, GostPrefixIsRepresents DEF Gost!StateIsPrefix, GostIsPrefix, Gost!Part,
      GostInv
  <2>2. ctx' \in GostContexts /\ GostRepresents(ctx', taken')
    <3>1. CASE len = 0
      BY <1>0, <1>2, <2>1, <3>1 DEF Gost!Part
    <3>2. CASE len # 0
      <4>1. len \in Nat /\ taken + len <= MaxTaken
        BY <1>0, <1>2 DEF Gost!Part
      <4>2. /\ Gost!update(ctx, taken + 1, len) \in GostContexts
            /\ GostRepresents(Gost!update(ctx, taken + 1, len), taken + len)
        BY <1>0, <2>1, <4>1, GostUpdateRepresents
      <4> QED BY <1>2, <3>2, <4>2 DEF Gost!Part
    <3> QED BY <3>1, <3>2
  <2>3. Gost!TypeOK'
    <3>1. taken' \in 0 .. MaxTaken
      BY <1>0, <1>2 DEF Gost!Part
    <3> QED BY <1>2, <2>2, <3>1 DEF Gost!Part, GostInv, Gost!TypeOK, GostContexts
  <2>4. Gost!StateIsPrefix'
    <3>1. phase' = "absorbing"
      BY <1>2 DEF Gost!Part
    <3> QED BY <2>2, <3>1, GostPrefixIsRepresents DEF Gost!StateIsPrefix, GostIsPrefix
  <2> QED BY <2>3, <2>4 DEF GostInv
<1>3. ASSUME Gost!Return
      PROVE  GostInv'
  <2>1. ctx' \in GostContexts
    BY <1>3, GostZeroRepresents DEF Gost!Return
  <2>2. out' \in Seq(Gost!U256)
    <3>1. GostRepresents(ctx, taken) /\ taken \in 0 .. MaxTaken
      BY <1>0, <1>3, GostPrefixIsRepresents DEF Gost!StateIsPrefix, GostIsPrefix,
        Gost!Return, GostInv, Gost!TypeOK
    <3>2. Gost!final(ctx) \in Seq(Gost!U256)
      BY <1>0, <3>1, GostFinalIsReference
    <3> QED BY <1>3, <3>2 DEF Gost!Return
  <2>3. Gost!TypeOK'
    BY <1>3, <2>1, <2>2 DEF Gost!Return, GostInv, Gost!TypeOK, GostContexts
  <2>4. Gost!StateIsPrefix'
    BY <1>3 DEF Gost!Return, Gost!StateIsPrefix
  <2> QED BY <2>3, <2>4 DEF GostInv
<1> QED BY <1>1, <1>2, <1>3 DEF Gost!Next

\* and what a call returns is the reference.
LEMMA GostReturnsReference ==
    ASSUME Gost!BoundsAssumption, GostInv, Gost!Return
    PROVE  out' = Gost!Reference(taken)
<1>1. GostRepresents(ctx, taken) /\ taken \in 0 .. MaxTaken /\ ctx \in GostContexts
  BY GostPrefixIsRepresents DEF Gost!StateIsPrefix, GostIsPrefix, Gost!Return, GostInv,
    Gost!TypeOK, GostContexts
<1> QED BY <1>1, GostFinalIsReference DEF Gost!Return

-----------------------------------------------------------------------------
(***************************************************************************)
(* Streebog.                                                               *)
(***************************************************************************)

\* The bounds of the configuration.
LEMMA StreebogBounds == MaxTaken \in Nat /\ StreebogLog \in Nat
BY ConstantsAssumption DEF ConstantsAssumption, Streebog!BoundsAssumption

\* Appending three elements one by one.
LEMMA StreebogAppendThree ==
    ASSUME NEW S, NEW s \in Seq(S), NEW x \in S, NEW y \in S, NEW z \in S
    PROVE  Append(Append(Append(s, x), y), z) = s \o <<x, y, z>>
<1>1. /\ <<x>> \in Seq(S) /\ <<y>> \in Seq(S) /\ <<z>> \in Seq(S)
      /\ <<y, z>> \in Seq(S) /\ s \o <<x>> \in Seq(S)
  BY ConcatProperties
<1>2. /\ Append(s, x) = s \o <<x>>
      /\ Append(s \o <<x>>, y) = (s \o <<x>>) \o <<y>>
      /\ (s \o <<x>>) \o <<y>> \in Seq(S)
  BY <1>1, AppendIsConcat, ConcatProperties
<1>3. Append((s \o <<x>>) \o <<y>>, z) = ((s \o <<x>>) \o <<y>>) \o <<z>>
  BY <1>2, AppendIsConcat
<1>4. ((s \o <<x>>) \o <<y>>) \o <<z>> = (s \o <<x>>) \o (<<y>> \o <<z>>)
  BY <1>1, ConcatAssociative
<1>5. (s \o <<x>>) \o <<y, z>> = s \o (<<x>> \o <<y, z>>)
  BY <1>1, ConcatAssociative
<1>6. <<y>> \o <<z>> = <<y, z>> /\ <<x>> \o <<y, z>> = <<x, y, z>>
  <2>1. Append(<<y>>, z) = <<y, z>> /\ Append(<<x>>, y) = <<x, y>> /\ Append(<<x, y>>, z)
          = <<x, y, z>>
    <3>1. /\ <<x, y>> \in Seq(S) /\ <<x, y, z>> \in Seq(S)
          /\ Len(<<x, y>>) = 2 /\ Len(<<y, z>>) = 2 /\ Len(<<x, y, z>>) = 3
          /\ Len(<<x>>) = 1 /\ Len(<<y>>) = 1
      OBVIOUS
    <3>2. /\ Append(<<y>>, z) \in Seq(S) /\ Len(Append(<<y>>, z)) = 2
          /\ Append(<<y>>, z)[1] = y /\ Append(<<y>>, z)[2] = z
      BY <1>1, <3>1, AppendProperties
    <3>3. /\ Append(<<x>>, y) \in Seq(S) /\ Len(Append(<<x>>, y)) = 2
          /\ Append(<<x>>, y)[1] = x /\ Append(<<x>>, y)[2] = y
      BY <1>1, <3>1, AppendProperties
    <3>4. /\ Append(<<x, y>>, z) \in Seq(S) /\ Len(Append(<<x, y>>, z)) = 3
          /\ Append(<<x, y>>, z)[1] = x /\ Append(<<x, y>>, z)[2] = y
          /\ Append(<<x, y>>, z)[3] = z
      BY <3>1, AppendProperties
    <3>5. Append(<<y>>, z) = <<y, z>>
      <4>1. \A i \in 1 .. 2 : i = 1 \/ i = 2
        OBVIOUS
      <4>2. \A i \in 1 .. Len(Append(<<y>>, z)) : Append(<<y>>, z)[i] = <<y, z>>[i]
        BY <1>1, <3>1, <3>2, <4>1
      <4> QED BY <1>1, <3>1, <3>2, <4>2, SeqEqual
    <3>6. Append(<<x>>, y) = <<x, y>>
      <4>1. \A i \in 1 .. 2 : i = 1 \/ i = 2
        OBVIOUS
      <4>2. \A i \in 1 .. Len(Append(<<x>>, y)) : Append(<<x>>, y)[i] = <<x, y>>[i]
        BY <3>1, <3>3, <4>1
      <4> QED BY <3>1, <3>3, <4>2, SeqEqual
    <3>7. Append(<<x, y>>, z) = <<x, y, z>>
      <4>1. \A i \in 1 .. 3 : i = 1 \/ i = 2 \/ i = 3
        OBVIOUS
      <4>2. \A i \in 1 .. Len(Append(<<x, y>>, z)) : Append(<<x, y>>, z)[i] = <<x, y, z>>[i]
        BY <3>1, <3>4, <4>1
      <4> QED BY <3>1, <3>4, <4>2, SeqEqual
    <3> QED BY <3>5, <3>6, <3>7
  <2>2. <<x, y>> \in Seq(S)
    OBVIOUS
  <2>3. /\ Append(<<y>>, z) = <<y>> \o <<z>>
        /\ Append(<<x>>, y) = <<x>> \o <<y>>
        /\ Append(<<x, y>>, z) = <<x, y>> \o <<z>>
    BY <1>1, <2>2, AppendIsConcat
  <2>4. <<x>> \o (<<y>> \o <<z>>) = (<<x>> \o <<y>>) \o <<z>>
    BY <1>1, ConcatAssociative
  <2> QED BY <2>1, <2>3, <2>4
<1> QED BY <1>2, <1>3, <1>4, <1>5, <1>6

-----------------------------------------------------------------------------

\* A number is a 512-bit value.
LEMMA StreebogNumType == \A n \in Int : Streebog!Num(n) \in Streebog!U512
BY DEF Streebog!Num, Streebog!U512

\* A block is a 512-bit value.
LEMMA StreebogWordType == \A m \in Streebog!Buffers : Streebog!Word(m) \in Streebog!U512
BY DEF Streebog!Word, Streebog!U512

\* streebog_add512 stays in the 512-bit values.
LEMMA StreebogAdd512Type == \A x, y \in Streebog!U512 : Streebog!streebog_add512(x, y) \in Streebog!U512
<1> SUFFICES ASSUME NEW x \in Streebog!U512, NEW y \in Streebog!U512
             PROVE  Streebog!streebog_add512(x, y) \in Streebog!U512
  OBVIOUS
<1>1. x.blocks \o y.blocks \in Seq(Streebog!Buffers)
  BY ConcatProperties DEF Streebog!U512
<1> QED BY <1>1 DEF Streebog!U512, Streebog!streebog_add512

\* One compression extends a chaining value.
LEMMA StreebogGType ==
    ASSUME NEW h \in Streebog!Chain, NEW N \in Streebog!U512, NEW m \in Streebog!U512
    PROVE  Streebog!streebog_g(h, N, m) \in Streebog!Chain
<1> DEFINE E == [n : Streebog!U512, m : Streebog!U512]
<1>1. [n |-> N, m |-> m] \in E
  OBVIOUS
<1>2. Append(h.log, [n |-> N, m |-> m]) \in Seq(E)
  BY <1>1, AppendProperties DEF Streebog!Chain
<1> QED BY <1>2 DEF Streebog!Chain, Streebog!streebog_g

\* streebog_stage2 keeps the context well formed.
LEMMA StreebogStage2Type ==
    ASSUME NEW c \in Streebog!streebog_state, NEW m \in Streebog!Buffers
    PROVE  Streebog!streebog_stage2(c, m) \in Streebog!streebog_state
<1>1. Streebog!streebog_g(c.h, c.N, Streebog!Word(m)) \in Streebog!Chain
  BY StreebogGType, StreebogWordType DEF Streebog!streebog_state
<1>2. Streebog!streebog_add512(c.N, Streebog!buffer512) \in Streebog!U512
  BY StreebogAdd512Type, StreebogNumType, StreebogBlockAssumption
     DEF Streebog!streebog_state, Streebog!buffer512, Streebog!BlockBits
<1>3. Streebog!streebog_add512(c.Sigma, Streebog!Word(m)) \in Streebog!U512
  BY StreebogAdd512Type, StreebogWordType DEF Streebog!streebog_state
<1> QED BY <1>1, <1>2, <1>3 DEF Streebog!streebog_state, Streebog!streebog_stage2

-----------------------------------------------------------------------------
(***************************************************************************)
(* Type correctness of the steps of update and final.                      *)
(***************************************************************************)

\* streebog_pad keeps the context well formed and writes inside the buffer.
LEMMA StreebogPadType ==
    ASSUME NEW c \in Streebog!streebog_state
    PROVE  Streebog!streebog_pad(c) \in Streebog!streebog_state
<1>1. Streebog!Fill(c.buffer, c.fillsize, Streebog!Zero, StreebogBlock - c.fillsize) \in Streebog!Buffers
  BY Streebog!FillType, StreebogBlockAssumption
     DEF Streebog!BlockSizeAssumption, Streebog!streebog_state, Streebog!Zero, Streebog!Lit
<1>2. c.fillsize \in Streebog!Index /\ Streebog!Lit(1) \in Int
  BY DEF Streebog!streebog_state, Streebog!Lit, Streebog!Index
<1>3. [Streebog!Fill(c.buffer, c.fillsize, Streebog!Zero, StreebogBlock - c.fillsize)
          EXCEPT ![c.fillsize] = Streebog!Lit(1)] \in Streebog!Buffers
  BY <1>1, <1>2 DEF Streebog!Buffers
<1> QED BY <1>3 DEF Streebog!streebog_pad, Streebog!streebog_state

\* streebog_stage3 keeps the context well formed.
LEMMA StreebogStage3Type ==
    ASSUME NEW c \in Streebog!streebog_state
    PROVE  Streebog!streebog_stage3(c) \in Streebog!streebog_state
<1> DEFINE p == Streebog!streebog_pad(c)
           N == Streebog!streebog_add512(p.N, Streebog!Num(8 * c.fillsize))
           Sigma == Streebog!streebog_add512(p.Sigma, Streebog!Word(p.buffer))
           h1 == Streebog!streebog_g(p.h, p.N, Streebog!Word(p.buffer))
           h2 == Streebog!streebog_g(h1, Streebog!buffer0, N)
           h3 == Streebog!streebog_g(h2, Streebog!buffer0, Sigma)
<1>1. p \in Streebog!streebog_state
  BY StreebogPadType
<1>2. /\ p.buffer \in Streebog!Buffers
      /\ p.N \in Streebog!U512
      /\ p.Sigma \in Streebog!U512
      /\ p.h \in Streebog!Chain
      /\ c.fillsize \in Int
  BY <1>1 DEF Streebog!streebog_state
<1>3. Streebog!Word(p.buffer) \in Streebog!U512 /\ Streebog!Num(8 * c.fillsize) \in Streebog!U512 /\ Streebog!buffer0 \in Streebog!U512
  BY <1>2, StreebogWordType, StreebogNumType DEF Streebog!buffer0
<1> HIDE DEF p
<1>4. N \in Streebog!U512 /\ Sigma \in Streebog!U512
  BY <1>2, <1>3, StreebogAdd512Type
<1>5. h1 \in Streebog!Chain
  BY <1>2, <1>3, StreebogGType
<1> HIDE DEF N, Sigma, h1
<1>6. h2 \in Streebog!Chain
  BY <1>3, <1>4, <1>5, StreebogGType
<1> HIDE DEF h2
<1>7. h3 \in Streebog!Chain
  BY <1>3, <1>4, <1>6, StreebogGType
<1> HIDE DEF h3
<1>8. Streebog!streebog_stage3(c) = [p EXCEPT !.h = h3, !.N = N, !.Sigma = Sigma]
  BY DEF Streebog!streebog_stage3, p, N, Sigma, h1, h2, h3
<1> QED BY <1>1, <1>4, <1>7, <1>8 DEF Streebog!streebog_state

\* The first memcpy of update stays inside the buffer; it takes everything unless
\* it fills the buffer.
LEMMA StreebogTopUpLenType ==
    ASSUME NEW c \in Streebog!streebog_state, NEW len \in Nat
    PROVE  /\ Streebog!TopUpLen(c, len) \in 0 .. len
           /\ c.fillsize + Streebog!TopUpLen(c, len) \in 0 .. StreebogBlock
           /\ c.fillsize > 0 /\ c.fillsize + Streebog!TopUpLen(c, len) < StreebogBlock
                => Streebog!TopUpLen(c, len) = len
           /\ c.fillsize = 0 => Streebog!TopUpLen(c, len) = 0
BY StreebogBlockAssumption DEF Streebog!TopUpLen, Streebog!Least, Streebog!streebog_state

\* Topping up never leaves the buffer full.
LEMMA StreebogTopUpType ==
    ASSUME NEW c \in Streebog!streebog_state, NEW data \in Int, NEW len \in Nat
    PROVE  Streebog!TopUp(c, data, len) \in Streebog!streebog_state
<1> DEFINE n == Streebog!TopUpLen(c, len)
           b == Streebog!Copy(c.buffer, c.fillsize, data, n)
<1>1. n \in 0 .. len /\ c.fillsize + n \in 0 .. StreebogBlock /\ c.fillsize \in Int
  BY StreebogTopUpLenType DEF Streebog!streebog_state
<1>2. b \in Streebog!Buffers
  BY <1>1, Streebog!CopyType, StreebogBlockAssumption
     DEF Streebog!BlockSizeAssumption, Streebog!streebog_state
<1> HIDE DEF n, b
<1>3. CASE c.fillsize + n = StreebogBlock
  <2>0. 0 \in 0 .. StreebogBlock - 1
    BY StreebogBlockAssumption
  <2>1. [c EXCEPT !.buffer = b, !.fillsize = 0] \in Streebog!streebog_state
    BY <1>2, <2>0 DEF Streebog!streebog_state
  <2> QED BY <1>2, <1>3, <2>1, StreebogStage2Type DEF Streebog!TopUp, n, b
<1>4. CASE c.fillsize + n # StreebogBlock
  <2>0. c.fillsize + n \in 0 .. StreebogBlock - 1
    BY <1>1, <1>4, StreebogBlockAssumption
  <2>1. [c EXCEPT !.buffer = b, !.fillsize = c.fillsize + n] \in Streebog!streebog_state
    BY <1>2, <2>0 DEF Streebog!streebog_state
  <2> QED BY <1>4, <2>1 DEF Streebog!TopUp, n, b
<1> QED BY <1>3, <1>4

\* The loop of update keeps the context well formed.
LEMMA StreebogWholeBlocksType ==
    ASSUME NEW c \in Streebog!streebog_state, NEW data \in Int, NEW k \in Nat
    PROVE  Streebog!WholeBlocks(c, data, k) \in Streebog!streebog_state
<1> DEFINE block(j) == Streebog!BlockAt(data + (j - 1) * StreebogBlock)
           E == [n : Streebog!U512, m : Streebog!U512]
           L == [j \in 1 .. k |->
                   [n |-> Streebog!streebog_add512(c.N, Streebog!Num((j - 1) * Streebog!BlockBits)), m |-> Streebog!Word(block(j))]]
           B == [j \in 1 .. k |-> block(j)]
<1>1. \A j \in 1 .. k : block(j) \in Streebog!Buffers
  BY Streebog!BlockAtType, StreebogBlockAssumption DEF Streebog!BlockSizeAssumption
<1>2. \A j \in 1 .. k : Streebog!Num((j - 1) * Streebog!BlockBits) \in Streebog!U512
  BY StreebogNumType, StreebogBlockAssumption DEF Streebog!BlockBits
<1> HIDE DEF block
<1>3. L \in Seq(E)
  <2>1. ASSUME NEW j \in 1 .. k
        PROVE  [n |-> Streebog!streebog_add512(c.N, Streebog!Num((j - 1) * Streebog!BlockBits)), m |-> Streebog!Word(block(j))] \in E
    BY <1>1, <1>2, StreebogAdd512Type, StreebogWordType DEF Streebog!streebog_state
  <2>2. L \in [1 .. k -> E]
    BY <2>1
  <2> HIDE DEF L, E
  <2> QED BY <2>2, SeqDef
<1>4. B \in Seq(Streebog!Buffers)
  <2>1. B \in [1 .. k -> Streebog!Buffers]
    BY <1>1
  <2> QED BY <2>1, SeqDef
<1>5. c.h.log \in Seq(E)
  BY DEF Streebog!streebog_state, Streebog!Chain
<1> HIDE DEF L, B, E
<1>6. c.h.log \o L \in Seq(E)
  BY <1>3, <1>5, ConcatProperties
<1>7. [c.h EXCEPT !.log = @ \o L] \in Streebog!Chain
  BY <1>6 DEF Streebog!streebog_state, Streebog!Chain, E
<1>8. Streebog!streebog_add512(c.N, Streebog!Num(k * Streebog!BlockBits)) \in Streebog!U512
  BY StreebogNumType, StreebogAdd512Type, StreebogBlockAssumption
     DEF Streebog!BlockBits, Streebog!streebog_state
<1>9. [blocks |-> B, count |-> 0] \in Streebog!U512
  BY <1>4 DEF Streebog!U512
<1>10. Streebog!streebog_add512(c.Sigma, [blocks |-> B, count |-> 0]) \in Streebog!U512
  BY <1>9, StreebogAdd512Type DEF Streebog!streebog_state
<1>11. Streebog!WholeBlocks(c, data, k) =
         [c EXCEPT !.h = [c.h EXCEPT !.log = @ \o L],
                   !.N = Streebog!streebog_add512(c.N, Streebog!Num(k * Streebog!BlockBits)),
                   !.Sigma = Streebog!streebog_add512(c.Sigma, [blocks |-> B, count |-> 0])]
  BY DEF Streebog!WholeBlocks, L, B, block, Streebog!streebog_state
<1> QED BY <1>7, <1>8, <1>10, <1>11 DEF Streebog!streebog_state

\* The last memcpy of update stays inside the buffer.
LEMMA StreebogKeepTailType ==
    ASSUME NEW c \in Streebog!streebog_state, NEW data \in Int, NEW len \in Streebog!Index
    PROVE  Streebog!KeepTail(c, data, len) \in Streebog!streebog_state
<1>1. Streebog!Copy(c.buffer, 0, data, len) \in Streebog!Buffers
  BY Streebog!CopyType, StreebogBlockAssumption
     DEF Streebog!BlockSizeAssumption, Streebog!streebog_state, Streebog!Index
<1> QED BY <1>1 DEF Streebog!KeepTail, Streebog!streebog_state, Streebog!Index

\* A whole update keeps the context well formed.
LEMMA StreebogUpdatedType ==
    ASSUME NEW c \in Streebog!streebog_state, NEW data \in Int, NEW len \in Nat
    PROVE  Streebog!Updated(c, data, len) \in Streebog!streebog_state
<1> DEFINE n == Streebog!TopUpLen(c, len)
           rest == len - n
           k == rest \div StreebogBlock
           c1 == Streebog!TopUp(c, data, len)
           c2 == Streebog!WholeBlocks(c1, data + n, k)
<1>1. n \in Nat /\ rest \in Nat
  BY StreebogTopUpLenType
<1>2. k \in Nat /\ rest % StreebogBlock \in Streebog!Index
  BY <1>1, Streebog!DivMod, StreebogBlockAssumption DEF Streebog!BlockSizeAssumption
<1>3. c1 \in Streebog!streebog_state
  BY StreebogTopUpType
<1> HIDE DEF n, rest, k, c1
<1>4. c2 \in Streebog!streebog_state
  BY <1>1, <1>2, <1>3, StreebogWholeBlocksType
<1> HIDE DEF c2
<1>5. data + n + k * StreebogBlock \in Int
  BY <1>1, <1>2, StreebogBlockAssumption
<1>6. Streebog!Updated(c, data, len) = Streebog!KeepTail(c2, data + n + k * StreebogBlock, rest % StreebogBlock)
  BY DEF Streebog!Updated, n, rest, k, c1, c2
<1> QED BY <1>2, <1>4, <1>5, <1>6, StreebogKeepTailType

\* streebog_init makes a well formed context.
LEMMA StreebogInitialStateType ==
    ASSUME NEW bits \in {256, 512}
    PROVE  Streebog!InitialState(bits) \in Streebog!streebog_state
<1>1. Streebog!ZeroBlock \in Streebog!Buffers
  BY DEF Streebog!ZeroBlock, Streebog!Buffers, Streebog!Zero, Streebog!Lit
<1>2. [iv |-> IF bits \div 8 = 32 THEN 1 ELSE 0, log |-> <<>>] \in Streebog!Chain
  BY DEF Streebog!Chain
<1>3. 0 \in 0 .. StreebogBlock - 1 /\ bits \div 8 \in Streebog!Sizes
  BY StreebogBlockAssumption DEF Streebog!Sizes
<1>4. Streebog!Num(0) \in Streebog!U512
  BY StreebogNumType
<1> QED BY <1>1, <1>2, <1>3, <1>4 DEF Streebog!InitialState, Streebog!streebog_state

\* What final hands out is a digest.
LEMMA StreebogDigestType ==
    ASSUME NEW c \in Streebog!streebog_state
    PROVE  Streebog!DigestOf(c) \in [h : Streebog!Chain, half : {"high", "all"}]
BY DEF Streebog!DigestOf, Streebog!streebog_state

\* Every call keeps the context well formed, in whatever order the calls
\* come: in particular the buffer is never full between two calls.
LEMMA StreebogStepType ==
    ASSUME Streebog!TypeOK, Streebog!Next
    PROVE  Streebog!TypeOK'
<1> USE StreebogBounds
<1>1. ASSUME NEW bits \in {256, 512}, Streebog!streebog_init(bits)
      PROVE  Streebog!TypeOK'
  BY <1>1, StreebogInitialStateType DEF Streebog!streebog_init, Streebog!TypeOK
<1>2. ASSUME NEW len \in 0 .. MaxTaken, Streebog!streebog_update(len)
      PROVE  Streebog!TypeOK'
  <2>1. Streebog!Updated(ctx, taken + 1, len) \in Streebog!streebog_state
    BY StreebogUpdatedType DEF Streebog!TypeOK
  <2>2. taken + len \in 0 .. MaxTaken
    BY <1>2 DEF Streebog!streebog_update, Streebog!TypeOK
  <2> QED BY <1>2, <2>1, <2>2 DEF Streebog!streebog_update, Streebog!TypeOK
<1>3. ASSUME Streebog!streebog_final
      PROVE  Streebog!TypeOK'
  <2> DEFINE c == Streebog!streebog_stage3(ctx)
  <2>1. c \in Streebog!streebog_state
    BY StreebogStage3Type DEF Streebog!TypeOK
  <2>2. Streebog!DigestOf(c) \in [h : Streebog!Chain, half : {"high", "all"}]
    BY <2>1, StreebogDigestType
  <2> HIDE DEF c
  <2>3. 0 \in 0 .. StreebogBlock - 1
    BY StreebogBlockAssumption
  <2>4. [c EXCEPT !.fillsize = 0] \in Streebog!streebog_state
    BY <2>1, <2>3 DEF Streebog!streebog_state
  <2> QED BY <1>3, <2>2, <2>4 DEF Streebog!streebog_final, Streebog!TypeOK, c
<1> QED BY <1>1, <1>2, <1>3 DEF Streebog!Next

-----------------------------------------------------------------------------
(***************************************************************************)
(* The context represents the bytes fed to it.                             *)
(***************************************************************************)

\* The compression of the j-th whole block of a message.
StreebogEntry(j) == [n |-> Streebog!Num((j - 1) * Streebog!BlockBits), m |-> Streebog!Word(Streebog!WholeBlock(j))]
StreebogEntries == [n : Streebog!U512, m : Streebog!U512]

\* The compression of a whole block is well formed.
LEMMA StreebogEntryType ==
    ASSUME NEW j \in Int
    PROVE  StreebogEntry(j) \in StreebogEntries /\ Streebog!WholeBlock(j) \in Streebog!Buffers
<1>1. Streebog!WholeBlock(j) \in Streebog!Buffers
  BY Streebog!BlockAtType, StreebogBlockAssumption
     DEF Streebog!BlockSizeAssumption, Streebog!WholeBlock
<1>2. Streebog!Num((j - 1) * Streebog!BlockBits) \in Streebog!U512
  BY StreebogNumType, StreebogBlockAssumption DEF Streebog!BlockBits
<1> QED BY <1>1, <1>2, StreebogWordType DEF StreebogEntry, StreebogEntries

\* Represents, with the number of whole blocks named.
StreebogRepresentsBlocks(c, k) ==
    /\ c.h.iv = IF c.digest_size = 32 THEN 1 ELSE 0
    /\ c.h.log = [j \in 1 .. k |-> StreebogEntry(j)]
    /\ c.N = Streebog!Num(k * Streebog!BlockBits)
    /\ c.Sigma = [blocks |-> [j \in 1 .. k |-> Streebog!WholeBlock(j)], count |-> 0]

\* Represents names a number of whole blocks,
LEMMA StreebogRepresentsSplit ==
    ASSUME NEW c, NEW t, Streebog!Represents(c, t), c \in Streebog!streebog_state
    PROVE  \E k \in Nat : /\ StreebogRepresentsBlocks(c, k)
                          /\ t = k * StreebogBlock + c.fillsize
                          /\ Streebog!Holds(c.buffer, c.fillsize, k * StreebogBlock + 1)
<1> DEFINE k == Len(c.h.log)
<1>1. k \in Nat
  BY LenProperties DEF Streebog!streebog_state, Streebog!Chain
<1> QED BY <1>1 DEF Streebog!Represents, StreebogRepresentsBlocks, StreebogEntry

\* and is implied by its parts.
LEMMA StreebogRepresentsJoin ==
    ASSUME NEW c, NEW k \in Nat, StreebogRepresentsBlocks(c, k),
           Streebog!Holds(c.buffer, c.fillsize, k * StreebogBlock + 1)
    PROVE  Streebog!Represents(c, k * StreebogBlock + c.fillsize)
<1>1. Len(c.h.log) = k
  <2>1. c.h.log \in [1 .. k -> StreebogEntries]
    BY StreebogEntryType DEF StreebogRepresentsBlocks
  <2> QED BY <2>1, SeqDef, LenProperties
<1> QED BY <1>1 DEF Streebog!Represents, StreebogRepresentsBlocks, StreebogEntry

\* A fresh context represents the empty message, whatever it was used for.
LEMMA StreebogInitialRepresents ==
    ASSUME NEW bits \in {256, 512}
    PROVE  Streebog!Represents(Streebog!InitialState(bits), 0)
<1> DEFINE c == Streebog!InitialState(bits)
<1>1. StreebogRepresentsBlocks(c, 0)
  <2>1. /\ c.h.iv = IF c.digest_size = 32 THEN 1 ELSE 0
        /\ c.h.log = <<>>
        /\ c.N = Streebog!Num(0)
        /\ c.Sigma = Streebog!Num(0)
    BY DEF Streebog!InitialState
  <2>2. \A f : [j \in 1 .. 0 |-> f[j]] = <<>>
    OBVIOUS
  <2>3. [j \in 1 .. 0 |-> StreebogEntry(j)] = <<>> /\ [j \in 1 .. 0 |-> Streebog!WholeBlock(j)] = <<>>
    OBVIOUS
  <2>4. 0 * Streebog!BlockBits = 0
    BY StreebogBlockAssumption DEF Streebog!BlockBits
  <2> QED BY <2>1, <2>3, <2>4 DEF StreebogRepresentsBlocks, Streebog!Num
<1>2. c.fillsize = 0
  BY DEF Streebog!InitialState
<1>3. 0 * StreebogBlock + c.fillsize = 0
  BY <1>2, StreebogBlockAssumption
<1>4. Streebog!Holds(c.buffer, c.fillsize, 0 * StreebogBlock + 1)
  BY <1>2, Streebog!HoldsNothing, StreebogBlockAssumption DEF Streebog!BlockSizeAssumption
<1> HIDE DEF c
<1>5. Streebog!Represents(c, 0)
  BY <1>1, <1>3, <1>4, StreebogRepresentsJoin
<1> QED BY <1>5 DEF c

\* streebog_stage2 on the next whole block of the message.
LEMMA StreebogStage2Represents ==
    ASSUME NEW c \in Streebog!streebog_state, NEW k \in Nat, StreebogRepresentsBlocks(c, k)
    PROVE  StreebogRepresentsBlocks(Streebog!streebog_stage2(c, Streebog!WholeBlock(k + 1)), k + 1)
<1> DEFINE m == Streebog!WholeBlock(k + 1)
           d == Streebog!streebog_stage2(c, m)
           logf == [j \in 1 .. k + 1 |-> StreebogEntry(j)]
           sumf == [j \in 1 .. k + 1 |-> Streebog!WholeBlock(j)]
<1>1. /\ d.h.iv = c.h.iv
      /\ d.digest_size = c.digest_size
      /\ d.h.log = Append(c.h.log, [n |-> c.N, m |-> Streebog!Word(m)])
      /\ d.N = Streebog!streebog_add512(c.N, Streebog!buffer512)
      /\ d.Sigma = Streebog!streebog_add512(c.Sigma, Streebog!Word(m))
  BY DEF Streebog!streebog_stage2, Streebog!streebog_g, Streebog!streebog_state, Streebog!Chain
<1>2. logf \in [1 .. k + 1 -> StreebogEntries] /\ sumf \in [1 .. k + 1 -> Streebog!Buffers]
  BY StreebogEntryType
<1>3. d.h.log = logf
  <2>1. c.h.log = [j \in 1 .. k |-> logf[j]]
    BY DEF StreebogRepresentsBlocks
  <2>2. [n |-> c.N, m |-> Streebog!Word(m)] = logf[k + 1]
    BY DEF StreebogRepresentsBlocks, StreebogEntry
  <2> HIDE DEF logf
  <2> QED BY <1>1, <1>2, <2>1, <2>2, Streebog!AppendTable, StreebogBlockAssumption
     DEF Streebog!BlockSizeAssumption
<1>4. d.N = Streebog!Num((k + 1) * Streebog!BlockBits)
  <2>1. c.N.blocks = <<>> /\ c.N.count = k * Streebog!BlockBits
    BY DEF StreebogRepresentsBlocks, Streebog!Num
  <2>2. <<>> \o <<>> = <<>>
    BY ConcatEmptySeq, EmptySeq
  <2>3. k * Streebog!BlockBits + Streebog!BlockBits = (k + 1) * Streebog!BlockBits
    BY StreebogBlockAssumption DEF Streebog!BlockBits
  <2> QED BY <1>1, <2>1, <2>2, <2>3 DEF Streebog!streebog_add512, Streebog!buffer512, Streebog!Num
<1>5. d.Sigma = [blocks |-> sumf, count |-> 0]
  <2>1. c.Sigma.blocks = [j \in 1 .. k |-> sumf[j]] /\ c.Sigma.count = 0
    BY DEF StreebogRepresentsBlocks
  <2>2. m = sumf[k + 1]
    OBVIOUS
  <2>3. c.Sigma.blocks \in Seq(Streebog!Buffers) /\ m \in Streebog!Buffers
    BY StreebogEntryType DEF Streebog!streebog_state, Streebog!U512
  <2> HIDE DEF sumf, m
  <2>4. c.Sigma.blocks \o <<m>> = Append(c.Sigma.blocks, m)
    BY <2>3, AppendIsConcat
  <2>5. Append(c.Sigma.blocks, m) = sumf
    BY <1>2, <2>1, <2>2, Streebog!AppendTable, StreebogBlockAssumption
       DEF Streebog!BlockSizeAssumption
  <2> HIDE DEF d
  <2>6. Streebog!streebog_add512(c.Sigma, Streebog!Word(m)) = [blocks |-> sumf, count |-> 0]
    BY <2>1, <2>4, <2>5 DEF Streebog!streebog_add512, Streebog!Word
  <2> QED BY <1>1, <2>6
<1>6. c.h.iv = IF c.digest_size = 32 THEN 1 ELSE 0
  BY DEF StreebogRepresentsBlocks
<1> HIDE DEF d
<1>7. StreebogRepresentsBlocks(d, k + 1)
  BY <1>1, <1>3, <1>4, <1>5, <1>6 DEF StreebogRepresentsBlocks
<1> QED BY <1>7 DEF d

\* Topping up absorbs the bytes it copies, and leaves the buffer empty unless it
\* takes all of them.
LEMMA StreebogTopUpRepresents ==
    ASSUME NEW c \in Streebog!streebog_state, NEW t \in Nat, Streebog!Represents(c, t), NEW len \in Nat
    PROVE  /\ Streebog!Represents(Streebog!TopUp(c, t + 1, len), t + Streebog!TopUpLen(c, len))
           /\ Streebog!TopUp(c, t + 1, len).digest_size = c.digest_size
           /\ \/ Streebog!TopUp(c, t + 1, len).fillsize = 0
              \/ Streebog!TopUpLen(c, len) = len
<1> DEFINE n == Streebog!TopUpLen(c, len)
           b == Streebog!Copy(c.buffer, c.fillsize, t + 1, n)
<1>1. PICK k \in Nat : /\ StreebogRepresentsBlocks(c, k)
                       /\ t = k * StreebogBlock + c.fillsize
                       /\ Streebog!Holds(c.buffer, c.fillsize, k * StreebogBlock + 1)
  BY StreebogRepresentsSplit
<1>2. /\ n \in 0 .. len
      /\ c.fillsize \in 0 .. StreebogBlock - 1
      /\ c.fillsize + n \in 0 .. StreebogBlock
      /\ c.fillsize > 0 /\ c.fillsize + n < StreebogBlock => n = len
      /\ c.fillsize = 0 => n = 0
  BY StreebogTopUpLenType DEF Streebog!streebog_state
<1>3. b \in Streebog!Buffers
  BY <1>2, Streebog!CopyType, StreebogBlockAssumption
     DEF Streebog!BlockSizeAssumption, Streebog!streebog_state
<1>4. k * StreebogBlock \in Nat
  BY StreebogBlockAssumption
<1>5. Streebog!Holds(b, c.fillsize + n, k * StreebogBlock + 1)
  <2> DEFINE f == c.fillsize
             d == t + 1
  <2>1. /\ f \in Nat /\ n \in Nat /\ f + n <= StreebogBlock /\ d \in Int
        /\ d - f = k * StreebogBlock + 1
        /\ Streebog!Holds(c.buffer, f, d - f)
    BY <1>1, <1>2, <1>4, StreebogBlockAssumption
  <2> HIDE DEF f, d, n
  <2>2. Streebog!Holds(Streebog!Copy(c.buffer, f, d, n), f + n, d - f)
    BY <2>1, Streebog!CopyExtends, StreebogBlockAssumption DEF Streebog!BlockSizeAssumption
  <2> QED BY <2>1, <2>2 DEF f, d
<1> HIDE DEF n, b
<1>6. CASE c.fillsize + n = StreebogBlock
  <2> DEFINE c0 == [c EXCEPT !.buffer = b, !.fillsize = 0]
             d == Streebog!streebog_stage2(c0, b)
  <2>1. Streebog!TopUp(c, t + 1, len) = d
    BY <1>6 DEF Streebog!TopUp, n, b
  <2>2. b = Streebog!WholeBlock(k + 1)
    <3>1. ((k + 1) - 1) * StreebogBlock + 1 = k * StreebogBlock + 1
      BY StreebogBlockAssumption
    <3>2. Streebog!Holds(b, StreebogBlock, k * StreebogBlock + 1)
      BY <1>5, <1>6
    <3>3. k * StreebogBlock + 1 \in Int
      BY <1>4
    <3> QED BY <1>3, <3>1, <3>2, <3>3, Streebog!FullBuffer, StreebogBlockAssumption
       DEF Streebog!BlockSizeAssumption, Streebog!WholeBlock
  <2>3. 0 \in 0 .. StreebogBlock - 1
    BY StreebogBlockAssumption
  <2>4. c0 \in Streebog!streebog_state
    BY <1>3, <2>3 DEF Streebog!streebog_state
  <2>5. StreebogRepresentsBlocks(c0, k)
    BY <1>1 DEF StreebogRepresentsBlocks, Streebog!streebog_state
  <2>6. d.fillsize = 0 /\ d.digest_size = c.digest_size
    BY DEF Streebog!streebog_stage2, Streebog!streebog_state
  <2> HIDE DEF c0
  <2>7. StreebogRepresentsBlocks(d, k + 1)
    BY <2>2, <2>4, <2>5, StreebogStage2Represents
  <2> HIDE DEF d
  <2>8. Streebog!Represents(d, (k + 1) * StreebogBlock + d.fillsize)
    BY <2>6, <2>7, StreebogRepresentsJoin, Streebog!HoldsNothing, StreebogBlockAssumption
       DEF Streebog!BlockSizeAssumption
  <2>9. (k + 1) * StreebogBlock + 0 = t + n
    BY <1>1, <1>2, <1>6, StreebogBlockAssumption
  <2> QED BY <2>1, <2>6, <2>8, <2>9 DEF n
<1>7. CASE c.fillsize + n # StreebogBlock
  <2> DEFINE d == [c EXCEPT !.buffer = b, !.fillsize = c.fillsize + n]
  <2>1. Streebog!TopUp(c, t + 1, len) = d
    BY <1>7 DEF Streebog!TopUp, n, b
  <2>2. /\ StreebogRepresentsBlocks(d, k)
        /\ d.fillsize = c.fillsize + n
        /\ d.buffer = b
        /\ d.digest_size = c.digest_size
    BY <1>1 DEF StreebogRepresentsBlocks, Streebog!streebog_state
  <2> HIDE DEF d
  <2>3. Streebog!Represents(d, k * StreebogBlock + d.fillsize)
    BY <1>5, <2>2, StreebogRepresentsJoin
  <2>4. k * StreebogBlock + d.fillsize = t + n
    BY <1>1, <1>2, <1>4, <2>2, StreebogBlockAssumption
  <2>5. d.fillsize = 0 \/ n = len
    BY <1>2, <1>7, <2>2, StreebogBlockAssumption
  <2> QED BY <2>1, <2>2, <2>3, <2>4, <2>5 DEF n
<1> QED BY <1>6, <1>7

\* The loop absorbs its blocks: it runs only when the buffer is empty.
LEMMA StreebogWholeBlocksRepresents ==
    ASSUME NEW c \in Streebog!streebog_state, NEW t \in Nat, Streebog!Represents(c, t), NEW n \in Nat,
           c.fillsize = 0 \/ n = 0
    PROVE  /\ Streebog!Represents(Streebog!WholeBlocks(c, t + 1, n), t + n * StreebogBlock)
           /\ Streebog!WholeBlocks(c, t + 1, n).digest_size = c.digest_size
           /\ Streebog!WholeBlocks(c, t + 1, n).fillsize = c.fillsize
<1> DEFINE block(j) == Streebog!BlockAt(t + 1 + (j - 1) * StreebogBlock)
           L == [j \in 1 .. n |->
                   [n |-> Streebog!streebog_add512(c.N, Streebog!Num((j - 1) * Streebog!BlockBits)), m |-> Streebog!Word(block(j))]]
           B == [j \in 1 .. n |-> block(j)]
           d == Streebog!WholeBlocks(c, t + 1, n)
<1>1. PICK k \in Nat : /\ StreebogRepresentsBlocks(c, k)
                       /\ t = k * StreebogBlock + c.fillsize
                       /\ Streebog!Holds(c.buffer, c.fillsize, k * StreebogBlock + 1)
  BY StreebogRepresentsSplit
<1> DEFINE logf == [j \in 1 .. k + n |-> StreebogEntry(j)]
           sumf == [j \in 1 .. k + n |-> Streebog!WholeBlock(j)]
<1>2. /\ d.h.iv = c.h.iv
      /\ d.digest_size = c.digest_size
      /\ d.fillsize = c.fillsize
      /\ d.buffer = c.buffer
      /\ d.h.log = c.h.log \o L
      /\ d.N = Streebog!streebog_add512(c.N, Streebog!Num(n * Streebog!BlockBits))
      /\ d.Sigma = Streebog!streebog_add512(c.Sigma, [blocks |-> B, count |-> 0])
  BY DEF Streebog!WholeBlocks, Streebog!streebog_state, Streebog!Chain
<1>3. logf \in [1 .. k + n -> StreebogEntries] /\ sumf \in [1 .. k + n -> Streebog!Buffers]
  BY StreebogEntryType
<1>4. c.fillsize \in 0 .. StreebogBlock - 1
  BY DEF Streebog!streebog_state
<1>5. ASSUME NEW j \in 1 .. n
      PROVE  block(j) = Streebog!WholeBlock(k + j)
  <2>1. c.fillsize = 0
    OBVIOUS
  <2>2. t + 1 + (j - 1) * StreebogBlock = (k + j - 1) * StreebogBlock + 1
    BY <1>1, <2>1, StreebogBlockAssumption
  <2> QED BY <2>2 DEF Streebog!WholeBlock
<1>6. /\ c.N = Streebog!Num(k * Streebog!BlockBits)
      /\ c.N.blocks = <<>>
      /\ c.N.count = k * Streebog!BlockBits
  BY <1>1 DEF StreebogRepresentsBlocks, Streebog!Num
<1>7. <<>> \o <<>> = <<>>
  BY ConcatEmptySeq, EmptySeq
<1>8. ASSUME NEW j \in Int
      PROVE  Streebog!streebog_add512(c.N, Streebog!Num(j * Streebog!BlockBits)) = Streebog!Num((k + j) * Streebog!BlockBits)
  <2>1. k * Streebog!BlockBits + j * Streebog!BlockBits = (k + j) * Streebog!BlockBits
    BY StreebogBlockAssumption DEF Streebog!BlockBits
  <2> QED BY <1>6, <1>7, <2>1 DEF Streebog!streebog_add512, Streebog!Num
<1> HIDE DEF block, d
<1>9. L = [j \in 1 .. n |-> logf[k + j]]
  <2> SUFFICES ASSUME NEW j \in 1 .. n
               PROVE  [n |-> Streebog!streebog_add512(c.N, Streebog!Num((j - 1) * Streebog!BlockBits)), m |-> Streebog!Word(block(j))]
                        = logf[k + j]
    OBVIOUS
  <2>1. logf[k + j] = StreebogEntry(k + j)
    OBVIOUS
  <2>2. Streebog!streebog_add512(c.N, Streebog!Num((j - 1) * Streebog!BlockBits)) = Streebog!Num((k + j - 1) * Streebog!BlockBits)
    <3>1. k + (j - 1) = k + j - 1
      OBVIOUS
    <3> QED BY <1>8, <3>1
  <2> QED BY <1>5, <2>1, <2>2 DEF StreebogEntry
<1>10. B = [j \in 1 .. n |-> sumf[k + j]]
  BY <1>5
<1>11. d.h.log = logf
  <2>1. c.h.log = [j \in 1 .. k |-> logf[j]]
    BY <1>1 DEF StreebogRepresentsBlocks
  <2> HIDE DEF logf, L
  <2> QED BY <1>2, <1>3, <1>9, <2>1, Streebog!ConcatTable, StreebogBlockAssumption
     DEF Streebog!BlockSizeAssumption
<1>12. d.Sigma = [blocks |-> sumf, count |-> 0]
  <2>1. c.Sigma.blocks = [j \in 1 .. k |-> sumf[j]] /\ c.Sigma.count = 0
    BY <1>1 DEF StreebogRepresentsBlocks
  <2> HIDE DEF sumf, B
  <2>2. c.Sigma.blocks \o B = sumf
    BY <1>3, <1>10, <2>1, Streebog!ConcatTable, StreebogBlockAssumption
       DEF Streebog!BlockSizeAssumption
  <2>3. Streebog!streebog_add512(c.Sigma, [blocks |-> B, count |-> 0]) = [blocks |-> sumf, count |-> 0]
    BY <2>1, <2>2 DEF Streebog!streebog_add512
  <2> QED BY <1>2, <2>3
<1>13. d.N = Streebog!Num((k + n) * Streebog!BlockBits)
  BY <1>2, <1>8
<1>14. StreebogRepresentsBlocks(d, k + n)
  <2>1. c.h.iv = IF c.digest_size = 32 THEN 1 ELSE 0
    BY <1>1 DEF StreebogRepresentsBlocks
  <2> QED BY <1>2, <1>11, <1>12, <1>13, <2>1 DEF StreebogRepresentsBlocks
<1>15. Streebog!Holds(d.buffer, d.fillsize, (k + n) * StreebogBlock + 1)
  <2>1. CASE n = 0
    BY <1>1, <1>2, <2>1
  <2>2. CASE n # 0
    BY <1>2, <2>2, Streebog!HoldsNothing, StreebogBlockAssumption DEF Streebog!BlockSizeAssumption
  <2> QED BY <2>1, <2>2
<1>16. (k + n) * StreebogBlock + d.fillsize = t + n * StreebogBlock
  BY <1>1, <1>2, <1>4, StreebogBlockAssumption
<1>17. Streebog!Represents(d, (k + n) * StreebogBlock + d.fillsize)
  <2>1. k + n \in Nat
    OBVIOUS
  <2> HIDE DEF logf, sumf
  <2> QED BY <1>14, <1>15, <2>1, StreebogRepresentsJoin
<1> QED BY <1>2, <1>16, <1>17 DEF d

\* Keeping the tail absorbs it: there is one only when the buffer is empty.
LEMMA StreebogKeepTailRepresents ==
    ASSUME NEW c \in Streebog!streebog_state, NEW t \in Nat, Streebog!Represents(c, t), NEW len \in Streebog!Index,
           c.fillsize = 0 \/ len = 0
    PROVE  /\ Streebog!Represents(Streebog!KeepTail(c, t + 1, len), t + len)
           /\ Streebog!KeepTail(c, t + 1, len).digest_size = c.digest_size
<1>1. PICK k \in Nat : /\ StreebogRepresentsBlocks(c, k)
                       /\ t = k * StreebogBlock + c.fillsize
                       /\ Streebog!Holds(c.buffer, c.fillsize, k * StreebogBlock + 1)
  BY StreebogRepresentsSplit
<1>2. len \in Nat /\ len <= StreebogBlock
  BY StreebogBlockAssumption DEF Streebog!Index
<1>3. CASE len = 0
  BY <1>3 DEF Streebog!KeepTail
<1>4. CASE len # 0
  <2> DEFINE b == Streebog!Copy(c.buffer, 0, t + 1, len)
             d == [c EXCEPT !.buffer = b, !.fillsize = len]
  <2>1. Streebog!KeepTail(c, t + 1, len) = d
    BY <1>4 DEF Streebog!KeepTail
  <2>2. t = k * StreebogBlock
    BY <1>1, <1>4, StreebogBlockAssumption
  <2>3. Streebog!Holds(b, len, k * StreebogBlock + 1)
    <3>1. Streebog!Holds(c.buffer, 0, (t + 1) - 0)
      BY Streebog!HoldsNothing, StreebogBlockAssumption DEF Streebog!BlockSizeAssumption
    <3>2. Streebog!Holds(b, 0 + len, (t + 1) - 0)
      BY <1>2, <3>1, Streebog!CopyExtends, StreebogBlockAssumption DEF Streebog!BlockSizeAssumption
    <3> HIDE DEF b
    <3> QED BY <1>2, <2>2, <3>2
  <2> HIDE DEF b
  <2>4. /\ StreebogRepresentsBlocks(d, k)
        /\ d.fillsize = len
        /\ d.buffer = b
        /\ d.digest_size = c.digest_size
    BY <1>1 DEF StreebogRepresentsBlocks, Streebog!streebog_state
  <2> HIDE DEF d
  <2>5. Streebog!Represents(d, k * StreebogBlock + d.fillsize)
    BY <2>3, <2>4, StreebogRepresentsJoin
  <2> QED BY <2>1, <2>2, <2>4, <2>5
<1> QED BY <1>3, <1>4

\* A whole update absorbs the bytes it is given.
LEMMA StreebogUpdatedRepresents ==
    ASSUME NEW c \in Streebog!streebog_state, NEW t \in Nat, Streebog!Represents(c, t), NEW len \in Nat
    PROVE  /\ Streebog!Represents(Streebog!Updated(c, t + 1, len), t + len)
           /\ Streebog!Updated(c, t + 1, len).digest_size = c.digest_size
<1> DEFINE n == Streebog!TopUpLen(c, len)
           rest == len - n
           k == rest \div StreebogBlock
           r == rest % StreebogBlock
           c1 == Streebog!TopUp(c, t + 1, len)
           c2 == Streebog!WholeBlocks(c1, t + 1 + n, k)
           c3 == Streebog!KeepTail(c2, t + 1 + n + k * StreebogBlock, r)
<1>1. n \in Nat /\ rest \in Nat
  BY StreebogTopUpLenType
<1>2. k \in Nat /\ r \in Streebog!Index /\ rest = k * StreebogBlock + r
  BY <1>1, Streebog!DivMod, StreebogBlockAssumption DEF Streebog!BlockSizeAssumption
<1>3. c1 \in Streebog!streebog_state
  BY StreebogTopUpType
<1>4. /\ Streebog!Represents(c1, t + n)
      /\ c1.digest_size = c.digest_size
      /\ c1.fillsize = 0 \/ n = len
  BY StreebogTopUpRepresents
<1>5. Streebog!Updated(c, t + 1, len) = c3
  BY DEF Streebog!Updated
<1>6. n = len => k = 0 /\ r = 0
  <2> SUFFICES ASSUME n = len
               PROVE  k = 0 /\ r = 0
    OBVIOUS
  <2>1. rest = 0
    BY <1>1
  <2> HIDE DEF rest
  <2> QED BY <2>1, StreebogBlockAssumption
<1>7. rest = len - n
  OBVIOUS
<1> HIDE DEF n, rest, k, r, c1
<1>8. t + n \in Nat /\ t + 1 + n = (t + n) + 1 /\ k * StreebogBlock \in Nat
  BY <1>1, <1>2, StreebogBlockAssumption
<1>9. c1.fillsize = 0 \/ k = 0
  BY <1>4, <1>6
<1>10. /\ Streebog!Represents(c2, t + n + k * StreebogBlock)
       /\ c2.digest_size = c.digest_size
       /\ c2.fillsize = c1.fillsize
  BY <1>2, <1>3, <1>4, <1>8, <1>9, StreebogWholeBlocksRepresents
<1>11. c2 \in Streebog!streebog_state
  BY <1>2, <1>3, <1>8, StreebogWholeBlocksType
<1> HIDE DEF c2
<1>12. /\ Streebog!Represents(c3, t + n + k * StreebogBlock + r)
       /\ c3.digest_size = c.digest_size
  <2>1. t + n + k * StreebogBlock \in Nat /\ t + 1 + n + k * StreebogBlock = (t + n + k * StreebogBlock) + 1
    BY <1>1, <1>8
  <2>2. c2.fillsize = 0 \/ r = 0
    BY <1>4, <1>6, <1>10
  <2> QED BY <1>2, <1>10, <1>11, <2>1, <2>2, StreebogKeepTailRepresents
<1>13. t + n + k * StreebogBlock + r = t + len
  <2>1. r \in Int
    BY <1>2 DEF Streebog!Index
  <2> QED BY <1>1, <1>2, <1>7, <1>8, <2>1, StreebogBlockAssumption
<1> QED BY <1>5, <1>12, <1>13

\* A context that represents t bytes finishes with the reference digest.
LEMMA StreebogFinalIsReference ==
    ASSUME NEW c \in Streebog!streebog_state, NEW t \in Nat, Streebog!Represents(c, t)
    PROVE  Streebog!DigestOf(Streebog!streebog_stage3(c)) = Streebog!Reference(c.digest_size, t)
<1>1. PICK k \in Nat : /\ StreebogRepresentsBlocks(c, k)
                       /\ t = k * StreebogBlock + c.fillsize
                       /\ Streebog!Holds(c.buffer, c.fillsize, k * StreebogBlock + 1)
  BY StreebogRepresentsSplit
<1> DEFINE f == c.fillsize
           tail == Streebog!PaddedTail(k, f)
           blocks == [j \in 1 .. k |-> Streebog!WholeBlock(j)]
           sum == [blocks |-> Append(blocks, tail), count |-> 0]
           e1 == [n |-> Streebog!Num(k * Streebog!BlockBits), m |-> Streebog!Word(tail)]
           e2 == [n |-> Streebog!Num(0), m |-> Streebog!Num(8 * t)]
           e3 == [n |-> Streebog!Num(0), m |-> sum]
           p == Streebog!streebog_pad(c)
           log == [j \in 1 .. k |-> StreebogEntry(j)]
<1>2. f \in Streebog!Index /\ f \in 0 .. StreebogBlock - 1 /\ k * StreebogBlock \in Nat
  BY StreebogBlockAssumption DEF Streebog!Index, Streebog!streebog_state
<1>3. t \div StreebogBlock = k /\ t % StreebogBlock = f
  BY <1>1, <1>2, Streebog!DivModUnique, StreebogBlockAssumption DEF Streebog!BlockSizeAssumption
<1>4. /\ p.buffer = tail
      /\ p.h = c.h /\ p.N = c.N /\ p.Sigma = c.Sigma
      /\ p.digest_size = c.digest_size
  <2>1. p = [c EXCEPT !.buffer =
               [Streebog!Fill(@, f, Streebog!Zero, StreebogBlock - f) EXCEPT ![f] = Streebog!Lit(1)]]
    BY <1>2, StreebogBlockAssumption DEF Streebog!streebog_pad
  <2> DEFINE g == Streebog!Fill(c.buffer, f, Streebog!Zero, StreebogBlock - f)
  <2>2. [g EXCEPT ![f] = Streebog!Lit(1)] = tail
    <3>1. ASSUME NEW i \in Streebog!Index
          PROVE  [g EXCEPT ![f] = Streebog!Lit(1)][i] = tail[i]
      <4>1. g[i] = IF i \in f .. f + (StreebogBlock - f) - 1 THEN Streebog!Zero ELSE c.buffer[i]
        BY DEF Streebog!Fill
      <4>2. [g EXCEPT ![f] = Streebog!Lit(1)][i] = IF i = f THEN Streebog!Lit(1) ELSE g[i]
        BY DEF Streebog!Fill
      <4>3. tail[i] = IF i < f THEN k * StreebogBlock + 1 + i ELSE IF i = f THEN Streebog!Lit(1) ELSE Streebog!Zero
        BY DEF Streebog!PaddedTail
      <4>4. i < f => c.buffer[i] = k * StreebogBlock + 1 + i
        BY <1>1, <1>2, StreebogBlockAssumption DEF Streebog!Holds, Streebog!Index
      <4> HIDE DEF f, g, tail
      <4>5. i < f \/ i = f \/ i > f
        BY <1>2, StreebogBlockAssumption DEF Streebog!Index
      <4>6. CASE i < f
        BY <1>2, <4>1, <4>2, <4>3, <4>4, <4>6, StreebogBlockAssumption DEF Streebog!Index
      <4>7. CASE i = f
        BY <1>2, <4>2, <4>3, <4>7, StreebogBlockAssumption DEF Streebog!Index
      <4>8. CASE i > f
        BY <1>2, <4>1, <4>2, <4>3, <4>8, StreebogBlockAssumption DEF Streebog!Index
      <4> QED BY <4>5, <4>6, <4>7, <4>8
    <3> QED BY <3>1 DEF Streebog!Fill, Streebog!PaddedTail
  <2> HIDE DEF g, tail, f
  <2>3. p = [c EXCEPT !.buffer = tail]
    BY <2>1, <2>2 DEF g
  <2> QED BY <2>3 DEF Streebog!streebog_state
<1>5. tail \in Streebog!Buffers
  BY <1>2, <1>4, StreebogPadType DEF Streebog!streebog_state
<1> HIDE DEF tail, p
<1>6. /\ c.N = Streebog!Num(k * Streebog!BlockBits)
      /\ c.Sigma = [blocks |-> blocks, count |-> 0]
      /\ c.h.log = log
      /\ c.h.iv = IF c.digest_size = 32 THEN 1 ELSE 0
  BY <1>1 DEF StreebogRepresentsBlocks
<1>7. Streebog!streebog_add512(c.N, Streebog!Num(8 * f)) = Streebog!Num(8 * t)
  <2>1. k * Streebog!BlockBits + 8 * f = 8 * t
    BY <1>1, <1>2, StreebogBlockAssumption DEF Streebog!BlockBits
  <2>2. <<>> \o <<>> = <<>>
    BY ConcatEmptySeq, EmptySeq
  <2> QED BY <1>6, <2>1, <2>2 DEF Streebog!streebog_add512, Streebog!Num
<1>8. Streebog!streebog_add512(c.Sigma, Streebog!Word(tail)) = sum
  <2>1. blocks \in Seq(Streebog!Buffers)
    BY <1>6 DEF Streebog!streebog_state, Streebog!U512
  <2> HIDE DEF blocks
  <2>2. blocks \o <<tail>> = Append(blocks, tail)
    BY <1>5, <2>1, AppendIsConcat
  <2>3. c.Sigma.blocks = blocks /\ c.Sigma.count = 0
    BY <1>6
  <2>4. Streebog!Word(tail).blocks = <<tail>> /\ Streebog!Word(tail).count = 0
    BY DEF Streebog!Word
  <2>5. Streebog!streebog_add512(c.Sigma, Streebog!Word(tail)) = [blocks |-> blocks \o <<tail>>, count |-> 0]
    BY <2>3, <2>4 DEF Streebog!streebog_add512
  <2> QED BY <2>2, <2>5
<1>9. /\ e1 \in StreebogEntries /\ e2 \in StreebogEntries /\ e3 \in StreebogEntries
      /\ log \in Seq(StreebogEntries)
  <2>1. Streebog!Num(k * Streebog!BlockBits) \in Streebog!U512 /\ Streebog!Num(0) \in Streebog!U512 /\ Streebog!Num(8 * t) \in Streebog!U512
    BY StreebogNumType, StreebogBlockAssumption DEF Streebog!BlockBits
  <2>2. Streebog!Word(tail) \in Streebog!U512 /\ sum \in Streebog!U512
    <3>1. c.Sigma \in Streebog!U512
      BY DEF Streebog!streebog_state
    <3> QED BY <1>5, <1>8, <3>1, StreebogWordType, StreebogAdd512Type
  <2>3. log \in Seq(StreebogEntries)
    BY <1>6 DEF Streebog!streebog_state, Streebog!Chain, StreebogEntries
  <2> HIDE DEF sum, log
  <2> QED BY <2>1, <2>2, <2>3 DEF StreebogEntries
<1> DEFINE s == Streebog!streebog_stage3(c)
<1> HIDE DEF blocks, log, sum
<1>10. /\ s.h = [p.h EXCEPT !.log = Append(Append(Append(@, e1), e2), e3)]
       /\ s.digest_size = p.digest_size
  <2>1. p \in Streebog!streebog_state
    BY StreebogPadType DEF p
  <2> DEFINE h1 == Streebog!streebog_g(p.h, p.N, Streebog!Word(p.buffer))
             h2 == Streebog!streebog_g(h1, Streebog!buffer0, Streebog!Num(8 * t))
             h3 == Streebog!streebog_g(h2, Streebog!buffer0, sum)
  <2>2. s = [p EXCEPT !.h = h3, !.N = Streebog!Num(8 * t), !.Sigma = sum]
    BY <1>4, <1>7, <1>8 DEF Streebog!streebog_stage3, p
  <2>3. h3 = [p.h EXCEPT !.log = Append(Append(Append(@, e1), e2), e3)]
    <3>1. h1 = [p.h EXCEPT !.log = Append(@, e1)]
      BY <1>4, <1>6 DEF Streebog!streebog_g
    <3> HIDE DEF h1, e1, e2, e3
    <3>2. h2 = [h1 EXCEPT !.log = Append(@, e2)]
      BY DEF Streebog!streebog_g, e2, Streebog!buffer0
    <3> HIDE DEF h2
    <3>3. h3 = [h2 EXCEPT !.log = Append(@, e3)]
      BY DEF Streebog!streebog_g, e3, Streebog!buffer0
    <3> HIDE DEF h3
    <3>4. p.h \in Streebog!Chain
      BY <2>1 DEF Streebog!streebog_state
    <3> QED BY <3>1, <3>2, <3>3, <3>4 DEF Streebog!Chain
  <2> HIDE DEF h3, s
  <2> QED BY <2>1, <2>2, <2>3 DEF Streebog!streebog_state
<1>11. Append(Append(Append(log, e1), e2), e3) = log \o <<e1, e2, e3>>
  <2> HIDE DEF e1, e2, e3
  <2> QED BY <1>9, StreebogAppendThree
<1>12. Streebog!Reference(c.digest_size, t) =
         [h |-> [iv |-> IF c.digest_size = 32 THEN 1 ELSE 0, log |-> log \o <<e1, e2, e3>>],
          half |-> IF c.digest_size = 32 THEN "high" ELSE "all"]
  BY <1>3 DEF Streebog!Reference, log, sum, blocks, tail, StreebogEntry
<1>13. Streebog!DigestOf(s) =
         [h |-> [iv |-> c.h.iv, log |-> log \o <<e1, e2, e3>>],
          half |-> IF c.digest_size = 32 THEN "high" ELSE "all"]
  <2> HIDE DEF s, e1, e2, e3
  <2>1. c.h \in Streebog!Chain
    BY DEF Streebog!streebog_state
  <2>2. s.h = [iv |-> c.h.iv, log |-> log \o <<e1, e2, e3>>]
    BY <1>4, <1>6, <1>10, <1>11, <2>1 DEF Streebog!Chain
  <2>3. s.digest_size = c.digest_size
    BY <1>4, <1>10
  <2> QED BY <2>2, <2>3 DEF Streebog!DigestOf
<1> QED
  <2> HIDE DEF e1, e2, e3
  <2> QED BY <1>6, <1>12, <1>13

-----------------------------------------------------------------------------
(***************************************************************************)
(* The theorems.                                                           *)
(***************************************************************************)

StreebogInv == Streebog!TypeOK /\ Streebog!StateIsPrefix

\* Update does not change the digest size,
LEMMA StreebogUpdatedDigestSize ==
    ASSUME NEW c \in Streebog!streebog_state, NEW data \in Int, NEW n \in Nat
    PROVE  Streebog!Updated(c, data, n).digest_size = c.digest_size
<1>1. Streebog!TopUp(c, data, n).digest_size = c.digest_size
  BY DEF Streebog!TopUp, Streebog!streebog_stage2, Streebog!streebog_state
<1>2. Streebog!TopUp(c, data, n) \in Streebog!streebog_state
  BY StreebogTopUpType
<1>3. ASSUME NEW d \in Streebog!streebog_state, NEW e, NEW k
      PROVE  /\ Streebog!WholeBlocks(d, e, k).digest_size = d.digest_size
             /\ "digest_size" \in DOMAIN Streebog!WholeBlocks(d, e, k)
  BY DEF Streebog!WholeBlocks, Streebog!streebog_state
<1>4. ASSUME NEW d, d.digest_size = c.digest_size, NEW e, NEW k, "digest_size" \in DOMAIN d
      PROVE  Streebog!KeepTail(d, e, k).digest_size = c.digest_size
  BY <1>4 DEF Streebog!KeepTail
<1> QED BY <1>1, <1>2, <1>3, <1>4 DEF Streebog!Updated

\* nor does the finish.
LEMMA StreebogStage3DigestSize ==
    ASSUME NEW c \in Streebog!streebog_state
    PROVE  Streebog!streebog_stage3(c).digest_size = c.digest_size
<1> DEFINE p == Streebog!streebog_pad(c)
<1>1. p \in Streebog!streebog_state
  BY StreebogPadType
<1>2. p.digest_size = c.digest_size
  BY DEF Streebog!streebog_pad, Streebog!streebog_state
<1>3. ASSUME NEW h, NEW n, NEW s
      PROVE  [p EXCEPT !.h = h, !.N = n, !.Sigma = s].digest_size = c.digest_size
  <2> HIDE DEF p
  <2> QED BY <1>1, <1>2 DEF Streebog!streebog_state
<1> QED BY <1>3 DEF Streebog!streebog_stage3

\* The inductive invariant holds at first
LEMMA StreebogInitInv == Streebog!Init => StreebogInv
<1> SUFFICES ASSUME Streebog!Init
             PROVE  Streebog!StateIsPrefix
  BY StreebogInitialStateType, StreebogDigestType, StreebogBounds
     DEF Streebog!Init, Streebog!TypeOK, StreebogInv
<1> QED BY StreebogInitialRepresents DEF Streebog!Init, Streebog!StateIsPrefix

\* and is preserved by every call,
LEMMA StreebogStepInv ==
    ASSUME StreebogInv, Streebog!Next
    PROVE  StreebogInv'
<1>0. Streebog!TypeOK'
  BY StreebogStepType DEF StreebogInv
<1>1. ASSUME NEW bits \in {256, 512}, Streebog!streebog_init(bits)
      PROVE  Streebog!StateIsPrefix'
  BY <1>1, StreebogInitialRepresents DEF Streebog!streebog_init, Streebog!StateIsPrefix
<1>2. ASSUME NEW len \in 0 .. MaxTaken, Streebog!streebog_update(len)
      PROVE  Streebog!StateIsPrefix'
  <2>1. CASE phase = "absorbing"
    <3>1. Streebog!Represents(ctx, taken) /\ ctx \in Streebog!streebog_state /\ taken \in Nat /\ len \in Nat
      BY <2>1, StreebogBounds DEF StreebogInv, Streebog!TypeOK, Streebog!StateIsPrefix
    <3>2. Streebog!Represents(Streebog!Updated(ctx, taken + 1, len), taken + len)
      BY <3>1, StreebogUpdatedRepresents
    <3> QED BY <1>2, <3>2 DEF Streebog!streebog_update, Streebog!StateIsPrefix
  <2>2. CASE phase # "absorbing"
    BY <1>2, <2>2 DEF Streebog!streebog_update, Streebog!StateIsPrefix
  <2> QED BY <2>1, <2>2
<1>3. ASSUME Streebog!streebog_final
      PROVE  Streebog!StateIsPrefix'
  BY <1>3 DEF Streebog!streebog_final, Streebog!StateIsPrefix
<1> QED BY <1>0, <1>1, <1>2, <1>3 DEF Streebog!Next, StreebogInv

\* no call but init changes the digest size,
LEMMA StreebogSizeKept ==
    ASSUME StreebogInv,
           \/ \E len \in 0 .. MaxTaken : Streebog!streebog_update(len)
           \/ Streebog!streebog_final
    PROVE  ctx'.digest_size = ctx.digest_size
<1>0. ctx \in Streebog!streebog_state /\ taken \in Nat /\ MaxTaken \in Nat
  BY StreebogBounds DEF StreebogInv, Streebog!TypeOK
<1>1. ASSUME NEW len \in 0 .. MaxTaken, Streebog!streebog_update(len)
      PROVE  ctx'.digest_size = ctx.digest_size
  <2>1. len \in Nat /\ taken + 1 \in Int
    BY <1>0
  <2> QED BY <1>0, <1>1, <2>1, StreebogUpdatedDigestSize DEF Streebog!streebog_update
<1>2. ASSUME Streebog!streebog_final
      PROVE  ctx'.digest_size = ctx.digest_size
  <2> DEFINE c == Streebog!streebog_stage3(ctx)
  <2>1. c.digest_size = ctx.digest_size /\ c \in Streebog!streebog_state
    BY <1>0, StreebogStage3Type, StreebogStage3DigestSize
  <2> HIDE DEF c
  <2>2. ctx' = [c EXCEPT !.fillsize = 0]
    BY <1>2 DEF Streebog!streebog_final, c
  <2> QED BY <2>1, <2>2 DEF Streebog!streebog_state
<1> QED BY <1>1, <1>2

\* and what a call returns is the reference.
LEMMA StreebogReturnsReference ==
    ASSUME StreebogInv, phase = "absorbing", Streebog!streebog_final
    PROVE  out' = Streebog!Reference(ctx.digest_size, taken)
<1>1. ctx \in Streebog!streebog_state /\ taken \in Nat /\ Streebog!Represents(ctx, taken)
  BY StreebogBounds DEF StreebogInv, Streebog!TypeOK, Streebog!StateIsPrefix
<1> QED BY <1>1, StreebogFinalIsReference DEF Streebog!streebog_final

-----------------------------------------------------------------------------
(***************************************************************************)
(* The closed form WholeBlocks against the loop of streebog_update.        *)
(***************************************************************************)

\* Appending to a concatenation appends to its second part.
LEMMA StreebogAppendOfConcat ==
    ASSUME NEW S, NEW s \in Seq(S), NEW t \in Seq(S), NEW x \in S,
           NEW u, u = Append(t, x)
    PROVE  Append(s \o t, x) = s \o u
<1>1. <<x>> \in Seq(S)
  OBVIOUS
<1>2. s \o t \in Seq(S)
  BY ConcatProperties
<1>3. Append(s \o t, x) = (s \o t) \o <<x>>
  BY <1>2, AppendIsConcat
<1>4. u = t \o <<x>>
  BY AppendIsConcat
<1>5. (s \o t) \o <<x>> = s \o (t \o <<x>>)
  BY <1>1, ConcatAssociative
<1> QED BY <1>3, <1>4, <1>5, Zenon

\* streebog_add512 adds integers one after the other.
LEMMA StreebogAddNums ==
    ASSUME NEW x \in Streebog!U512, NEW a \in Int, NEW b \in Int
    PROVE  Streebog!streebog_add512(Streebog!streebog_add512(x, Streebog!Num(a)), Streebog!Num(b)) = Streebog!streebog_add512(x, Streebog!Num(a + b))
<1>1. x.blocks \o << >> = x.blocks
  BY ConcatEmptySeq DEF Streebog!U512
<1>2. \A n \in Int : Streebog!streebog_add512(x, Streebog!Num(n)) = [blocks |-> x.blocks, count |-> x.count + n]
  BY <1>1 DEF Streebog!streebog_add512, Streebog!Num
<1>3. \A n, k \in Int : Streebog!streebog_add512([blocks |-> x.blocks, count |-> k], Streebog!Num(n))
        = [blocks |-> x.blocks, count |-> k + n]
  BY <1>1 DEF Streebog!streebog_add512, Streebog!Num
<1>4. x.count \in Int
  BY DEF Streebog!U512
<1>5. x.count + a \in Int /\ (x.count + a) + b = x.count + (a + b) /\ a + b \in Int
  BY <1>4
<1> QED BY <1>2, <1>3, <1>5

\* streebog_g enters the compression in the log.
LEMMA StreebogGLog ==
    ASSUME NEW i, NEW l, NEW N, NEW m
    PROVE  Streebog!streebog_g([iv |-> i, log |-> l], N, m)
             = [iv |-> i, log |-> Append(l, [n |-> N, m |-> m])]
<1> DEFINE h == [iv |-> i, log |-> l]
           a == Append(l, [n |-> N, m |-> m])
<1>1. h.log = l
  OBVIOUS
<1> HIDE DEF h
<1>2. Streebog!streebog_g(h, N, m) = [h EXCEPT !.log = a]
  BY <1>1, Zenon DEF Streebog!streebog_g
<1> HIDE DEF a
<1>3. [h EXCEPT !.log = a] = [iv |-> i, log |-> a]
  BY DEF h
<1> QED BY <1>2, <1>3, Zenon DEF h, a

\* One turn more of the loop.
LEMMA StreebogLoopStep ==
    ASSUME NEW c \in Streebog!streebog_state, NEW data \in Int, NEW k \in Nat
    PROVE  Streebog!WholeBlocks(c, data, k + 1)
             = Streebog!streebog_stage2(Streebog!WholeBlocks(c, data, k), Streebog!BlockAt(data + k * StreebogBlock))
<1> DEFINE m == Streebog!BlockAt(data + k * StreebogBlock)
           block(j) == Streebog!BlockAt(data + (j - 1) * StreebogBlock)
           entry(j) == [n |-> Streebog!streebog_add512(c.N, Streebog!Num((j - 1) * Streebog!BlockBits)), m |-> Streebog!Word(block(j))]
           logs(i) == [j \in 1 .. i |-> entry(j)]
           sums(i) == [j \in 1 .. i |-> block(j)]
           d == Streebog!WholeBlocks(c, data, k)
           e == Streebog!WholeBlocks(c, data, k + 1)
           s == Streebog!streebog_stage2(d, m)
<1>1. /\ c.N \in Streebog!U512 /\ c.Sigma \in Streebog!U512 /\ c.h \in Streebog!Chain
      /\ c.h.log \in Seq(StreebogEntries)
  BY DEF Streebog!streebog_state, Streebog!Chain, StreebogEntries
<1>2. ASSUME NEW i \in Nat
      PROVE  /\ Streebog!WholeBlocks(c, data, i) = [c EXCEPT
                   !.h.log = @ \o logs(i),
                   !.N = Streebog!streebog_add512(@, Streebog!Num(i * Streebog!BlockBits)),
                   !.Sigma = Streebog!streebog_add512(@, [blocks |-> sums(i), count |-> 0])]
             /\ Streebog!WholeBlocks(c, data, i).N = Streebog!streebog_add512(c.N, Streebog!Num(i * Streebog!BlockBits))
             /\ Streebog!WholeBlocks(c, data, i).h = [c.h EXCEPT !.log = @ \o logs(i)]
             /\ Streebog!WholeBlocks(c, data, i).Sigma
               = Streebog!streebog_add512(c.Sigma, [blocks |-> sums(i), count |-> 0])
  BY DEF Streebog!WholeBlocks, Streebog!streebog_state
<1>3. ASSUME NEW j \in Int
      PROVE  block(j) \in Streebog!Buffers /\ entry(j) \in StreebogEntries
  <2>1. block(j) \in Streebog!Buffers
    BY Streebog!BlockAtType, StreebogBlockAssumption DEF Streebog!BlockSizeAssumption
  <2>2. Streebog!Num((j - 1) * Streebog!BlockBits) \in Streebog!U512
    BY StreebogNumType, StreebogBlockAssumption DEF Streebog!BlockBits
  <2> QED BY <1>1, <2>1, <2>2, StreebogWordType, StreebogAdd512Type DEF StreebogEntries
<1>4. m = block(k + 1) /\ entry(k + 1) = [n |-> d.N, m |-> Streebog!Word(m)]
  <2>1. (k + 1) - 1 = k
    OBVIOUS
  <2> HIDE DEF d
  <2> QED BY <2>1, <1>2 DEF d
<1> HIDE DEF m, block, entry, d, e
<1>5. /\ logs(k) \in [1 .. k -> StreebogEntries] /\ logs(k + 1) \in [1 .. k + 1 -> StreebogEntries]
      /\ sums(k) \in [1 .. k -> Streebog!Buffers] /\ sums(k + 1) \in [1 .. k + 1 -> Streebog!Buffers]
  BY <1>3
<1>6. Append(logs(k), entry(k + 1)) = logs(k + 1)
  <2> DEFINE f == logs(k + 1)
  <2>1. logs(k) = [j \in 1 .. k |-> f[j]] /\ entry(k + 1) = f[k + 1]
    OBVIOUS
  <2>2. f \in [1 .. k + 1 -> StreebogEntries]
    BY <1>5
  <2> HIDE DEF f, logs
  <2>3. Append([j \in 1 .. k |-> f[j]], f[k + 1]) = f
    BY <2>2, Streebog!AppendTable, StreebogBlockAssumption DEF Streebog!BlockSizeAssumption
  <2> QED BY <2>1, <2>3 DEF f
<1>7. Append(sums(k), block(k + 1)) = sums(k + 1)
  <2> DEFINE f == sums(k + 1)
  <2>1. sums(k) = [j \in 1 .. k |-> f[j]] /\ block(k + 1) = f[k + 1]
    OBVIOUS
  <2>2. f \in [1 .. k + 1 -> Streebog!Buffers]
    BY <1>5
  <2> HIDE DEF f, sums
  <2>3. Append([j \in 1 .. k |-> f[j]], f[k + 1]) = f
    BY <2>2, Streebog!AppendTable, StreebogBlockAssumption DEF Streebog!BlockSizeAssumption
  <2> QED BY <2>1, <2>3 DEF f
<1>8. logs(k) \in Seq(StreebogEntries) /\ sums(k) \in Seq(Streebog!Buffers)
  BY <1>5, SeqDef
<1> HIDE DEF logs, sums
<1>9. Append(c.h.log \o logs(k), entry(k + 1)) = c.h.log \o logs(k + 1)
  <2>1. entry(k + 1) \in StreebogEntries
    BY <1>3
  <2> DEFINE p == c.h.log  q == logs(k)  r == logs(k + 1)  x == entry(k + 1)
  <2>2. p \in Seq(StreebogEntries) /\ q \in Seq(StreebogEntries) /\ x \in StreebogEntries /\ r = Append(q, x)
    BY <1>1, <1>6, <1>8, <2>1
  <2> HIDE DEF p, q, r, x
  <2>3. Append(p \o q, x) = p \o r
    BY <2>2, StreebogAppendOfConcat
  <2> QED BY <2>3, Zenon DEF p, q, r, x
<1>10. Append(c.Sigma.blocks \o sums(k), block(k + 1)) = c.Sigma.blocks \o sums(k + 1)
  <2>1. block(k + 1) \in Streebog!Buffers /\ c.Sigma.blocks \in Seq(Streebog!Buffers)
    BY <1>1, <1>3 DEF Streebog!U512
  <2> DEFINE p == c.Sigma.blocks  q == sums(k)  r == sums(k + 1)  x == block(k + 1)
  <2>2. p \in Seq(Streebog!Buffers) /\ q \in Seq(Streebog!Buffers) /\ x \in Streebog!Buffers /\ r = Append(q, x)
    BY <1>7, <1>8, <2>1
  <2> HIDE DEF p, q, r, x
  <2>3. Append(p \o q, x) = p \o r
    BY <2>2, StreebogAppendOfConcat
  <2> QED BY <2>3, Zenon DEF p, q, r, x
<1>11. e.N = Streebog!streebog_add512(d.N, Streebog!buffer512)
  <2>1. k * Streebog!BlockBits \in Int /\ Streebog!BlockBits \in Int /\ k * Streebog!BlockBits + Streebog!BlockBits
          = (k + 1) * Streebog!BlockBits
    BY StreebogBlockAssumption DEF Streebog!BlockBits
  <2>2. Streebog!streebog_add512(Streebog!streebog_add512(c.N, Streebog!Num(k * Streebog!BlockBits)), Streebog!Num(Streebog!BlockBits))
          = Streebog!streebog_add512(c.N, Streebog!Num((k + 1) * Streebog!BlockBits))
    BY <1>1, <2>1, StreebogAddNums
  <2>3. d.N = Streebog!streebog_add512(c.N, Streebog!Num(k * Streebog!BlockBits)) /\ e.N
          = Streebog!streebog_add512(c.N, Streebog!Num((k + 1) * Streebog!BlockBits))
    <3>1. k \in Nat /\ k + 1 \in Nat
      OBVIOUS
    <3> QED BY <1>2, <3>1, Zenon DEF d, e
  <2> QED BY <2>2, <2>3, Zenon DEF Streebog!buffer512
<1>12. Streebog!streebog_add512(Streebog!streebog_add512(c.Sigma, [blocks |-> sums(k), count |-> 0]), Streebog!Word(m))
         = Streebog!streebog_add512(c.Sigma, [blocks |-> sums(k + 1), count |-> 0])
  <2>1. c.Sigma.blocks \o sums(k) \in Seq(Streebog!Buffers) /\ c.Sigma.blocks \in Seq(Streebog!Buffers)
    BY <1>1, <1>8, ConcatProperties DEF Streebog!U512
  <2>2. (c.Sigma.blocks \o sums(k)) \o <<m>> = c.Sigma.blocks \o sums(k + 1)
    <3>1. m \in Streebog!Buffers
      BY <1>3, <1>4
    <3>2. Append(c.Sigma.blocks \o sums(k), m) = (c.Sigma.blocks \o sums(k)) \o <<m>>
      BY <2>1, <3>1, AppendIsConcat, Zenon
    <3> QED BY <1>4, <1>10, <3>2, Zenon
  <2>3. (c.Sigma.count + 0) + 0 = c.Sigma.count + 0
    BY <1>1 DEF Streebog!U512
  <2> QED BY <2>2, <2>3 DEF Streebog!streebog_add512, Streebog!Word
<1>13. /\ d.h = [c.h EXCEPT !.log = @ \o logs(k)]
       /\ d.N = Streebog!streebog_add512(c.N, Streebog!Num(k * Streebog!BlockBits))
       /\ d.Sigma = Streebog!streebog_add512(c.Sigma, [blocks |-> sums(k), count |-> 0])
       /\ d = [c EXCEPT !.h = d.h, !.N = d.N, !.Sigma = d.Sigma]
  <2>1. k \in Nat
    OBVIOUS
  <2>2. /\ d = [c EXCEPT !.h = [c.h EXCEPT !.log = @ \o logs(k)],
                         !.N = Streebog!streebog_add512(c.N, Streebog!Num((k) * Streebog!BlockBits)),
                         !.Sigma = Streebog!streebog_add512(c.Sigma, [blocks |-> sums(k), count |-> 0])]
        /\ d.h = [c.h EXCEPT !.log = @ \o logs(k)]
        /\ d.N = Streebog!streebog_add512(c.N, Streebog!Num((k) * Streebog!BlockBits))
        /\ d.Sigma = Streebog!streebog_add512(c.Sigma, [blocks |-> sums(k), count |-> 0])
    BY <1>2, <2>1, Zenon DEF d
  <2> QED BY <2>2, Zenon
<1>14. /\ e.h = [c.h EXCEPT !.log = @ \o logs(k + 1)]
       /\ e.N = Streebog!streebog_add512(c.N, Streebog!Num((k + 1) * Streebog!BlockBits))
       /\ e.Sigma = Streebog!streebog_add512(c.Sigma, [blocks |-> sums(k + 1), count |-> 0])
       /\ e = [c EXCEPT !.h = e.h, !.N = e.N, !.Sigma = e.Sigma]
  <2>1. k + 1 \in Nat
    OBVIOUS
  <2>2. /\ e = [c EXCEPT !.h = [c.h EXCEPT !.log = @ \o logs(k + 1)],
                         !.N = Streebog!streebog_add512(c.N, Streebog!Num((k + 1) * Streebog!BlockBits)),
                         !.Sigma
                           = Streebog!streebog_add512(c.Sigma, [blocks |-> sums(k + 1), count |-> 0])]
        /\ e.h = [c.h EXCEPT !.log = @ \o logs(k + 1)]
        /\ e.N = Streebog!streebog_add512(c.N, Streebog!Num((k + 1) * Streebog!BlockBits))
        /\ e.Sigma = Streebog!streebog_add512(c.Sigma, [blocks |-> sums(k + 1), count |-> 0])
    BY <1>2, <2>1, Zenon DEF e
  <2> QED BY <2>2, Zenon
<1>15. Streebog!streebog_g(d.h, d.N, Streebog!Word(m)) = e.h
  <2>1. d.h = [iv |-> c.h.iv, log |-> c.h.log \o logs(k)] /\ e.h
          = [iv |-> c.h.iv, log |-> c.h.log \o logs(k + 1)]
    BY <1>1, <1>13, <1>14 DEF Streebog!Chain
  <2>2. Streebog!streebog_g(d.h, d.N, Streebog!Word(m))
          = [iv |-> c.h.iv, log |-> Append(c.h.log \o logs(k), [n |-> d.N, m |-> Streebog!Word(m)])]
    <3> DEFINE p == c.h.log \o logs(k)
               w == Streebog!Word(m)
    <3>1. d.h = [iv |-> c.h.iv, log |-> p]
      BY <2>1
    <3> HIDE DEF p, w
    <3>2. Streebog!streebog_g([iv |-> c.h.iv, log |-> p], d.N, w)
            = [iv |-> c.h.iv, log |-> Append(p, [n |-> d.N, m |-> w])]
      BY StreebogGLog
    <3>3. Streebog!streebog_g(d.h, d.N, w) = [iv |-> c.h.iv, log |-> Append(p, [n |-> d.N, m |-> w])]
      BY <3>1, <3>2, Zenon
    <3> QED BY <3>3, Zenon DEF p, w
  <2> QED BY <1>4, <1>9, <2>1, <2>2, Zenon
<1>16. Streebog!streebog_add512(d.Sigma, Streebog!Word(m)) = e.Sigma
  BY <1>12, <1>13, <1>14, Zenon
<1>17. Streebog!streebog_stage2(d, m) = [d EXCEPT !.h = e.h, !.N = e.N, !.Sigma = e.Sigma]
  BY <1>11, <1>15, <1>16, Zenon DEF Streebog!streebog_stage2
<1>18. [d EXCEPT !.h = e.h, !.N = e.N, !.Sigma = e.Sigma] = e
  <2> DEFINE dh == d.h  dN == d.N  dS == d.Sigma  eh == e.h  eN == e.N  eS == e.Sigma
  <2>1. d = [c EXCEPT !.h = dh, !.N = dN, !.Sigma = dS] /\ e
          = [c EXCEPT !.h = eh, !.N = eN, !.Sigma = eS]
    BY <1>13, <1>14
  <2> HIDE DEF dh, dN, dS, eh, eN, eS
  <2>2. [d EXCEPT !.h = eh, !.N = eN, !.Sigma = eS] = e
    BY <2>1 DEF Streebog!streebog_state
  <2> QED BY <2>2 DEF eh, eN, eS
<1> QED BY <1>17, <1>18 DEF d, e, m

\* WholeBlocks is the loop of update: the context after k turns, each through
\* streebog_stage2 with the next block of the input.
THEOREM StreebogLoopTheorem ==
    ASSUME NEW c \in Streebog!streebog_state, NEW data \in Int, NEW k \in Nat,
           NEW turn, turn[0] = c,
           \A j \in 0 .. k - 1 :
               turn[j + 1] = Streebog!streebog_stage2(turn[j], Streebog!BlockAt(data + j * StreebogBlock))
    PROVE  turn[k] = Streebog!WholeBlocks(c, data, k)
<1> DEFINE S == {j \in Nat : turn[j] = Streebog!WholeBlocks(c, data, j)}
<1>1. 0 \in S
  <2> DEFINE none(j) == [n |-> Streebog!streebog_add512(c.N, Streebog!Num((j - 1) * Streebog!BlockBits)),
                         m |-> Streebog!Word(Streebog!BlockAt(data + (j - 1) * StreebogBlock))]
             noBlock(j) == Streebog!BlockAt(data + (j - 1) * StreebogBlock)
  <2>1. [j \in 1 .. 0 |-> none(j)] = << >> /\ [j \in 1 .. 0 |-> noBlock(j)] = << >>
    OBVIOUS
  <2>2. /\ c.N \in Streebog!U512 /\ c.Sigma \in Streebog!U512 /\ c.h \in Streebog!Chain
        /\ c.h.log \in Seq([n : Streebog!U512, m : Streebog!U512])
        /\ c.N.blocks \in Seq(Streebog!Buffers) /\ c.Sigma.blocks \in Seq(Streebog!Buffers)
    BY DEF Streebog!streebog_state, Streebog!Chain, Streebog!U512
  <2>3. c.h.log \o << >> = c.h.log
    BY <2>2, ConcatEmptySeq, Zenon
  <2>4. c.N.blocks \o << >> = c.N.blocks /\ c.Sigma.blocks \o << >> = c.Sigma.blocks
    BY <2>2, ConcatEmptySeq, Zenon
  <2>5. 0 * Streebog!BlockBits = 0
    BY StreebogBlockAssumption DEF Streebog!BlockBits
  <2>6. Streebog!streebog_add512(c.N, Streebog!Num(0)) = c.N
    BY <2>2, <2>4 DEF Streebog!streebog_add512, Streebog!Num, Streebog!U512
  <2>7. Streebog!streebog_add512(c.Sigma, [blocks |-> << >>, count |-> 0]) = c.Sigma
    BY <2>2, <2>4 DEF Streebog!streebog_add512, Streebog!U512
  <2>8. Streebog!WholeBlocks(c, data, 0) = [c EXCEPT
                   !.h.log = @ \o [j \in 1 .. 0 |-> none(j)],
                   !.N = Streebog!streebog_add512(@, Streebog!Num(0 * Streebog!BlockBits)),
                   !.Sigma = Streebog!streebog_add512(@, [blocks |-> [j \in 1 .. 0 |-> noBlock(j)], count |-> 0])]
    BY DEF Streebog!WholeBlocks
  <2> HIDE DEF none, noBlock
  <2>9. Streebog!WholeBlocks(c, data, 0)
          = [c EXCEPT !.h = [c.h EXCEPT !.log = c.h.log], !.N = c.N, !.Sigma = c.Sigma]
    BY <2>1, <2>3, <2>5, <2>6, <2>7, <2>8
  <2>10. Streebog!WholeBlocks(c, data, 0) = c
    <3>1. [c.h EXCEPT !.log = c.h.log] = c.h
      BY <2>2 DEF Streebog!Chain
    <3>2. Streebog!WholeBlocks(c, data, 0) = [c EXCEPT !.h = c.h, !.N = c.N, !.Sigma = c.Sigma]
      BY <2>9, <3>1, Zenon
    <3>3. [c EXCEPT !.h = c.h, !.N = c.N, !.Sigma = c.Sigma] = c
      BY DEF Streebog!streebog_state
    <3> QED BY <3>2, <3>3, Zenon
  <2> QED BY <2>10
<1>2. ASSUME NEW j \in 0 .. k - 1, j \in S
      PROVE  j + 1 \in S
  BY <1>2, StreebogLoopStep
<1>3. \A j \in 0 .. k : j \in S
  <2> HIDE DEF S
  <2> QED BY <1>1, <1>2, Streebog!Induction, StreebogBlockAssumption
     DEF Streebog!BlockSizeAssumption
<1> QED BY <1>3

-----------------------------------------------------------------------------
(***************************************************************************)
(* The five together.                                                      *)
(***************************************************************************)

\* The inductive invariant: that of the primitive that is checked.  Those
\* that do not use param leave it alone.
IInv ==
    /\ unit \in {"blake2s", "poly1305", "sha1", "gost3411_94", "streebog"}
    /\ unit = "blake2s" => BlakeInv
    /\ unit = "poly1305" => PolyInv
    /\ unit = "sha1" => ShaInv /\ param = "none"
    /\ unit = "gost3411_94" => GostInv /\ param = "none"
    /\ unit = "streebog" => StreebogInv /\ param = "none"

\* The invariant of the primitive in use holds at first,
LEMMA InitIInv == Init => IInv
<1> SUFFICES ASSUME Init
             PROVE  IInv
  OBVIOUS
<1> USE ConstantsAssumption
<1>1. CASE unit = "blake2s" /\ Blake!Init
  BY <1>1, BlakeInitInv DEF IInv, ConstantsAssumption
<1>2. CASE unit = "poly1305" /\ Poly!Init
  BY <1>2, PolyInitInv DEF IInv, ConstantsAssumption
<1>3. CASE unit = "sha1" /\ Sha!Init /\ param = "none"
  BY <1>3, ShaInitInv DEF IInv, ConstantsAssumption
<1>4. CASE unit = "gost3411_94" /\ Gost!Init /\ param = "none"
  BY <1>4, GostInitInv DEF IInv, ConstantsAssumption
<1>5. CASE unit = "streebog" /\ Streebog!Init /\ param = "none"
  BY <1>5, StreebogInitInv DEF IInv
<1> QED BY <1>1, <1>2, <1>3, <1>4, <1>5 DEF Init

\* and is preserved by every call to it.
LEMMA StepIInv ==
    ASSUME IInv, [Next]_vars
    PROVE  IInv'
<1> USE ConstantsAssumption
<1>1. CASE Blake2sStep
  <2>1. BlakeInv'
    BY <1>1, BlakeStepInv DEF IInv, Blake2sStep, ConstantsAssumption
  <2> QED BY <1>1, <2>1 DEF IInv, Blake2sStep
<1>2. CASE Poly1305Step
  <2>1. PolyInv'
    BY <1>2, PolyStepInv DEF IInv, Poly1305Step, ConstantsAssumption
  <2> QED BY <1>2, <2>1 DEF IInv, Poly1305Step
<1>3. CASE Sha1Step
  <2>1. ShaInv'
    BY <1>3, ShaStepInv DEF IInv, Sha1Step, ConstantsAssumption
  <2> QED BY <1>3, <2>1 DEF IInv, Sha1Step
<1>4. CASE Gost3411_94Step
  <2>1. GostInv'
    BY <1>4, GostStepInv DEF IInv, Gost3411_94Step, ConstantsAssumption
  <2> QED BY <1>4, <2>1 DEF IInv, Gost3411_94Step
<1>6. CASE StreebogStep
  <2>1. StreebogInv'
    BY <1>6, StreebogStepInv DEF IInv, StreebogStep
  <2> QED BY <1>6, <2>1 DEF IInv, StreebogStep
<1>5. CASE UNCHANGED vars
  <2>1. BlakeInv => BlakeInv'
    BY <1>5 DEF vars, BlakeInv, Blake!TypeOK, Blake!StateIsPrefix
  <2>2. PolyInv => PolyInv'
    BY <1>5 DEF vars, PolyInv, Poly!TypeOK, Poly!StateIsPrefix
  <2>3. ShaInv => ShaInv'
    BY <1>5 DEF vars, ShaInv, Sha!TypeOK, Sha!StateIsPrefix
  <2>4. GostInv => GostInv'
    BY <1>5 DEF vars, GostInv, Gost!TypeOK, Gost!StateIsPrefix
  <2>5. unit' = unit /\ param' = param
    BY <1>5 DEF vars
  <2>6. StreebogInv => StreebogInv'
    BY <1>5 DEF vars, StreebogInv, Streebog!TypeOK, Streebog!StateIsPrefix
  <2> QED BY <2>1, <2>2, <2>3, <2>4, <2>5, <2>6 DEF IInv
<1> QED BY <1>1, <1>2, <1>3, <1>4, <1>5, <1>6 DEF Next

\* The inductive invariant holds in every reachable state: the context of the
\* primitive in use is well-typed and at the position its input belongs to.
THEOREM Invariance == Spec => []IInv
BY InitIInv, StepIInv, PTL DEF Spec

\* No buffer ever holds more than the code's branches count on, and no counter
\* leaves its width, whatever is called in whatever order.
THEOREM TypeCorrect == Spec => []TypeOK
<1>1. IInv => TypeOK
  BY DEF IInv, TypeOK, BlakeInv, PolyInv, ShaInv, GostInv, StreebogInv
<1> QED BY <1>1, Invariance, PTL

\* At every moment of an absorption the blocks compressed, the buffer and the
\* counters are those of the bytes fed so far, for every block size, every
\* width of a counter and every way to cut the message.
THEOREM ContextIsPrefix == Spec => []StateIsPrefix
<1>1. IInv => TypeOK
  BY DEF IInv, TypeOK, BlakeInv, PolyInv, ShaInv, GostInv, StreebogInv
<1>2. IInv => StateIsPrefix
  BY <1>1 DEF IInv, StateIsPrefix, BlakeInv, PolyInv, ShaInv, GostInv, StreebogInv
<1> QED BY <1>2, Invariance, PTL

-----------------------------------------------------------------------------
(***************************************************************************)
(* They implement the abstract digest.                                     *)
(***************************************************************************)

\* What the abstract digest returns for the parameters of a call.
LEMMA DigestAt ==
    ASSUME IInv
    PROVE  /\ taken \in Nat
           /\ Parameter \in AllParams
           /\ phase \in {"absorbing", "spent"}
<1> USE ConstantsAssumption
<1>1. MaxTaken \in Nat
  BY DEF ConstantsAssumption, Blake!LensAssumption
<1>2. CASE unit = "blake2s"
  BY <1>1, <1>2 DEF IInv, BlakeInv, Blake!TypeOK, AllParams, Parameter
<1>3. CASE unit = "poly1305"
  BY <1>1, <1>3 DEF IInv, PolyInv, Poly!TypeOK, AllParams, Parameter
<1>4. CASE unit = "sha1"
  BY <1>1, <1>4 DEF IInv, ShaInv, Sha!TypeOK, AllParams, Parameter
<1>5. CASE unit = "gost3411_94"
  BY <1>1, <1>5 DEF IInv, GostInv, Gost!TypeOK, AllParams, Parameter
<1>6. CASE unit = "streebog"
  <2>1. ctx.digest_size \in Streebog!Sizes
    BY <1>6 DEF IInv, StreebogInv, Streebog!TypeOK, Streebog!streebog_state
  <2> QED BY <1>1, <1>6, <2>1 DEF IInv, StreebogInv, Streebog!TypeOK, AllParams, Parameter
<1> QED BY <1>2, <1>3, <1>4, <1>5, <1>6 DEF IInv

\* A final of an absorbing context is the Finish of the abstract digest.
LEMMA FinishRefines ==
    ASSUME IInv, phase = "absorbing", phase' = "spent", out' = Reference(Parameter, taken),
           UNCHANGED <<Parameter, taken>>
    PROVE  Abstract!Finish
<1> DEFINE D == [p \in AllParams |-> [t \in Nat |-> Reference(p, t)]]
<1>1. D[Parameter] = [t \in Nat |-> Reference(Parameter, t)]
  BY DigestAt
<1>2. D[Parameter][taken] = Reference(Parameter, taken)
  BY <1>1, DigestAt
<1> QED BY <1>2 DEF Abstract!Finish

\* An init is the initial state of the abstract digest.
LEMMA InitRefines == Init => Abstract!Init
<1> SUFFICES ASSUME Init
             PROVE  Abstract!Init
  OBVIOUS
<1>1. Parameter \in AllParams
  BY InitIInv, DigestAt
<1>2. phase = "absorbing" /\ taken = 0
  BY DEF Init, Blake!Init, Poly!Init, Sha!Init, Gost!Init, Streebog!Init
<1> QED BY <1>1, <1>2 DEF Abstract!Init

\* Any other call with a finished context leaves its view alone.
LEMMA MisuseRefines ==
    ASSUME IInv, phase # "absorbing", UNCHANGED <<phase, Parameter>>
    PROVE  Abstract!Misuse
BY DigestAt DEF Abstract!Misuse

\* An init, whatever the context was used for before.
LEMMA StartRefines ==
    ASSUME IInv', phase' = "absorbing", taken' = 0, out' = out
    PROVE  Abstract!Start
<1>1. (IInv => Parameter \in AllParams)'
  BY DigestAt, PTL
<1> QED BY <1>1 DEF Abstract!Start

\* An update of an absorbing context.
LEMMA AbsorbRefines ==
    ASSUME IInv, phase = "absorbing", UNCHANGED <<phase, Parameter, out>>,
           NEW n \in Nat, taken' = taken + n
    PROVE  Abstract!Absorb
BY DigestAt DEF Abstract!Absorb

\* Every call maps to a step of the abstract digest or to a stutter.
LEMMA StepRefines ==
    ASSUME IInv, IInv', [Next]_vars
    PROVE  [Abstract!Next]_(Abstract!vars)
<1> USE ConstantsAssumption
<1> DEFINE Goal == Abstract!Next
<1>9. /\ unit # "streebog" => Parameter = <<unit, param>>
      /\ unit # "streebog" /\ UNCHANGED <<unit, param>> => UNCHANGED Parameter
  BY DEF Parameter
<1>0. MaxTaken \in Nat /\ 0 .. MaxTaken \subseteq Nat
  BY DEF ConstantsAssumption, Blake!LensAssumption
<1>1. CASE Blake2sStep
  <2>1. ASSUME NEW p \in Blake!Params, Blake!blake2s_init(p)
        PROVE  Goal
    BY <2>1, StartRefines DEF Blake!blake2s_init, Abstract!Next
  <2>2. ASSUME NEW n \in 0 .. MaxTaken, Blake!blake2s_update(n)
        PROVE  Goal
    BY <1>0, <1>1, <2>2, <1>9, AbsorbRefines, MisuseRefines
       DEF Blake!blake2s_update, Blake2sStep, Abstract!Next
  <2>3. ASSUME Blake!blake2s_final, phase = "absorbing"
        PROVE  Goal
    <3>1. out' = Blake!Reference(param, taken)
      BY <1>1, <2>3, BlakeReturnsReference DEF IInv, Blake2sStep, ConstantsAssumption
    <3>2. Reference(<<unit, param>>, taken) = Blake!Reference(param, taken)
      BY <1>1 DEF Reference, Blake2sStep
    <3> QED BY <1>1, <2>3, <3>1, <3>2, <1>9, FinishRefines
       DEF Blake!blake2s_final, Blake2sStep, Abstract!Next
  <2>4. ASSUME Blake!blake2s_final, phase # "absorbing"
        PROVE  Goal
    <3>1. phase = "spent"
      BY <2>4, DigestAt
    <3> QED BY <1>1, <2>4, <3>1, <1>9, MisuseRefines
       DEF Blake!blake2s_final, Blake2sStep, Abstract!Next
  <2> QED BY <1>1, <2>1, <2>2, <2>3, <2>4 DEF Blake2sStep, Blake!Next
<1>2. CASE Poly1305Step
  <2>1. ASSUME NEW key \in Keys, Poly!poly1305_init(key)
        PROVE  Goal
    BY <2>1, StartRefines DEF Poly!poly1305_init, Abstract!Next
  <2>2. ASSUME NEW n \in 0 .. MaxTaken, Poly!poly1305_update(n)
        PROVE  Goal
    BY <1>0, <1>2, <2>2, <1>9, AbsorbRefines, MisuseRefines
       DEF Poly!poly1305_update, Poly1305Step, Abstract!Next
  <2>3. ASSUME Poly!poly1305_final, phase = "absorbing"
        PROVE  Goal
    <3>1. out' = Poly!Reference(param, taken)
      BY <1>2, <2>3, PolyReturnsReference DEF IInv, Poly1305Step, ConstantsAssumption
    <3>2. Reference(<<unit, param>>, taken) = Poly!Reference(param, taken)
      BY <1>2 DEF Reference, Poly1305Step
    <3> QED BY <1>2, <2>3, <3>1, <3>2, <1>9, FinishRefines
       DEF Poly!poly1305_final, Poly1305Step, Abstract!Next
  <2>4. ASSUME Poly!poly1305_final, phase # "absorbing"
        PROVE  Goal
    <3>1. phase = "spent"
      BY <2>4, DigestAt
    <3> QED BY <1>2, <2>4, <3>1, <1>9, MisuseRefines
       DEF Poly!poly1305_final, Poly1305Step, Abstract!Next
  <2> QED BY <1>2, <2>1, <2>2, <2>3, <2>4 DEF Poly1305Step, Poly!Next
<1>3. CASE Sha1Step
  <2>1. ASSUME Sha!sha1_init
        PROVE  Goal
    BY <2>1, StartRefines DEF Sha!sha1_init, Abstract!Next
  <2>2. ASSUME NEW n \in 0 .. MaxTaken, Sha!sha1_update(n)
        PROVE  Goal
    BY <1>0, <1>3, <2>2, <1>9, AbsorbRefines, MisuseRefines
       DEF Sha!sha1_update, Sha1Step, Abstract!Next
  <2>3. ASSUME Sha!sha1_final, phase = "absorbing"
        PROVE  Goal
    <3>1. out' = Sha!Reference(taken)
      BY <1>3, <2>3, ShaReturnsReference DEF IInv, Sha1Step, ConstantsAssumption
    <3>2. Reference(<<unit, param>>, taken) = Sha!Reference(taken)
      BY <1>3 DEF Reference, Sha1Step
    <3> QED BY <1>3, <2>3, <3>1, <3>2, <1>9, FinishRefines
       DEF Sha!sha1_final, Sha1Step, Abstract!Next
  <2>4. ASSUME Sha!sha1_final, phase # "absorbing"
        PROVE  Goal
    <3>1. phase = "spent"
      BY <2>4, DigestAt
    <3> QED BY <1>3, <2>4, <3>1, <1>9, MisuseRefines
       DEF Sha!sha1_final, Sha1Step, Abstract!Next
  <2> QED BY <1>3, <2>1, <2>2, <2>3, <2>4 DEF Sha1Step, Sha!Next
<1>4. CASE Gost3411_94Step
  <2>1. ASSUME Gost!Call
        PROVE  Goal
    BY <2>1, StartRefines DEF Gost!Call, Abstract!Next
  <2>2. ASSUME NEW n \in 0 .. MaxTaken, Gost!Part(n)
        PROVE  Goal
    BY <1>0, <1>4, <2>2, <1>9, AbsorbRefines DEF Gost!Part, Gost3411_94Step, Abstract!Next
  <2>3. ASSUME Gost!Return
        PROVE  Goal
    <3>1. out' = Gost!Reference(taken)
      BY <1>4, <2>3, GostReturnsReference DEF IInv, Gost3411_94Step, ConstantsAssumption
    <3>2. Reference(<<unit, param>>, taken) = Gost!Reference(taken)
      BY <1>4 DEF Reference, Gost3411_94Step
    <3> QED BY <1>4, <2>3, <3>1, <3>2, <1>9, FinishRefines
       DEF Gost!Return, Gost3411_94Step, Abstract!Next
  <2> QED BY <1>4, <2>1, <2>2, <2>3 DEF Gost3411_94Step, Gost!Next
<1>5. CASE StreebogStep
  <2>1. ASSUME NEW bits \in {256, 512}, Streebog!streebog_init(bits)
        PROVE  Goal
    BY <2>1, StartRefines DEF Streebog!streebog_init, Abstract!Next
  <2>2. ASSUME Streebog!streebog_final \/ \E n \in 0 .. MaxTaken : Streebog!streebog_update(n)
        PROVE  UNCHANGED Parameter
    <3>1. ctx'.digest_size = ctx.digest_size
      BY <1>5, <2>2, StreebogSizeKept DEF IInv, StreebogStep
    <3> QED BY <1>5, <3>1 DEF Parameter, StreebogStep
  <2>3. ASSUME NEW n \in 0 .. MaxTaken, Streebog!streebog_update(n)
        PROVE  Goal
    <3>1. UNCHANGED Parameter
      BY <2>2, <2>3
    <3> QED BY <1>0, <2>3, <3>1, AbsorbRefines, MisuseRefines
       DEF Streebog!streebog_update, Abstract!Next
  <2>4. ASSUME Streebog!streebog_final, phase = "absorbing"
        PROVE  Goal
    <3>1. out' = Streebog!Reference(ctx.digest_size, taken)
      BY <1>5, <2>4, StreebogReturnsReference DEF IInv, StreebogStep
    <3>2. Reference(Parameter, taken) = Streebog!Reference(ctx.digest_size, taken)
      BY <1>5 DEF Reference, Parameter, StreebogStep
    <3>3. UNCHANGED Parameter
      BY <2>2, <2>4
    <3> QED BY <2>4, <3>1, <3>2, <3>3, FinishRefines DEF Streebog!streebog_final, Abstract!Next
  <2>5. ASSUME Streebog!streebog_final, phase # "absorbing"
        PROVE  Goal
    <3>1. phase = "spent"
      BY <2>5, DigestAt
    <3>2. UNCHANGED Parameter
      BY <2>2, <2>5
    <3> QED BY <2>5, <3>1, <3>2, MisuseRefines DEF Streebog!streebog_final, Abstract!Next
  <2> QED BY <1>5, <2>1, <2>3, <2>4, <2>5 DEF StreebogStep, Streebog!Next
<1>6. CASE UNCHANGED vars
  BY <1>6 DEF vars, Abstract!vars, Parameter
<1> QED BY <1>1, <1>2, <1>3, <1>4, <1>5, <1>6 DEF Next

\* What final returns is the digest of the concatenated updates under the
\* parameters of the last init, for each of the five primitives, for every
\* block size and bound, and whatever the context was used for before.
THEOREM DigestsImplement == Spec => ImplementsDigest
<1>1. Init => Abstract!Init
  BY InitRefines
<1>2. IInv /\ IInv' /\ [Next]_vars => [Abstract!Next]_(Abstract!vars)
  BY StepRefines
<1> QED BY <1>1, <1>2, Invariance, PTL DEF Spec, ImplementsDigest, Abstract!Spec

=============================================================================
