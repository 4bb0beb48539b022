----------------------------- MODULE ByteBlocks -----------------------------
(***************************************************************************)
(* Bytes, buffers and blocks, as the streaming primitives of libpogost     *)
(* handle them.                                                            *)
(*                                                                         *)
(* The bytes a caller feeds to one context form a stream.  A byte of the   *)
(* stream is represented by its position 1, 2, 3, ...: all bytes of the    *)
(* message are then different, so a model that drops, repeats or reorders  *)
(* one is told apart from a model that does not.  A byte the code writes   *)
(* itself (padding, lengths) is represented by the negation of its value.  *)
(* A `data` pointer is the position of the byte it points to.              *)
(***************************************************************************)
EXTENDS Integers, Sequences, SequenceTheorems, WellFoundedInduction, TLAPS

CONSTANT BlockSize      \* bytes in a block of the primitive

BlockSizeAssumption == BlockSize \in Nat \ {0}

Index == 0 .. BlockSize - 1

\* A byte written by the code: 0x00 and the two padding markers.
Lit(v) == -v
Zero == Lit(0)

\* A block, or the buffer of a context: the old content of a buffer stays in
\* it until it is overwritten.
Buffers == [Index -> Int]
ZeroBlock == [i \in Index |-> Zero]

\* The block that starts at pointer data of the stream.
BlockAt(data) == [i \in Index |-> data + i]

\* memcpy(buf + off, data, n)
Copy(buf, off, data, n) ==
    [i \in Index |-> IF i \in off .. off + n - 1 THEN data + (i - off) ELSE buf[i]]

\* memset(buf + off, v, n)
Fill(buf, off, v, n) ==
    [i \in Index |-> IF i \in off .. off + n - 1 THEN v ELSE buf[i]]

\* The first n bytes of the buffer are those of the stream from pointer p on.
Holds(buf, n, p) == \A i \in 0 .. n - 1 : buf[i] = p + i

-----------------------------------------------------------------------------
(***************************************************************************)
(* Facts about them, for the proofs about the primitives.                  *)
(***************************************************************************)

\* memcpy keeps a buffer a buffer, and so
LEMMA CopyType ==
    ASSUME BlockSizeAssumption, NEW b \in Buffers, NEW off \in Int, NEW data \in Int, NEW n \in Int
    PROVE  Copy(b, off, data, n) \in Buffers
BY DEF BlockSizeAssumption, Copy, Buffers, Index

\* memset does.
LEMMA FillType ==
    ASSUME BlockSizeAssumption, NEW b \in Buffers, NEW off \in Int, NEW v \in Int, NEW n \in Int
    PROVE  Fill(b, off, v, n) \in Buffers
BY DEF BlockSizeAssumption, Fill, Buffers, Index

\* A block of the stream is a block.
LEMMA BlockAtType ==
    ASSUME BlockSizeAssumption, NEW data \in Int
    PROVE  BlockAt(data) \in Buffers
BY DEF BlockSizeAssumption, BlockAt, Buffers, Index

\* A buffer whose first off bytes are those before pointer data holds off + n
\* bytes of the stream after the next n bytes were copied behind them.
LEMMA CopyExtends ==
    ASSUME BlockSizeAssumption, NEW b, NEW off \in Nat, NEW n \in Nat, off + n <= BlockSize, NEW data \in Int,
           Holds(b, off, data - off)
    PROVE  Holds(Copy(b, off, data, n), off + n, data - off)
<1> SUFFICES ASSUME NEW i \in 0 .. off + n - 1
             PROVE  Copy(b, off, data, n)[i] = data - off + i
  BY DEF Holds
<1>1. i \in Index
  BY DEF BlockSizeAssumption, Index
<1>2. Copy(b, off, data, n)[i] = IF i \in off .. off + n - 1 THEN data + (i - off) ELSE b[i]
  BY <1>1 DEF Copy
<1>3. CASE i < off
  BY <1>2, <1>3 DEF Holds
<1>4. CASE i >= off
  BY <1>2, <1>4
<1> QED BY <1>3, <1>4

\* A buffer that holds a whole block of the stream is that block.
LEMMA FullBuffer ==
    ASSUME NEW b \in Buffers, NEW p \in Int, Holds(b, BlockSize, p)
    PROVE  b = BlockAt(p)
BY DEF Buffers, BlockAt, Index, Holds

\* Every buffer holds the first zero bytes.
LEMMA HoldsNothing ==
    ASSUME NEW b, NEW p
    PROVE  Holds(b, 0, p)
BY DEF Holds

\* Quotient and remainder by the block size,
LEMMA DivMod ==
    ASSUME BlockSizeAssumption, NEW n \in Nat
    PROVE  /\ n \div BlockSize \in Nat
           /\ n % BlockSize \in Index
           /\ n = (n \div BlockSize) * BlockSize + (n % BlockSize)
BY DEF BlockSizeAssumption, Index

\* and how to compute them.
LEMMA DivModUnique ==
    ASSUME BlockSizeAssumption, NEW k \in Nat, NEW r \in Index
    PROVE  /\ (k * BlockSize + r) \div BlockSize = k
           /\ (k * BlockSize + r) % BlockSize = r
BY DEF BlockSizeAssumption, Index

\* A table of k + 1 entries is the table of the first k with the last appended,
LEMMA AppendTable ==
    ASSUME NEW S, NEW k \in Nat, NEW f \in [1 .. k + 1 -> S]
    PROVE  Append([j \in 1 .. k |-> f[j]], f[k + 1]) = f
<1> DEFINE g == [j \in 1 .. k |-> f[j]]
<1>1. g \in Seq(S) /\ Len(g) = k
  <2>1. g \in [1 .. k -> S]
    OBVIOUS
  <2> QED BY <2>1, SeqDef, LenProperties
<1>2. f[k + 1] \in S
  OBVIOUS
<1>3. /\ Append(g, f[k + 1]) \in [1 .. k + 1 -> S]
      /\ \A j \in 1 .. k : Append(g, f[k + 1])[j] = g[j]
      /\ Append(g, f[k + 1])[k + 1] = f[k + 1]
  <2> HIDE DEF g
  <2>1. /\ Append(g, f[k + 1]) \in Seq(S)
        /\ Len(Append(g, f[k + 1])) = k + 1
        /\ \A j \in 1 .. k : Append(g, f[k + 1])[j] = g[j]
        /\ Append(g, f[k + 1])[k + 1] = f[k + 1]
    BY <1>1, <1>2, AppendProperties
  <2> QED BY <2>1, LenProperties
<1>4. \A j \in 1 .. k + 1 : Append(g, f[k + 1])[j] = f[j]
  BY <1>3
<1> QED BY <1>3, <1>4

\* and a table of k + n entries is the concatenation of two.
LEMMA ConcatTable ==
    ASSUME NEW S, NEW k \in Nat, NEW n \in Nat, NEW f \in [1 .. k + n -> S]
    PROVE  [j \in 1 .. k |-> f[j]] \o [j \in 1 .. n |-> f[k + j]] = f
<1> DEFINE g == [j \in 1 .. k |-> f[j]]
           h == [j \in 1 .. n |-> f[k + j]]
<1>1. g \in Seq(S) /\ Len(g) = k
  <2>1. g \in [1 .. k -> S]
    OBVIOUS
  <2> QED BY <2>1, SeqDef, LenProperties
<1>2. h \in Seq(S) /\ Len(h) = n
  <2>1. h \in [1 .. n -> S]
    OBVIOUS
  <2> QED BY <2>1, SeqDef, LenProperties
<1>3. /\ g \o h \in [1 .. k + n -> S]
      /\ \A j \in 1 .. k + n : (g \o h)[j] = IF j <= k THEN g[j] ELSE h[j - k]
  <2> HIDE DEF g, h
  <2>1. g \o h \in Seq(S) /\ Len(g \o h) = k + n
    BY <1>1, <1>2, ConcatProperties
  <2>2. \A j \in 1 .. k + n : (g \o h)[j] = IF j <= k THEN g[j] ELSE h[j - k]
    BY <1>1, <1>2, ConcatProperties
  <2> QED BY <2>1, <2>2, LenProperties
<1>4. \A j \in 1 .. k + n : (g \o h)[j] = f[j]
  BY <1>3
<1> QED BY <1>3, <1>4

\* A set of numbers that is not empty has a least element.
LEMMA LeastNumber ==
    ASSUME NEW T, T \subseteq Nat, T # {}
    PROVE  \E x \in T : \A y \in T : x <= y
<1> DEFINE R == OpToRel(<, Nat)
<1>1. IsWellFoundedOn(R, Nat)
  BY NatLessThanWellFounded
<1>2. \A x, y \in Nat : <<x, y>> \in R <=> x < y
  BY DEF OpToRel
<1> HIDE DEF R
<1>3. PICK x \in T : \A y \in T : <<y, x>> \notin R
  BY <1>1, WFMin
<1>4. ASSUME NEW y \in T PROVE x <= y
  <2>1. x \in Nat /\ y \in Nat
    OBVIOUS
  <2>2. ~ (y < x)
    BY <1>2, <1>3, <2>1
  <2> QED BY <2>1, <2>2
<1> QED BY <1>4

\* Induction up to n, for a set in the place of a predicate.
LEMMA Induction ==
    ASSUME NEW n \in Nat, NEW S, 0 \in S, \A k \in 0 .. n - 1 : k \in S => k + 1 \in S
    PROVE  \A k \in 0 .. n : k \in S
<1> DEFINE T == {k \in 0 .. n : k \notin S}
<1> SUFFICES ASSUME T # {} PROVE FALSE
  OBVIOUS
<1>1. T \subseteq Nat
  OBVIOUS
<1>2. PICK x \in T : \A y \in T : x <= y
  <2> HIDE DEF T
  <2> QED BY <1>1, LeastNumber
<1>3. x \in 1 .. n
  OBVIOUS
<1>4. x - 1 \in 0 .. n - 1 /\ x - 1 \notin T
  BY <1>2, <1>3
<1>5. (x - 1) + 1 \in S
  BY <1>4
<1> QED BY <1>5, <1>3

\* What a loop of n turns goes through that begins with x, each turn a function
\* of what the turn before it left.
Iterates(f, n, S, x, turn) ==
    f \in [0 .. n -> S] /\ f[0] = x /\ \A i \in 1 .. n : f[i] = turn[i][f[i - 1]]

\* There is such a function,
LEMMA Iteration ==
    ASSUME NEW n \in Nat, NEW S, NEW x \in S, NEW turn \in [1 .. n -> [S -> S]]
    PROVE  \E f : Iterates(f, n, S, x, turn)
<1> DEFINE Upto(k) == \E f \in [0 .. k -> S] :
                         f[0] = x /\ \A i \in 1 .. k : f[i] = turn[i][f[i - 1]]
           T == {k \in 0 .. n : Upto(k)}
<1>1. 0 \in T
  <2> DEFINE f == [i \in 0 .. 0 |-> x]
  <2>1. f \in [0 .. 0 -> S] /\ f[0] = x /\ \A i \in 1 .. 0 : f[i] = turn[i][f[i - 1]]
    OBVIOUS
  <2> HIDE DEF f
  <2> QED BY <2>1
<1>2. ASSUME NEW k \in 0 .. n - 1, k \in T
      PROVE  k + 1 \in T
  <2>1. PICK f \in [0 .. k -> S] : f[0] = x /\ \A i \in 1 .. k : f[i] = turn[i][f[i - 1]]
    BY <1>2
  <2> DEFINE top == turn[k + 1][f[k]]
             g == [i \in 0 .. k + 1 |-> IF i = k + 1 THEN top ELSE f[i]]
  <2>2. top \in S
    <3>1. k + 1 \in 1 .. n /\ f[k] \in S
      OBVIOUS
    <3>2. turn[k + 1] \in [S -> S]
      BY <3>1
    <3> QED BY <3>1, <3>2
  <2> HIDE DEF top
  <2>3. g \in [0 .. k + 1 -> S] /\ g[0] = x
    BY <2>1, <2>2
  <2>4. ASSUME NEW i \in 1 .. k + 1
        PROVE  g[i] = turn[i][g[i - 1]]
    <3>1. CASE i = k + 1
      <4>1. g[i] = top /\ g[i - 1] = f[k]
        BY <3>1
      <4> HIDE DEF g
      <4> QED BY <3>1, <4>1, Zenon DEF top
    <3>2. CASE i # k + 1
      <4>1. i \in 1 .. k /\ g[i] = f[i] /\ g[i - 1] = f[i - 1]
        BY <3>2
      <4> HIDE DEF g
      <4> QED BY <2>1, <4>1
    <3> QED BY <3>1, <3>2
  <2> HIDE DEF g
  <2>5. Upto(k + 1)
    BY <2>3, <2>4
  <2>6. k + 1 \in 0 .. n
    OBVIOUS
  <2> QED BY <2>5, <2>6
<1>3. \A k \in 0 .. n : k \in T
  <2> HIDE DEF T
  <2> QED BY <1>1, <1>2, Induction
<1>4. n \in T
  <2> HIDE DEF T
  <2> QED BY <1>3
<1>5. \E f \in [0 .. n -> S] : f[0] = x /\ \A i \in 1 .. n : f[i] = turn[i][f[i - 1]]
  BY <1>4
<1> QED BY <1>5 DEF Iterates
=============================================================================
