-------------------------- MODULE BlockModesProofs --------------------------
(***************************************************************************)
(* The proofs about BlockModes.  The names of a component's lemmas and     *)
(* definitions begin with its name: Omac, Cfb, Pbe, Bag, Imit.  Each part  *)
(* ends with three lemmas or more: its invariant holds at first, every     *)
(* step preserves it, and what it says of the properties.  The last part   *)
(* joins them.                                                             *)
(***************************************************************************)
EXTENDS BlockModes, SequenceTheorems, FiniteSetTheorems, WellFoundedInduction, TLAPS

-----------------------------------------------------------------------------
(***************************************************************************)
(* OMAC.  First the blocks of the reference, one by one.                   *)
(***************************************************************************)

OmacBlocksOf(len) == IF len = 0 THEN 1 ELSE (len + OmacBlock - 1) \div OmacBlock

\* The bytes in the last block of a string of len bytes, or of 0 in the one
\* block of the empty string.
OmacLastOf(len) == len - (OmacBlocksOf(len) - 1) * OmacBlock

\* Block k of the padded string.
OmacEntryOf(data, k) ==
    LET start == (k - 1) * OmacBlock
        last == OmacLastOf(Len(data))
    IN  IF k < OmacBlocksOf(Len(data))
        THEN [block |-> [j \in O!Index |-> data[start + j + 1]], subkey |-> 0]
        ELSE IF last = OmacBlock
        THEN [block |-> [j \in O!Index |-> data[start + j + 1]], subkey |-> 1]
        ELSE [block |-> [j \in O!Index |-> IF j < last THEN data[start + j + 1]
                                         ELSE IF j = last THEN 128 ELSE 0],
              subkey |-> 2]

\* The last block is the only one that may be shorter than a block.
LEMMA OmacBlocksOfProperties ==
    ASSUME NEW len \in Nat
    PROVE  /\ OmacBlocksOf(len) \in Nat \ {0}
           /\ OmacLastOf(len) \in 0 .. OmacBlock
           /\ len = (OmacBlocksOf(len) - 1) * OmacBlock + OmacLastOf(len)
           /\ OmacLastOf(len) = OmacBlock <=> len # 0 /\ len % OmacBlock = 0
<1>1. CASE len = 0
  BY <1>1, OmacBlockAssumption DEF OmacBlocksOf, OmacLastOf
<1>2. CASE len # 0
  <2> DEFINE m == len + OmacBlock - 1
             q == m \div OmacBlock
             r == m % OmacBlock
  <2>1. m \in Nat
    BY OmacBlockAssumption
  <2>2. OmacBlocksOf(len) = q
    BY <1>2 DEF OmacBlocksOf
  <2>3. q \in Nat /\ r \in O!Index /\ m = q * OmacBlock + r
    <3> HIDE DEF m
    <3> QED BY <2>1, O!DivMod, OmacBlockAssumption DEF O!BlockSizeAssumption
  <2> HIDE DEF q, r
  <2>4. r \in 0 .. OmacBlock - 1
    BY <2>3 DEF O!Index
  <2>5. q # 0
    <3>1. 0 * OmacBlock = 0
      BY OmacBlockAssumption
    <3> QED BY <1>2, <2>3, <2>4, <3>1, OmacBlockAssumption
  <2>6. (q - 1) * OmacBlock = q * OmacBlock - OmacBlock
    BY <2>3, OmacBlockAssumption
  <2>7. OmacLastOf(len) = r + 1 /\ len = (q - 1) * OmacBlock + (r + 1)
    <3> DEFINE x == q * OmacBlock
               y == (q - 1) * OmacBlock
    <3>1. x \in Int /\ y = x - OmacBlock /\ len + OmacBlock - 1 = x + r
      BY <2>3, <2>6, OmacBlockAssumption
    <3>2. OmacLastOf(len) = len - y
      BY <2>2 DEF OmacLastOf
    <3> HIDE DEF x, y
    <3>3. OmacLastOf(len) = r + 1 /\ len = y + (r + 1)
      BY <2>4, <3>1, <3>2, OmacBlockAssumption
    <3> QED BY <3>3 DEF y
  <2>8. r + 1 = OmacBlock <=> len % OmacBlock = 0
    <3>1. CASE r + 1 = OmacBlock
      <4>1. len = q * OmacBlock + 0
        <5> DEFINE x == q * OmacBlock
        <5>1. x \in Int /\ len = x - OmacBlock + (r + 1)
          BY <2>3, <2>6, <2>7, OmacBlockAssumption
        <5> HIDE DEF x
        <5>2. len = x + 0
          BY <3>1, <5>1, OmacBlockAssumption
        <5> QED BY <5>2 DEF x
      <4>2. 0 \in O!Index
        BY OmacBlockAssumption DEF O!Index
      <4>3. len % OmacBlock = 0
        BY <2>3, <4>1, <4>2, O!DivModUnique, OmacBlockAssumption DEF O!BlockSizeAssumption
      <4> QED BY <3>1, <4>3
    <3>2. CASE r + 1 # OmacBlock
      <4> DEFINE u == q - 1
                 v == r + 1
      <4>1. u \in Nat /\ v \in O!Index /\ v # 0
        BY <2>3, <2>4, <2>5, <3>2, OmacBlockAssumption DEF O!Index
      <4>2. len = u * OmacBlock + v
        BY <2>7
      <4> HIDE DEF u, v
      <4>3. len % OmacBlock = v
        BY <4>1, <4>2, O!DivModUnique, OmacBlockAssumption DEF O!BlockSizeAssumption
      <4> QED BY <3>2, <4>1, <4>3
    <3> QED BY <3>1, <3>2
  <2> QED BY <1>2, <2>2, <2>3, <2>4, <2>5, <2>7, <2>8, OmacBlockAssumption
<1> QED BY <1>1, <1>2

\* The padding, byte by byte.
LEMMA OmacPaddedAt ==
    ASSUME O!SizeAssumption, NEW data \in Seq(OmacBytes), NEW z \in Nat,
           NEW pos \in 1 .. Len(data) + 1 + z
    PROVE  (data \o <<128>> \o [k \in 1 .. z |-> 0])[pos]
             = IF pos <= Len(data) THEN data[pos] ELSE IF pos = Len(data) + 1 THEN 128 ELSE 0
<1> DEFINE zeros == [k \in 1 .. z |-> 0]
           marked == data \o <<128>>
<1>1. zeros \in Seq(OmacBytes) /\ Len(zeros) = z
  <2>1. zeros \in [1 .. z -> OmacBytes]
    BY DEF O!SizeAssumption
  <2> QED BY <2>1, SeqDef, LenProperties
<1>2. <<128>> \in Seq(OmacBytes) /\ Len(<<128>>) = 1 /\ <<128>>[1] = 128
  BY DEF O!SizeAssumption
<1>3. Len(data) \in Nat
  BY LenProperties
<1>4. /\ marked \in Seq(OmacBytes) /\ Len(marked) = Len(data) + 1
      /\ \A n \in 1 .. Len(data) + 1 :
            marked[n] = IF n <= Len(data) THEN data[n] ELSE <<128>>[n - Len(data)]
  BY <1>2, ConcatProperties
<1>5. \A n \in 1 .. z : zeros[n] = 0
  OBVIOUS
<1> HIDE DEF zeros, marked
<1>6. \A n \in 1 .. Len(marked) + Len(zeros) :
         (marked \o zeros)[n] = IF n <= Len(marked) THEN marked[n] ELSE zeros[n - Len(marked)]
  BY <1>1, <1>4, ConcatProperties
<1>7. (marked \o zeros)[pos] = IF pos <= Len(data) + 1 THEN marked[pos]
                               ELSE zeros[pos - (Len(data) + 1)]
  BY <1>1, <1>3, <1>4, <1>6
<1>8. (marked \o zeros)[pos]
        = IF pos <= Len(data) THEN data[pos] ELSE IF pos = Len(data) + 1 THEN 128 ELSE 0
  <2>1. CASE pos <= Len(data)
    BY <1>3, <1>4, <1>7, <2>1
  <2>2. CASE pos = Len(data) + 1
    BY <1>2, <1>3, <1>4, <1>7, <2>2
  <2>3. CASE pos > Len(data) + 1
    <3>1. pos - (Len(data) + 1) \in 1 .. z
      BY <1>3, <2>3
    <3> QED BY <1>3, <1>5, <1>7, <2>3, <3>1
  <2>4. pos <= Len(data) \/ pos = Len(data) + 1 \/ pos > Len(data) + 1
    BY <1>3
  <2> QED BY <2>1, <2>2, <2>3, <2>4, Zenon
<1> QED BY <1>8, Zenon DEF zeros, marked

\* The reference is the list of these blocks.
LEMMA OmacReferenceIs ==
    ASSUME O!SizeAssumption, NEW data \in Seq(OmacBytes)
    PROVE  O!Reference(data) = [k \in 1 .. OmacBlocksOf(Len(data)) |-> OmacEntryOf(data, k)]
<1> DEFINE len == Len(data)
           n == OmacBlocksOf(len)
           last == OmacLastOf(len)
           z == n * OmacBlock - len - 1
           whole == data # <<>> /\ len % OmacBlock = 0
           padded == IF whole THEN data ELSE data \o <<128>> \o [k \in 1 .. z |-> 0]
           ref(k) == [block |-> [j \in O!Index |-> padded[(k - 1) * OmacBlock + j + 1]],
                      subkey |-> IF k < n THEN 0 ELSE IF whole THEN 1 ELSE 2]
<1>1. len \in Nat /\ (len = 0 <=> data = <<>>)
  BY LenProperties, EmptySeq
<1>2. O!Reference(data) = [k \in 1 .. n |-> ref(k)]
  BY <1>1 DEF O!Reference, OmacBlocksOf
<1>3. /\ n \in Nat \ {0} /\ last \in 0 .. OmacBlock
      /\ len = (n - 1) * OmacBlock + last
      /\ last = OmacBlock <=> whole
  <2> HIDE DEF len
  <2> QED BY <1>1, OmacBlocksOfProperties
<1>4. n * OmacBlock = (n - 1) * OmacBlock + OmacBlock
  BY <1>3, OmacBlockAssumption
<1>5. ~whole => z \in Nat /\ z = OmacBlock - last - 1
  <2> DEFINE x == (n - 1) * OmacBlock
             y == n * OmacBlock
  <2>1. x \in Int /\ y = x + OmacBlock /\ len = x + last /\ z = y - len - 1
    BY <1>3, <1>4, OmacBlockAssumption
  <2> HIDE DEF x, y, z, len, n, last
  <2> QED BY <1>3, <2>1, OmacBlockAssumption
<1> HIDE DEF z
<1>6. ASSUME NEW k \in 1 .. n, NEW j \in O!Index
      PROVE  padded[(k - 1) * OmacBlock + j + 1]
               = IF k < n \/ whole \/ j < last THEN data[(k - 1) * OmacBlock + j + 1]
                 ELSE IF j = last THEN 128 ELSE 0
  <2> DEFINE pos == (k - 1) * OmacBlock + j + 1
  <2>1. pos \in Nat \ {0} /\ j \in 0 .. OmacBlock - 1 /\ k \in Nat \ {0} /\ k <= n /\ n \in Nat
    <3> HIDE DEF n
    <3>1. k \in Nat \ {0} /\ k <= n /\ n \in Nat
      BY <1>3
    <3> DEFINE x == (k - 1) * OmacBlock
    <3>2. x \in Nat
      BY <3>1, OmacBlockAssumption
    <3>3. j \in 0 .. OmacBlock - 1
      BY DEF O!Index
    <3> HIDE DEF x
    <3>4. x + j + 1 \in Nat \ {0}
      BY <3>2, <3>3, OmacBlockAssumption
    <3> QED BY <3>1, <3>3, <3>4 DEF x
  <2>2. CASE whole
    BY <2>2
  <2>3. CASE ~whole
    <3>1. k < n => pos <= len
      <4> DEFINE x == (k - 1) * OmacBlock
                 y == (n - 1) * OmacBlock
      <4>1. x \in Nat /\ y \in Nat /\ (k < n => x + OmacBlock <= y)
        <5> HIDE DEF n, len, last, whole, padded
        <5>1. k \in Nat \ {0} /\ n \in Nat \ {0} /\ OmacBlock \in Nat
          BY <2>1, OmacBlockAssumption
        <5>2. x \in Nat /\ y \in Nat
          BY <5>1
        <5>3. ASSUME k < n
              PROVE  x + OmacBlock <= y
          <6> DEFINE w == (n - 1 - k) * OmacBlock
          <6>1. w \in Nat
            BY <5>1, <5>3
          <6>2. y = x + OmacBlock + w
            BY <5>1
          <6> QED BY <5>1, <5>2, <6>1, <6>2
        <5> QED BY <5>2, <5>3
      <4>2. pos = x + j + 1 /\ len = y + last
        BY <1>3
      <4> HIDE DEF x, y, pos, len, n, last
      <4> QED BY <1>3, <2>1, <4>1, <4>2, OmacBlockAssumption
    <3>2. k = n => pos = len - last + j + 1
      <4> DEFINE y == (n - 1) * OmacBlock
      <4>1. len = y + last /\ y \in Int /\ (k = n => pos = y + j + 1)
        <5> HIDE DEF len, n, last
        <5> QED BY <1>3, OmacBlockAssumption
      <4> HIDE DEF y, pos, len, n, last
      <4> QED BY <1>3, <2>1, <4>1
    <3>3. pos \in 1 .. len + 1 + z
      <4> HIDE DEF pos, len, n, last
      <4> QED BY <1>1, <1>3, <1>5, <2>1, <2>3, <3>1, <3>2, OmacBlockAssumption
    <3>4. padded[pos] = IF pos <= len THEN data[pos] ELSE IF pos = len + 1 THEN 128 ELSE 0
      <4>1. padded[pos] = (data \o <<128>> \o [q \in 1 .. z |-> 0])[pos]
        BY <2>3
      <4>2. z \in Nat
        BY <1>5, <2>3
      <4> HIDE DEF pos, padded
      <4>3. (data \o <<128>> \o [q \in 1 .. z |-> 0])[pos]
              = IF pos <= len THEN data[pos] ELSE IF pos = len + 1 THEN 128 ELSE 0
        BY <3>3, <4>2, OmacPaddedAt
      <4> QED BY <4>1, <4>3, Zenon
    <3>5. /\ k < n => pos <= len
          /\ k = n => (pos <= len <=> j < last) /\ (pos = len + 1 <=> j = last)
      <4> HIDE DEF pos, len, n, last
      <4> QED BY <1>1, <1>3, <2>1, <3>1, <3>2
    <3>6. k < n \/ k = n
      BY <2>1
    <3> HIDE DEF pos, padded, len, n, last, whole
    <3>7. padded[pos] = IF k < n \/ whole \/ j < last THEN data[pos]
                        ELSE IF j = last THEN 128 ELSE 0
      BY <2>3, <3>4, <3>5, <3>6
    <3> QED BY <3>7 DEF pos
  <2> QED BY <2>2, <2>3
<1>7. ASSUME NEW k \in 1 .. n
      PROVE  ref(k) = OmacEntryOf(data, k)
  <2> HIDE DEF padded, whole, n, last
  <2>1. CASE k < n
    BY <1>6, <2>1 DEF OmacEntryOf, n
  <2>2. CASE ~(k < n) /\ whole
    BY <1>3, <1>6, <2>2 DEF OmacEntryOf, n, last
  <2>3. CASE ~(k < n) /\ ~whole
    BY <1>3, <1>6, <2>3 DEF OmacEntryOf, n, last
  <2> QED BY <2>1, <2>2, <2>3
<1> HIDE DEF ref, n
<1>8. O!Reference(data) = [k \in 1 .. n |-> OmacEntryOf(data, k)]
  BY <1>2, <1>7
<1> QED BY <1>8 DEF n

\* Strings with the same blocks are the same.
LEMMA OmacReferenceInjective ==
    ASSUME O!SizeAssumption, NEW x \in Seq(OmacBytes), NEW y \in Seq(OmacBytes),
           O!Reference(x) = O!Reference(y)
    PROVE  x = y
<1> DEFINE lx == Len(x)  nx == OmacBlocksOf(lx)  rx == OmacLastOf(lx)
           ly == Len(y)  ny == OmacBlocksOf(ly)  ry == OmacLastOf(ly)
<1>1. /\ lx \in Nat /\ nx \in Nat \ {0} /\ rx \in 0 .. OmacBlock
      /\ lx = (nx - 1) * OmacBlock + rx
  <2>1. lx \in Nat
    BY LenProperties
  <2> HIDE DEF lx
  <2> QED BY <2>1, OmacBlocksOfProperties
<1>2. /\ ly \in Nat /\ ny \in Nat \ {0} /\ ry \in 0 .. OmacBlock
      /\ ly = (ny - 1) * OmacBlock + ry
  <2>1. ly \in Nat
    BY LenProperties
  <2> HIDE DEF ly
  <2> QED BY <2>1, OmacBlocksOfProperties
<1>3. [k \in 1 .. nx |-> OmacEntryOf(x, k)] = [k \in 1 .. ny |-> OmacEntryOf(y, k)]
  BY OmacReferenceIs
<1>4. /\ \A k \in 1 .. nx : OmacEntryOf(x, k) =
             LET start == (k - 1) * OmacBlock
             IN  IF k < nx
                 THEN [block |-> [j \in O!Index |-> x[start + j + 1]], subkey |-> 0]
                 ELSE IF rx = OmacBlock
                 THEN [block |-> [j \in O!Index |-> x[start + j + 1]], subkey |-> 1]
                 ELSE [block |-> [j \in O!Index |-> IF j < rx THEN x[start + j + 1]
                                                  ELSE IF j = rx THEN 128 ELSE 0],
                       subkey |-> 2]
      /\ \A k \in 1 .. ny : OmacEntryOf(y, k) =
             LET start == (k - 1) * OmacBlock
             IN  IF k < ny
                 THEN [block |-> [j \in O!Index |-> y[start + j + 1]], subkey |-> 0]
                 ELSE IF ry = OmacBlock
                 THEN [block |-> [j \in O!Index |-> y[start + j + 1]], subkey |-> 1]
                 ELSE [block |-> [j \in O!Index |-> IF j < ry THEN y[start + j + 1]
                                                  ELSE IF j = ry THEN 128 ELSE 0],
                       subkey |-> 2]
  BY Zenon DEF OmacEntryOf
<1> HIDE DEF lx, ly, nx, ny, rx, ry
<1>5. nx = ny /\ \A k \in 1 .. nx : OmacEntryOf(x, k) = OmacEntryOf(y, k)
  <2> DEFINE f == [k \in 1 .. nx |-> OmacEntryOf(x, k)]
             g == [k \in 1 .. ny |-> OmacEntryOf(y, k)]
  <2>1. DOMAIN f = 1 .. nx /\ DOMAIN g = 1 .. ny
    OBVIOUS
  <2>2. 1 .. nx = 1 .. ny
    BY <1>3, <2>1
  <2>3. nx \in 1 .. ny /\ ny \in 1 .. nx
    BY <1>1, <1>2, <2>2
  <2>4. nx = ny
    BY <1>1, <1>2, <2>3
  <2>5. \A k \in 1 .. nx : f[k] = OmacEntryOf(x, k) /\ g[k] = OmacEntryOf(y, k)
    BY <2>4
  <2> QED BY <1>3, <2>4, <2>5
<1>6. rx = ry
  <2> DEFINE start == (nx - 1) * OmacBlock
             ex(j) == IF j < rx THEN x[start + j + 1] ELSE IF j = rx THEN 128 ELSE 0
             ey(j) == IF j < ry THEN y[start + j + 1] ELSE IF j = ry THEN 128 ELSE 0
  <2>1. nx \in 1 .. nx /\ ~(nx < nx)
    BY <1>1
  <2>2. OmacEntryOf(x, nx) = OmacEntryOf(y, nx)
    BY <1>5, <2>1
  <2>3. OmacEntryOf(x, nx) = IF rx = OmacBlock
                         THEN [block |-> [j \in O!Index |-> x[start + j + 1]], subkey |-> 1]
                         ELSE [block |-> [j \in O!Index |-> ex(j)], subkey |-> 2]
    BY <1>4, <2>1, Zenon
  <2>4. OmacEntryOf(y, nx) = IF ry = OmacBlock
                         THEN [block |-> [j \in O!Index |-> y[start + j + 1]], subkey |-> 1]
                         ELSE [block |-> [j \in O!Index |-> ey(j)], subkey |-> 2]
    BY <1>4, <1>5, <2>1, Zenon
  <2>5. CASE rx = OmacBlock \/ ry = OmacBlock
    <3>1. rx = OmacBlock => OmacEntryOf(x, nx).subkey = 1
      BY <2>3
    <3>2. rx # OmacBlock => OmacEntryOf(x, nx).subkey = 2
      BY <2>3
    <3>3. ry = OmacBlock => OmacEntryOf(y, nx).subkey = 1
      BY <2>4
    <3>4. ry # OmacBlock => OmacEntryOf(y, nx).subkey = 2
      BY <2>4
    <3> QED BY <2>2, <2>5, <3>1, <3>2, <3>3, <3>4
  <2>6. CASE rx # OmacBlock /\ ry # OmacBlock
    <3>1. rx \in O!Index /\ ry \in O!Index
      BY <1>1, <1>2, <2>6, OmacBlockAssumption DEF O!Index
    <3>2. OmacEntryOf(x, nx).block = [j \in O!Index |-> ex(j)]
      BY <2>3, <2>6
    <3>3. OmacEntryOf(y, nx).block = [j \in O!Index |-> ey(j)]
      BY <2>4, <2>6
    <3> HIDE DEF ex, ey
    <3>4. \A j \in O!Index : ex(j) = ey(j)
      <4>1. [j \in O!Index |-> ex(j)] = [j \in O!Index |-> ey(j)]
        BY <2>2, <3>2, <3>3
      <4> QED BY <4>1
    <3>5. ~(rx < ry)
      <4> SUFFICES ASSUME rx < ry
                   PROVE  FALSE
        OBVIOUS
      <4>1. ex(ry) = 0
        BY <1>1, <1>2 DEF ex
      <4>2. ey(ry) = 128
        BY <1>2 DEF ey
      <4> QED BY <3>1, <3>4, <4>1, <4>2
    <3>6. ~(ry < rx)
      <4> SUFFICES ASSUME ry < rx
                   PROVE  FALSE
        OBVIOUS
      <4>1. ey(rx) = 0
        BY <1>1, <1>2 DEF ey
      <4>2. ex(rx) = 128
        BY <1>1 DEF ex
      <4> QED BY <3>1, <3>4, <4>1, <4>2
    <3> QED BY <1>1, <1>2, <3>5, <3>6
  <2> QED BY <2>5, <2>6
<1>7. lx = ly
  BY <1>1, <1>2, <1>5, <1>6
<1>8. ASSUME NEW pos \in 1 .. lx
      PROVE  x[pos] = y[pos]
  <2> DEFINE p == pos - 1
             k == p \div OmacBlock + 1
             j == p % OmacBlock
             start == (k - 1) * OmacBlock
  <2>1. p \in Nat /\ p < lx
    BY <1>1
  <2>2. /\ k - 1 \in Nat /\ k \in Nat /\ j \in O!Index
        /\ p = start + j
    <3> HIDE DEF p
    <3> DEFINE q == p \div OmacBlock
    <3>1. q \in Nat /\ j \in O!Index /\ p = q * OmacBlock + j
      BY <2>1, O!DivMod, OmacBlockAssumption DEF O!BlockSizeAssumption
    <3> HIDE DEF q, j
    <3>2. (q + 1) - 1 = q
      BY <3>1
    <3> QED BY <3>1, <3>2 DEF q
  <2> HIDE DEF j, k
  <2>3. j \in 0 .. OmacBlock - 1
    BY <2>2 DEF O!Index
  <2>4. pos = start + j + 1
    <3> HIDE DEF start
    <3> QED BY <1>1, <2>2, <2>3
  <2>5. /\ k \in 1 .. nx
        /\ k = nx => j < rx
    <3> DEFINE u == (nx - 1) * OmacBlock
    <3>1. /\ start \in Nat /\ u \in Nat
          /\ k > nx => start >= u + OmacBlock
          /\ k = nx => start = u
      BY <1>1, <2>2, OmacBlockAssumption
    <3>2. lx = u + rx /\ p = start + j /\ k \in Nat /\ k - 1 \in Nat
      BY <1>1, <2>2
    <3> HIDE DEF u, start, p
    <3>3. ~(k > nx)
      BY <1>1, <2>1, <2>3, <3>1, <3>2, OmacBlockAssumption
    <3>4. k = nx => j < rx
      BY <1>1, <2>1, <2>3, <3>1, <3>2, OmacBlockAssumption
    <3> QED BY <1>1, <3>2, <3>3, <3>4
  <2> DEFINE ex == OmacEntryOf(x, k).block
             ey == OmacEntryOf(y, k).block
  <2>6. ex = ey
    BY <1>5, <2>5
  <2>7. k < nx \/ k = nx
    BY <1>1, <2>2, <2>5
  <2> HIDE DEF start
  <2>8. ex[j] = x[start + j + 1]
    <3>1. k < nx => OmacEntryOf(x, k) = [block |-> [m \in O!Index |-> x[start + m + 1]], subkey |-> 0]
      BY <1>4, <2>5, Zenon DEF start
    <3>2. k = nx /\ rx = OmacBlock =>
            OmacEntryOf(x, k) = [block |-> [m \in O!Index |-> x[start + m + 1]], subkey |-> 1]
      BY <1>1, <1>4, <2>5 DEF start
    <3>3. k = nx /\ rx # OmacBlock =>
            OmacEntryOf(x, k) = [block |-> [m \in O!Index |-> IF m < rx THEN x[start + m + 1]
                                                        ELSE IF m = rx THEN 128 ELSE 0],
                             subkey |-> 2]
      BY <1>1, <1>4, <2>5 DEF start
    <3>4. CASE k < nx
      BY <2>2, <3>1, <3>4
    <3>5. CASE k = nx /\ rx = OmacBlock
      BY <2>2, <3>2, <3>5
    <3>6. CASE k = nx /\ rx # OmacBlock
      BY <2>2, <2>5, <3>3, <3>6
    <3> QED BY <2>7, <3>4, <3>5, <3>6
  <2>9. ey[j] = y[start + j + 1]
    <3>1. k < nx => OmacEntryOf(y, k) = [block |-> [m \in O!Index |-> y[start + m + 1]], subkey |-> 0]
      BY <1>4, <1>5, <2>5, Zenon DEF start
    <3>2. k = nx /\ rx = OmacBlock =>
            OmacEntryOf(y, k) = [block |-> [m \in O!Index |-> y[start + m + 1]], subkey |-> 1]
      BY <1>1, <1>4, <1>5, <1>6, <2>5 DEF start
    <3>3. k = nx /\ rx # OmacBlock =>
            OmacEntryOf(y, k) = [block |-> [m \in O!Index |-> IF m < rx THEN y[start + m + 1]
                                                        ELSE IF m = rx THEN 128 ELSE 0],
                             subkey |-> 2]
      BY <1>1, <1>4, <1>5, <1>6, <2>5 DEF start
    <3>4. CASE k < nx
      BY <2>2, <3>1, <3>4
    <3>5. CASE k = nx /\ rx = OmacBlock
      BY <2>2, <3>2, <3>5
    <3>6. CASE k = nx /\ rx # OmacBlock
      BY <2>2, <2>5, <3>3, <3>6
    <3> QED BY <2>7, <3>4, <3>5, <3>6
  <2> QED BY <2>4, <2>6, <2>8, <2>9
<1>9. \A pos \in 1 .. Len(x) : x[pos] = y[pos]
  BY <1>8 DEF lx
<1>10. Len(x) = Len(y)
  BY <1>7 DEF lx, ly
<1> QED BY <1>9, <1>10, SeqEqual

-----------------------------------------------------------------------------
(***************************************************************************)
(* The theorems.                                                           *)
(***************************************************************************)

\* An encryption of the loop.
OmacLoopEntry(k) ==
    [block |-> [j \in O!Index |-> O!omac_byte(a, b, (k - 1) * OmacBlock + j)], subkey |-> 0]

OmacAnswered(result, data) == result = <<>> \/ result = O!Reference(data)

\* In a call the loop variable counts the blocks encrypted; between two calls
\* the last result and the one before are those of the reference.
OmacInv ==
    /\ a \in Seq(OmacBytes) /\ b \in Seq(OmacBytes)
    /\ sealed.data \in Seq(OmacBytes) /\ OmacAnswered(sealed.out, sealed.data)
    /\ active => /\ off \in Nat /\ off < O!blocks
                 /\ iv = [k \in 1 .. off |-> OmacLoopEntry(k)]
    /\ ~active => OmacAnswered(out, a \o b)

\* The arguments of a call are strings.
LEMMA OmacStringsType == O!Strings \subseteq Seq(OmacBytes)
BY SeqDef DEF O!Strings, O!SizeAssumption

\* omac_byte reads the concatenation.
LEMMA OmacByteOf ==
    ASSUME NEW x \in Seq(OmacBytes), NEW y \in Seq(OmacBytes), NEW pos \in 0 .. Len(x) + Len(y) - 1
    PROVE  O!omac_byte(x, y, pos) = (x \o y)[pos + 1]
<1>1. Len(x) \in Nat /\ Len(y) \in Nat
  BY LenProperties
<1>2. pos + 1 \in 1 .. Len(x) + Len(y)
  BY <1>1
<1>3. (x \o y)[pos + 1] = IF pos + 1 <= Len(x) THEN x[pos + 1] ELSE y[pos + 1 - Len(x)]
  BY <1>2, ConcatProperties
<1>4. pos + 1 <= Len(x) <=> pos < Len(x)
  BY <1>1
<1>5. pos + 1 - Len(x) = pos - Len(x) + 1
  BY <1>1
<1> QED BY <1>3, <1>4, <1>5, Zenon DEF O!omac_byte

\* The blocks of a call and the one it is at.
LEMMA OmacBlocksType ==
    ASSUME a \in Seq(OmacBytes), b \in Seq(OmacBytes)
    PROVE  /\ O!data_len \in Nat /\ O!data_len = Len(a \o b) /\ a \o b \in Seq(OmacBytes)
           /\ O!blocks = OmacBlocksOf(Len(a \o b)) /\ O!last_len = OmacLastOf(Len(a \o b))
           /\ O!blocks \in Nat \ {0} /\ O!last_len \in 0 .. OmacBlock
           /\ O!data_len = (O!blocks - 1) * OmacBlock + O!last_len
<1>1. O!data_len \in Nat /\ O!data_len = Len(a \o b) /\ a \o b \in Seq(OmacBytes)
  BY ConcatProperties, LenProperties DEF O!data_len
<1>2. O!blocks = OmacBlocksOf(O!data_len) /\ O!last_len = OmacLastOf(O!data_len)
  BY DEF O!blocks, O!last_len, OmacBlocksOf, OmacLastOf
<1>3. /\ OmacBlocksOf(O!data_len) \in Nat \ {0} /\ OmacLastOf(O!data_len) \in 0 .. OmacBlock
      /\ O!data_len = (OmacBlocksOf(O!data_len) - 1) * OmacBlock + OmacLastOf(O!data_len)
  BY <1>1, OmacBlocksOfProperties
<1> QED BY <1>1, <1>2, <1>3

\* An encryption more makes a table of encryptions a longer one.
LEMMA OmacEncryptTable ==
    ASSUME NEW n \in Nat, NEW S, NEW g \in [1 .. n + 1 -> S],
           iv = [k \in 1 .. n |-> g[k]],
           NEW block, NEW subkey, g[n + 1] = [block |-> block, subkey |-> subkey]
    PROVE  O!encrypt(block, subkey) = g
<1>1. Append([k \in 1 .. n |-> g[k]], g[n + 1]) = g
  BY O!AppendTable, OmacBlockAssumption DEF O!BlockSizeAssumption
<1>2. O!encrypt(block, subkey) = Append(iv, g[n + 1])
  BY Zenon DEF O!encrypt
<1> QED BY <1>1, <1>2, Zenon

\* The last encryption completes the reference.
LEMMA OmacFinishIsReference ==
    ASSUME O!SizeAssumption, OmacInv, O!Finish
    PROVE  out' = O!Reference(a \o b)
<1> DEFINE data == a \o b
           len == Len(data)
           f(k) == OmacEntryOf(data, k)
           n == O!blocks - 1
<1>1. /\ a \in Seq(OmacBytes) /\ b \in Seq(OmacBytes)
      /\ off \in Nat /\ off < O!blocks /\ off + 1 >= O!blocks
      /\ iv = [k \in 1 .. off |-> OmacLoopEntry(k)]
      /\ out' = O!encrypt(O!LastBlock.block, O!LastBlock.subkey)
  BY DEF OmacInv, O!Finish
<1>2. /\ O!data_len \in Nat /\ O!data_len = len /\ data \in Seq(OmacBytes)
      /\ O!blocks = OmacBlocksOf(len) /\ O!last_len = OmacLastOf(len)
      /\ O!blocks \in Nat \ {0} /\ O!last_len \in 0 .. OmacBlock
      /\ O!data_len = (O!blocks - 1) * OmacBlock + O!last_len
  BY <1>1, OmacBlocksType
<1>3. n \in Nat /\ n + 1 = O!blocks /\ n = off
  BY <1>1, <1>2
<1>4. ASSUME NEW k \in 1 .. O!blocks, NEW j \in O!Index, k < O!blocks \/ j < O!last_len
      PROVE  O!omac_byte(a, b, (k - 1) * OmacBlock + j) = data[(k - 1) * OmacBlock + j + 1]
  <2> DEFINE x == (k - 1) * OmacBlock
             y == (O!blocks - 1) * OmacBlock
  <2>1. /\ x \in Nat /\ y \in Nat /\ j \in 0 .. OmacBlock - 1
        /\ k < O!blocks => x + OmacBlock <= y
        /\ k = O!blocks => x = y
    <3>1. O!blocks \in Nat \ {0} /\ k \in Nat \ {0} /\ j \in 0 .. OmacBlock - 1
      BY <1>2 DEF O!Index
    <3> DEFINE z == O!blocks
    <3>2. /\ x \in Nat /\ y \in Nat
          /\ k < z => x + OmacBlock <= y
          /\ k = z => x = y
      <4>1. z \in Nat \ {0}
        BY <3>1
      <4> HIDE DEF z
      <4>2. /\ x \in Nat /\ (z - 1) * OmacBlock \in Nat
            /\ k < z => x + OmacBlock <= (z - 1) * OmacBlock
        BY <3>1, <4>1, OmacBlockAssumption
      <4> QED BY <4>2 DEF z
    <3> QED BY <3>1, <3>2
  <2>2. O!data_len = y + O!last_len /\ O!data_len = Len(a) + Len(b)
    BY <1>2 DEF O!data_len
  <2>3. k < O!blocks \/ k = O!blocks
    BY <1>2
  <2> HIDE DEF x, y, data
  <2>4. x + j \in 0 .. Len(a) + Len(b) - 1
    <3>1. x + j < O!data_len
      <4>1. /\ O!data_len \in Nat /\ O!last_len \in 0 .. OmacBlock
            /\ k < O!blocks \/ (k = O!blocks /\ j < O!last_len)
        BY <1>2, <1>4, <2>3
      <4>2. CASE k < O!blocks
        BY <2>1, <2>2, <4>1, <4>2, OmacBlockAssumption
      <4>3. CASE k = O!blocks /\ j < O!last_len
        BY <2>1, <2>2, <4>1, <4>3, OmacBlockAssumption
      <4> QED BY <4>1, <4>2, <4>3
    <3> QED BY <1>2, <2>1, <2>2, <3>1
  <2> DEFINE pos == x + j
  <2>5. pos \in 0 .. Len(a) + Len(b) - 1
    BY <2>4
  <2> HIDE DEF pos
  <2>6. O!omac_byte(a, b, pos) = data[pos + 1]
    BY <1>1, <2>5, OmacByteOf, Zenon DEF data
  <2> QED BY <2>6 DEF pos, x
<1> HIDE DEF data, n
<1>5. iv = [k \in 1 .. n |-> f(k)]
  <2>1. ASSUME NEW k \in 1 .. n
        PROVE  OmacLoopEntry(k) = f(k)
    <3>1. k \in 1 .. O!blocks /\ k < O!blocks
      BY <1>3, <1>2
    <3>2. \A j \in O!Index :
             O!omac_byte(a, b, (k - 1) * OmacBlock + j) = data[(k - 1) * OmacBlock + j + 1]
      BY <1>4, <3>1
    <3> QED BY <1>2, <3>1, <3>2 DEF OmacLoopEntry, OmacEntryOf
  <2> HIDE DEF f
  <2> QED BY <1>1, <1>3, <2>1
<1>6. f(n + 1) = [block |-> O!LastBlock.block, subkey |-> O!LastBlock.subkey]
  <2>1. O!blocks \in 1 .. O!blocks /\ ~(O!blocks < O!blocks)
    BY <1>2
  <2>2. \A j \in O!Index : j < O!last_len =>
           O!omac_byte(a, b, (O!blocks - 1) * OmacBlock + j) = data[(O!blocks - 1) * OmacBlock + j + 1]
    BY <1>4, <2>1
  <2>3. CASE O!last_len = OmacBlock
    <3>1. \A j \in O!Index : j < O!last_len
      BY <2>3, OmacBlockAssumption DEF O!Index
    <3>2. O!LastBlock = [block |-> [j \in O!Index |-> data[(O!blocks - 1) * OmacBlock + j + 1]],
                       subkey |-> 1]
      BY <2>2, <2>3, <3>1 DEF O!LastBlock
    <3>3. f(O!blocks) = [block |-> [j \in O!Index |-> data[(O!blocks - 1) * OmacBlock + j + 1]],
                       subkey |-> 1]
      BY <1>2, <2>1, <2>3 DEF OmacEntryOf
    <3> HIDE DEF f
    <3> QED BY <1>3, <3>2, <3>3
  <2>4. CASE O!last_len # OmacBlock
    <3>1. O!LastBlock = [block |-> [j \in O!Index |-> IF j < O!last_len
                                    THEN data[(O!blocks - 1) * OmacBlock + j + 1]
                                    ELSE IF j = O!last_len THEN 128 ELSE 0],
                       subkey |-> 2]
      BY <2>2, <2>4 DEF O!LastBlock
    <3>2. f(O!blocks) = [block |-> [j \in O!Index |-> IF j < O!last_len
                                    THEN data[(O!blocks - 1) * OmacBlock + j + 1]
                                    ELSE IF j = O!last_len THEN 128 ELSE 0],
                       subkey |-> 2]
      BY <1>2, <2>1, <2>4 DEF OmacEntryOf
    <3> HIDE DEF f
    <3> QED BY <1>3, <3>1, <3>2
  <2> QED BY <2>3, <2>4
<1> HIDE DEF f
<1>7. out' = [k \in 1 .. n + 1 |-> f(k)]
  <2> DEFINE g == [k \in 1 .. n + 1 |-> f(k)]
             S == {f(k) : k \in 1 .. n + 1}
  <2>1. /\ g \in [1 .. n + 1 -> S]
        /\ iv = [k \in 1 .. n |-> g[k]]
        /\ g[n + 1] = [block |-> O!LastBlock.block, subkey |-> O!LastBlock.subkey]
    BY <1>3, <1>5, <1>6
  <2> HIDE DEF g, S
  <2>2. O!encrypt(O!LastBlock.block, O!LastBlock.subkey) = g
    BY <1>3, <2>1, OmacEncryptTable
  <2> QED BY <1>1, <2>2 DEF g
<1>8. O!Reference(data) = [k \in 1 .. O!blocks |-> OmacEntryOf(data, k)]
  BY <1>2, OmacReferenceIs
<1> QED BY <1>3, <1>7, <1>8 DEF f, data

\* The invariant holds at the start.
LEMMA OmacInitial == O!SizeAssumption /\ O!Init => OmacInv
BY EmptySeq DEF O!Init, OmacInv, OmacAnswered

\* Every step preserves it.
LEMMA OmacPreserved ==
    ASSUME O!SizeAssumption, OmacInv, O!Next \/ UNCHANGED O!vars
    PROVE  OmacInv'
<1>1. ASSUME NEW x \in O!Strings, NEW y \in O!Strings, O!kuznyechik_omac2(x, y)
      PROVE  OmacInv'
  <2>1. a' \in Seq(OmacBytes) /\ b' \in Seq(OmacBytes)
    BY <1>1, OmacStringsType DEF O!kuznyechik_omac2
  <2>2. sealed'.data \in Seq(OmacBytes) /\ OmacAnswered(sealed'.out, sealed'.data)
    <3>1. ~active /\ sealed' = [data |-> a \o b, out |-> out]
      BY <1>1 DEF O!kuznyechik_omac2
    <3>2. OmacAnswered(out, a \o b) /\ a \o b \in Seq(OmacBytes)
      BY <3>1, ConcatProperties DEF OmacInv
    <3>3. sealed'.out = out /\ sealed'.data = a \o b
      BY <3>1
    <3> QED BY <3>2, <3>3, Zenon
  <2>3. active' = TRUE /\ off' = 0 /\ iv' = <<>>
    BY <1>1 DEF O!kuznyechik_omac2
  <2>4. off' < O!blocks'
    <3>1. O!data_len' \in Nat
      BY <2>1, LenProperties DEF O!data_len
    <3>2. O!blocks' = OmacBlocksOf(O!data_len')
      BY DEF O!blocks, OmacBlocksOf
    <3>3. OmacBlocksOf(O!data_len') \in Nat \ {0}
      BY <3>1, OmacBlocksOfProperties
    <3> QED BY <2>3, <3>2, <3>3
  <2>5. iv' = [k \in 1 .. off' |-> OmacLoopEntry(k)']
    BY <2>3
  <2> QED BY <2>1, <2>2, <2>3, <2>4, <2>5 DEF OmacInv
<1>2. CASE O!Turn
  <2>1. /\ active /\ off \in Nat /\ off + 1 < O!blocks
        /\ iv = [k \in 1 .. off |-> OmacLoopEntry(k)]
        /\ iv' = O!encrypt([j \in O!Index |-> O!omac_byte(a, b, off * OmacBlock + j)], 0)
        /\ off' = off + 1
        /\ UNCHANGED <<active, a, b, out, sealed>>
    BY <1>2 DEF O!Turn, OmacInv
  <2>2. OmacLoopEntry(off + 1) = [block |-> [j \in O!Index |-> O!omac_byte(a, b, off * OmacBlock + j)],
                            subkey |-> 0]
    <3>1. (off + 1) - 1 = off
      BY <2>1
    <3> QED BY <3>1, Zenon DEF OmacLoopEntry
  <2>3. iv' = [k \in 1 .. off + 1 |-> OmacLoopEntry(k)]
    <3> DEFINE g == [k \in 1 .. off + 1 |-> OmacLoopEntry(k)]
               S == {OmacLoopEntry(k) : k \in 1 .. off + 1}
               block == [j \in O!Index |-> O!omac_byte(a, b, off * OmacBlock + j)]
    <3>1. /\ g \in [1 .. off + 1 -> S]
          /\ iv = [k \in 1 .. off |-> g[k]]
      BY <2>1
    <3>2. g[off + 1] = OmacLoopEntry(off + 1)
      BY <2>1
    <3>3. g[off + 1] = [block |-> block, subkey |-> 0]
      BY <2>2, <3>2
    <3> HIDE DEF g, S, block
    <3>4. O!encrypt(block, 0) = g
      BY <2>1, <3>1, <3>3, OmacEncryptTable
    <3> QED BY <2>1, <3>4 DEF g, block
  <2>4. O!blocks' = O!blocks
    BY <2>1 DEF O!blocks, O!data_len
  <2>5. iv' = [k \in 1 .. off' |-> OmacLoopEntry(k)']
    BY <2>1, <2>3 DEF OmacLoopEntry
  <2> QED BY <2>1, <2>4, <2>5 DEF OmacInv
<1>3. CASE O!Finish
  <2>1. out' = O!Reference(a \o b)
    BY <1>3, OmacFinishIsReference
  <2>2. active' = FALSE /\ UNCHANGED <<a, b, sealed>>
    BY <1>3 DEF O!Finish
  <2>3. a \in Seq(OmacBytes) /\ b \in Seq(OmacBytes) /\ sealed.data \in Seq(OmacBytes)
        /\ OmacAnswered(sealed.out, sealed.data)
    BY DEF OmacInv
  <2>4. OmacAnswered(out', a' \o b')
    BY <2>1, <2>2 DEF OmacAnswered
  <2> QED BY <2>2, <2>3, <2>4 DEF OmacInv
<1>4. CASE UNCHANGED O!vars
  BY <1>4 DEF O!vars, OmacInv, OmacAnswered, OmacLoopEntry, O!blocks, O!data_len
<1> QED BY <1>1, <1>2, <1>3, <1>4 DEF O!Next

\* The blocks encrypted are those of the standard, wherever the text is cut.
LEMMA OmacConcatenation == OmacInv => O!ConcatenationAuthenticated
BY Zenon DEF OmacInv, OmacAnswered, O!ConcatenationAuthenticated

\* Different concatenations never give the cipher the same blocks and subkeys.
LEMMA OmacUnambiguous == O!SizeAssumption /\ OmacInv => O!Unambiguous
<1> SUFFICES ASSUME O!SizeAssumption, OmacInv, ~active, out # <<>>, sealed.out = out
             PROVE  sealed.data = a \o b
  BY DEF O!Unambiguous
<1> DEFINE x == sealed.data
           y == a \o b
<1>1. x \in Seq(OmacBytes) /\ y \in Seq(OmacBytes)
  BY ConcatProperties DEF OmacInv
<1>2. out = O!Reference(x) /\ out = O!Reference(y)
  BY Zenon DEF OmacInv, OmacAnswered
<1> HIDE DEF x, y
<1>3. x = y
  BY <1>1, <1>2, OmacReferenceInjective
<1> QED BY <1>3 DEF x, y

-----------------------------------------------------------------------------
(***************************************************************************)
(* Arrays, the exclusive or, quotients.                                    *)
(***************************************************************************)

\* An array of n bytes.
Array(s, n) == n \in Nat /\ s = [i \in 1 .. n |-> s[i]]

\* Its length is n, as that of a sequence of its elements.
LEMMA ArrayLen ==
    ASSUME NEW s, NEW n, Array(s, n)
    PROVE  Len(s) = n /\ DOMAIN s = 1 .. n /\ s \in Seq({s[i] : i \in 1 .. n})
<1> DEFINE V == {s[i] : i \in 1 .. n}
           t == [i \in 1 .. n |-> s[i]]
<1>1. n \in Nat /\ s = t
  BY DEF Array
<1>2. \A i \in 1 .. n : s[i] \in V
  OBVIOUS
<1> HIDE DEF V
<1>3. t \in Seq(V) /\ Len(t) = n /\ DOMAIN t = 1 .. n
  BY <1>1, <1>2
<1> HIDE DEF t
<1> QED BY <1>1, <1>3 DEF V

\* Two arrays with the same bytes are one.
LEMMA ArrayEqual ==
    ASSUME NEW s, NEW t, NEW n, Array(s, n), Array(t, n), \A i \in 1 .. n : s[i] = t[i]
    PROVE  s = t
BY DEF Array

\* Nothing is lost in an exclusive or.
LEMMA XorTells ==
    ASSUME NEW x, NEW y, NEW z
    PROVE  /\ Xor(x, z) = Xor(y, z) <=> x = y
           /\ Xor(z, x) = Xor(z, y) <=> x = y
           /\ Xor(Xor(x, z), z) = x
BY DEF Xor

\* Quotient and remainder by any number.
LEMMA Quotient ==
    ASSUME NEW m \in Nat \ {0}, NEW k \in Nat, NEW r \in 0 .. m - 1
    PROVE  (k * m + r) % m = r /\ (k * m + r) \div m = k
OBVIOUS

\* Every number is made of them.
LEMMA Divided ==
    ASSUME NEW n \in Nat \ {0}, NEW m \in Nat
    PROVE  /\ m \div n \in Nat /\ m % n \in 0 .. n - 1
           /\ m = (m \div n) * n + (m % n)
<1> DEFINE d == m \div n
           e == m % n
<1>1. d \in Nat /\ e \in 0 .. n - 1 /\ m = d * n + e
  OBVIOUS
<1> QED BY <1>1

-----------------------------------------------------------------------------
(***************************************************************************)
(* GOST 28147-89 CFB.                                                      *)
(***************************************************************************)

\* Where the block of byte i begins.
CfbStart(i) == ((i - 1) \div CfbBlock) * CfbBlock

\* The block before that of byte i, and what is encrypted to make the key stream.
CfbLast(cipher, i) ==
    IF CfbStart(i) = 0 THEN C!Iv
    ELSE [k \in 1 .. CfbBlock |-> cipher[CfbStart(i) - CfbBlock + k]]
CfbKey(m, i) == IF m THEN (i - 1) \div MeshSize ELSE 0
CfbRegister(m, cipher, i) ==
    IF m /\ CfbStart(i) # 0 /\ CfbStart(i) % MeshSize = 0
    THEN C!gost28147_encrypt_raw(CfbKey(m, i), CfbLast(cipher, i)) ELSE CfbLast(cipher, i)
CfbStream(m, cipher, i) ==
    {<<"E", <<CfbKey(m, i), CfbRegister(m, cipher, i)>>, i - CfbStart(i)>>}

\* The numbers a place in the text is made of.
LEMMA CfbPlace ==
    ASSUME C!SizeAssumption, NEW i \in Nat \ {0}
    PROVE  /\ CfbStart(i) \in Nat /\ i - CfbStart(i) \in 1 .. CfbBlock
           /\ CfbStart(i) % CfbBlock = 0
           /\ CfbStart(i) # 0 => CfbStart(i) - CfbBlock \in Nat
           /\ CfbStart(i) = 0 <=> i <= CfbBlock
           /\ CfbStart(i) = 0 <=> (i - 1) \div CfbBlock = 0
<1> DEFINE q == (i - 1) \div CfbBlock
           r == (i - 1) % CfbBlock
<1>1. CfbBlock \in Nat \ {0}
  BY DEF C!SizeAssumption
<1>2. q \in Nat /\ r \in 0 .. CfbBlock - 1 /\ i - 1 = q * CfbBlock + r
  BY <1>1, Divided
<1>3. CfbStart(i) = q * CfbBlock
  BY DEF CfbStart
<1> HIDE DEF q, r
<1>4. (q * CfbBlock + 0) % CfbBlock = 0
  <2>1. 0 \in 0 .. CfbBlock - 1
    BY <1>1
  <2> QED BY <1>1, <1>2, <2>1, Quotient
<1>5. q * CfbBlock \in Nat /\ (q # 0 => q * CfbBlock - CfbBlock \in Nat)
      /\ (q * CfbBlock = 0 <=> q = 0)
  BY <1>1, <1>2
<1> DEFINE s == q * CfbBlock
<1>6. s + 0 = s
  BY <1>5
<1>7. s % CfbBlock = 0
  BY <1>4, <1>6
<1>8. /\ s \in Nat /\ i - s \in 1 .. CfbBlock
      /\ s # 0 => s - CfbBlock \in Nat
      /\ s = 0 <=> i <= CfbBlock
  <2>1. s \in Nat /\ i - 1 = s + r /\ (s # 0 => s - CfbBlock \in Nat)
    BY <1>2, <1>5
  <2> HIDE DEF s
  <2> QED BY <1>1, <1>2, <2>1
<1> HIDE DEF s
<1>9. CfbStart(i) = s /\ (s = 0 <=> q = 0)
  BY <1>3, <1>5 DEF s
<1> QED BY <1>7, <1>8, <1>9 DEF q

\* Byte i of the key stream of the standard.
LEMMA CfbStreamByte ==
    ASSUME C!SizeAssumption, NEW cipher, NEW i \in Nat \ {0}
    PROVE  C!StreamByte(cipher, i) = CfbStream(mesh, cipher, i)
<1>1. i - CfbStart(i) \in 1 .. CfbBlock
  BY CfbPlace
<1>2. C!StreamByte(cipher, i) =
        C!gost28147_encrypt_raw(CfbKey(mesh, i), CfbRegister(mesh, cipher, i))[i - CfbStart(i)]
  BY Zenon DEF C!StreamByte, C!KeyAt, CfbStart, CfbLast, CfbKey, CfbRegister
<1> DEFINE x == <<CfbKey(mesh, i), CfbRegister(mesh, cipher, i)>>
           p == i - CfbStart(i)
<1>3. C!gost28147_encrypt_raw(CfbKey(mesh, i), CfbRegister(mesh, cipher, i)) =
        [k \in 1 .. CfbBlock |-> {<<"E", x, k>>}]
  BY Zenon DEF C!gost28147_encrypt_raw, C!BytesOf, C!Atom
<1> HIDE DEF x, p
<1>4. [k \in 1 .. CfbBlock |-> {<<"E", x, k>>}][p] = {<<"E", x, p>>}
  BY <1>1 DEF p
<1> QED BY <1>2, <1>3, <1>4, Zenon DEF CfbStream, x, p

\* Two encrypted bytes in one place tell what was encrypted.
LEMMA CfbEncryptTells ==
    ASSUME NEW x, NEW y, NEW p, {<<"E", x, p>>} = {<<"E", y, p>>}
    PROVE  x = y
<1>1. <<"E", x, p>> = <<"E", y, p>>
  OBVIOUS
<1> QED BY <1>1

\* So do two encrypted blocks.
LEMMA CfbBlockTells ==
    ASSUME C!SizeAssumption, NEW k, NEW x, NEW y,
           C!gost28147_encrypt_raw(k, x) = C!gost28147_encrypt_raw(k, y)
    PROVE  x = y
<1>1. 1 \in 1 .. CfbBlock
  BY DEF C!SizeAssumption
<1> DEFINE u == <<k, x>>
           v == <<k, y>>
<1>2. [j \in 1 .. CfbBlock |-> {<<"E", u, j>>}] = [j \in 1 .. CfbBlock |-> {<<"E", v, j>>}]
  BY Zenon DEF C!gost28147_encrypt_raw, C!BytesOf, C!Atom
<1> HIDE DEF u, v
<1>3. [j \in 1 .. CfbBlock |-> {<<"E", u, j>>}][1] = {<<"E", u, 1>>}
      /\ [j \in 1 .. CfbBlock |-> {<<"E", v, j>>}][1] = {<<"E", v, 1>>}
  BY <1>1
<1>4. {<<"E", u, 1>>} = {<<"E", v, 1>>}
  BY <1>2, <1>3
<1>5. u = v
  BY <1>4, CfbEncryptTells
<1> QED BY <1>5 DEF u, v

\* A byte of the key stream tells the block of the cipher text before its own, and
\* nothing else of it.
LEMMA CfbStreamTells ==
    ASSUME C!SizeAssumption, NEW m, NEW c, NEW d, NEW i \in Nat \ {0}
    PROVE  CfbStream(m, c, i) = CfbStream(m, d, i) <=>
              \/ CfbStart(i) = 0
              \/ \A k \in 1 .. CfbBlock :
                    c[CfbStart(i) - CfbBlock + k] = d[CfbStart(i) - CfbBlock + k]
<1> DEFINE same == \/ CfbStart(i) = 0
                   \/ \A k \in 1 .. CfbBlock :
                        c[CfbStart(i) - CfbBlock + k] = d[CfbStart(i) - CfbBlock + k]
<1>1. CfbLast(c, i) = CfbLast(d, i) <=> same
  <2>1. CASE CfbStart(i) = 0
    BY <2>1 DEF CfbLast
  <2>2. CASE CfbStart(i) # 0
    <3> DEFINE f == [k \in 1 .. CfbBlock |-> c[CfbStart(i) - CfbBlock + k]]
               g == [k \in 1 .. CfbBlock |-> d[CfbStart(i) - CfbBlock + k]]
    <3>1. CfbLast(c, i) = f /\ CfbLast(d, i) = g
      BY <2>2 DEF CfbLast
    <3>2. f = g <=> \A k \in 1 .. CfbBlock : f[k] = g[k]
      BY Zenon
    <3>3. \A k \in 1 .. CfbBlock : f[k] = c[CfbStart(i) - CfbBlock + k]
                                   /\ g[k] = d[CfbStart(i) - CfbBlock + k]
      OBVIOUS
    <3> HIDE DEF f, g
    <3> QED BY <2>2, <3>1, <3>2, <3>3
  <2> QED BY <2>1, <2>2
<1> HIDE DEF same
<1>2. CfbRegister(m, c, i) = CfbRegister(m, d, i) <=> CfbLast(c, i) = CfbLast(d, i)
  BY CfbBlockTells, Zenon DEF CfbRegister
<1>3. CfbStream(m, c, i) = CfbStream(m, d, i) <=> CfbRegister(m, c, i) = CfbRegister(m, d, i)
  <2> DEFINE x == <<CfbKey(m, i), CfbRegister(m, c, i)>>
             y == <<CfbKey(m, i), CfbRegister(m, d, i)>>
             p == i - CfbStart(i)
  <2>1. CfbStream(m, c, i) = {<<"E", x, p>>} /\ CfbStream(m, d, i) = {<<"E", y, p>>}
    BY Zenon DEF CfbStream
  <2>2. x = y <=> CfbRegister(m, c, i) = CfbRegister(m, d, i)
    OBVIOUS
  <2> HIDE DEF x, y, p
  <2>3. {<<"E", x, p>>} = {<<"E", y, p>>} => x = y
    BY CfbEncryptTells
  <2> QED BY <2>1, <2>2, <2>3, Zenon
<1> QED BY <1>1, <1>2, <1>3, Zenon DEF same

\* Where a turn that begins at byte o changes the key, and which key it uses.
LEMMA CfbMeshed ==
    ASSUME C!SizeAssumption, NEW o \in Nat, o % CfbBlock = 0
    PROVE  /\ \A r \in 0 .. CfbBlock - 1 : (o + r) \div MeshSize = o \div MeshSize
           /\ o # 0 /\ o % MeshSize = 0 => (o - 1) \div MeshSize + 1 = o \div MeshSize
           /\ o # 0 /\ o % MeshSize # 0 => (o - 1) \div MeshSize = o \div MeshSize
<1> DEFINE M == MeshSize
           w == M \div CfbBlock
           q == o \div M
           r == o % M
           k == o \div CfbBlock
           x == M % CfbBlock
           y == o % CfbBlock
<1>1. CfbBlock \in Nat \ {0} /\ M \in Nat \ {0} /\ x = 0 /\ y = 0
  BY DEF C!SizeAssumption
<1>2. w \in Nat /\ x \in 0 .. CfbBlock - 1 /\ M = w * CfbBlock + x
  BY <1>1, Divided
<1>3. q \in Nat /\ r \in 0 .. M - 1 /\ o = q * M + r
  BY <1>1, Divided
<1>4. k \in Nat /\ y \in 0 .. CfbBlock - 1 /\ o = k * CfbBlock + y
  BY <1>1, Divided
<1> HIDE DEF w, q, r, k, M, x, y
<1>5. M = w * CfbBlock /\ o = k * CfbBlock
  <2>1. w * CfbBlock \in Nat /\ k * CfbBlock \in Nat
    BY <1>1, <1>2, <1>4
  <2> QED BY <1>1, <1>2, <1>4, <2>1
<1>6. r + CfbBlock <= M
  <2> DEFINE t == k - q * w
  <2>1. t \in Int /\ q * w \in Nat
    BY <1>2, <1>3, <1>4
  <2>2. q * M = (q * w) * CfbBlock
    BY <1>1, <1>2, <1>3, <1>5
  <2>3. r = k * CfbBlock - (q * w) * CfbBlock
    <3>1. k * CfbBlock \in Nat /\ (q * w) * CfbBlock \in Nat
      BY <1>1, <1>4, <2>1
    <3> QED BY <1>3, <1>5, <2>2, <3>1
  <2>4. r = t * CfbBlock
    <3> DEFINE p == q * w
    <3> HIDE DEF p
    <3>1. p \in Nat /\ r = k * CfbBlock - p * CfbBlock /\ t = k - p
      BY <2>1, <2>3 DEF p
    <3> HIDE DEF t
    <3> QED BY <1>1, <1>4, <3>1
  <2> HIDE DEF t
  <2>5. ASSUME t >= w
        PROVE  FALSE
    <3>1. t * CfbBlock >= w * CfbBlock
      BY <1>1, <1>2, <2>1, <2>5
    <3> QED BY <1>3, <1>5, <2>4, <3>1, <1>1
  <2>6. t + 1 <= w
    BY <1>2, <2>1, <2>5
  <2>7. (t + 1) * CfbBlock <= w * CfbBlock
    BY <1>1, <1>2, <2>1, <2>6
  <2>8. (t + 1) * CfbBlock = t * CfbBlock + CfbBlock
    BY <1>1, <2>1
  <2> QED BY <1>5, <2>4, <2>7, <2>8
<1>7. ASSUME NEW s \in 0 .. CfbBlock - 1
      PROVE  (o + s) \div M = q
  <2>1. r + s \in 0 .. M - 1
    BY <1>1, <1>3, <1>6
  <2>2. (q * M + (r + s)) \div M = q
    BY <1>1, <1>3, <2>1, Quotient
  <2>3. q * M \in Nat
    BY <1>1, <1>3
  <2>4. q * M + (r + s) = o + s
    BY <1>3, <1>1, <2>3
  <2> QED BY <2>2, <2>4
<1>8. ASSUME o # 0, r = 0
      PROVE  (o - 1) \div M + 1 = q
  <2>1. q # 0
    <3>1. 0 * M = 0
      BY <1>1
    <3> QED BY <1>1, <1>3, <1>8, <3>1
  <2>2. q - 1 \in Nat /\ M - 1 \in 0 .. M - 1
    BY <1>1, <1>3, <2>1
  <2>3. ((q - 1) * M + (M - 1)) \div M = q - 1
    BY <1>1, <2>2, Quotient
  <2>4. (q - 1) * M = q * M - M /\ q * M \in Nat
    BY <1>1, <1>3
  <2>5. (q - 1) * M + (M - 1) = o - 1
    BY <1>1, <1>3, <1>8, <2>4
  <2>6. (o - 1) \div M = q - 1
    BY <2>3, <2>5
  <2> QED BY <1>3, <2>6
<1>9. ASSUME o # 0, r # 0
      PROVE  (o - 1) \div M = q
  <2>1. r - 1 \in 0 .. M - 1
    BY <1>1, <1>3, <1>9
  <2>2. (q * M + (r - 1)) \div M = q
    BY <1>1, <1>3, <2>1, Quotient
  <2>3. q * M \in Nat
    BY <1>1, <1>3
  <2>4. q * M + (r - 1) = o - 1
    BY <1>1, <1>3, <2>3
  <2> QED BY <2>2, <2>4
<1> QED BY <1>7, <1>8, <1>9 DEF q, r, M

\* A byte of a block that begins at byte o.
LEMMA CfbAt ==
    ASSUME C!SizeAssumption, NEW o \in Nat, o % CfbBlock = 0, NEW r \in 1 .. CfbBlock
    PROVE  CfbStart(o + r) = o /\ o + r \in Nat \ {0}
<1> DEFINE k == o \div CfbBlock
           y == o % CfbBlock
<1>1. CfbBlock \in Nat \ {0} /\ y = 0
  BY DEF C!SizeAssumption
<1>2. k \in Nat /\ y \in 0 .. CfbBlock - 1 /\ o = k * CfbBlock + y
  BY <1>1, Divided
<1> HIDE DEF k, y
<1>3. o = k * CfbBlock
  <2>1. k * CfbBlock \in Nat
    BY <1>1, <1>2
  <2> QED BY <1>1, <1>2, <2>1
<1>4. (k * CfbBlock + (r - 1)) \div CfbBlock = k
  BY <1>1, <1>2, Quotient
<1>5. k * CfbBlock + (r - 1) = (o + r) - 1
  BY <1>3
<1>6. ((o + r) - 1) \div CfbBlock = k
  BY <1>4, <1>5
<1> QED BY <1>3, <1>6 DEF CfbStart

-----------------------------------------------------------------------------

\* The cipher text that is fed back; in place decryption takes for it what it
\* has written.
CfbFed == IF enc \/ inplace THEN out ELSE src

\* What the output buffer held when the call began.
CfbBefore == IF inplace THEN src ELSE C!Old(Len(src))

\* The text encrypted last and its cipher text.
CfbSealed ==
    /\ Len(sealed.cipher) \in Nat
    /\ Array(sealed.text, Len(sealed.cipher)) /\ Array(sealed.cipher, Len(sealed.cipher))
    /\ \A i \in 1 .. Len(sealed.cipher) :
          sealed.cipher[i] = Xor(sealed.text[i], CfbStream(sealed.mesh, sealed.cipher, i))
    /\ Len(sealed.cipher) <= MaxCfb

CfbInv ==
    /\ {active, enc, mesh, inplace} \subseteq BOOLEAN
    /\ Len(src) \in 0 .. MaxCfb
    /\ Array(src, Len(src)) /\ Array(out, Len(src))
    /\ in = IF inplace THEN out ELSE src
    /\ off \in 0 .. Len(src) /\ (off = Len(src) \/ off % CfbBlock = 0)
    /\ ~active => off = Len(src)
    /\ key = IF mesh /\ off # 0 THEN (off - 1) \div MeshSize ELSE 0
    /\ Array(iv, CfbBlock)
    /\ off = 0 => iv = C!Iv
    /\ off # 0 /\ off < Len(src) => \A k \in 1 .. CfbBlock : iv[k] = CfbFed[off - CfbBlock + k]
    /\ \A i \in 1 .. Len(src) :
          out[i] = IF i <= off THEN Xor(src[i], CfbStream(mesh, CfbFed, i)) ELSE CfbBefore[i]
    /\ CfbSealed
    /\ ~enc => sealed.mesh = mesh /\ \E pos \in 0 .. Len(sealed.cipher) : src = C!Damaged(pos)

\* The iv is a block.
LEMMA CfbIv == C!SizeAssumption => Array(C!Iv, CfbBlock)
BY DEF C!SizeAssumption, Array, C!Iv, C!BytesOf

\* A buffer of n bytes.
LEMMA CfbOld ==
    ASSUME NEW n \in Nat
    PROVE  Array(C!Old(n), n) /\ Array(C!Text(n), n) /\ Len(C!Old(n)) = n /\ Len(C!Text(n)) = n
<1>1. Array(C!Old(n), n) /\ Array(C!Text(n), n)
  BY DEF Array, C!Old, C!Text, C!BytesOf
<1> QED BY <1>1, ArrayLen

\* The invariant holds at the start.
LEMMA CfbInitial ==
    ASSUME C!SizeAssumption, C!Init
    PROVE  CfbInv
<1>1. /\ active = FALSE /\ enc = TRUE /\ mesh = FALSE /\ inplace = FALSE
      /\ src = <<>> /\ in = <<>> /\ out = <<>> /\ key = 0 /\ iv = C!Iv /\ off = 0
      /\ sealed = [mesh |-> FALSE, text |-> <<>>, cipher |-> <<>>]
  BY Zenon DEF C!Init
<1>2. Len(src) = 0 /\ Array(src, Len(src)) /\ Array(out, Len(src))
  BY <1>1 DEF Array
<1>3. sealed.cipher = <<>> /\ sealed.text = <<>>
  BY <1>1
<1>4. CfbSealed
  <2>1. Len(sealed.cipher) = 0 /\ MaxCfb \in Nat
    BY <1>3 DEF C!SizeAssumption
  <2>2. Array(sealed.text, Len(sealed.cipher)) /\ Array(sealed.cipher, Len(sealed.cipher))
    BY <1>3, <2>1 DEF Array
  <2> QED BY <2>1, <2>2 DEF CfbSealed
<1>5. MaxCfb \in Nat
  BY DEF C!SizeAssumption
<1>6. Array(iv, CfbBlock)
  BY <1>1, CfbIv
<1>7. \A i \in 1 .. Len(src) :
          out[i] = IF i <= off THEN Xor(src[i], CfbStream(mesh, CfbFed, i)) ELSE CfbBefore[i]
  BY <1>2
<1>8. key = (IF mesh /\ off # 0 THEN (off - 1) \div MeshSize ELSE 0)
      /\ in = (IF inplace THEN out ELSE src)
  BY <1>1
<1>9. Len(src) \in 0 .. MaxCfb /\ off \in 0 .. Len(src) /\ off = Len(src) /\ off = 0
  BY <1>1, <1>2, <1>5
<1> QED BY <1>1, <1>2, <1>4, <1>6, <1>7, <1>8, <1>9 DEF CfbInv

\* A call begins.
LEMMA CfbCall ==
    ASSUME C!SizeAssumption, CfbInv, NEW buf, NEW e \in BOOLEAN, NEW m \in BOOLEAN,
           NEW place \in BOOLEAN, C!gost28147_cfb_crypt(buf, e, m, place),
           Len(buf) \in 0 .. MaxCfb, Array(buf, Len(buf)),
           ~e => sealed.mesh = m /\ \E pos \in 0 .. Len(sealed.cipher) : buf = C!Damaged(pos)
    PROVE  CfbInv'
<1>1. /\ active' = TRUE /\ enc' = e /\ mesh' = m /\ inplace' = place
      /\ src' = buf /\ in' = buf
      /\ out' = IF place THEN buf ELSE C!Old(Len(buf))
      /\ key' = 0 /\ iv' = C!Iv /\ off' = 0 /\ sealed' = sealed
  BY Zenon DEF C!gost28147_cfb_crypt
<1>2. Len(src') = Len(buf)
  BY <1>1
<1>3. Array(C!Old(Len(buf)), Len(buf))
  BY CfbOld
<1>4. Array(src', Len(src')) /\ Array(out', Len(src'))
  BY <1>1, <1>3
<1>5. in' = IF inplace' THEN out' ELSE src'
  BY <1>1
<1>6. Array(iv', CfbBlock)
  BY <1>1, CfbIv
<1>7. out' = CfbBefore'
  BY <1>1 DEF CfbBefore
<1>8. \A i \in 1 .. Len(src') : ~(i <= off')
  BY <1>1
<1>9. \A i \in 1 .. Len(src') :
          out'[i] = IF i <= off' THEN Xor(src'[i], CfbStream(mesh', CfbFed', i)) ELSE CfbBefore'[i]
  BY <1>7, <1>8, Zenon
<1>10. CfbSealed'
  <2>1. CfbSealed
    BY Zenon DEF CfbInv
  <2> QED BY <1>1, <2>1 DEF CfbSealed
<1>11. ~enc' => sealed'.mesh = mesh'
                /\ \E pos \in 0 .. Len(sealed'.cipher) : src' = C!Damaged(pos)'
  BY <1>1, Zenon DEF C!Damaged
<1>12. 0 \in 0 .. Len(src') /\ 0 % CfbBlock = 0
  <2>1. CfbBlock \in Nat \ {0}
    BY DEF C!SizeAssumption
  <2>2. 0 % CfbBlock = 0
    <3>1. (0 * CfbBlock + 0) % CfbBlock = 0
      BY <2>1, Quotient
    <3> QED BY <2>1, <3>1
  <2> QED BY <1>2, <2>2
<1>13. {active', enc', mesh', inplace'} \subseteq BOOLEAN /\ Len(src') \in 0 .. MaxCfb
  BY <1>1
<1>14. /\ off' \in 0 .. Len(src') /\ off' % CfbBlock = 0 /\ off' = 0
       /\ key' = 0 /\ active' = TRUE /\ iv' = C!Iv
  BY <1>1, <1>12
<1> QED BY <1>4, <1>5, <1>6, <1>9, <1>10, <1>11, <1>13, <1>14 DEF CfbInv

\* What a turn at offset off writes: the key is that of the block, what is
\* encrypted is what the standard says, and the bytes are taken of the text.
LEMMA CfbTurnBytes ==
    ASSUME C!SizeAssumption, CfbInv, off < Len(src),
           NEW k, k = IF C!Meshes THEN C!key_mesh(key, iv).key ELSE key,
           NEW v, v = IF C!Meshes THEN C!key_mesh(key, iv).iv ELSE iv,
           NEW r \in 1 .. CfbBlock
    PROVE  /\ k = CfbKey(mesh, off + r)
           /\ C!gost28147_encrypt_raw(k, v)[r] = CfbStream(mesh, CfbFed, off + r)
<1>1. /\ off \in Nat /\ off % CfbBlock = 0 /\ mesh \in BOOLEAN
      /\ key = IF mesh /\ off # 0 THEN (off - 1) \div MeshSize ELSE 0
      /\ Array(iv, CfbBlock)
      /\ off = 0 => iv = C!Iv
      /\ off # 0 => \A j \in 1 .. CfbBlock : iv[j] = CfbFed[off - CfbBlock + j]
  BY DEF CfbInv
<1>2. CfbStart(off + r) = off /\ off + r \in Nat \ {0}
  BY <1>1, CfbAt
<1>3. CfbBlock \in Nat \ {0} /\ MeshSize \in Nat \ {0}
  BY DEF C!SizeAssumption
<1>4. ((off + r) - 1) \div MeshSize = off \div MeshSize
  <2>1. r - 1 \in 0 .. CfbBlock - 1
    BY <1>3
  <2>2. (off + (r - 1)) \div MeshSize = off \div MeshSize
    BY <1>1, <2>1, CfbMeshed
  <2>3. off + (r - 1) = (off + r) - 1
    BY <1>1
  <2> QED BY <2>2, <2>3
<1>5. CfbKey(mesh, off + r) = IF mesh THEN off \div MeshSize ELSE 0
  BY <1>4, Zenon DEF CfbKey
<1>6. C!Meshes <=> mesh /\ off # 0 /\ off % MeshSize = 0
  BY DEF C!Meshes
<1>7. k = CfbKey(mesh, off + r)
  <2>1. C!key_mesh(key, iv).key = key + 1
    BY DEF C!key_mesh
  <2>2. off \div MeshSize \in Nat
    BY <1>1, <1>3, Divided
  <2>3. CASE C!Meshes
    BY <1>1, <1>5, <1>6, <2>1, <2>3, CfbMeshed
  <2>4. CASE ~C!Meshes /\ mesh /\ off # 0
    BY <1>1, <1>5, <1>6, <2>4, CfbMeshed
  <2>5. CASE ~C!Meshes /\ mesh /\ off = 0
    <3>1. 0 \div MeshSize = 0
      BY <1>3
    <3> QED BY <1>1, <1>5, <2>5, <3>1
  <2>6. CASE ~mesh
    BY <1>1, <1>5, <1>6, <2>6
  <2> QED BY <1>1, <2>3, <2>4, <2>5, <2>6
<1>8. iv = CfbLast(CfbFed, off + r)
  <2>1. CASE off = 0
    BY <1>1, <1>2, <2>1 DEF CfbLast
  <2>2. CASE off # 0
    <3> DEFINE f == [j \in 1 .. CfbBlock |-> CfbFed[off - CfbBlock + j]]
    <3>1. CfbLast(CfbFed, off + r) = f
      BY <1>2, <2>2 DEF CfbLast
    <3>2. iv = [j \in 1 .. CfbBlock |-> iv[j]]
      BY <1>1 DEF Array
    <3>3. \A j \in 1 .. CfbBlock : iv[j] = CfbFed[off - CfbBlock + j]
      BY <1>1, <2>2
    <3>4. [j \in 1 .. CfbBlock |-> iv[j]] = f
      BY <3>3, Zenon
    <3> QED BY <3>1, <3>2, <3>4, Zenon
  <2> QED BY <2>1, <2>2
<1>9. v = CfbRegister(mesh, CfbFed, off + r)
  <2>1. C!key_mesh(key, iv).key = key + 1
        /\ C!key_mesh(key, iv).iv = C!gost28147_encrypt_raw(key + 1, iv)
    BY DEF C!key_mesh
  <2> DEFINE x == CfbRegister(mesh, CfbFed, off + r)
  <2>2. x = IF C!Meshes THEN C!gost28147_encrypt_raw(CfbKey(mesh, off + r), iv) ELSE iv
    BY <1>2, <1>6, <1>8, Zenon DEF CfbRegister
  <2> HIDE DEF x
  <2>3. CASE C!Meshes
    <3>1. k = key + 1 /\ v = C!gost28147_encrypt_raw(key + 1, iv)
      BY <2>1, <2>3
    <3> QED BY <1>7, <2>2, <2>3, <3>1, Zenon DEF x
  <2>4. CASE ~C!Meshes
    BY <2>2, <2>4 DEF x
  <2> QED BY <2>3, <2>4
<1>10. C!gost28147_encrypt_raw(k, v)[r] = {<<"E", <<k, v>>, r>>}
  <2> DEFINE x == <<k, v>>
  <2>1. C!gost28147_encrypt_raw(k, v) = [j \in 1 .. CfbBlock |-> {<<"E", x, j>>}]
    BY Zenon DEF C!gost28147_encrypt_raw, C!BytesOf, C!Atom
  <2> HIDE DEF x
  <2>2. [j \in 1 .. CfbBlock |-> {<<"E", x, j>>}][r] = {<<"E", x, r>>}
    OBVIOUS
  <2> QED BY <2>1, <2>2 DEF x
<1>11. (off + r) - CfbStart(off + r) = r
  BY <1>1, <1>2
<1> QED BY <1>7, <1>9, <1>10, <1>11, Zenon DEF CfbStream

\* Places before byte i are all the key stream there is made of.
LEMMA CfbStreamBefore ==
    ASSUME C!SizeAssumption, NEW m, NEW c, NEW d, NEW i \in Nat \ {0}, NEW o \in Nat,
           i <= o \/ CfbStart(i) <= o, \A j \in 1 .. o : c[j] = d[j]
    PROVE  CfbStream(m, c, i) = CfbStream(m, d, i)
<1>1. /\ CfbStart(i) \in Nat /\ i - CfbStart(i) \in 1 .. CfbBlock
      /\ CfbStart(i) # 0 => CfbStart(i) - CfbBlock \in Nat
  BY CfbPlace
<1>2. CfbBlock \in Nat
  BY DEF C!SizeAssumption
<1> DEFINE s == CfbStart(i)
<1> HIDE DEF s
<1>3. s \in Nat /\ s < i /\ (s # 0 => s - CfbBlock \in Nat)
  BY <1>1, <1>2 DEF s
<1>4. s <= o
  BY <1>3 DEF s
<1>5. ASSUME s # 0, NEW k \in 1 .. CfbBlock
      PROVE  c[s - CfbBlock + k] = d[s - CfbBlock + k]
  <2>1. s - CfbBlock + k \in 1 .. o
    BY <1>2, <1>3, <1>4, <1>5
  <2> QED BY <2>1
<1> QED BY <1>5, CfbStreamTells DEF s

\* A turn of the loop.
LEMMA CfbTurn ==
    ASSUME C!SizeAssumption, CfbInv, C!Turn
    PROVE  CfbInv'
<1> DEFINE L == Len(src)
           n == C!n
           k == IF C!Meshes THEN C!key_mesh(key, iv).key ELSE key
           v == IF C!Meshes THEN C!key_mesh(key, iv).iv ELSE iv
           gamma == C!gost28147_encrypt_raw(k, v)
           c == [i \in 1 .. n |-> Xor(in[off + i], gamma[i])]
<1>1. /\ {active, enc, mesh, inplace} \subseteq BOOLEAN
      /\ L \in 0 .. MaxCfb /\ L \in Nat
      /\ Array(src, L) /\ Array(out, L)
      /\ in = IF inplace THEN out ELSE src
      /\ off \in 0 .. L /\ (off = L \/ off % CfbBlock = 0)
      /\ Array(iv, CfbBlock)
      /\ CfbSealed
      /\ ~enc => sealed.mesh = mesh /\ \E pos \in 0 .. Len(sealed.cipher) : src = C!Damaged(pos)
  <2>1. MaxCfb \in Nat
    BY DEF C!SizeAssumption
  <2>2. L \in 0 .. MaxCfb
    BY Zenon DEF CfbInv
  <2>3. L \in Nat
    BY <2>1, <2>2
  <2> QED BY <2>2, <2>3, Zenon DEF CfbInv
<1>2. Len(in) = L /\ Len(out) = L
  BY <1>1, ArrayLen
<1>3. active /\ off < L /\ off % CfbBlock = 0
  BY <1>1, <1>2 DEF C!Turn
<1>4. CfbBlock \in Nat \ {0} /\ MeshSize \in Nat \ {0}
  BY DEF C!SizeAssumption
<1>5. n \in 1 .. CfbBlock /\ off + n <= L /\ (n = CfbBlock \/ off + n = L)
  BY <1>1, <1>2, <1>3, <1>4 DEF C!n
<1>6. /\ key' = k
      /\ out' = C!Store(out, off, c)
      /\ in' = IF inplace THEN out' ELSE in
      /\ iv' = [i \in 1 .. CfbBlock |-> IF i <= n THEN C!Feedback(c[i], in'[off + i]) ELSE v[i]]
      /\ off' = off + n
      /\ UNCHANGED <<active, enc, mesh, inplace, src, sealed>>
  <2> DEFINE meshed == IF C!Meshes THEN C!key_mesh(key, iv) ELSE [key |-> key, iv |-> iv]
             g == C!gost28147_encrypt_raw(meshed.key, meshed.iv)
             d == [i \in 1 .. n |-> C!Xor(in[off + i], g[i])]
  <2>1. /\ key' = meshed.key
        /\ out' = C!Store(out, off, d)
        /\ in' = IF inplace THEN out' ELSE in
        /\ iv' = [i \in 1 .. CfbBlock |-> IF i <= n THEN C!Feedback(d[i], in'[off + i]) ELSE meshed.iv[i]]
        /\ off' = off + n
        /\ UNCHANGED <<active, enc, mesh, inplace, src, sealed>>
    BY Zenon DEF C!Turn
  <2>2. meshed.key = k /\ meshed.iv = v
    BY DEF C!key_mesh
  <2> HIDE DEF meshed, k, v
  <2>3. d = c
    BY <2>2, Zenon DEF C!Xor, Xor
  <2> HIDE DEF c, d
  <2> QED BY <2>1, <2>2, <2>3, Zenon
<1> HIDE DEF n
<1>7. ASSUME NEW r \in 1 .. CfbBlock
      PROVE  k = CfbKey(mesh, off + r) /\ gamma[r] = CfbStream(mesh, CfbFed, off + r)
  BY <1>3, CfbTurnBytes
<1> HIDE DEF k, v, gamma
<1>8. ASSUME NEW r \in 1 .. n
      PROVE  c[r] = Xor(src[off + r], CfbStream(mesh, CfbFed, off + r))
  <2>1. off + r \in 1 .. L /\ ~(off + r <= off)
    BY <1>1, <1>3, <1>5
  <2>2. in[off + r] = src[off + r]
    <3>1. CASE ~inplace
      BY <1>1, <3>1
    <3>2. CASE inplace
      <4>1. out[off + r] = CfbBefore[off + r]
        BY <2>1 DEF CfbInv
      <4> QED BY <1>1, <3>2, <4>1 DEF CfbBefore
    <3> QED BY <3>1, <3>2
  <2>3. r \in 1 .. CfbBlock
    BY <1>4, <1>5
  <2> QED BY <2>2, <2>3, <1>7
<1>9. Len(c) = n
  <2>1. Array(c, n)
    BY <1>5 DEF Array
  <2> HIDE DEF c
  <2> QED BY <2>1, ArrayLen
<1> HIDE DEF c
<1>10. out' = [i \in 1 .. L |-> IF i \in off + 1 .. off + n THEN c[i - off] ELSE out[i]]
  BY <1>2, <1>6, <1>9, Zenon DEF C!Store
<1>11. Array(out', L)
  BY <1>1, <1>10 DEF Array
<1>12. /\ \A i \in 1 .. L : ~(i \in off + 1 .. off + n) => out'[i] = out[i]
       /\ \A r \in 1 .. n : out'[off + r] = c[r]
  <2>1. ASSUME NEW r \in 1 .. n
        PROVE  off + r \in 1 .. L /\ off + r \in off + 1 .. off + n /\ (off + r) - off = r
    BY <1>1, <1>3, <1>5
  <2> QED BY <1>10, <2>1
<1>13. CfbFed' = IF enc \/ inplace THEN out' ELSE src
  BY <1>6 DEF CfbFed
<1>14. \A j \in 1 .. off : CfbFed'[j] = CfbFed[j]
  <2>1. ASSUME NEW j \in 1 .. off
        PROVE  j \in 1 .. L /\ ~(j \in off + 1 .. off + n)
    BY <1>1, <1>3
  <2> QED BY <1>12, <1>13, <2>1 DEF CfbFed
<1>15. ASSUME NEW i \in 1 .. L, i <= off + n
       PROVE  CfbStream(mesh, CfbFed', i) = CfbStream(mesh, CfbFed, i)
  <2>1. i <= off \/ CfbStart(i) <= off
    <3>1. CASE i <= off
      BY <3>1
    <3>2. CASE ~(i <= off)
      <4>1. i - off \in 1 .. CfbBlock /\ off + (i - off) = i
        BY <1>1, <1>4, <1>5, <1>15, <3>2
      <4> DEFINE r == i - off
      <4>2. CfbStart(off + r) = off
        <5> HIDE DEF r
        <5>1. r \in 1 .. CfbBlock
          BY <4>1 DEF r
        <5> QED BY <1>1, <1>3, <5>1, CfbAt
      <4> QED BY <1>1, <4>1, <4>2
    <3> QED BY <3>1, <3>2
  <2> QED BY <1>1, <1>14, <2>1, CfbStreamBefore
<1>16. CfbBefore' = CfbBefore
  BY <1>6 DEF CfbBefore
<1>17. \A i \in 1 .. L :
          out'[i] = IF i <= off + n THEN Xor(src[i], CfbStream(mesh, CfbFed', i)) ELSE CfbBefore[i]
  <2> SUFFICES ASSUME NEW i \in 1 .. L
               PROVE  out'[i] = IF i <= off + n THEN Xor(src[i], CfbStream(mesh, CfbFed', i))
                                ELSE CfbBefore[i]
    OBVIOUS
  <2>1. out[i] = IF i <= off THEN Xor(src[i], CfbStream(mesh, CfbFed, i)) ELSE CfbBefore[i]
    BY DEF CfbInv
  <2>2. CASE i <= off
    <3>1. ~(i \in off + 1 .. off + n) /\ i <= off + n
      BY <1>1, <1>5, <2>2
    <3> QED BY <1>12, <1>15, <2>1, <2>2, <3>1
  <2>3. CASE off < i /\ i <= off + n
    <3>1. i - off \in 1 .. n /\ off + (i - off) = i
      BY <1>1, <1>5, <2>3
    <3> DEFINE r == i - off
    <3>2. r \in 1 .. n /\ off + r = i
      BY <3>1
    <3> HIDE DEF r
    <3>3. out'[i] = Xor(src[i], CfbStream(mesh, CfbFed, i))
      BY <1>8, <1>12, <3>2
    <3> QED BY <1>15, <2>3, <3>3
  <2>4. CASE i > off + n
    <3>1. ~(i \in off + 1 .. off + n) /\ ~(i <= off) /\ ~(i <= off + n)
      BY <1>1, <1>5, <2>4
    <3> QED BY <1>12, <2>1, <3>1
  <2> QED BY <1>1, <1>5, <2>2, <2>3, <2>4
<1>18. Array(iv', CfbBlock)
  BY <1>4, <1>6 DEF Array
<1>19. ASSUME off + n < L, NEW j \in 1 .. CfbBlock
       PROVE  iv'[j] = CfbFed'[(off + n) - CfbBlock + j]
  <2>1. n = CfbBlock /\ (off + n) - CfbBlock + j = off + j /\ j \in 1 .. n
    BY <1>1, <1>4, <1>5, <1>19
  <2>2. iv'[j] = IF enc THEN c[j] ELSE in'[off + j]
    BY <1>6, <2>1 DEF C!Feedback
  <2>3. c[j] = out'[off + j]
    BY <1>12, <2>1
  <2>4. CASE enc
    BY <1>13, <2>1, <2>2, <2>3, <2>4
  <2>5. CASE ~enc /\ inplace
    BY <1>6, <1>13, <2>1, <2>2, <2>5
  <2>6. CASE ~enc /\ ~inplace
    BY <1>1, <1>6, <1>13, <2>1, <2>2, <2>6
  <2> QED BY <1>1, <2>4, <2>5, <2>6
<1>20. off + n = L \/ (off + n) % CfbBlock = 0
  <2>1. CASE n = CfbBlock
    <3> DEFINE q == off \div CfbBlock
               y == off % CfbBlock
    <3>1. q \in Nat /\ y \in 0 .. CfbBlock - 1 /\ off = q * CfbBlock + y
      <4>1. off \in Nat
        BY <1>1
      <4> QED BY <1>4, <4>1, Divided
    <3>2. y = 0
      BY <1>3
    <3> HIDE DEF q, y
    <3>3. ((q + 1) * CfbBlock + y) % CfbBlock = y
      <4>1. q + 1 \in Nat
        BY <3>1
      <4> QED BY <1>4, <3>1, <4>1, Quotient
    <3>4. (q + 1) * CfbBlock = q * CfbBlock + CfbBlock /\ q * CfbBlock \in Nat
      BY <1>4, <3>1
    <3>5. (q + 1) * CfbBlock + y = off + n
      BY <1>4, <2>1, <3>1, <3>2, <3>4
    <3> QED BY <3>2, <3>3, <3>5
  <2> QED BY <1>5, <2>1
<1>21. k = IF mesh /\ off + n # 0 THEN ((off + n) - 1) \div MeshSize ELSE 0
  <2>1. n \in 1 .. CfbBlock /\ off + n # 0
    BY <1>1, <1>5
  <2>2. k = CfbKey(mesh, off + n)
    BY <1>7, <2>1
  <2> QED BY <2>1, <2>2 DEF CfbKey
<1>22. CfbSealed'
  BY <1>1, <1>6 DEF CfbSealed
<1>23. \A pos : C!Damaged(pos)' = C!Damaged(pos)
  BY <1>6, Zenon DEF C!Damaged
<1>24. ~enc' => sealed'.mesh = mesh'
                /\ \E pos \in 0 .. Len(sealed'.cipher) : src' = C!Damaged(pos)'
  BY <1>1, <1>6, <1>23, Zenon
<1>25. in' = IF inplace' THEN out' ELSE src'
  BY <1>1, <1>6
<1>26. off + n \in 0 .. L /\ off + n # 0
  BY <1>1, <1>5
<1>27. /\ {active', enc', mesh', inplace'} \subseteq BOOLEAN
       /\ Len(src') = L /\ Array(src', L) /\ active' = TRUE
  BY <1>1, <1>3, <1>6
<1> HIDE DEF L
<1>28. /\ off' \in 0 .. L /\ off' # 0 /\ (off' = L \/ off' % CfbBlock = 0)
       /\ key' = IF mesh' /\ off' # 0 THEN (off' - 1) \div MeshSize ELSE 0
       /\ off' < L => \A j \in 1 .. CfbBlock : iv'[j] = CfbFed'[off' - CfbBlock + j]
       /\ \A i \in 1 .. L :
            out'[i] = IF i <= off' THEN Xor(src'[i], CfbStream(mesh', CfbFed', i)) ELSE CfbBefore'[i]
  BY <1>6, <1>16, <1>17, <1>19, <1>20, <1>21, <1>26
<1> QED BY <1>1, <1>11, <1>18, <1>22, <1>24, <1>25, <1>27, <1>28 DEF CfbInv

\* The return.
LEMMA CfbReturn ==
    ASSUME C!SizeAssumption, CfbInv, C!Return
    PROVE  CfbInv'
<1> DEFINE L == Len(src)
<1>1. /\ {active, enc, mesh, inplace} \subseteq BOOLEAN
      /\ L \in 0 .. MaxCfb /\ MaxCfb \in Nat
      /\ Array(src, L) /\ Array(out, L)
      /\ in = IF inplace THEN out ELSE src
      /\ off \in 0 .. L
      /\ CfbSealed
      /\ \A i \in 1 .. L :
            out[i] = IF i <= off THEN Xor(src[i], CfbStream(mesh, CfbFed, i)) ELSE CfbBefore[i]
      /\ ~enc => sealed.mesh = mesh /\ \E pos \in 0 .. Len(sealed.cipher) : src = C!Damaged(pos)
  <2>1. MaxCfb \in Nat
    BY DEF C!SizeAssumption
  <2> QED BY <2>1, Zenon DEF CfbInv
<1>2. Len(in) = L /\ Len(out) = L
  BY <1>1, ArrayLen
<1>3. /\ off = L /\ active' = FALSE
      /\ sealed' = IF enc THEN [mesh |-> mesh, text |-> src, cipher |-> out] ELSE sealed
      /\ UNCHANGED <<enc, mesh, inplace, src, in, out, key, iv, off>>
  BY <1>1, <1>2 DEF C!Return
<1>4. CfbSealed'
  <2>1. CASE enc
    <3>1. sealed'.mesh = mesh /\ sealed'.text = src /\ sealed'.cipher = out
      BY <1>3, <2>1
    <3>2. \A i \in 1 .. L : out[i] = Xor(src[i], CfbStream(mesh, out, i))
      BY <1>1, <1>3, <2>1 DEF CfbFed
    <3> QED BY <1>1, <1>2, <3>1, <3>2 DEF CfbSealed
  <2>2. CASE ~enc
    BY <1>1, <1>3, <2>2 DEF CfbSealed
  <2> QED BY <2>1, <2>2
<1>5. ~enc' => sealed'.mesh = mesh'
               /\ \E pos \in 0 .. Len(sealed'.cipher) : src' = C!Damaged(pos)'
  <2>1. CASE enc
    BY <1>3, <2>1
  <2>2. CASE ~enc
    <3>1. sealed' = sealed
      BY <1>3, <2>2
    <3>2. \A pos : C!Damaged(pos)' = C!Damaged(pos)
      BY <3>1, Zenon DEF C!Damaged
    <3> QED BY <1>1, <1>3, <2>2, <3>1, <3>2, Zenon
  <2> QED BY <2>1, <2>2
<1>6. CfbFed' = CfbFed /\ CfbBefore' = CfbBefore
  BY <1>3, Zenon DEF CfbFed, CfbBefore
<1>7. off' = Len(src') /\ active' = FALSE
  BY <1>3
<1>8. off' \in 0 .. Len(src') /\ ~(off' < Len(src'))
  BY <1>1, <1>3
<1>9. /\ {active', enc', mesh', inplace'} \subseteq BOOLEAN
      /\ Len(src') \in 0 .. MaxCfb /\ Array(src', Len(src')) /\ Array(out', Len(src'))
      /\ in' = IF inplace' THEN out' ELSE src'
      /\ \A i \in 1 .. Len(src') :
          out'[i] = IF i <= off' THEN Xor(src'[i], CfbStream(mesh', CfbFed', i)) ELSE CfbBefore'[i]
  BY <1>1, <1>3, <1>6
<1>10. /\ key' = IF mesh' /\ off' # 0 THEN (off' - 1) \div MeshSize ELSE 0
       /\ Array(iv', CfbBlock) /\ (off' = 0 => iv' = C!Iv)
  BY <1>3 DEF CfbInv
<1> QED BY <1>4, <1>5, <1>7, <1>8, <1>9, <1>10 DEF CfbInv

\* What is decrypted is an array of the length of the cipher text.
LEMMA CfbDamaged ==
    ASSUME CfbSealed, NEW pos
    PROVE  /\ Array(C!Damaged(pos), Len(sealed.cipher))
           /\ Len(C!Damaged(pos)) = Len(sealed.cipher)
           /\ \A i \in 1 .. Len(sealed.cipher) :
                 C!Damaged(pos)[i] = IF i = pos THEN Xor(sealed.cipher[i], {<<"error", 0, 0>>})
                                     ELSE sealed.cipher[i]
<1>1. Len(sealed.cipher) \in Nat
  BY DEF CfbSealed
<1>2. C!Damaged(pos) = [i \in 1 .. Len(sealed.cipher) |->
                            IF i = pos THEN Xor(sealed.cipher[i], {<<"error", 0, 0>>})
                            ELSE sealed.cipher[i]]
  BY Zenon DEF C!Damaged, C!Xor, Xor, C!Atom
<1>3. Array(C!Damaged(pos), Len(sealed.cipher))
  BY <1>1, <1>2 DEF Array
<1> QED BY <1>2, <1>3, ArrayLen

\* Every step preserves the invariant.
LEMMA CfbPreserved ==
    ASSUME C!SizeAssumption, CfbInv, C!Next \/ UNCHANGED C!vars
    PROVE  CfbInv'
<1>1. ASSUME NEW buf \in C!Plain, NEW m \in BOOLEAN, NEW place \in BOOLEAN,
             C!gost28147_cfb_crypt(buf, TRUE, m, place)
      PROVE  CfbInv'
  <2>1. PICK n \in 0 .. MaxCfb : buf = C!Text(n)
    BY DEF C!Plain
  <2>2. n \in Nat
    BY DEF C!SizeAssumption
  <2>3. Len(buf) \in 0 .. MaxCfb /\ Array(buf, Len(buf))
    BY <2>1, <2>2, CfbOld
  <2> QED BY <1>1, <2>3, CfbCall
<1>2. ASSUME NEW m \in BOOLEAN, NEW buf \in C!Cipher(m), NEW place \in BOOLEAN,
             C!gost28147_cfb_crypt(buf, FALSE, m, place)
      PROVE  CfbInv'
  <2>1. sealed.mesh = m /\ \E pos \in 0 .. Len(sealed.cipher) : buf = C!Damaged(pos)
    BY DEF C!Cipher
  <2>2. CfbSealed
    BY Zenon DEF CfbInv
  <2>3. Len(buf) = Len(sealed.cipher) /\ Array(buf, Len(buf))
    BY <2>1, <2>2, CfbDamaged
  <2>4. Len(buf) \in 0 .. MaxCfb
    BY <2>2, <2>3 DEF CfbSealed, C!SizeAssumption
  <2> QED BY <1>2, <2>1, <2>3, <2>4, CfbCall
<1>3. ASSUME NEW place \in BOOLEAN, C!gost_pfx_gost89_encrypt(place)
      PROVE  CfbInv'
  BY <1>1, <1>3 DEF C!gost_pfx_gost89_encrypt
<1>4. ASSUME NEW place \in BOOLEAN, C!gost_pfx_gost89_decrypt(place)
      PROVE  CfbInv'
  BY <1>2, <1>4 DEF C!gost_pfx_gost89_decrypt
<1>5. ASSUME NEW e \in BOOLEAN, NEW place \in BOOLEAN, C!cryptopro_keybag_blob_crypt(e, place)
      PROVE  CfbInv'
  <2>1. CASE e = TRUE
    BY <1>1, <1>5, <2>1 DEF C!cryptopro_keybag_blob_crypt
  <2>2. CASE e = FALSE
    BY <1>2, <1>5, <2>2 DEF C!cryptopro_keybag_blob_crypt
  <2> QED BY <2>1, <2>2
<1>6. CASE UNCHANGED C!vars
  <2>1. UNCHANGED <<active, enc, mesh, inplace, src, in, out, key, iv, off, sealed>>
    BY <1>6 DEF C!vars
  <2>2. CfbFed' = CfbFed /\ CfbBefore' = CfbBefore /\ (CfbSealed' <=> CfbSealed)
    BY <2>1, Zenon DEF CfbFed, CfbBefore, CfbSealed
  <2>3. \A pos : C!Damaged(pos)' = C!Damaged(pos)
    BY <2>1, Zenon DEF C!Damaged
  <2> QED BY <2>1, <2>2, <2>3 DEF CfbInv
<1> QED BY <1>3, <1>4, <1>5, <1>6, CfbTurn, CfbReturn DEF C!Next

\* The loop writes the cipher text of RFC 4357 as far as it has come.
LEMMA CfbOutput ==
    ASSUME C!SizeAssumption, CfbInv
    PROVE  C!TypeOK /\ C!OutputIsPrefix
<1> DEFINE L == Len(src)
<1>1. /\ {active, enc, mesh, inplace} \subseteq BOOLEAN
      /\ L \in 0 .. MaxCfb /\ Array(src, L) /\ Array(out, L)
      /\ in = IF inplace THEN out ELSE src
      /\ off \in 0 .. L /\ (off = L \/ off % CfbBlock = 0)
      /\ Array(iv, CfbBlock)
      /\ \A i \in 1 .. L :
            out[i] = IF i <= off THEN Xor(src[i], CfbStream(mesh, CfbFed, i)) ELSE CfbBefore[i]
  BY Zenon DEF CfbInv
<1>2. Len(in) = L /\ Len(out) = L /\ Len(iv) = CfbBlock
  BY <1>1, ArrayLen
<1>3. key \in Nat
  <2>1. key = IF mesh /\ off # 0 THEN (off - 1) \div MeshSize ELSE 0
    BY Zenon DEF CfbInv
  <2>2. off \in Nat /\ MeshSize \in Nat \ {0}
    BY <1>1 DEF C!SizeAssumption
  <2>3. off # 0 => (off - 1) \div MeshSize \in Nat
    <3>1. off # 0 => off - 1 \in Nat
      BY <2>2
    <3> QED BY <2>2, <3>1, Divided
  <2> QED BY <2>1, <2>3
<1>4. C!TypeOK
  BY <1>1, <1>2, <1>3 DEF C!TypeOK
<1>5. C!OutputIsPrefix
  <2> SUFFICES ASSUME enc \/ ~inplace, NEW i \in 1 .. L
               PROVE  out[i] = IF i <= off
                               THEN C!Xor(src[i], C!StreamByte(IF enc THEN out ELSE src, i))
                               ELSE (IF inplace THEN src ELSE C!Old(L))[i]
    BY Zenon DEF C!OutputIsPrefix
  <2>1. (IF enc THEN out ELSE src) = CfbFed /\ (IF inplace THEN src ELSE C!Old(L)) = CfbBefore
    BY DEF CfbFed, CfbBefore
  <2>2. i \in Nat \ {0}
    BY <1>1
  <2>3. C!StreamByte(CfbFed, i) = CfbStream(mesh, CfbFed, i)
    BY <2>2, CfbStreamByte
  <2> QED BY <1>1, <2>1, <2>3, Zenon DEF Xor, C!Xor
<1> QED BY <1>4, <1>5

\* The block before that of byte i.
LEMMA CfbNextBlock ==
    ASSUME C!SizeAssumption, NEW i \in Nat \ {0}, NEW j \in Nat \ {0}
    PROVE  /\ (i - 1) \div CfbBlock \in Nat
           /\ (i - 1) \div CfbBlock = (j - 1) \div CfbBlock + 1 <=>
                 CfbStart(i) # 0 /\ j - (CfbStart(i) - CfbBlock) \in 1 .. CfbBlock
<1> DEFINE q == (i - 1) \div CfbBlock
           p == (j - 1) \div CfbBlock
           s == CfbStart(i)
           t == CfbStart(j)
<1>1. CfbBlock \in Nat \ {0}
  BY DEF C!SizeAssumption
<1>2. q \in Nat /\ p \in Nat
  <2>1. i - 1 \in Nat /\ j - 1 \in Nat
    OBVIOUS
  <2> QED BY <1>1, <2>1, Divided
<1>3. s = q * CfbBlock /\ t = p * CfbBlock
  BY DEF CfbStart
<1>4. j - t \in 1 .. CfbBlock /\ s \in Nat /\ t \in Nat
  BY CfbPlace
<1>5. s # 0 => q # 0
  BY CfbPlace
<1>6. ASSUME q # 0, NEW r \in 0 .. CfbBlock - 1
      PROVE  ((q - 1) * CfbBlock + r) \div CfbBlock = q - 1
  <2> HIDE DEF q
  <2>1. q - 1 \in Nat
    BY <1>2, <1>6
  <2> QED BY <1>1, <2>1, Quotient
<1> HIDE DEF q, s, t
<1>7. ASSUME q = p + 1
      PROVE  s # 0 /\ j - (s - CfbBlock) \in 1 .. CfbBlock
  <2> HIDE DEF p
  <2>1. s = p * CfbBlock + CfbBlock
    BY <1>1, <1>2, <1>3, <1>7
  <2>2. s - CfbBlock = t /\ s # 0
    BY <1>1, <1>3, <1>4, <2>1
  <2> QED BY <1>4, <2>2
<1>8. ASSUME s # 0, j - (s - CfbBlock) \in 1 .. CfbBlock
      PROVE  q = p + 1
  <2> DEFINE r == j - (s - CfbBlock) - 1
  <2>1. r \in 0 .. CfbBlock - 1
    BY <1>1, <1>4, <1>8
  <2>2. (q - 1) * CfbBlock = s - CfbBlock
    BY <1>1, <1>2, <1>3
  <2>3. (q - 1) * CfbBlock + r = j - 1
    BY <1>1, <1>4, <2>2
  <2>4. ((q - 1) * CfbBlock + r) \div CfbBlock = q - 1
    BY <1>5, <1>6, <1>8, <2>1
  <2>5. p = q - 1
    BY <2>3, <2>4
  <2> QED BY <1>2, <2>5
<1> QED BY <1>2, <1>7, <1>8 DEF q, s

\* An atom of the key stream is no error, whatever was encrypted.
LEMMA CfbErrorApart ==
    ASSUME NEW x, NEW p
    PROVE  <<"E", x, p>> # <<"error", 0, 0>>
<1>1. SUFFICES ASSUME <<"E", x, p>> = <<"error", 0, 0>>
               PROVE  FALSE
  OBVIOUS
<1>2. "E" = "error"
  BY <1>1
<1> QED BY <1>2

\* Bytes of a cipher text and of what arrives, with a byte of key stream added: two that
\* are equal were made of the same.
LEMMA CfbSumTells ==
    ASSUME NEW U, NEW V, NEW E, NEW e \in E, e \notin U, e \notin V, U # {},
           NEW c, NEW s, s = c \/ s = Xor(c, E)
    PROVE  Xor(s, U) # c /\ (Xor(s, U) = Xor(c, V) => U = V)
<1>1. CASE s = c
  <2>1. PICK u : u \in U
    OBVIOUS
  <2>2. u \in Xor(c, U) <=> u \notin c
    BY <2>1 DEF Xor
  <2> QED BY <1>1, <2>2, XorTells
<1>2. CASE s = Xor(c, E)
  <2>1. e \in Xor(Xor(c, E), U) <=> e \notin c
    BY DEF Xor
  <2>2. e \in Xor(c, V) <=> e \in c
    BY DEF Xor
  <2> QED BY <1>2, <2>1, <2>2
<1> QED BY <1>1, <1>2

\* What a wrong byte of the cipher text spoils.
LEMMA CfbDamage ==
    ASSUME C!SizeAssumption, CfbInv
    PROVE  C!DamageIsLocal
<1> DEFINE L == Len(src)
           text == sealed.text
           cipher == sealed.cipher
           BlockOf(i) == (i - 1) \div CfbBlock
           wrong == {i \in 1 .. L : src[i] # cipher[i]}
           spoilt == wrong \cup {i \in 1 .. L : \E j \in wrong : BlockOf(i) = BlockOf(j) + 1}
<1> SUFFICES ASSUME ~active, ~enc
             PROVE  {i \in 1 .. L : out[i] # text[i]} =
                       IF inplace THEN {i \in 1 .. L : BlockOf(i) > 0} \cup (spoilt \cap 1 .. CfbBlock)
                       ELSE spoilt
  BY Zenon DEF C!DamageIsLocal
<1>1. /\ off = L /\ L \in Nat /\ inplace \in BOOLEAN /\ enc = FALSE
      /\ sealed.mesh = mesh /\ CfbSealed
      /\ \A i \in 1 .. L :
            out[i] = IF i <= off THEN Xor(src[i], CfbStream(mesh, CfbFed, i)) ELSE CfbBefore[i]
  <2>1. MaxCfb \in Nat
    BY DEF C!SizeAssumption
  <2>2. L \in 0 .. MaxCfb /\ {active, enc, mesh, inplace} \subseteq BOOLEAN
    BY Zenon DEF CfbInv
  <2>3. off = L /\ sealed.mesh = mesh /\ CfbSealed
    BY Zenon DEF CfbInv
  <2>4. \A i \in 1 .. L :
            out[i] = IF i <= off THEN Xor(src[i], CfbStream(mesh, CfbFed, i)) ELSE CfbBefore[i]
    BY Zenon DEF CfbInv
  <2> QED BY <2>1, <2>2, <2>3, <2>4
<1>2. PICK pos \in 0 .. Len(cipher) : src = C!Damaged(pos)
  BY Zenon DEF CfbInv
<1>3. L = Len(cipher)
  BY <1>1, <1>2, CfbDamaged
<1>4. CfbBlock \in Nat \ {0}
  BY DEF C!SizeAssumption
<1>5. ASSUME NEW i \in 1 .. L
      PROVE  /\ src[i] = IF i = pos THEN Xor(cipher[i], {<<"error", 0, 0>>}) ELSE cipher[i]
             /\ i = pos <=> src[i] # cipher[i]
  <2>1. src[i] = IF i = pos THEN Xor(cipher[i], {<<"error", 0, 0>>}) ELSE cipher[i]
    BY <1>1, <1>2, <1>3, CfbDamaged
  <2> DEFINE e == <<"error", 0, 0>>
  <2> HIDE DEF e
  <2>2. Xor(cipher[i], {e}) # cipher[i]
    <3>1. e \in Xor(cipher[i], {e}) <=> e \notin cipher[i]
      BY DEF Xor
    <3> QED BY <3>1
  <2> QED BY <2>1, <2>2 DEF e
<1>6. ASSUME NEW i \in 1 .. L
      PROVE  /\ out[i] = Xor(src[i], CfbStream(mesh, IF inplace THEN out ELSE src, i))
             /\ text[i] = Xor(cipher[i], CfbStream(mesh, cipher, i))
  <2>1. i <= off /\ CfbFed = IF inplace THEN out ELSE src
    BY <1>1 DEF CfbFed
  <2>2. cipher[i] = Xor(text[i], CfbStream(mesh, cipher, i))
    BY <1>1, <1>3 DEF CfbSealed
  <2> QED BY <1>1, <2>1, <2>2, XorTells
<1>7. ASSUME NEW i \in 1 .. L
      PROVE  /\ CfbStart(i) \in Nat /\ CfbStart(i) < i
             /\ CfbStart(i) # 0 => \A k \in 1 .. CfbBlock : CfbStart(i) - CfbBlock + k \in 1 .. L
                                                            /\ CfbStart(i) - CfbBlock + k < i
             /\ CfbStart(i) = 0 <=> i <= CfbBlock
             /\ CfbStart(i) = 0 <=> BlockOf(i) = 0
             /\ BlockOf(i) \in Nat
  <2>1. i \in Nat \ {0}
    BY <1>1
  <2>2. /\ CfbStart(i) \in Nat /\ i - CfbStart(i) \in 1 .. CfbBlock
        /\ CfbStart(i) # 0 => CfbStart(i) - CfbBlock \in Nat
        /\ CfbStart(i) = 0 <=> i <= CfbBlock
        /\ CfbStart(i) = 0 <=> BlockOf(i) = 0
    BY <2>1, CfbPlace
  <2>3. BlockOf(i) \in Nat
    BY <2>1, CfbNextBlock
  <2> HIDE DEF BlockOf
  <2> QED BY <1>1, <1>4, <2>2, <2>3
\* A byte is spoilt if it is the wrong one or that is in the block before.
<1>8. ASSUME NEW i \in 1 .. L
      PROVE  i \in spoilt <=>
                \/ i = pos
                \/ CfbStart(i) # 0 /\ \E k \in 1 .. CfbBlock : CfbStart(i) - CfbBlock + k = pos
  <2>1. i \in wrong <=> i = pos
    BY <1>5
  <2>2. i \in spoilt <=> i = pos \/ \E j \in wrong : BlockOf(i) = BlockOf(j) + 1
    BY <2>1
  <2>3. ASSUME NEW j \in wrong, BlockOf(i) = BlockOf(j) + 1
        PROVE  CfbStart(i) # 0 /\ \E k \in 1 .. CfbBlock : CfbStart(i) - CfbBlock + k = pos
    <3>1. j = pos /\ j \in 1 .. L
      BY <1>5
    <3>2. i \in Nat \ {0} /\ j \in Nat \ {0}
      BY <1>1, <3>1
    <3>3. CfbStart(i) # 0 /\ j - (CfbStart(i) - CfbBlock) \in 1 .. CfbBlock
      BY <2>3, <3>2, CfbNextBlock
    <3> DEFINE k == j - (CfbStart(i) - CfbBlock)
    <3>4. CfbStart(i) - CfbBlock + k = j
      BY <1>4, <1>7, <3>2
    <3> QED BY <3>1, <3>3, <3>4
  <2>4. ASSUME CfbStart(i) # 0, NEW k \in 1 .. CfbBlock, CfbStart(i) - CfbBlock + k = pos
        PROVE  \E j \in wrong : BlockOf(i) = BlockOf(j) + 1
    <3>1. pos \in 1 .. L
      BY <1>7, <2>4
    <3>2. pos \in wrong
      BY <1>5, <3>1
    <3>3. i \in Nat \ {0} /\ pos \in Nat \ {0}
      BY <1>1, <3>1
    <3>4. pos - (CfbStart(i) - CfbBlock) = k
      BY <1>4, <1>7, <2>4
    <3>5. BlockOf(i) = BlockOf(pos) + 1
      BY <2>4, <3>3, <3>4, CfbNextBlock
    <3> QED BY <3>2, <3>5
  <2> HIDE DEF spoilt, wrong, BlockOf
  <2> QED BY <2>2, <2>3, <2>4
<1> HIDE DEF spoilt, wrong
<1>9. ASSUME NEW i \in 1 .. L, ~inplace
      PROVE  out[i] # text[i] <=> i \in spoilt
  <2>1. out[i] = Xor(src[i], CfbStream(mesh, src, i)) /\ text[i] = Xor(cipher[i], CfbStream(mesh, cipher, i))
    BY <1>6, <1>9
  <2>2. CfbStream(mesh, src, i) = CfbStream(mesh, cipher, i) <=>
            \/ CfbStart(i) = 0
            \/ \A k \in 1 .. CfbBlock :
                  src[CfbStart(i) - CfbBlock + k] = cipher[CfbStart(i) - CfbBlock + k]
    <3>1. i \in Nat \ {0}
      BY <1>1
    <3> QED BY <3>1, CfbStreamTells
  <2>3. CASE i = pos
    <3>1. CfbStart(i) # 0 => \A k \in 1 .. CfbBlock :
              src[CfbStart(i) - CfbBlock + k] = cipher[CfbStart(i) - CfbBlock + k]
      <4> SUFFICES ASSUME CfbStart(i) # 0, NEW k \in 1 .. CfbBlock
                   PROVE  src[CfbStart(i) - CfbBlock + k] = cipher[CfbStart(i) - CfbBlock + k]
        OBVIOUS
      <4> DEFINE j == CfbStart(i) - CfbBlock + k
      <4>1. j \in 1 .. L /\ j < i
        BY <1>7
      <4> HIDE DEF j
      <4>2. j # pos
        BY <1>1, <2>3, <4>1
      <4>3. src[j] = cipher[j]
        BY <1>5, <4>1, <4>2
      <4> QED BY <4>3 DEF j
    <3>2. CfbStream(mesh, src, i) = CfbStream(mesh, cipher, i)
      BY <2>2, <3>1
    <3>3. src[i] # cipher[i]
      BY <1>5, <2>3
    <3>4. out[i] # text[i]
      BY <2>1, <3>2, <3>3, XorTells
    <3> QED BY <1>8, <2>3, <3>4
  <2>4. CASE i # pos
    <3>1. src[i] = cipher[i]
      BY <1>5, <2>4
    <3>2. out[i] = text[i] <=> CfbStream(mesh, src, i) = CfbStream(mesh, cipher, i)
      <4> DEFINE x == cipher[i]
                 s == CfbStream(mesh, src, i)
                 t == CfbStream(mesh, cipher, i)
      <4>1. out[i] = Xor(x, s) /\ text[i] = Xor(x, t)
        BY <2>1, <3>1, Zenon
      <4> HIDE DEF x, s, t
      <4>2. Xor(x, s) = Xor(x, t) <=> s = t
        BY XorTells
      <4> QED BY <4>1, <4>2, Zenon DEF s, t
    <3>3. CfbStart(i) # 0 => \A k \in 1 .. CfbBlock :
             src[CfbStart(i) - CfbBlock + k] = cipher[CfbStart(i) - CfbBlock + k]
                <=> CfbStart(i) - CfbBlock + k # pos
      <4> SUFFICES ASSUME CfbStart(i) # 0, NEW k \in 1 .. CfbBlock
                   PROVE  src[CfbStart(i) - CfbBlock + k] = cipher[CfbStart(i) - CfbBlock + k]
                             <=> CfbStart(i) - CfbBlock + k # pos
        OBVIOUS
      <4> DEFINE j == CfbStart(i) - CfbBlock + k
      <4>1. j \in 1 .. L
        BY <1>7
      <4> HIDE DEF j
      <4>2. src[j] = cipher[j] <=> j # pos
        BY <1>5, <4>1
      <4> QED BY <4>2 DEF j
    <3> QED BY <1>8, <2>2, <2>4, <3>2, <3>3
  <2> QED BY <2>3, <2>4
<1>10. ASSUME NEW i \in 1 .. L, inplace
       PROVE  out[i] # text[i] <=> BlockOf(i) > 0 \/ (i \in spoilt /\ i \in 1 .. CfbBlock)
  <2>1. out[i] = Xor(src[i], CfbStream(mesh, out, i)) /\ text[i] = Xor(cipher[i], CfbStream(mesh, cipher, i))
    BY <1>6, <1>10
  <2>2. CfbStream(mesh, out, i) = CfbStream(mesh, cipher, i) <=>
            \/ CfbStart(i) = 0
            \/ \A k \in 1 .. CfbBlock :
                  out[CfbStart(i) - CfbBlock + k] = cipher[CfbStart(i) - CfbBlock + k]
    <3>1. i \in Nat \ {0}
      BY <1>1
    <3> QED BY <3>1, CfbStreamTells
  <2>3. CASE CfbStart(i) = 0
    <3>1. out[i] = text[i] <=> src[i] = cipher[i]
      BY <2>1, <2>2, <2>3, XorTells
    <3>2. i \in spoilt <=> i = pos
      BY <1>8, <2>3
    <3>3. BlockOf(i) = 0 /\ i \in 1 .. CfbBlock
      BY <1>4, <1>7, <2>3
    <3> HIDE DEF BlockOf
    <3> QED BY <1>5, <3>1, <3>2, <3>3
  <2>4. CASE CfbStart(i) # 0
    <3>1. ASSUME NEW j \in 1 .. L
          PROVE  out[j] # cipher[j]
      <4>1. out[j] = Xor(src[j], CfbStream(mesh, out, j))
        BY <1>6, <1>10
      <4>2. src[j] = cipher[j] \/ src[j] = Xor(cipher[j], {<<"error", 0, 0>>})
        BY <1>5
      <4>3. PICK x : CfbStream(mesh, out, j) = {<<"E", x, j - CfbStart(j)>>}
        BY Zenon DEF CfbStream
      <4> DEFINE c == cipher[j]
                 s == src[j]
                 e == <<"error", 0, 0>>
                 E == {e}
                 U == {<<"E", x, j - CfbStart(j)>>}
      <4>4. e \in E /\ e \notin U /\ U # {}
        BY CfbErrorApart
      <4>5. s = c \/ s = Xor(c, E)
        BY <4>2, Zenon
      <4>6. out[j] = Xor(s, U)
        BY <4>1, <4>3, Zenon
      <4> HIDE DEF c, s, e, E, U
      <4>7. out[j] # c
        BY <4>4, <4>5, <4>6, CfbSumTells
      <4> QED BY <4>7 DEF c
    <3>2. CfbStream(mesh, out, i) # CfbStream(mesh, cipher, i)
      <4>1. 1 \in 1 .. CfbBlock
        BY <1>4
      <4> DEFINE j == CfbStart(i) - CfbBlock + 1
      <4>2. j \in 1 .. L
        BY <1>7, <2>4, <4>1
      <4>3. out[j] # cipher[j]
        BY <3>1, <4>2
      <4> QED BY <2>2, <2>4, <4>1, <4>3
    <3>3. src[i] = cipher[i] \/ src[i] = Xor(cipher[i], {<<"error", 0, 0>>})
      BY <1>5
    <3>4. PICK x : CfbStream(mesh, out, i) = {<<"E", x, i - CfbStart(i)>>}
      BY Zenon DEF CfbStream
    <3>5. PICK y : CfbStream(mesh, cipher, i) = {<<"E", y, i - CfbStart(i)>>}
      BY Zenon DEF CfbStream
    <3>6. out[i] # text[i]
      <4> DEFINE c == cipher[i]
                 s == src[i]
                 e == <<"error", 0, 0>>
                 E == {e}
                 U == {<<"E", x, i - CfbStart(i)>>}
                 V == {<<"E", y, i - CfbStart(i)>>}
      <4>1. e \in E /\ e \notin U /\ e \notin V /\ U # {}
        BY CfbErrorApart
      <4>2. s = c \/ s = Xor(c, E)
        BY <3>3, Zenon
      <4>3. out[i] = Xor(s, U) /\ text[i] = Xor(c, V) /\ U # V
        BY <2>1, <3>2, <3>4, <3>5, Zenon
      <4> HIDE DEF c, s, e, E, U, V
      <4> QED BY <4>1, <4>2, <4>3, CfbSumTells
    <3>7. BlockOf(i) > 0
      <4>1. BlockOf(i) \in Nat /\ BlockOf(i) # 0
        BY <1>7, <2>4
      <4> HIDE DEF BlockOf
      <4> QED BY <4>1
    <3> QED BY <3>6, <3>7
  <2> QED BY <2>3, <2>4
<1>11. spoilt \subseteq 1 .. L
  BY DEF spoilt, wrong
<1> HIDE DEF BlockOf
<1> QED BY <1>1, <1>9, <1>10, <1>11

-----------------------------------------------------------------------------
(***************************************************************************)
(* RC2 PBE.  First parts of arrays and of blocks.                          *)
(***************************************************************************)

\* A part of an array.
LEMMA ArrayCut ==
    ASSUME NEW s, NEW n, Array(s, n), NEW o \in Nat, NEW w \in Nat, o + w <= n
    PROVE  SubSeq(s, o + 1, o + w) = [k \in 1 .. w |-> s[o + k]]
<1> DEFINE V == {s[i] : i \in 1 .. n}
           t == SubSeq(s, o + 1, o + w)
<1>1. n \in Nat /\ Len(s) = n /\ s \in Seq(V)
  BY ArrayLen DEF Array
<1> HIDE DEF V
<1>2. o + 1 \in 1 .. Len(s) + 1 /\ o + w \in (o + 1) - 1 .. Len(s)
  BY <1>1
<1>3. /\ t \in Seq(V)
      /\ Len(t) = IF o + 1 <= o + w THEN (o + w) - (o + 1) + 1 ELSE 0
      /\ \A i \in 1 .. (o + w) - (o + 1) + 1 : t[i] = s[(o + 1) + i - 1]
  BY <1>1, <1>2, SubSeqProperties
<1> HIDE DEF t
<1>4. Len(t) = w
  BY <1>3
<1>5. t = [k \in 1 .. w |-> t[k]]
  BY <1>3, <1>4, LenProperties
<1>6. \A k \in 1 .. w : t[k] = s[o + k]
  <2> SUFFICES ASSUME NEW k \in 1 .. w
               PROVE  t[k] = s[o + k]
    OBVIOUS
  <2>1. k \in 1 .. (o + w) - (o + 1) + 1 /\ (o + 1) + k - 1 = o + k
    OBVIOUS
  <2> QED BY <1>3, <2>1
<1>7. [k \in 1 .. w |-> t[k]] = [k \in 1 .. w |-> s[o + k]]
  BY <1>6
<1> QED BY <1>5, <1>7 DEF t

\* The first part of one.
LEMMA ArrayFirst ==
    ASSUME NEW s, NEW n, Array(s, n), NEW w \in Nat, w <= n
    PROVE  SubSeq(s, 1, w) = [k \in 1 .. w |-> s[k]]
<1> DEFINE z == 0
<1>1. z \in Nat /\ z + w <= n
  OBVIOUS
<1>2. SubSeq(s, z + 1, z + w) = [k \in 1 .. w |-> s[z + k]]
  <2> HIDE DEF z
  <2> QED BY <1>1, ArrayCut
<1>3. z + 1 = 1 /\ z + w = w /\ \A k \in 1 .. w : z + k = k
  OBVIOUS
<1> HIDE DEF z
<1> QED BY <1>2, <1>3

\* Two arrays in a row.
LEMMA ArrayConcat ==
    ASSUME NEW s, NEW n \in Nat, Array(s, n), NEW t, NEW m \in Nat, Array(t, m)
    PROVE  s \o t = [i \in 1 .. n + m |-> IF i <= n THEN s[i] ELSE t[i - n]]
<1> DEFINE V == {s[i] : i \in 1 .. n}
           W == {t[i] : i \in 1 .. m}
<1>1. n \in Nat /\ Len(s) = n /\ s \in Seq(V) /\ m \in Nat /\ Len(t) = m /\ t \in Seq(W)
  BY ArrayLen DEF Array
<1> DEFINE U == V \cup W
<1>2. s \in Seq(U) /\ t \in Seq(U)
  <2>1. V \subseteq U /\ W \subseteq U
    OBVIOUS
  <2> HIDE DEF U, V, W
  <2> QED BY <1>1, <2>1
<1> HIDE DEF U, V, W
<1> DEFINE c == s \o t
<1>3. /\ c \in Seq(U) /\ Len(c) = n + m
      /\ \A i \in 1 .. n + m : c[i] = IF i <= n THEN s[i] ELSE t[i - n]
  BY <1>1, <1>2, ConcatProperties
<1> HIDE DEF c
<1>4. n + m \in Nat /\ c = [i \in 1 .. n + m |-> c[i]]
  BY <1>1, <1>3, LenProperties
<1> QED BY <1>3, <1>4 DEF c

\* Two multiples of a block are a block apart.
LEMMA BlockApart ==
    ASSUME NEW n \in Nat \ {0}, NEW o \in Nat, NEW p \in Nat, o % n = 0, p % n = 0, o < p
    PROVE  o + n <= p
<1> DEFINE q == o \div n
           r == p \div n
           x == o % n
           y == p % n
<1>1. q \in Nat /\ x \in 0 .. n - 1 /\ o = q * n + x
  BY Divided
<1>2. r \in Nat /\ y \in 0 .. n - 1 /\ p = r * n + y
  BY Divided
<1>3. x = 0 /\ y = 0
  OBVIOUS
<1> HIDE DEF q, r, x, y
<1>4. q * n \in Nat /\ r * n \in Nat
  BY <1>1, <1>2
<1>5. o = q * n /\ p = r * n
  BY <1>1, <1>2, <1>3, <1>4
<1>6. ASSUME r <= q
      PROVE  FALSE
  <2>1. r * n <= q * n
    BY <1>1, <1>2, <1>6
  <2> QED BY <1>4, <1>5, <2>1
<1>7. q + 1 <= r
  BY <1>1, <1>2, <1>6
<1>8. (q + 1) * n <= r * n
  BY <1>1, <1>2, <1>7
<1>9. (q + 1) * n = q * n + n
  BY <1>1
<1> QED BY <1>4, <1>5, <1>8, <1>9

\* A block more or less.
LEMMA BlockNext ==
    ASSUME NEW n \in Nat \ {0}, NEW o \in Nat, o % n = 0
    PROVE  /\ (o + n) % n = 0
           /\ o # 0 => o - n \in Nat /\ (o - n) % n = 0
           /\ 0 % n = 0
<1> DEFINE q == o \div n
           x == o % n
           z == n - n
<1>1. q \in Nat /\ x \in 0 .. n - 1 /\ o = q * n + x
  BY Divided
<1>2. x = 0
  OBVIOUS
<1> HIDE DEF q, x
<1>3. q * n \in Nat /\ o = q * n /\ (q + 1) * n = q * n + n
  <2>1. q * n \in Nat /\ (q + 1) * n = q * n + n
    BY <1>1
  <2> QED BY <1>1, <1>2, <2>1
<1>4. z \in 0 .. n - 1 /\ z = 0
  OBVIOUS
<1> HIDE DEF z
<1>5. (o + n) % n = 0
  <2>1. q + 1 \in Nat
    BY <1>1
  <2>2. ((q + 1) * n + z) % n = z
    BY <1>4, <2>1, Quotient
  <2>3. (q + 1) * n + z = o + n
    BY <1>3, <1>4
  <2> QED BY <1>4, <2>2, <2>3
<1>6. ASSUME o # 0
      PROVE  o - n \in Nat /\ (o - n) % n = 0
  <2>1. q # 0
    <3>1. q = 0 => q * n = 0
      BY <1>1
    <3> QED BY <1>3, <1>6, <3>1
  <2>2. q - 1 \in Nat /\ (q - 1) * n = q * n - n /\ (q - 1) * n \in Nat
    BY <1>1, <2>1
  <2>3. ((q - 1) * n + z) % n = z
    BY <1>4, <2>2, Quotient
  <2>4. (q - 1) * n + z = o - n
    BY <1>3, <1>4, <2>2
  <2> QED BY <1>3, <1>4, <2>2, <2>3, <2>4
<1>7. 0 % n = 0
  <2>1. (z * n + z) % n = z
    BY <1>4, Quotient
  <2>2. z * n + z = z
    BY <1>4
  <2> QED BY <1>4, <2>1, <2>2
<1> QED BY <1>5, <1>6, <1>7

\* A block of a buffer.
PbePart(buf, o) == [k \in 1 .. PbeBlock |-> buf[o + k]]

PbeSum(s, t) == [k \in 1 .. PbeBlock |-> Xor(s[k], t[k])]

PbePadded(text) == text \o [i \in 1 .. R!pad_len(Len(text)) |-> R!Value(R!pad_len(Len(text)))]

\* What the block at o is chained to.
PbePrev(buf, o) == IF o = 0 THEN R!Iv ELSE PbePart(buf, o - PbeBlock)

\* What is written for the block at o: CBC of the padded text, and the text of it.
PbeSealedBlock(text, cipher, o) ==
    R!rc2_encrypt_block(PbeSum(PbePart(PbePadded(text), o), PbePrev(cipher, o)))
PbeOpenedBlock(cipher, fed, o) ==
    PbeSum(R!rc2_decrypt_block(PbePart(cipher, o)), PbePrev(fed, o))

\* Their size.
LEMMA PbeSize == R!SizeAssumption => PbeBlock \in Nat \ {0}
BY DEF R!SizeAssumption

\* Block is the block, and XorBytes the exclusive or of two.
LEMMA PbeBlockIsPart ==
    ASSUME R!SizeAssumption, NEW buf, NEW n, Array(buf, n), NEW o \in Nat, o + PbeBlock <= n
    PROVE  R!Block(buf, o) = PbePart(buf, o)
BY PbeSize, ArrayCut DEF R!Block, PbePart

\* A part is an array of bytes.
LEMMA PbePartArray ==
    ASSUME R!SizeAssumption, NEW buf, NEW o
    PROVE  Array(PbePart(buf, o), PbeBlock)
BY PbeSize DEF Array, PbePart

\* The exclusive or of two blocks, byte by byte.
LEMMA PbeXorIsSum ==
    ASSUME R!SizeAssumption, NEW s, NEW t, Array(s, PbeBlock)
    PROVE  R!XorBytes(s, t) = PbeSum(s, t) /\ Array(PbeSum(s, t), PbeBlock)
<1>1. Len(s) = PbeBlock
  BY ArrayLen
<1>2. R!XorBytes(s, t) = PbeSum(s, t)
  BY <1>1, Zenon DEF R!XorBytes, R!Xor, PbeSum, Xor
<1> QED BY <1>2, PbeSize DEF PbeSum, Array

\* What the cipher makes is a block.
LEMMA PbeCipherArray ==
    ASSUME R!SizeAssumption, NEW x
    PROVE  Array(R!rc2_encrypt_block(x), PbeBlock) /\ Array(R!Iv, PbeBlock)
BY PbeSize DEF Array, R!rc2_encrypt_block, R!Iv, R!BytesOf

\* How much is padded.
LEMMA PbePadLen ==
    ASSUME R!SizeAssumption, NEW n \in Nat
    PROVE  /\ R!pad_len(n) \in 1 .. PbeBlock
           /\ \A o \in Nat : o % PbeBlock = 0 /\ o <= n /\ o + PbeBlock > n
                                => n + R!pad_len(n) = o + PbeBlock
<1> DEFINE width == PbeBlock
           r == n % width
<1>1. width \in Nat \ {0}
  BY PbeSize
<1>2. r \in 0 .. width - 1
  BY <1>1, Divided
<1>3. R!pad_len(n) = width - r
  BY DEF R!pad_len
<1>4. ASSUME NEW o \in Nat, o % width = 0, o <= n, o + width > n
      PROVE  r = n - o
  <2> DEFINE q == o \div width
             x == o % width
             e == n - o
  <2>1. q \in Nat /\ x \in 0 .. width - 1 /\ o = q * width + x
    BY <1>1, <1>4, Divided
  <2>2. x = 0
    BY <1>4
  <2> HIDE DEF q, x
  <2>3. q * width \in Nat
    BY <1>1, <2>1
  <2>4. o = q * width
    BY <2>1, <2>2, <2>3
  <2>5. e \in 0 .. width - 1
    BY <1>1, <1>4
  <2>6. n = o + e
    BY <1>4
  <2> HIDE DEF e
  <2>7. (q * width + e) % width = e
    BY <1>1, <2>1, <2>5, Quotient
  <2>8. r = e
    BY <2>4, <2>6, <2>7
  <2> QED BY <2>8 DEF e
<1> HIDE DEF width, r
<1>5. ASSUME NEW o \in Nat, o % width = 0, o <= n, o + width > n
      PROVE  n + R!pad_len(n) = o + width
  <2>1. r = n - o
    BY <1>4, <1>5
  <2> QED BY <1>1, <1>3, <1>5, <2>1
<1> QED BY <1>1, <1>2, <1>3, <1>5 DEF width

\* The padded text.
LEMMA PbePaddedArray ==
    ASSUME R!SizeAssumption, NEW text, Array(text, Len(text))
    PROVE  /\ Array(PbePadded(text), Len(text) + R!pad_len(Len(text)))
           /\ \A i \in 1 .. Len(text) : PbePadded(text)[i] = text[i]
           /\ \A i \in 1 .. R!pad_len(Len(text)) :
                  PbePadded(text)[Len(text) + i] = R!Value(R!pad_len(Len(text)))
<1> DEFINE n == Len(text)
           p == R!pad_len(n)
           v == R!Value(p)
           t == [i \in 1 .. p |-> v]
<1>1. n \in Nat
  BY DEF Array
<1>2. p \in Nat
  BY <1>1, PbePadLen, PbeSize
<1> HIDE DEF p, v
<1>3. Array(t, p) /\ \A i \in 1 .. p : t[i] = v
  BY <1>2 DEF Array
<1>4. PbePadded(text) = text \o t
  BY DEF PbePadded, p, v
<1>6. Array(text, n)
  OBVIOUS
<1> DEFINE c == PbePadded(text)
<1> HIDE DEF c, t, n
<1>5. /\ Array(c, n + p)
      /\ \A i \in 1 .. n : c[i] = text[i]
      /\ \A i \in 1 .. p : c[n + i] = t[i]
  <2>1. c = text \o t
    BY <1>4 DEF c
  <2>2. Array(t, p)
    BY <1>3
  <2>3. c = [i \in 1 .. n + p |-> IF i <= n THEN text[i] ELSE t[i - n]]
    BY <1>1, <1>2, <1>6, <2>1, <2>2, ArrayConcat
  <2>4. Array(c, n + p)
    BY <1>1, <1>2, <2>3 DEF Array
  <2>5. \A i \in 1 .. n : c[i] = text[i]
    BY <1>1, <1>2, <2>3
  <2>6. \A i \in 1 .. p : c[n + i] = t[i]
    BY <1>1, <1>2, <2>3
  <2> QED BY <2>4, <2>5, <2>6
<1> QED BY <1>3, <1>5 DEF c, p, v, n

\* What Store writes.
LEMMA PbeStored ==
    ASSUME R!SizeAssumption, NEW buf, NEW n, Array(buf, n), NEW c, Array(c, PbeBlock),
           NEW o \in Nat, o + PbeBlock <= n, NEW w, w = R!Store(buf, o, c)
    PROVE  /\ Array(w, n)
           /\ \A i \in 1 .. n : i \notin o + 1 .. o + PbeBlock => w[i] = buf[i]
           /\ PbePart(w, o) = c
<1>1. PbeBlock \in Nat \ {0} /\ n \in Nat
  BY PbeSize DEF Array
<1>2. Len(buf) = n /\ Len(c) = PbeBlock
  BY ArrayLen
<1>3. w = [i \in 1 .. n |-> IF i \in o + 1 .. o + PbeBlock THEN c[i - o] ELSE buf[i]]
  BY <1>2, Zenon DEF R!Store
<1>4. ASSUME NEW k \in 1 .. PbeBlock
      PROVE  w[o + k] = c[k]
  <2>1. o + k \in 1 .. n /\ o + k \in o + 1 .. o + PbeBlock /\ (o + k) - o = k
    BY <1>1
  <2> QED BY <1>3, <2>1
<1>5. PbePart(w, o) = c
  BY <1>4 DEF Array, PbePart
<1>6. Array(w, n)
  BY <1>1, <1>3 DEF Array
<1> QED BY <1>3, <1>5, <1>6

\* Every block the cipher is known to have made is one of bytes.
PbeAtoms(buf) ==
    \A i \in 1 .. Len(buf) : \A t \in buf[i] : t[1] = "E" => Array(t[2], PbeBlock)

\* Then a deciphered block is one too.
LEMMA PbeDeciphered ==
    ASSUME R!SizeAssumption, NEW buf, Array(buf, Len(buf)), PbeAtoms(buf),
           NEW o \in Nat, o + PbeBlock <= Len(buf)
    PROVE  Array(R!rc2_decrypt_block(PbePart(buf, o)), PbeBlock)
<1> DEFINE block == PbePart(buf, o)
           made == {t[2] : t \in {t \in block[1] : t[1] = "E"}}
           x == CHOOSE y \in made : block = R!rc2_encrypt_block(y)
<1>1. PbeBlock \in Nat \ {0} /\ Len(buf) \in Nat
  BY PbeSize DEF Array
<1>2. o + 1 \in 1 .. Len(buf) /\ block[1] = buf[o + 1]
  <2>1. 1 \in 1 .. PbeBlock
    BY <1>1
  <2> QED BY <1>1, <2>1 DEF PbePart
<1>3. \A y \in made : Array(y, PbeBlock)
  BY <1>2 DEF PbeAtoms
<1>4. CASE \E y \in made : block = R!rc2_encrypt_block(y)
  <2>1. x \in made
    BY <1>4
  <2>2. R!rc2_decrypt_block(block) = x
    BY <1>4, Zenon DEF R!rc2_decrypt_block
  <2> QED BY <1>3, <2>1, <2>2
<1>5. CASE ~\E y \in made : block = R!rc2_encrypt_block(y)
  <2>1. R!rc2_decrypt_block(block) = R!BytesOf("D", block, PbeBlock)
    BY <1>5, Zenon DEF R!rc2_decrypt_block
  <2> HIDE DEF block
  <2>2. Array(R!BytesOf("D", block, PbeBlock), PbeBlock)
    BY <1>1 DEF R!BytesOf, Array
  <2>3. Array(R!rc2_decrypt_block(block), PbeBlock)
    BY <2>1, <2>2
  <2> QED BY <2>3 DEF block
<1> QED BY <1>4, <1>5

\* What is read for the chaining, what the buffer held before, and where the loop ends.
PbeFed == IF op = "enc" \/ inplace THEN out ELSE src
PbeBefore ==
    [i \in 1 .. room + PbeBlock |-> IF inplace /\ i <= Len(src) THEN src[i] ELSE {<<"old", 0, i>>}]
PbeEnd == IF op = "enc" THEN Len(src) + R!pad_len(Len(src)) ELSE Len(src)

PbeWritten(o) ==
    IF op = "enc" THEN PbeSealedBlock(src, out, o) ELSE PbeOpenedBlock(src, PbeFed, o)

PbeTypes ==
    /\ op \in {"none", "enc", "dec"} /\ {active, inplace} \subseteq BOOLEAN /\ ret \in {0, -1}
    /\ room \in Nat /\ out_len \in 0 .. room
    /\ Array(src, Len(src)) /\ Array(out, room + PbeBlock) /\ Array(iv, PbeBlock)
    /\ inplace => Len(src) <= room
    /\ in = IF inplace THEN [i \in 1 .. Len(src) |-> out[i]] ELSE src
    /\ off \in Nat /\ off % PbeBlock = 0

\* Where a call stands, and how it ends.
PbePlace ==
    /\ op = "none" => ~active /\ off = 0 /\ ret = 0
    /\ active => off <= Len(src) /\ ret = 0 /\ out_len = room
    /\ active \/ off # 0 => PbeEnd <= room
    /\ ~active /\ off # 0 => off = PbeEnd
    /\ op = "dec" /\ (active \/ off # 0) => src # <<>> /\ Len(src) % PbeBlock = 0
    /\ op = "dec" => PbeAtoms(src)
    /\ ret = -1 => out_len = room
    /\ op = "dec" /\ ~active /\ ret = 0 =>
          off # 0 /\ \E val \in R!LastValues :
                        R!PaddingRight(val) /\ out_len = Len(src) - val[PbeBlock]

\* What is written, what is not, and what the next block is chained to.
PbeData ==
    /\ iv = PbePrev(PbeFed, off)
    /\ \A i \in off + 1 .. room + PbeBlock : out[i] = PbeBefore[i]
    /\ \A o \in 0 .. off - 1 : o % PbeBlock = 0 => PbePart(out, o) = PbeWritten(o)

\* The last encryption gave CBC of its padded text.
PbeSealed ==
    /\ Array(sealed.text, Len(sealed.text)) /\ Array(sealed.cipher, Len(sealed.cipher))
    /\ sealed.cipher = <<>> \/
        /\ Len(sealed.cipher) = Len(sealed.text) + R!pad_len(Len(sealed.text))
        /\ \A o \in 0 .. Len(sealed.cipher) - 1 : o % PbeBlock = 0 =>
              PbePart(sealed.cipher, o) = PbeSealedBlock(sealed.text, sealed.cipher, o)

PbeInv == PbeTypes /\ PbePlace /\ PbeData /\ PbeSealed

\* The empty buffer.
LEMMA ArrayEmpty == Array(<<>>, 0) /\ Len(<<>>) = 0
BY DEF Array

\* The buffer for a result.
LEMMA PbeOld ==
    ASSUME R!SizeAssumption, NEW n \in Nat
    PROVE  /\ Array(R!Old(n), n + PbeBlock)
           /\ R!Old(n) = [i \in 1 .. n + PbeBlock |-> {<<"old", 0, i>>}]
           /\ Len(R!Old(n)) = n + PbeBlock
<1>1. n + PbeBlock \in Nat
  BY PbeSize
<1>2. R!Old(n) = [i \in 1 .. n + PbeBlock |-> {<<"old", 0, i>>}]
  BY Zenon DEF R!Old, R!BytesOf, R!Atom
<1> DEFINE m == n + PbeBlock
<1> HIDE DEF m
<1>3. Array([i \in 1 .. m |-> {<<"old", 0, i>>}], m)
  BY <1>1 DEF Array, m
<1>4. Array(R!Old(n), m)
  BY <1>2, <1>3 DEF m
<1> QED BY <1>2, <1>4, ArrayLen DEF m

\* The caller without a call.
LEMMA PbeInitial ==
    ASSUME R!SizeAssumption, R!Init
    PROVE  PbeInv
<1>1. /\ op = "none" /\ active = FALSE /\ inplace = FALSE
      /\ src = <<>> /\ room = 0 /\ in = <<>> /\ out = R!Old(0)
      /\ out_len = 0 /\ ret = 0 /\ iv = R!Iv /\ off = 0
      /\ sealed = [text |-> <<>>, cipher |-> <<>>]
  BY Zenon DEF R!Init, R!NoText
<1>2. PbeBlock \in Nat \ {0} /\ 0 % PbeBlock = 0
  <2>1. PbeBlock \in Nat \ {0}
    BY PbeSize
  <2>2. off % PbeBlock = 0 => 0 % PbeBlock = 0
    BY <1>1
  <2> QED BY <2>1, BlockNext
<1>3. /\ Array(out, room + PbeBlock)
      /\ out = [i \in 1 .. room + PbeBlock |-> {<<"old", 0, i>>}]
  <2>1. room \in Nat /\ out = R!Old(room)
    BY <1>1
  <2> HIDE <1>1
  <2> QED BY <2>1, PbeOld
<1>4. Array(src, Len(src)) /\ Len(src) = 0 /\ Array(iv, PbeBlock)
  BY <1>1, ArrayEmpty, PbeCipherArray
<1>5. PbeTypes
  <2>1. op \in {"none", "enc", "dec"} /\ {active, inplace} \subseteq BOOLEAN /\ ret \in {0, -1}
    BY <1>1
  <2>2. room \in Nat /\ out_len \in 0 .. room /\ off \in Nat /\ off % PbeBlock = 0
    BY <1>1, <1>2
  <2>3. (inplace => Len(src) <= room) /\ in = IF inplace THEN [i \in 1 .. Len(src) |-> out[i]] ELSE src
    BY <1>1
  <2> QED BY <1>3, <1>4, <2>1, <2>2, <2>3, Zenon DEF PbeTypes
<1>6. PbePlace
  BY <1>1 DEF PbePlace
<1>7. PbeData
  <2>1. iv = PbePrev(PbeFed, off)
    BY <1>1 DEF PbePrev
  <2>2. out = PbeBefore
    BY <1>1, <1>3 DEF PbeBefore
  <2>3. \A o \in 0 .. off - 1 : FALSE
    BY <1>1
  <2> QED BY <2>1, <2>2, <2>3 DEF PbeData
<1>8. PbeSealed
  BY <1>1, ArrayEmpty DEF PbeSealed
<1> QED BY <1>5, <1>6, <1>7, <1>8 DEF PbeInv

\* A call begins.
LEMMA PbeCalled ==
    ASSUME R!SizeAssumption, PbeInv, NEW fn \in {"enc", "dec"}, NEW text, NEW n \in Nat,
           NEW refused \in BOOLEAN, NEW place \in BOOLEAN,
           R!Call(fn, text, n, refused, place),
           Array(text, Len(text)), place => Len(text) <= n,
           ~refused /\ fn = "enc" => Len(text) + R!pad_len(Len(text)) <= n,
           ~refused /\ fn = "dec" => Len(text) <= n /\ text # <<>> /\ Len(text) % PbeBlock = 0,
           fn = "dec" => PbeAtoms(text)
    PROVE  PbeInv'
<1>1. /\ op' = fn /\ active' = ~refused /\ inplace' = place
      /\ src' = text /\ room' = n /\ in' = text
      /\ out' = IF place THEN R!Store(R!Old(n), 0, text) ELSE R!Old(n)
      /\ out_len' = n /\ ret' = (IF refused THEN -1 ELSE 0) /\ iv' = R!Iv /\ off' = 0
      /\ sealed' = IF fn = "enc" THEN [text |-> <<>>, cipher |-> <<>>] ELSE sealed
  BY Zenon DEF R!Call, R!NoText
<1>2. PbeBlock \in Nat \ {0} /\ Len(text) \in Nat
  BY PbeSize DEF Array
<1>3. off' % PbeBlock = 0
  <2>1. off \in Nat /\ off % PbeBlock = 0
    BY DEF PbeInv, PbeTypes
  <2> QED BY <1>1, <1>2, <2>1, BlockNext
<1>4. /\ R!Old(n) = [i \in 1 .. n + PbeBlock |-> {<<"old", 0, i>>}]
      /\ Len(R!Old(n)) = n + PbeBlock
  BY PbeOld
<1>5. out' = PbeBefore'
  <2>1. CASE place
    <3> DEFINE x == R!Old(n)
    <3>1. out' = [i \in 1 .. n + PbeBlock |->
                      IF i \in 0 + 1 .. 0 + Len(text) THEN text[i - 0] ELSE x[i]]
      BY <1>1, <1>4, <2>1, Zenon DEF R!Store
    <3>2. \A i \in 1 .. n + PbeBlock : x[i] = {<<"old", 0, i>>}
      BY <1>4
    <3> HIDE DEF x
    <3>3. \A i \in 1 .. n + PbeBlock :
              (IF i \in 0 + 1 .. 0 + Len(text) THEN text[i - 0] ELSE x[i])
                  = IF place /\ i <= Len(text) THEN text[i] ELSE {<<"old", 0, i>>}
      <4> SUFFICES ASSUME NEW i \in 1 .. n + PbeBlock
                   PROVE  (IF i \in 0 + 1 .. 0 + Len(text) THEN text[i - 0] ELSE x[i])
                              = IF place /\ i <= Len(text) THEN text[i] ELSE {<<"old", 0, i>>}
        OBVIOUS
      <4>1. (i \in 0 + 1 .. 0 + Len(text) <=> i <= Len(text)) /\ i - 0 = i
        BY <1>2
      <4>2. x[i] = {<<"old", 0, i>>}
        BY <3>2
      <4> QED BY <2>1, <4>1, <4>2, Zenon
    <3>4. PbeBefore' = [i \in 1 .. n + PbeBlock |->
                            IF place /\ i <= Len(text) THEN text[i] ELSE {<<"old", 0, i>>}]
      BY <1>1 DEF PbeBefore
    <3> QED BY <3>1, <3>3, <3>4
  <2>2. CASE ~place
    BY <1>1, <1>4, <2>2 DEF PbeBefore
  <2> QED BY <2>1, <2>2
<1>6. Array(out', room' + PbeBlock)
  <2>1. n + PbeBlock \in Nat
    BY <1>2
  <2> QED BY <1>1, <1>5, <2>1 DEF PbeBefore, Array
<1>7. in' = IF inplace' THEN [i \in 1 .. Len(src') |-> out'[i]] ELSE src'
  <2>1. CASE place
    <3>1. \A i \in 1 .. Len(text) : out'[i] = text[i]
      <4> SUFFICES ASSUME NEW i \in 1 .. Len(text)
                   PROVE  out'[i] = text[i]
        OBVIOUS
      <4>1. i \in 1 .. n + PbeBlock /\ i <= Len(text)
        BY <1>2, <2>1
      <4> QED BY <1>1, <1>5, <2>1, <4>1 DEF PbeBefore
    <3>2. text = [i \in 1 .. Len(text) |-> text[i]]
      BY DEF Array
    <3> QED BY <1>1, <2>1, <3>1, <3>2
  <2>2. CASE ~place
    BY <1>1, <2>2
  <2> QED BY <2>1, <2>2
<1>8. PbeTypes'
  <2>1. Array(iv', PbeBlock)
    BY <1>1, PbeCipherArray
  <2>2. op' \in {"none", "enc", "dec"} /\ {active', inplace'} \subseteq BOOLEAN /\ ret' \in {0, -1}
    BY <1>1
  <2>3. room' \in Nat /\ out_len' \in 0 .. room' /\ off' \in Nat
    BY <1>1
  <2>4. Array(src', Len(src')) /\ (inplace' => Len(src') <= room')
    BY <1>1
  <2> QED BY <1>3, <1>6, <1>7, <2>1, <2>2, <2>3, <2>4, Zenon DEF PbeTypes
<1>12. (refused => active' = FALSE /\ ret' = -1) /\ (~refused => active' = TRUE /\ ret' = 0)
  BY <1>1, Zenon
<1>9. PbePlace'
  <2>1. ~refused => PbeEnd' <= n
    BY <1>1 DEF PbeEnd
  <2>2. op' # "none" /\ off' = 0
    BY <1>1
  <2>3. active' => off' <= Len(src') /\ ret' = 0 /\ out_len' = room'
    <3>1. active' => ~refused
      BY <1>12, Zenon
    <3>2. off' = 0 /\ out_len' = n /\ room' = n /\ src' = text
      BY <1>1
    <3> HIDE <1>1
    <3> QED BY <1>2, <1>12, <3>1, <3>2
  <2>4. active' \/ off' # 0 => PbeEnd' <= room'
    BY <1>1, <2>1
  <2>5. /\ op' = "dec" /\ (active' \/ off' # 0) => src' # <<>> /\ Len(src') % PbeBlock = 0
        /\ op' = "dec" => PbeAtoms(src')
        /\ ret' = -1 => out_len' = room'
        /\ ret' = 0 => active'
    BY <1>1, <1>12
  <2> QED BY <2>2, <2>3, <2>4, <2>5, Zenon DEF PbePlace
<1>10. PbeData'
  <2>1. iv' = PbePrev(PbeFed, off)'
    BY <1>1 DEF PbePrev
  <2>2. \A o \in 0 .. off' - 1 : FALSE
    BY <1>1
  <2> QED BY <1>5, <2>1, <2>2 DEF PbeData
<1>11. PbeSealed'
  <2>1. CASE fn = "enc"
    BY <1>1, <2>1, ArrayEmpty DEF PbeSealed
  <2>2. CASE fn # "enc"
    <3>1. sealed' = sealed /\ PbeSealed
      BY <1>1, <2>2 DEF PbeInv
    <3> QED BY <3>1 DEF PbeSealed
  <2> QED BY <2>1, <2>2
<1> QED BY <1>8, <1>9, <1>10, <1>11 DEF PbeInv

\* The block a byte is in.
LEMMA BlockOf ==
    ASSUME NEW n \in Nat \ {0}, NEW i \in Nat \ {0}
    PROVE  \E o \in Nat : \E k \in 1 .. n : o % n = 0 /\ i = o + k
<1> DEFINE m == i - 1
           q == m \div n
           r == m % n
           z == n - n
<1>1. m \in Nat
  OBVIOUS
<1>2. q \in Nat /\ r \in 0 .. n - 1 /\ m = q * n + r
  BY <1>1, Divided
<1>3. z \in 0 .. n - 1 /\ z = 0
  OBVIOUS
<1>4. m + 1 = i
  OBVIOUS
<1> HIDE DEF m, q, r, z
<1> DEFINE o == q * n
<1>5. o \in Nat
  BY <1>2
<1>6. (q * n + z) % n = z
  BY <1>2, <1>3, Quotient
<1>7. q * n + z = o
  BY <1>3, <1>5
<1>8. o % n = 0
  BY <1>3, <1>6, <1>7
<1> HIDE DEF o
<1>9. m = o + r
  BY <1>2 DEF o
<1>10. r + 1 \in 1 .. n /\ i = o + (r + 1)
  BY <1>2, <1>4, <1>5, <1>9
<1> QED BY <1>5, <1>8, <1>10

\* The cipher makes bytes that say which block they are of.
LEMMA PbeSealedAtoms ==
    ASSUME R!SizeAssumption, PbeSealed
    PROVE  PbeAtoms(sealed.cipher)
<1> DEFINE c == sealed.cipher
<1> SUFFICES ASSUME NEW i \in 1 .. Len(c), NEW t \in c[i], t[1] = "E"
             PROVE  Array(t[2], PbeBlock)
  BY DEF PbeAtoms
<1>1. PbeBlock \in Nat \ {0} /\ Len(c) \in Nat /\ i \in Nat \ {0}
  BY PbeSize DEF PbeSealed, Array
<1>2. PICK o \in Nat : \E k \in 1 .. PbeBlock : o % PbeBlock = 0 /\ i = o + k
  BY <1>1, BlockOf
<1>3. PICK k \in 1 .. PbeBlock : o % PbeBlock = 0 /\ i = o + k
  BY <1>2
<1>4. c # <<>>
  BY <1>1, ArrayEmpty
<1>5. o \in 0 .. Len(c) - 1
  BY <1>1, <1>3
<1> DEFINE x == PbeSum(PbePart(PbePadded(sealed.text), o), PbePrev(c, o))
<1>6. PbePart(c, o) = R!rc2_encrypt_block(x)
  BY <1>3, <1>4, <1>5 DEF PbeSealed, PbeSealedBlock
<1>7. Array(x, PbeBlock)
  BY PbePartArray, PbeXorIsSum
<1> HIDE DEF x, c
<1>8. c[i] = PbePart(c, o)[k]
  BY <1>3 DEF PbePart
<1>9. R!rc2_encrypt_block(x)[k] = {<<"E", x, k>>}
  BY DEF R!rc2_encrypt_block, R!BytesOf, R!Atom
<1>10. t = <<"E", x, k>>
  BY <1>6, <1>8, <1>9
<1> QED BY <1>7, <1>10

\* What arrives has such bytes too.
LEMMA PbeArrives ==
    ASSUME R!SizeAssumption, PbeSealed, NEW text \in R!Arriving
    PROVE  Array(text, Len(text)) /\ PbeAtoms(text)
<1> DEFINE c == sealed.cipher
           m == Len(c)
<1>1. m \in Nat /\ Array(c, m) /\ PbeAtoms(c)
  BY PbeSealedAtoms DEF PbeSealed, Array
<1>2. ASSUME NEW n \in 0 .. m, text = R!First(c, n)
      PROVE  Array(text, Len(text)) /\ PbeAtoms(text)
  <2> HIDE DEF c, m
  <2>1. n \in Nat /\ n <= m
    BY <1>1
  <2>4. text = [k \in 1 .. n |-> c[k]]
    BY <1>1, <1>2, <2>1, ArrayFirst DEF R!First
  <2>5. Array(text, n)
    BY <2>1, <2>4 DEF Array
  <2>6. Len(text) = n
    BY <2>5, ArrayLen
  <2>7. ASSUME NEW i \in 1 .. Len(text), NEW t \in text[i], t[1] = "E"
        PROVE  Array(t[2], PbeBlock)
    <3>1. i \in 1 .. Len(c) /\ t \in c[i]
      BY <1>1, <2>1, <2>4, <2>6, <2>7 DEF m
    <3> QED BY <1>1, <2>7, <3>1 DEF PbeAtoms
  <2> QED BY <2>5, <2>6, <2>7 DEF PbeAtoms
<1>3. ASSUME NEW pos \in 1 .. m, NEW v, text = R!Damaged(pos, v)
      PROVE  Array(text, Len(text)) /\ PbeAtoms(text)
  <2>1. text = [c EXCEPT ![pos] = R!Xor(c[pos], R!Value(v))]
    BY <1>3 DEF R!Damaged
  <2>2. DOMAIN c = 1 .. m
    BY <1>1, ArrayLen
  <2> HIDE DEF c
  <2>3. text = [i \in 1 .. m |-> IF i = pos THEN R!Xor(c[pos], R!Value(v)) ELSE c[i]]
    BY <2>1, <2>2
  <2>4. Array(text, m)
    BY <1>1, <2>3 DEF Array
  <2>5. Len(text) = m
    BY <2>4, ArrayLen
  <2>6. ASSUME NEW t \in R!Value(v), t[1] = "E"
        PROVE  FALSE
    <3>1. PICK k : t = <<"bit", 0, k>>
      BY <2>6, Zenon DEF R!Value, R!Atom
    <3>2. t[1] = "bit"
      BY <3>1
    <3> QED BY <2>6, <3>2
  <2>7. ASSUME NEW i \in 1 .. m, NEW t \in text[i], t[1] = "E"
        PROVE  Array(t[2], PbeBlock)
    <3>1. t \in c[i]
      <4> HIDE DEF m
      <4>1. CASE i = pos
        <5>1. text[i] = R!Xor(c[i], R!Value(v))
          BY <2>3, <4>1
        <5>2. t \in c[i] \/ t \in R!Value(v)
          BY <2>7, <5>1 DEF R!Xor
        <5> QED BY <2>6, <2>7, <5>2
      <4>2. CASE i # pos
        BY <2>3, <2>7, <4>2
      <4> QED BY <4>1, <4>2
    <3> QED BY <1>1, <2>7, <3>1 DEF PbeAtoms
  <2> QED BY <2>4, <2>5, <2>7 DEF PbeAtoms
<1> QED BY <1>2, <1>3 DEF R!Arriving

\* A block depends on its bytes only, what a block is chained to on those before it.
LEMMA PbePartKept ==
    ASSUME R!SizeAssumption, NEW f, NEW g, NEW o \in Nat,
           \A i \in o + 1 .. o + PbeBlock : f[i] = g[i]
    PROVE  PbePart(f, o) = PbePart(g, o)
<1>1. \A k \in 1 .. PbeBlock : f[o + k] = g[o + k]
  <2> SUFFICES ASSUME NEW k \in 1 .. PbeBlock
               PROVE  f[o + k] = g[o + k]
    OBVIOUS
  <2>1. o + k \in o + 1 .. o + PbeBlock
    BY PbeSize
  <2> QED BY <2>1
<1> QED BY <1>1 DEF PbePart

\* So does what it is chained to.
LEMMA PbePrevKept ==
    ASSUME R!SizeAssumption, NEW f, NEW g, NEW o \in Nat, o % PbeBlock = 0,
           \A i \in 1 .. o : f[i] = g[i]
    PROVE  PbePrev(f, o) = PbePrev(g, o)
<1>1. CASE o = 0
  BY <1>1 DEF PbePrev
<1>2. CASE o # 0
  <2> DEFINE p == o - PbeBlock
  <2>1. p \in Nat /\ p + PbeBlock = o
    BY <1>2, PbeSize, BlockNext
  <2> HIDE DEF p
  <2>2. \A i \in p + 1 .. p + PbeBlock : f[i] = g[i]
    BY <2>1, PbeSize
  <2>3. PbePart(f, p) = PbePart(g, p)
    BY <2>1, <2>2, PbePartKept
  <2> QED BY <1>2, <2>3 DEF PbePrev, p
<1> QED BY <1>1, <1>2

\* What is read of the text while the loop runs.
LEMMA PbeRead ==
    ASSUME R!SizeAssumption, PbeInv, active
    PROVE  /\ Len(src) \in Nat /\ Array(in, Len(src)) /\ Len(in) = Len(src)
           /\ off <= Len(src) /\ Len(src) <= room
           /\ \A i \in off + 1 .. Len(src) : in[i] = src[i]
<1>1. /\ op \in {"none", "enc", "dec"} /\ {active, inplace} \subseteq BOOLEAN
      /\ room \in Nat /\ Array(src, Len(src)) /\ off \in Nat
      /\ in = IF inplace THEN [i \in 1 .. Len(src) |-> out[i]] ELSE src
  BY Zenon DEF PbeInv, PbeTypes
<1>2. off <= Len(src) /\ PbeEnd <= room
  BY Zenon DEF PbeInv, PbePlace
<1>3. Len(src) \in Nat
  BY <1>1 DEF Array
<1>4. Len(src) <= room
  <2>1. R!pad_len(Len(src)) \in 1 .. PbeBlock /\ PbeBlock \in Nat
    BY <1>3, PbePadLen, PbeSize
  <2> QED BY <1>1, <1>2, <1>3, <2>1 DEF PbeEnd
<1>5. Array(in, Len(src))
  BY <1>1, <1>3 DEF Array
<1>6. ASSUME NEW i \in off + 1 .. Len(src)
      PROVE  in[i] = src[i]
  <2>1. i \in off + 1 .. room + PbeBlock /\ i \in 1 .. room + PbeBlock
        /\ i <= Len(src) /\ i \in 1 .. Len(src)
    BY <1>1, <1>3, <1>4, PbeSize
  <2>2. out[i] = PbeBefore[i]
    BY <2>1 DEF PbeInv, PbeData
  <2>3. CASE inplace
    BY <1>1, <2>1, <2>2, <2>3 DEF PbeBefore
  <2>4. CASE ~inplace
    BY <1>1, <2>4
  <2> QED BY <2>3, <2>4
<1> QED BY <1>2, <1>3, <1>4, <1>5, <1>6, ArrayLen

\* What a turn writes.
LEMMA PbeWrites ==
    ASSUME R!SizeAssumption, PbeInv, active, NEW c, Array(c, PbeBlock), R!Write(c)
    PROVE  /\ Array(out', room + PbeBlock)
           /\ \A i \in 1 .. room + PbeBlock : i \notin off + 1 .. off + PbeBlock => out'[i] = out[i]
           /\ PbePart(out', off) = c
           /\ in' = IF inplace THEN [i \in 1 .. Len(src) |-> out'[i]] ELSE src
<1>1. /\ Len(src) \in Nat /\ Len(in) = Len(src) /\ off <= Len(src) /\ Len(src) <= room
  BY PbeRead
<1>2. /\ room \in Nat /\ Array(out, room + PbeBlock) /\ off \in Nat
      /\ in = IF inplace THEN [i \in 1 .. Len(src) |-> out[i]] ELSE src
      /\ PbeBlock \in Nat \ {0}
  BY PbeSize DEF PbeInv, PbeTypes
<1>4. out' = R!Store(out, off, c) /\ in' = IF inplace THEN R!First(out', Len(in)) ELSE in
  BY DEF R!Write
<1>5. /\ Array(out', room + PbeBlock)
      /\ \A i \in 1 .. room + PbeBlock : i \notin off + 1 .. off + PbeBlock => out'[i] = out[i]
      /\ PbePart(out', off) = c
  <2> DEFINE n == room + PbeBlock
  <2>1. off + PbeBlock <= n
    BY <1>1, <1>2
  <2>2. Array(out, n)
    BY <1>2
  <2>3. out' = R!Store(out, off, c)
    BY <1>4
  <2> HIDE DEF n
  <2>4. off \in Nat /\ Array(c, PbeBlock)
    BY <1>2
  <2> HIDE <1>2
  <2>5. /\ Array(out', n)
        /\ \A i \in 1 .. n : i \notin off + 1 .. off + PbeBlock => out'[i] = out[i]
        /\ PbePart(out', off) = c
    BY <2>1, <2>2, <2>3, <2>4, PbeStored
  <2> QED BY <2>5 DEF n
<1>6. in' = IF inplace THEN [i \in 1 .. Len(src) |-> out'[i]] ELSE src
  <2>1. Len(src) <= room + PbeBlock
    BY <1>1, <1>2
  <2>2. R!First(out', Len(src)) = [i \in 1 .. Len(src) |-> out'[i]]
    BY <1>1, <1>5, <2>1, ArrayFirst DEF R!First
  <2> QED BY <1>1, <1>2, <1>4, <2>2
<1> QED BY <1>5, <1>6

\* A turn that writes the right block.
LEMMA PbeStep ==
    ASSUME R!SizeAssumption, PbeInv, active, NEW c, Array(c, PbeBlock), c = PbeWritten(off),
           R!Write(c), off' = off + PbeBlock, iv' = PbePart(PbeFed', off),
           UNCHANGED <<op, inplace, src, room>>
    PROVE  /\ Array(out', room + PbeBlock) /\ Array(iv', PbeBlock)
           /\ in' = IF inplace THEN [i \in 1 .. Len(src) |-> out'[i]] ELSE src
           /\ off' \in Nat /\ off' % PbeBlock = 0 /\ off' # 0
           /\ PbeData'
<1>1. /\ Len(src) \in Nat /\ Len(in) = Len(src) /\ off <= Len(src) /\ Len(src) <= room
  BY PbeRead
<1>2. /\ room \in Nat /\ Array(out, room + PbeBlock) /\ off \in Nat /\ off % PbeBlock = 0
      /\ in = IF inplace THEN [i \in 1 .. Len(src) |-> out[i]] ELSE src
      /\ PbeBlock \in Nat \ {0}
  BY PbeSize DEF PbeInv, PbeTypes
<1>3. op' = op /\ inplace' = inplace /\ src' = src /\ room' = room
  OBVIOUS
<1>5. /\ Array(out', room + PbeBlock)
      /\ \A i \in 1 .. room + PbeBlock : i \notin off + 1 .. off + PbeBlock => out'[i] = out[i]
      /\ PbePart(out', off) = c
      /\ in' = IF inplace THEN [i \in 1 .. Len(src) |-> out'[i]] ELSE src
  BY PbeWrites
<1>7. off' \in Nat /\ off' % PbeBlock = 0 /\ off' # 0 /\ off' - PbeBlock = off
  BY <1>2, BlockNext
<1>8. Array(iv', PbeBlock) /\ iv' = PbePrev(PbeFed', off')
  BY <1>7, PbePartArray DEF PbePrev
<1>9. /\ \A i \in 1 .. off : out'[i] = out[i]
      /\ \A i \in off' + 1 .. room + PbeBlock : out'[i] = out[i]
  <2>1. ASSUME NEW i \in 1 .. off
        PROVE  out'[i] = out[i]
    <3>1. i \in 1 .. room + PbeBlock /\ i \notin off + 1 .. off + PbeBlock
      BY <1>1, <1>2
    <3> QED BY <1>5, <3>1
  <2>2. ASSUME NEW i \in off' + 1 .. room + PbeBlock
        PROVE  out'[i] = out[i]
    <3>1. i \in 1 .. room + PbeBlock /\ i \notin off + 1 .. off + PbeBlock
      BY <1>2
    <3> QED BY <1>5, <3>1
  <2> QED BY <2>1, <2>2
<1>10. \A i \in 1 .. off : PbeFed'[i] = PbeFed[i]
  BY <1>3, <1>9 DEF PbeFed
<1>11. ASSUME NEW o \in Nat, o % PbeBlock = 0, o <= off
       PROVE  PbeWritten(o)' = PbeWritten(o)
  <2>1. \A i \in 1 .. o : out'[i] = out[i] /\ PbeFed'[i] = PbeFed[i]
    BY <1>2, <1>9, <1>10, <1>11
  <2>2. PbePrev(out', o) = PbePrev(out, o)
    BY <1>11, <2>1, PbePrevKept
  <2>3. PbePrev(PbeFed', o) = PbePrev(PbeFed, o)
    BY <1>11, <2>1, PbePrevKept
  <2>4. PbeWritten(o)' = IF op = "enc" THEN PbeSealedBlock(src, out', o)
                         ELSE PbeOpenedBlock(src, PbeFed', o)
    BY <1>3 DEF PbeWritten
  <2> QED BY <2>2, <2>3, <2>4, Zenon DEF PbeWritten, PbeSealedBlock, PbeOpenedBlock
<1>12. ASSUME NEW o \in 0 .. off' - 1, o % PbeBlock = 0
       PROVE  PbePart(out', o) = PbeWritten(o)'
  <2>1. o \in Nat /\ o < off + PbeBlock
    BY <1>2
  <2>2. CASE o < off
    <3>1. o + PbeBlock <= off
      BY <1>2, <1>12, <2>1, <2>2, BlockApart
    <3>2. \A i \in o + 1 .. o + PbeBlock : out'[i] = out[i]
      BY <1>2, <1>9, <2>1, <3>1
    <3>3. PbePart(out', o) = PbePart(out, o)
      BY <2>1, <3>2, PbePartKept
    <3>4. o \in 0 .. off - 1
      BY <1>2, <2>1, <2>2
    <3>5. PbePart(out, o) = PbeWritten(o)
      BY <1>12, <3>4 DEF PbeInv, PbeData
    <3>6. PbeWritten(o)' = PbeWritten(o)
      BY <1>2, <1>11, <1>12, <2>1, <2>2
    <3> QED BY <3>3, <3>5, <3>6
  <2>3. CASE o = off
    <3>1. PbeWritten(o)' = PbeWritten(o)
      BY <1>2, <1>11, <2>3
    <3> QED BY <1>5, <2>3, <3>1
  <2>4. CASE o > off
    <3>1. off + PbeBlock <= o
      BY <1>2, <1>12, <2>1, <2>4, BlockApart
    <3> QED BY <1>2, <2>1, <3>1
  <2> QED BY <1>2, <2>1, <2>2, <2>3, <2>4
<1>13. \A i \in off' + 1 .. room' + PbeBlock : out'[i] = PbeBefore'[i]
  <2>1. PbeBefore' = PbeBefore
    BY <1>3 DEF PbeBefore
  <2>2. ASSUME NEW i \in off' + 1 .. room + PbeBlock
        PROVE  out[i] = PbeBefore[i]
    <3>1. i \in off + 1 .. room + PbeBlock
      BY <1>2
    <3> QED BY <3>1 DEF PbeInv, PbeData
  <2> QED BY <1>3, <1>9, <2>1, <2>2
<1>14. PbeData'
  BY <1>8, <1>12, <1>13 DEF PbeData
<1> QED BY <1>5, <1>7, <1>8, <1>14

\* A turn of encryption writes the next block,
LEMMA PbeEncrypts ==
    ASSUME R!SizeAssumption, PbeInv, R!EncryptTurn
    PROVE  PbeInv'
<1> DEFINE c == R!rc2_encrypt_block(R!XorBytes(R!Block(in, off), iv))
<1>1. /\ op = "enc" /\ active /\ off + PbeBlock <= Len(in)
      /\ R!Write(c) /\ iv' = c /\ off' = off + PbeBlock
      /\ UNCHANGED <<op, active, inplace, src, room, out_len, ret, sealed>>
  BY Zenon DEF R!EncryptTurn
<1>2. /\ op' = op /\ active' = active /\ inplace' = inplace /\ src' = src /\ room' = room
      /\ out_len' = out_len /\ ret' = ret /\ sealed' = sealed
  BY <1>1
<1>3. /\ Len(src) \in Nat /\ Array(in, Len(src)) /\ Len(in) = Len(src)
      /\ \A i \in off + 1 .. Len(src) : in[i] = src[i]
  BY <1>1, PbeRead
<1>4. PbeTypes /\ PbePlace /\ PbeData /\ PbeSealed /\ off \in Nat /\ PbeBlock \in Nat \ {0}
  BY PbeSize DEF PbeInv, PbeTypes
<1>5. R!Block(in, off) = PbePart(PbePadded(src), off)
  <2>1. R!Block(in, off) = PbePart(in, off)
    BY <1>1, <1>3, <1>4, PbeBlockIsPart
  <2>2. Array(src, Len(src))
    BY <1>4 DEF PbeTypes
  <2>3. \A i \in off + 1 .. off + PbeBlock : in[i] = PbePadded(src)[i]
    <3> SUFFICES ASSUME NEW i \in off + 1 .. off + PbeBlock
                 PROVE  in[i] = PbePadded(src)[i]
      OBVIOUS
    <3>1. i \in off + 1 .. Len(src) /\ i \in 1 .. Len(src)
      BY <1>1, <1>3, <1>4
    <3> QED BY <1>3, <2>2, <3>1, PbePaddedArray
  <2> QED BY <1>4, <2>1, <2>3, PbePartKept
<1>6. iv = PbePrev(out, off)
  BY <1>1, <1>4 DEF PbeData, PbeFed
<1>7. c = PbeWritten(off) /\ Array(c, PbeBlock)
  <2>1. Array(R!Block(in, off), PbeBlock)
    BY <1>5, PbePartArray
  <2>2. R!XorBytes(R!Block(in, off), iv) = PbeSum(R!Block(in, off), iv)
    BY <2>1, PbeXorIsSum
  <2>3. c = PbeSealedBlock(src, out, off)
    BY <1>5, <1>6, <2>2, Zenon DEF PbeSealedBlock
  <2> QED BY <1>1, <2>3, PbeCipherArray DEF PbeWritten
<1> HIDE DEF c
<1>8. iv' = PbePart(PbeFed', off)
  <2>1. PbePart(out', off) = c
    BY <1>1, <1>7, PbeWrites
  <2> QED BY <1>1, <1>2, <2>1 DEF PbeFed
<1>9. /\ Array(out', room + PbeBlock) /\ Array(iv', PbeBlock)
      /\ in' = IF inplace THEN [i \in 1 .. Len(src) |-> out'[i]] ELSE src
      /\ off' \in Nat /\ off' % PbeBlock = 0 /\ off' # 0
      /\ PbeData'
  BY <1>1, <1>2, <1>7, <1>8, PbeStep
<1>10. PbeTypes'
  BY <1>2, <1>4, <1>9, Zenon DEF PbeTypes
<1>11. PbePlace'
  <2>1. active /\ off' <= Len(src) /\ ret = 0 /\ out_len = room /\ PbeEnd <= room
    BY <1>1, <1>3, <1>4 DEF PbePlace
  <2>2. PbeEnd' = PbeEnd
    BY <1>2, Zenon DEF PbeEnd
  <2>3. op' = "enc" /\ ret' = 0
    BY <1>1, <1>2, <2>1
  <2>4. op' # "none" /\ op' # "dec" /\ ret' # -1
    BY <2>3
  <2> QED BY <1>2, <2>1, <2>2, <2>3, <2>4, Zenon DEF PbePlace
<1>12. PbeSealed'
  BY <1>2, <1>4, Zenon DEF PbeSealed
<1> QED BY <1>9, <1>10, <1>11, <1>12 DEF PbeInv

\* The last block is the last of the padded text.
LEMMA PbeLastBlock ==
    ASSUME R!SizeAssumption, PbeInv, op = "enc", active, off + PbeBlock > Len(in)
    PROVE  /\ R!LastBlock = PbePart(PbePadded(src), off)
           /\ Len(src) + R!pad_len(Len(src)) = off + PbeBlock
<1>1. /\ Len(src) \in Nat /\ Array(in, Len(src)) /\ Len(in) = Len(src)
      /\ off <= Len(src) /\ \A i \in off + 1 .. Len(src) : in[i] = src[i]
  BY PbeRead
<1>2. off \in Nat /\ off % PbeBlock = 0 /\ PbeBlock \in Nat \ {0} /\ Array(src, Len(src))
  BY PbeSize DEF PbeInv, PbeTypes
<1> DEFINE n == Len(src)
           p == R!pad_len(n)
           v == R!Value(p)
           w == n - off
           h == SubSeq(in, off + 1, n)
           t == [i \in 1 .. p |-> v]
           d == PbePadded(src)
<1>3. p \in 1 .. PbeBlock /\ n + p = off + PbeBlock
  BY <1>1, <1>2, PbePadLen
<1>4. /\ \A i \in 1 .. n : d[i] = src[i]
      /\ \A i \in 1 .. p : d[n + i] = v
  BY <1>2, PbePaddedArray
<1>5. R!LastBlock = h \o t
  BY <1>1 DEF R!LastBlock
<1>6. n \in Nat /\ Array(in, n) /\ off <= n /\ \A i \in off + 1 .. n : in[i] = src[i]
  BY <1>1
<1>7. w \in Nat /\ off + w = n /\ w + p = PbeBlock
  BY <1>1, <1>2, <1>3
<1> HIDE DEF n, p, v, w, d
<1>8. h = [k \in 1 .. w |-> in[off + k]]
  BY <1>2, <1>6, <1>7, ArrayCut
<1>9. Array(h, w) /\ \A k \in 1 .. w : h[k] = in[off + k]
  BY <1>7, <1>8 DEF Array
<1>10. Array(t, p) /\ \A k \in 1 .. p : t[k] = v
  BY <1>3 DEF Array
<1> HIDE DEF h, t
<1> DEFINE l == h \o t
<1>11. p \in Nat
  BY <1>2, <1>3
<1>14. l = [i \in 1 .. w + p |-> IF i <= w THEN h[i] ELSE t[i - w]]
  <2>1. Array(h, w) /\ Array(t, p)
    BY <1>9, <1>10
  <2> QED BY <1>7, <1>11, <2>1, ArrayConcat
<1> HIDE DEF l
<1>15. Array(l, w + p)
  BY <1>7, <1>11, <1>14 DEF Array
<1>16. \A i \in 1 .. w : l[i] = h[i]
  BY <1>7, <1>11, <1>14
<1>17. \A i \in 1 .. p : l[w + i] = t[i]
  BY <1>7, <1>11, <1>14
<1>12. ASSUME NEW k \in 1 .. PbeBlock
       PROVE  l[k] = d[off + k]
  <2>1. CASE k <= w
    <3>1. k \in 1 .. w /\ off + k \in off + 1 .. n /\ off + k \in 1 .. n
      BY <1>2, <1>6, <1>7, <2>1
    <3> QED BY <1>4, <1>6, <1>9, <1>16, <3>1
  <2>2. CASE k > w
    <3> DEFINE e == k - w
    <3>1. e \in 1 .. p /\ w + e = k /\ n + e = off + k
      BY <1>2, <1>6, <1>7, <2>2, <1>3
    <3> HIDE DEF e
    <3>2. l[w + e] = v /\ d[n + e] = v
      BY <1>4, <1>10, <1>17, <3>1
    <3> QED BY <3>1, <3>2
  <2> QED BY <1>7, <2>1, <2>2
<1>13. l = PbePart(d, off)
  BY <1>7, <1>12, <1>15 DEF PbePart, Array
<1> QED BY <1>3, <1>5, <1>13 DEF l, n, p, d

\* so does its end, which keeps what it made,
LEMMA PbeEncryptsLast ==
    ASSUME R!SizeAssumption, PbeInv, R!EncryptLast
    PROVE  PbeInv'
<1> DEFINE c == R!rc2_encrypt_block(R!XorBytes(R!LastBlock, iv))
           n == Len(src)
           p == R!pad_len(n)
<1>1. /\ op = "enc" /\ active /\ off + PbeBlock > Len(in)
      /\ R!Write(c) /\ iv' = c /\ off' = off + PbeBlock
      /\ out_len' = Len(in) + R!pad_len(Len(in)) /\ active' = FALSE /\ ret' = 0
      /\ sealed' = [text |-> src, cipher |-> R!First(out', out_len')]
      /\ UNCHANGED <<op, inplace, src, room>>
  BY Zenon DEF R!EncryptLast
<1>2. op' = op /\ inplace' = inplace /\ src' = src /\ room' = room
  BY <1>1
<1>3. n \in Nat /\ Len(in) = n
  BY <1>1, PbeRead
<1>4. /\ PbeTypes /\ PbePlace /\ PbeData /\ PbeSealed /\ off \in Nat /\ PbeBlock \in Nat \ {0}
      /\ room \in Nat /\ Array(src, Len(src))
  BY PbeSize DEF PbeInv, PbeTypes
<1>5. R!LastBlock = PbePart(PbePadded(src), off) /\ n + p = off + PbeBlock
  BY <1>1, PbeLastBlock
<1>6. iv = PbePrev(out, off)
  BY <1>1, <1>4 DEF PbeData, PbeFed
<1>7. c = PbeWritten(off) /\ Array(c, PbeBlock)
  <2>1. Array(R!LastBlock, PbeBlock)
    BY <1>5, PbePartArray
  <2>2. R!XorBytes(R!LastBlock, iv) = PbeSum(R!LastBlock, iv)
    BY <2>1, PbeXorIsSum
  <2>3. c = PbeSealedBlock(src, out, off)
    BY <1>5, <1>6, <2>2, Zenon DEF PbeSealedBlock
  <2> QED BY <1>1, <2>3, PbeCipherArray DEF PbeWritten
<1> HIDE DEF c
<1>8. iv' = PbePart(PbeFed', off)
  <2>1. PbePart(out', off) = c
    BY <1>1, <1>7, PbeWrites
  <2> QED BY <1>1, <1>2, <2>1 DEF PbeFed
<1>9. /\ Array(out', room + PbeBlock) /\ Array(iv', PbeBlock)
      /\ in' = IF inplace THEN [i \in 1 .. Len(src) |-> out'[i]] ELSE src
      /\ off' \in Nat /\ off' % PbeBlock = 0 /\ off' # 0
      /\ PbeData'
  BY <1>1, <1>2, <1>7, <1>8, PbeStep
<1>10. PbeEnd = n + p /\ n + p <= room /\ out_len' = n + p /\ off' = n + p
  BY <1>1, <1>3, <1>4, <1>5 DEF PbePlace, PbeEnd
<1>11. PbeTypes'
  <2>1. n + p \in 0 .. room
    BY <1>4, <1>5, <1>10
  <2>2. op \in {"none", "enc", "dec"} /\ inplace \in BOOLEAN /\ (inplace => Len(src) <= room)
    BY <1>4 DEF PbeTypes
  <2>3. op' \in {"none", "enc", "dec"} /\ {active', inplace'} \subseteq BOOLEAN /\ ret' \in {0, -1}
    BY <1>1, <1>2, <2>2
  <2>4. /\ room' \in Nat /\ out_len' \in 0 .. room'
        /\ Array(src', Len(src')) /\ (inplace' => Len(src') <= room')
    BY <1>2, <1>4, <1>10, <2>1, <2>2
  <2>5. /\ Array(out', room' + PbeBlock)
        /\ in' = IF inplace' THEN [i \in 1 .. Len(src') |-> out'[i]] ELSE src'
    BY <1>2, <1>9
  <2> QED BY <1>9, <2>3, <2>4, <2>5, Zenon DEF PbeTypes
<1>12. PbePlace'
  <2>1. PbeEnd' = PbeEnd
    BY <1>2, Zenon DEF PbeEnd
  <2>2. op' = "enc" /\ ret' = 0 /\ active' = FALSE
    BY <1>1, <1>2
  <2>3. op' # "none" /\ op' # "dec" /\ ret' # -1
    BY <2>2
  <2>4. off' = PbeEnd' /\ PbeEnd' <= room'
    BY <1>2, <1>10, <2>1
  <2> QED BY <2>2, <2>3, <2>4, Zenon DEF PbePlace
<1>13. PbeSealed'
  <2> DEFINE m == n + p
             s == SubSeq(out', 1, m)
             l == room + PbeBlock
  <2>1. m \in Nat /\ m <= l /\ m = off' /\ Array(out', l)
    BY <1>4, <1>5, <1>9, <1>10
  <2>2. sealed'.text = src /\ sealed'.cipher = s
    BY <1>1, <1>10 DEF R!First
  <2>3. PbeData' /\ op' = "enc" /\ src' = src
    BY <1>1, <1>2, <1>9
  <2>4. m = Len(src) + R!pad_len(Len(src))
    OBVIOUS
  <2>9. m \in Nat
    BY <2>1
  <2> HIDE DEF m, l
  <2>5. s = [k \in 1 .. m |-> out'[k]]
    BY <2>1, ArrayFirst
  <2> HIDE DEF s
  <2>6. Array(s, m) /\ \A k \in 1 .. m : s[k] = out'[k]
    BY <2>1, <2>5 DEF Array
  <2>7. Len(s) = m
    BY <2>6, ArrayLen
  <2>8. ASSUME NEW o \in 0 .. m - 1, o % PbeBlock = 0
        PROVE  PbePart(s, o) = PbeSealedBlock(src, s, o)
    <3>1. o \in Nat /\ o < m
      BY <2>9
    <3>2. o + PbeBlock <= m
      BY <1>4, <1>9, <2>1, <2>8, <3>1, BlockApart
    <3>3. \A i \in o + 1 .. o + PbeBlock : s[i] = out'[i]
      BY <1>4, <2>1, <2>6, <3>1, <3>2
    <3>4. \A i \in 1 .. o : s[i] = out'[i]
      BY <1>4, <2>1, <2>6, <3>1, <3>2
    <3>5. PbePart(s, o) = PbePart(out', o)
      BY <3>1, <3>3, PbePartKept
    <3>6. PbePrev(s, o) = PbePrev(out', o)
      BY <2>8, <3>1, <3>4, PbePrevKept
    <3>7. PbePart(out', o) = PbeWritten(o)'
      BY <2>1, <2>3, <2>8 DEF PbeData
    <3>8. PbeWritten(o)' = PbeSealedBlock(src, out', o)
      BY <2>3 DEF PbeWritten
    <3>9. PbeSealedBlock(src, out', o) = PbeSealedBlock(src, s, o)
      BY <3>6, Zenon DEF PbeSealedBlock
    <3> QED BY <3>5, <3>7, <3>8, <3>9
  <2> QED BY <1>4, <2>2, <2>4, <2>6, <2>7, <2>8, Zenon DEF PbeSealed
<1> QED BY <1>9, <1>11, <1>12, <1>13 DEF PbeInv

\* a turn of decryption, and
LEMMA PbeDecrypts ==
    ASSUME R!SizeAssumption, PbeInv, R!DecryptTurn
    PROVE  PbeInv'
<1> DEFINE c == R!XorBytes(R!rc2_decrypt_block(R!Block(in, off)), iv)
           n == Len(src)
<1>1. /\ op = "dec" /\ active /\ off + PbeBlock <= Len(in)
      /\ R!Write(c) /\ iv' = R!Block(in', off) /\ off' = off + PbeBlock
      /\ UNCHANGED <<op, active, inplace, src, room, out_len, ret, sealed>>
  BY Zenon DEF R!DecryptTurn, R!NextIv
<1>2. /\ op' = op /\ active' = active /\ inplace' = inplace /\ src' = src /\ room' = room
      /\ out_len' = out_len /\ ret' = ret /\ sealed' = sealed
  BY <1>1
<1>3. /\ n \in Nat /\ Array(in, n) /\ Len(in) = n /\ n <= room
      /\ \A i \in off + 1 .. n : in[i] = src[i]
  BY <1>1, PbeRead
<1>4. /\ PbeTypes /\ PbePlace /\ PbeData /\ PbeSealed /\ off \in Nat /\ PbeBlock \in Nat \ {0}
      /\ room \in Nat /\ Array(src, n) /\ inplace \in BOOLEAN
  BY PbeSize DEF PbeInv, PbeTypes
<1>5. R!Block(in, off) = PbePart(src, off)
  <2>1. R!Block(in, off) = PbePart(in, off)
    BY <1>1, <1>3, <1>4, PbeBlockIsPart
  <2>2. \A i \in off + 1 .. off + PbeBlock : in[i] = src[i]
    BY <1>1, <1>3, <1>4
  <2> QED BY <1>4, <2>1, <2>2, PbePartKept
<1>6. iv = PbePrev(PbeFed, off)
  BY <1>4 DEF PbeData
<1>7. c = PbeWritten(off) /\ Array(c, PbeBlock)
  <2> DEFINE x == R!rc2_decrypt_block(R!Block(in, off))
  <2>1. x = R!rc2_decrypt_block(PbePart(src, off))
    BY <1>5
  <2>2. PbeAtoms(src) /\ off + PbeBlock <= Len(src) /\ Array(src, Len(src))
    BY <1>1, <1>3, <1>4 DEF PbePlace
  <2>3. Array(x, PbeBlock)
    BY <1>4, <2>1, <2>2, PbeDeciphered
  <2>4. c = R!XorBytes(x, iv)
    OBVIOUS
  <2> HIDE DEF x, c
  <2>5. c = PbeSum(x, iv) /\ Array(c, PbeBlock)
    BY <2>3, <2>4, PbeXorIsSum
  <2>6. c = PbeOpenedBlock(src, PbeFed, off)
    BY <1>6, <2>1, <2>5, Zenon DEF PbeOpenedBlock
  <2>7. op # "enc"
    BY <1>1
  <2> QED BY <2>5, <2>6, <2>7, Zenon DEF PbeWritten
<1> HIDE DEF c
<1>8. /\ Array(out', room + PbeBlock)
      /\ in' = IF inplace THEN [i \in 1 .. n |-> out'[i]] ELSE src
  BY <1>1, <1>7, PbeWrites
<1>9. iv' = PbePart(PbeFed', off)
  <2>1. Array(in', n)
    <3>1. CASE inplace
      BY <1>3, <1>8, <3>1 DEF Array
    <3>2. CASE ~inplace
      BY <1>4, <1>8, <3>2
    <3> QED BY <3>1, <3>2
  <2>2. R!Block(in', off) = PbePart(in', off)
    BY <1>1, <1>3, <1>4, <2>1, PbeBlockIsPart
  <2>3. \A i \in off + 1 .. off + PbeBlock : in'[i] = PbeFed'[i]
    <3>1. CASE inplace
      <4>1. PbeFed' = out' /\ in' = [i \in 1 .. n |-> out'[i]]
        BY <1>2, <1>8, <3>1 DEF PbeFed
      <4>2. \A i \in off + 1 .. off + PbeBlock : i \in 1 .. n
        BY <1>1, <1>3, <1>4
      <4> QED BY <4>1, <4>2
    <3>2. CASE ~inplace
      BY <1>1, <1>2, <1>8, <3>2 DEF PbeFed
    <3> QED BY <3>1, <3>2
  <2>4. PbePart(in', off) = PbePart(PbeFed', off)
    BY <1>4, <2>3, PbePartKept
  <2> QED BY <1>1, <2>2, <2>4
<1>10. /\ Array(out', room + PbeBlock) /\ Array(iv', PbeBlock)
       /\ in' = IF inplace THEN [i \in 1 .. Len(src) |-> out'[i]] ELSE src
       /\ off' \in Nat /\ off' % PbeBlock = 0 /\ off' # 0
       /\ PbeData'
  BY <1>1, <1>2, <1>7, <1>9, PbeStep
<1>11. PbeTypes'
  BY <1>2, <1>4, <1>10, Zenon DEF PbeTypes
<1>12. PbePlace'
  <2>1. /\ active /\ off' <= n /\ ret = 0 /\ out_len = room /\ PbeEnd <= room
        /\ src # <<>> /\ n % PbeBlock = 0 /\ PbeAtoms(src)
    BY <1>1, <1>3, <1>4 DEF PbePlace
  <2>2. PbeEnd' = PbeEnd
    BY <1>2, Zenon DEF PbeEnd
  <2>3. op' # "none" /\ ret' # -1
    BY <1>1, <1>2, <2>1
  <2>4. PbeAtoms(src')
    BY <1>2, <2>1
  <2> QED BY <1>2, <2>1, <2>2, <2>3, <2>4, Zenon DEF PbePlace
<1>13. PbeSealed'
  BY <1>2, <1>4, Zenon DEF PbeSealed
<1> QED BY <1>10, <1>11, <1>12, <1>13 DEF PbeInv

\* the look at the padding.
LEMMA PbeUnpads ==
    ASSUME R!SizeAssumption, PbeInv, R!Unpad
    PROVE  PbeInv'
<1> DEFINE n == Len(src)
<1>1. /\ op = "dec" /\ active /\ off + PbeBlock > Len(in) /\ active' = FALSE
      /\ UNCHANGED <<op, inplace, src, room, in, out, iv, off, sealed>>
      /\ \E val \in R!LastValues :
            /\ out_len' = IF R!PaddingRight(val) THEN Len(in) - val[PbeBlock] ELSE out_len
            /\ ret' = IF R!PaddingRight(val) THEN 0 ELSE -1
  BY Zenon DEF R!Unpad
<1>2. /\ op' = op /\ inplace' = inplace /\ src' = src /\ room' = room /\ in' = in /\ out' = out
      /\ iv' = iv /\ off' = off /\ sealed' = sealed
  BY <1>1
<1>3. /\ n \in Nat /\ Len(in) = n /\ n <= room /\ off <= n
  BY <1>1, PbeRead
<1>4. /\ PbeTypes /\ PbePlace /\ PbeData /\ PbeSealed /\ off \in Nat /\ PbeBlock \in Nat \ {0}
      /\ room \in Nat /\ Array(src, n) /\ off % PbeBlock = 0
  BY PbeSize DEF PbeInv, PbeTypes
<1>5. /\ src # <<>> /\ n % PbeBlock = 0 /\ PbeAtoms(src) /\ out_len = room /\ PbeEnd <= room
  BY <1>1, <1>4 DEF PbePlace
<1>6. off = n
  <2>1. CASE off < n
    BY <1>1, <1>3, <1>4, <1>5, <2>1, BlockApart
  <2> QED BY <1>3, <1>4, <2>1
<1>7. n # 0
  <2>1. ASSUME n = 0
        PROVE  src = <<>>
    <3>1. Array(src, 0)
      BY <1>4, <2>1
    <3>2. \A i \in 1 .. 0 : FALSE
      OBVIOUS
    <3> QED BY <3>1, <3>2, ArrayEmpty, ArrayEqual
  <2> QED BY <1>5, <2>1
<1>8. PbeBlock <= n
  <2>1. PbeBlock > n => n % PbeBlock = n
    BY <1>3, <1>4
  <2> QED BY <1>3, <1>4, <1>5, <1>7, <2>1
<1>9. PICK val \in R!LastValues :
          /\ out_len' = IF R!PaddingRight(val) THEN Len(in) - val[PbeBlock] ELSE out_len
          /\ ret' = IF R!PaddingRight(val) THEN 0 ELSE -1
  BY <1>1
<1>10. R!PaddingRight(val) => val[PbeBlock] \in 1 .. PbeBlock
  BY Zenon DEF R!PaddingRight
<1>11. out_len' \in 0 .. room /\ ret' \in {0, -1}
  BY <1>3, <1>4, <1>5, <1>8, <1>9, <1>10
<1>12. PbeTypes'
  <2>1. /\ op \in {"none", "enc", "dec"} /\ inplace \in BOOLEAN /\ (inplace => Len(src) <= room)
        /\ Array(out, room + PbeBlock) /\ Array(iv, PbeBlock)
        /\ in = IF inplace THEN [i \in 1 .. Len(src) |-> out[i]] ELSE src
    BY <1>4 DEF PbeTypes
  <2>2. {active', inplace'} \subseteq BOOLEAN
    BY <1>1, <1>2, <2>1
  <2> QED BY <1>2, <1>4, <1>11, <2>1, <2>2, Zenon DEF PbeTypes
<1>13. PbePlace'
  <2>1. PbeEnd' = n /\ n <= room
    BY <1>1, <1>2, <1>3 DEF PbeEnd
  <2>2. op' = "dec" /\ op' # "none" /\ ~active' /\ off' # 0
    BY <1>1, <1>2, <1>6, <1>7
  <2>3. R!LastValues' = R!LastValues
    BY <1>2, Zenon DEF R!LastValues, R!Block
  <2>4. ret' = -1 => out_len' = room'
    BY <1>2, <1>5, <1>9
  <2>5. ret' = 0 => R!PaddingRight(val) /\ out_len' = n - val[PbeBlock]
    BY <1>3, <1>9
  <2>6. PbeAtoms(src') /\ src' # <<>> /\ Len(src') % PbeBlock = 0
    BY <1>2, <1>5
  <2>7. off' = PbeEnd' /\ PbeEnd' <= room'
    BY <1>2, <1>6, <2>1
  <2>8. op' = "dec" /\ ~active' /\ ret' = 0 =>
            off' # 0 /\ \E w \in R!LastValues' :
                            R!PaddingRight(w) /\ out_len' = Len(src') - w[PbeBlock]
    BY <1>2, <1>9, <2>2, <2>3, <2>5, Zenon
  <2> QED BY <2>2, <2>4, <2>6, <2>7, <2>8, Zenon DEF PbePlace
<1>14. PbeData'
  <2>1. PbeFed' = PbeFed /\ PbeBefore' = PbeBefore
    BY <1>2, Zenon DEF PbeFed, PbeBefore
  <2>2. \A o : PbeWritten(o)' = PbeWritten(o)
    BY <1>2, <2>1, Zenon DEF PbeWritten
  <2> QED BY <1>2, <1>4, <2>1, <2>2 DEF PbeData
<1>15. PbeSealed'
  BY <1>2, <1>4, Zenon DEF PbeSealed
<1> QED BY <1>12, <1>13, <1>14, <1>15 DEF PbeInv

\* The caller lets go of its buffers.
LEMMA PbeReleases ==
    ASSUME R!SizeAssumption, PbeInv, R!Release
    PROVE  PbeInv'
<1>1. /\ op' = "none" /\ active' = FALSE /\ inplace' = FALSE
      /\ src' = <<>> /\ room' = 0 /\ in' = <<>> /\ out' = R!Old(0)
      /\ out_len' = 0 /\ ret' = 0 /\ iv' = R!Iv /\ off' = 0
      /\ sealed' = sealed
  <2>1. active \in BOOLEAN
    BY DEF PbeInv, PbeTypes
  <2>2. active' = FALSE
    BY <2>1 DEF R!Release
  <2> QED BY <2>2, Zenon DEF R!Release
<1>2. PbeBlock \in Nat \ {0} /\ 0 % PbeBlock = 0
  <2>1. PbeBlock \in Nat \ {0}
    BY PbeSize
  <2>2. off \in Nat /\ off % PbeBlock = 0
    BY DEF PbeInv, PbeTypes
  <2> QED BY <2>1, <2>2, BlockNext
<1>3. /\ Array(out', room' + PbeBlock)
      /\ out' = [i \in 1 .. room' + PbeBlock |-> {<<"old", 0, i>>}]
  <2> DEFINE z == room'
  <2>1. z \in Nat /\ out' = R!Old(z)
    BY <1>1
  <2> HIDE DEF z
  <2>2. /\ Array(out', z + PbeBlock)
        /\ out' = [i \in 1 .. z + PbeBlock |-> {<<"old", 0, i>>}]
    BY <2>1, PbeOld
  <2> QED BY <2>2 DEF z
<1>4. Array(src', Len(src')) /\ Len(src') = 0 /\ Array(iv', PbeBlock)
  BY <1>1, ArrayEmpty, PbeCipherArray
<1>5. PbeTypes'
  <2>1. op' \in {"none", "enc", "dec"} /\ {active', inplace'} \subseteq BOOLEAN /\ ret' \in {0, -1}
    BY <1>1
  <2>2. room' \in Nat /\ out_len' \in 0 .. room' /\ off' \in Nat /\ off' % PbeBlock = 0
    BY <1>1, <1>2
  <2>3. /\ inplace' => Len(src') <= room'
        /\ in' = IF inplace' THEN [i \in 1 .. Len(src') |-> out'[i]] ELSE src'
    BY <1>1
  <2> QED BY <1>3, <1>4, <2>1, <2>2, <2>3, Zenon DEF PbeTypes
<1>6. PbePlace'
  BY <1>1 DEF PbePlace
<1>7. PbeData'
  <2>1. iv' = PbePrev(PbeFed, off)'
    BY <1>1 DEF PbePrev
  <2>2. out' = PbeBefore'
    BY <1>1, <1>3 DEF PbeBefore
  <2>3. \A o \in 0 .. off' - 1 : FALSE
    BY <1>1
  <2> QED BY <2>1, <2>2, <2>3 DEF PbeData
<1>8. PbeSealed'
  BY <1>1, Zenon DEF PbeSealed, PbeInv
<1> QED BY <1>5, <1>6, <1>7, <1>8 DEF PbeInv

\* The texts of the calls are arrays.
LEMMA PbeTexts ==
    ASSUME R!SizeAssumption, NEW text \in R!Texts
    PROVE  Array(text, Len(text))
<1> DEFINE V == {R!Value(v) : v \in TextValues}
<1>1. PICK n \in 0 .. MaxText : text \in [1 .. n -> V]
  BY Zenon DEF R!Texts
<1>2. n \in Nat
  BY DEF R!SizeAssumption
<1> HIDE DEF V
<1>3. text = [i \in 1 .. n |-> text[i]]
  BY <1>1
<1>4. Array(text, n)
  BY <1>2, <1>3 DEF Array
<1>5. Len(text) = n
  BY <1>4, ArrayLen
<1> QED BY <1>4, <1>5

\* Either function is called.
LEMMA PbeEncryptCalled ==
    ASSUME R!SizeAssumption, PbeInv, NEW text \in R!Texts, NEW n \in 0 .. MaxRoom, NEW l \in PbeLens,
           NEW place \in BOOLEAN, R!gost_pfx_rc2_40_pbe_encrypt(text, n, l, place)
    PROVE  PbeInv'
<1> DEFINE refused == R!EncryptRefused(text, n, l)
<1>1. n \in Nat /\ Array(text, Len(text)) /\ Len(text) \in Nat
  <2>1. Array(text, Len(text))
    BY PbeTexts
  <2> QED BY <2>1 DEF Array, R!SizeAssumption
<1>2. R!Call("enc", text, n, refused, place) /\ (place => Len(text) <= n)
  BY Zenon DEF R!gost_pfx_rc2_40_pbe_encrypt
<1>3. refused \in BOOLEAN
  BY DEF R!EncryptRefused, R!DeriveRefused
<1>4. ~refused => Len(text) + R!pad_len(Len(text)) <= n
  <2>1. R!pad_len(Len(text)) \in Nat
    BY <1>1, PbePadLen, PbeSize
  <2>2. ~refused => ~(n < Len(text) + R!pad_len(Len(text)))
    BY Zenon DEF R!EncryptRefused
  <2> QED BY <1>1, <2>1, <2>2
<1> DEFINE fn == "enc"
<1>5. fn \in {"enc", "dec"} /\ fn # "dec" /\ R!Call(fn, text, n, refused, place)
  BY <1>2
<1> HIDE DEF refused, fn
<1> QED BY <1>1, <1>2, <1>3, <1>4, <1>5, PbeCalled

\* The same for decryption.
LEMMA PbeDecryptCalled ==
    ASSUME R!SizeAssumption, PbeInv, NEW text \in R!Arriving, NEW n \in 0 .. MaxRoom, NEW l \in PbeLens,
           NEW place \in BOOLEAN, R!gost_pfx_rc2_40_pbe_decrypt(text, n, l, place)
    PROVE  PbeInv'
<1> DEFINE refused == R!DecryptRefused(text, n, l)
<1>1. n \in Nat /\ Array(text, Len(text)) /\ Len(text) \in Nat /\ PbeAtoms(text)
  <2>1. Array(text, Len(text)) /\ PbeAtoms(text)
    BY PbeArrives DEF PbeInv
  <2> QED BY <2>1 DEF Array, R!SizeAssumption
<1>2. R!Call("dec", text, n, refused, place) /\ (place => Len(text) <= n)
  BY Zenon DEF R!gost_pfx_rc2_40_pbe_decrypt
<1>3. refused \in BOOLEAN
  BY DEF R!DecryptRefused, R!DeriveRefused
<1>4. ~refused => Len(text) <= n /\ text # <<>> /\ Len(text) % PbeBlock = 0
  <2>1. ~refused => ~(n < Len(text)) /\ text # <<>> /\ Len(text) % PbeBlock = 0
    BY Zenon DEF R!DecryptRefused
  <2> QED BY <1>1, <2>1
<1> DEFINE fn == "dec"
<1>5. fn \in {"enc", "dec"} /\ fn # "enc" /\ R!Call(fn, text, n, refused, place)
  BY <1>2
<1> HIDE DEF refused, fn
<1> QED BY <1>1, <1>2, <1>3, <1>4, <1>5, PbeCalled

\* Every step preserves the invariant.
LEMMA PbePreserved ==
    ASSUME R!SizeAssumption, PbeInv, R!Next \/ UNCHANGED R!vars
    PROVE  PbeInv'
<1>1. CASE UNCHANGED R!vars
  <2>1. /\ op' = op /\ active' = active /\ inplace' = inplace /\ src' = src /\ room' = room
        /\ in' = in /\ out' = out /\ out_len' = out_len /\ ret' = ret /\ iv' = iv /\ off' = off
        /\ sealed' = sealed
    BY <1>1 DEF R!vars
  <2>2. PbeTypes' /\ PbeSealed'
    BY <2>1, Zenon DEF PbeInv, PbeTypes, PbeSealed
  <2>3. PbePlace'
    BY <2>1, Zenon DEF PbeInv, PbePlace, PbeEnd, R!LastValues, R!Block
  <2>4. PbeData'
    <3>1. PbeFed' = PbeFed /\ PbeBefore' = PbeBefore
      BY <2>1, Zenon DEF PbeFed, PbeBefore
    <3>2. \A o : PbeWritten(o)' = PbeWritten(o)
      BY <2>1, <3>1, Zenon DEF PbeWritten
    <3> QED BY <2>1, <3>1, <3>2, Zenon DEF PbeInv, PbeData
  <2> QED BY <2>2, <2>3, <2>4 DEF PbeInv
<1>2. CASE R!Next
  BY <1>2, PbeEncryptCalled, PbeDecryptCalled, PbeEncrypts, PbeEncryptsLast, PbeDecrypts,
     PbeUnpads, PbeReleases, Zenon DEF R!Next
<1> QED BY <1>1, <1>2

-----------------------------------------------------------------------------

\* The types of the run.
LEMMA PbeTypeCorrect ==
    ASSUME R!SizeAssumption, PbeInv
    PROVE  R!TypeOK
<1>1. /\ op \in {"none", "enc", "dec"} /\ {active, inplace} \subseteq BOOLEAN /\ ret \in {0, -1}
      /\ room \in Nat /\ out_len \in 0 .. room
      /\ Array(src, Len(src)) /\ Array(out, room + PbeBlock) /\ Array(iv, PbeBlock)
      /\ inplace => Len(src) <= room
      /\ in = IF inplace THEN [i \in 1 .. Len(src) |-> out[i]] ELSE src
      /\ off \in Nat /\ off % PbeBlock = 0
  BY Zenon DEF PbeInv, PbeTypes
<1>2. PbeBlock \in Nat \ {0} /\ Len(src) \in Nat
  BY <1>1, PbeSize DEF Array
<1>3. Array(in, Len(src))
  <2>1. CASE inplace
    BY <1>1, <1>2, <2>1 DEF Array
  <2>2. CASE ~inplace
    BY <1>1, <2>2
  <2> QED BY <2>1, <2>2
<1>4. Len(in) = Len(src) /\ Len(out) = room + PbeBlock /\ Len(iv) = PbeBlock
  BY <1>1, <1>3, ArrayLen
<1>5. off < Len(in) + PbeBlock + 1
  <2>1. R!pad_len(Len(src)) \in 1 .. PbeBlock
    BY <1>2, PbePadLen
  <2>2. PbeEnd <= Len(src) + PbeBlock
    <3>1. CASE op = "enc"
      BY <1>2, <2>1, <3>1 DEF PbeEnd
    <3>2. CASE op # "enc"
      BY <1>2, <3>2 DEF PbeEnd
    <3> QED BY <3>1, <3>2
  <2>3. off <= Len(src) \/ off = PbeEnd
    <3>1. active => off <= Len(src)
      BY Zenon DEF PbeInv, PbePlace
    <3>2. ~active /\ off # 0 => off = PbeEnd
      BY Zenon DEF PbeInv, PbePlace
    <3> QED BY <1>1, <1>2, <3>1, <3>2
  <2> QED BY <1>1, <1>2, <1>4, <2>2, <2>3
<1> QED BY <1>1, <1>4, <1>5, Zenon DEF R!TypeOK

\* What the buffer held before, with the text in it or not.
LEMMA PbeBeforeIs ==
    ASSUME R!SizeAssumption, PbeInv
    PROVE  (IF inplace THEN R!Store(R!Old(room), 0, src) ELSE R!Old(room)) = PbeBefore
<1> DEFINE x == R!Old(room)
           n == room + PbeBlock
<1>1. room \in Nat /\ Len(src) \in Nat /\ inplace \in BOOLEAN
  BY DEF PbeInv, PbeTypes, Array
<1>2. x = [i \in 1 .. n |-> {<<"old", 0, i>>}] /\ Len(x) = n
  BY <1>1, PbeOld
<1> HIDE DEF x
<1>3. CASE inplace
  <2>1. R!Store(x, 0, src) =
            [i \in 1 .. n |-> IF i \in 0 + 1 .. 0 + Len(src) THEN src[i - 0] ELSE x[i]]
    BY <1>2, Zenon DEF R!Store
  <2>2. ASSUME NEW i \in 1 .. n
        PROVE  (IF i \in 0 + 1 .. 0 + Len(src) THEN src[i - 0] ELSE x[i])
                   = IF inplace /\ i <= Len(src) THEN src[i] ELSE {<<"old", 0, i>>}
    <3>1. (i \in 0 + 1 .. 0 + Len(src) <=> i <= Len(src)) /\ i - 0 = i
      BY <1>1
    <3>2. x[i] = {<<"old", 0, i>>}
      BY <1>2
    <3> QED BY <1>3, <3>1, <3>2, Zenon
  <2>3. R!Store(x, 0, src) = PbeBefore
    BY <2>1, <2>2 DEF PbeBefore
  <2> QED BY <1>3, <2>3 DEF x
<1>4. CASE ~inplace
  <2>1. x = PbeBefore
    BY <1>2, <1>4 DEF PbeBefore
  <2> QED BY <1>4, <2>1 DEF x
<1> QED BY <1>1, <1>3, <1>4

\* The block before, as the property names it.
PbePrevOf(buf, o) == IF o = 0 THEN R!Iv ELSE R!Block(buf, o - PbeBlock)

\* It is that of the proofs.
LEMMA PbePrevIs ==
    ASSUME R!SizeAssumption, NEW buf, NEW n, Array(buf, n), NEW o \in Nat, o % PbeBlock = 0, o <= n
    PROVE  PbePrevOf(buf, o) = PbePrev(buf, o)
<1>1. CASE o = 0
  BY <1>1 DEF PbePrev, PbePrevOf
<1>2. CASE o # 0
  <2> DEFINE p == o - PbeBlock
  <2>1. p \in Nat /\ p + PbeBlock <= n
    BY <1>2, PbeSize, BlockNext DEF Array
  <2> HIDE DEF p
  <2>2. R!Block(buf, p) = PbePart(buf, p)
    BY <2>1, PbeBlockIsPart
  <2> QED BY <1>2, <2>2 DEF PbePrev, PbePrevOf, p
<1> QED BY <1>1, <1>2

\* Encryption has written CBC of the padded text as far as it has come, decryption
\* the text of that, and nothing is written behind.
LEMMA PbeOutput ==
    ASSUME R!SizeAssumption, PbeInv
    PROVE  R!TypeOK /\ R!OutputIsPrefix
<1> DEFINE padded == PbePadded(src)
           old == IF inplace THEN R!Store(R!Old(room), 0, src) ELSE R!Old(room)
           borders == {o \in 0 .. off - 1 : o % PbeBlock = 0}
           encrypted == \A o \in borders :
               R!Block(out, o) = R!rc2_encrypt_block(R!XorBytes(R!Block(padded, o), PbePrevOf(out, o)))
           decrypted == \A o \in borders :
               R!Block(out, o) = R!XorBytes(R!rc2_decrypt_block(R!Block(src, o)), PbePrevOf(src, o))
           n == Len(src)
           p == R!pad_len(n)
<1>1. /\ room \in Nat /\ Array(src, n) /\ Array(out, room + PbeBlock) /\ n \in Nat
      /\ off \in Nat /\ off % PbeBlock = 0 /\ PbeBlock \in Nat \ {0}
      /\ op \in {"none", "enc", "dec"}
  BY PbeSize DEF PbeInv, PbeTypes, Array
<1>2. Len(out) = room + PbeBlock
  BY <1>1, ArrayLen
<1>3. off <= PbeEnd /\ (off # 0 => PbeEnd <= room)
  <2>1. p \in 1 .. PbeBlock
    BY <1>1, PbePadLen
  <2>2. n <= PbeEnd /\ PbeEnd \in Nat
    BY <1>1, <2>1 DEF PbeEnd
  <2>3. active => off <= n
    BY DEF PbeInv, PbePlace
  <2>4. ~active /\ off # 0 => off = PbeEnd
    BY DEF PbeInv, PbePlace
  <2>5. off # 0 => PbeEnd <= room
    BY DEF PbeInv, PbePlace
  <2> QED BY <1>1, <2>2, <2>3, <2>4, <2>5
<1>4. \A i \in off + 1 .. Len(out) : out[i] = old[i]
  BY <1>2, PbeBeforeIs DEF PbeInv, PbeData
<1>5. ASSUME NEW o \in borders
      PROVE  /\ o \in Nat /\ o % PbeBlock = 0 /\ o + PbeBlock <= PbeEnd /\ PbeEnd <= room
             /\ R!Block(out, o) = PbeWritten(o) /\ PbePrevOf(out, o) = PbePrev(out, o)
  <2>1. o \in Nat /\ o < off /\ o % PbeBlock = 0 /\ o \in 0 .. off - 1
    BY <1>1
  <2>2. o + PbeBlock <= off
    BY <1>1, <2>1, BlockApart
  <2>3. off <= PbeEnd /\ PbeEnd <= room /\ PbeEnd \in Nat
    <3>1. PbeEnd \in Nat
      <4>1. p \in 1 .. PbeBlock
        BY <1>1, PbePadLen
      <4> QED BY <1>1, <4>1 DEF PbeEnd
    <3> QED BY <1>1, <1>3, <2>1, <3>1
  <2>4. o + PbeBlock <= PbeEnd /\ PbeEnd <= room /\ o + PbeBlock <= room + PbeBlock /\ o <= room + PbeBlock
    BY <1>1, <2>1, <2>2, <2>3
  <2>5. PbePart(out, o) = PbeWritten(o)
    BY <2>1 DEF PbeInv, PbeData
  <2>6. R!Block(out, o) = PbePart(out, o)
    BY <1>1, <2>1, <2>4, PbeBlockIsPart
  <2>7. PbePrevOf(out, o) = PbePrev(out, o)
    BY <1>1, <2>1, <2>4, PbePrevIs
  <2> QED BY <2>1, <2>4, <2>5, <2>6, <2>7
<1>6. op = "enc" => encrypted
  <2> SUFFICES ASSUME op = "enc", NEW o \in borders
               PROVE  R!Block(out, o) =
                          R!rc2_encrypt_block(R!XorBytes(R!Block(padded, o), PbePrevOf(out, o)))
    OBVIOUS
  <2>1. /\ o \in Nat /\ o % PbeBlock = 0 /\ o + PbeBlock <= n + p
        /\ R!Block(out, o) = PbeWritten(o) /\ PbePrevOf(out, o) = PbePrev(out, o)
    BY <1>5 DEF PbeEnd
  <2>2. Array(padded, n + p)
    BY <1>1, PbePaddedArray
  <2>3. R!Block(padded, o) = PbePart(padded, o)
    BY <2>1, <2>2, PbeBlockIsPart
  <2>4. R!XorBytes(PbePart(padded, o), PbePrev(out, o)) = PbeSum(PbePart(padded, o), PbePrev(out, o))
    BY PbePartArray, PbeXorIsSum
  <2>5. PbeWritten(o) = R!rc2_encrypt_block(PbeSum(PbePart(padded, o), PbePrev(out, o)))
    BY Zenon DEF PbeWritten, PbeSealedBlock
  <2> QED BY <2>1, <2>3, <2>4, <2>5
<1>7. op = "dec" /\ ~inplace => decrypted
  <2> SUFFICES ASSUME op = "dec", ~inplace, NEW o \in borders
               PROVE  R!Block(out, o) =
                          R!XorBytes(R!rc2_decrypt_block(R!Block(src, o)), PbePrevOf(src, o))
    OBVIOUS
  <2>1. /\ o \in Nat /\ o % PbeBlock = 0 /\ o + PbeBlock <= n
        /\ R!Block(out, o) = PbeWritten(o)
    BY <1>5 DEF PbeEnd
  <2>2. PbeAtoms(src) /\ Array(src, Len(src)) /\ o + PbeBlock <= Len(src) /\ o <= n
    BY <1>1, <2>1 DEF PbeInv, PbePlace
  <2>3. R!Block(src, o) = PbePart(src, o)
    BY <1>1, <2>1, PbeBlockIsPart
  <2>4. PbePrevOf(src, o) = PbePrev(src, o)
    BY <1>1, <2>1, <2>2, PbePrevIs
  <2>5. Array(R!rc2_decrypt_block(PbePart(src, o)), PbeBlock)
    BY <2>1, <2>2, PbeDeciphered
  <2>6. R!XorBytes(R!rc2_decrypt_block(PbePart(src, o)), PbePrev(src, o))
            = PbeSum(R!rc2_decrypt_block(PbePart(src, o)), PbePrev(src, o))
    BY <2>5, PbeXorIsSum
  <2>7. PbeFed = src /\ op # "enc"
    BY DEF PbeFed
  <2>8. PbeWritten(o) = PbeSum(R!rc2_decrypt_block(PbePart(src, o)), PbePrev(src, o))
    BY <2>7, Zenon DEF PbeWritten, PbeOpenedBlock
  <2> QED BY <2>1, <2>3, <2>4, <2>6, <2>8
<1>8. R!OutputIsPrefix
  <2>1. R!OutputIsPrefix <=>
            /\ \A i \in off + 1 .. Len(out) : out[i] = old[i]
            /\ op = "enc" => encrypted
            /\ op = "dec" /\ ~inplace => decrypted
    BY Zenon DEF R!OutputIsPrefix, PbePadded, PbePrevOf
  <2> QED BY <1>4, <1>6, <1>7, <2>1
<1> QED BY <1>8, PbeTypeCorrect

\* A text is accepted only with a padding that says its length, and no other result
\* changes *out_len.
LEMMA PbeFailure ==
    ASSUME R!SizeAssumption, PbeInv
    PROVE  R!FailureKeepsLength
<1> SUFFICES ASSUME ~active
             PROVE  /\ ret = -1 => out_len = room
                    /\ ret = 0 /\ op = "dec" =>
                        \A i \in out_len + 1 .. Len(src) :
                            R!Known(out[i]) => out[i] = R!Value(Len(src) - out_len)
  BY Zenon DEF R!FailureKeepsLength
<1>1. ret = -1 => out_len = room
  BY DEF PbeInv, PbePlace
<1>2. ASSUME ret = 0, op = "dec", NEW i \in out_len + 1 .. Len(src), R!Known(out[i])
      PROVE  out[i] = R!Value(Len(src) - out_len)
  <2> DEFINE n == Len(src)
  <2>1. /\ off # 0 /\ off = PbeEnd /\ PbeEnd <= room
        /\ \E val \in R!LastValues : R!PaddingRight(val) /\ out_len = n - val[PbeBlock]
    BY <1>2, Zenon DEF PbeInv, PbePlace
  <2>2. PICK val \in R!LastValues : R!PaddingRight(val) /\ out_len = n - val[PbeBlock]
    BY <2>1
  <2> DEFINE p == val[PbeBlock]
             j == n - i
             k == PbeBlock - j
             o == off - PbeBlock
  <2>3. /\ p \in 1 .. PbeBlock
        /\ \A e \in 0 .. p - 1 : val[PbeBlock - e] = p
    BY <2>2, Zenon DEF R!PaddingRight
  <2>4. /\ n \in Nat /\ off \in Nat /\ off % PbeBlock = 0 /\ PbeBlock \in Nat \ {0} /\ room \in Nat
        /\ Array(out, room + PbeBlock)
    BY PbeSize DEF PbeInv, PbeTypes, Array
  <2>5. off = n
    BY <1>2, <2>1 DEF PbeEnd
  <2>6. j \in 0 .. p - 1 /\ k \in 1 .. PbeBlock
    BY <2>2, <2>3, <2>4
  <2>7. o \in Nat /\ o + PbeBlock <= room + PbeBlock
    <3>1. o \in Nat
      BY <2>1, <2>4, BlockNext
    <3>2. off <= room /\ o + PbeBlock = off
      BY <2>1, <2>4, <3>1
    <3> QED BY <2>4, <3>1, <3>2
  <2>8. o + k = i
    BY <2>4, <2>5
  <2>9. val[k] = p
    BY <2>3, <2>6
  <2>10. R!Block(out, o) = PbePart(out, o)
    BY <2>4, <2>7, PbeBlockIsPart
  <2> HIDE DEF k, j
  <2>11. R!Block(out, o)[k] = out[i]
    BY <2>6, <2>8, <2>10 DEF PbePart
  <2> HIDE DEF o
  <2>12. R!Known(R!Block(out, o)[k]) => R!Value(val[k]) = R!Block(out, o)[k]
    BY <2>6, Zenon DEF R!LastValues, o
  <2>13. p = n - out_len
    BY <2>2, <2>3, <2>4
  <2> QED BY <1>2, <2>9, <2>11, <2>12, <2>13
<1> QED BY <1>1, <1>2

-----------------------------------------------------------------------------
(***************************************************************************)
(* Counting.                                                               *)
(***************************************************************************)

\* A set of numbers has a least one.
LEMMA LeastNumber ==
    ASSUME NEW T, T \subseteq Nat, T # {}
    PROVE  \E x \in T : \A y \in T : x <= y
<1> DEFINE less == OpToRel(<, Nat)
<1>1. IsWellFoundedOn(less, Nat)
  BY NatLessThanWellFounded
<1>2. \A x, y \in Nat : <<x, y>> \in less <=> x < y
  BY DEF OpToRel
<1> HIDE DEF less
<1>3. PICK x \in T : \A y \in T : <<y, x>> \notin less
  BY <1>1, WFMin
<1>4. ASSUME NEW y \in T PROVE x <= y
  <2>1. x \in Nat /\ y \in Nat
    OBVIOUS
  <2>2. ~ (y < x)
    BY <1>2, <1>3, <2>1
  <2> QED BY <2>1, <2>2
<1> QED BY <1>4

\* A set of numbers that has 0 and with every number its successor has them all.
LEMMA CountUp ==
    ASSUME NEW S, 0 \in S, \A k \in Nat : k \in S => k + 1 \in S
    PROVE  \A k \in Nat : k \in S
<1> DEFINE T == {k \in Nat : k \notin S}
<1> SUFFICES ASSUME T # {} PROVE FALSE
  OBVIOUS
<1>1. PICK x \in T : \A y \in T : x <= y
  <2> HIDE DEF T
  <2>1. T \subseteq Nat
    BY DEF T
  <2> QED BY <2>1, LeastNumber
<1>2. x - 1 \in Nat /\ x - 1 \notin T
  BY <1>1
<1>3. (x - 1) + 1 \in S
  BY <1>2
<1> QED BY <1>3

-----------------------------------------------------------------------------
(***************************************************************************)
(* The rounds of a MAC on blocks of z bytes.                               *)
(***************************************************************************)

BlockSum(z, s, t) == [p \in 1 .. z |-> Xor(s[p], t[p])]
Rounds(z, k, block) == [p \in 1 .. z |-> {<<"rounds", <<k, block>>, p>>}]

\* They give a block.
LEMMA RoundsArray ==
    ASSUME NEW z \in Nat, NEW k, NEW block
    PROVE  Array(Rounds(z, k, block), z)
BY DEF Rounds, Array

\* What rounds give tells what they were done on.
LEMMA RoundsTell ==
    ASSUME NEW z \in Nat \ {0}, NEW k, NEW l, NEW s, NEW t,
           Rounds(z, k, s) = Rounds(z, l, t)
    PROVE  k = l /\ s = t
<1>1. Rounds(z, k, s)[1] = {<<"rounds", <<k, s>>, 1>>} /\ Rounds(z, l, t)[1] = {<<"rounds", <<l, t>>, 1>>}
  BY DEF Rounds
<1>2. <<"rounds", <<k, s>>, 1>> = <<"rounds", <<l, t>>, 1>>
  BY <1>1
<1> QED BY <1>2

\* What rounds give can be told from a block that is added to it,
LEMMA SumTells ==
    ASSUME NEW z, NEW k, NEW l, NEW s, NEW t, NEW u, NEW v,
           \A p \in 1 .. z : \A x \in u[p] : x[1] # "rounds",
           \A p \in 1 .. z : \A x \in v[p] : x[1] # "rounds",
           BlockSum(z, Rounds(z, k, s), u) = BlockSum(z, Rounds(z, l, t), v)
    PROVE  /\ Rounds(z, k, s) = Rounds(z, l, t)
           /\ \A p \in 1 .. z : u[p] = v[p]
<1>1. ASSUME NEW p \in 1 .. z
      PROVE  Rounds(z, k, s)[p] = Rounds(z, l, t)[p] /\ u[p] = v[p]
  <2> DEFINE x == <<"rounds", <<k, s>>, p>>
             y == <<"rounds", <<l, t>>, p>>
             e == u[p]
             f == v[p]
  <2>1. Rounds(z, k, s)[p] = {x} /\ Rounds(z, l, t)[p] = {y}
    BY DEF Rounds
  <2>2. Xor({x}, e) = Xor({y}, f)
    <3>1. BlockSum(z, Rounds(z, k, s), u)[p] = Xor({x}, e) /\ BlockSum(z, Rounds(z, l, t), v)[p] = Xor({y}, f)
      BY <2>1 DEF BlockSum
    <3> QED BY <3>1
  <2>3. x[1] = "rounds" /\ y[1] = "rounds"
    OBVIOUS
  <2>4. x \notin e /\ x \notin f /\ y \notin e /\ y \notin f
    BY <2>3
  <2> HIDE DEF x, y, e, f
  <2>5. x = y /\ e = f
    BY <2>2, <2>4 DEF Xor
  <2> QED BY <2>1, <2>5 DEF e, f
<1>2. \A p \in 1 .. z : Rounds(z, k, s)[p] = Rounds(z, l, t)[p]
  BY <1>1
<1>3. Rounds(z, k, s) = Rounds(z, l, t)
  <2> DEFINE f == Rounds(z, k, s)
             g == Rounds(z, l, t)
  <2>1. f = [p \in 1 .. z |-> f[p]] /\ g = [p \in 1 .. z |-> g[p]]
    BY DEF Rounds
  <2>2. \A p \in 1 .. z : f[p] = g[p]
    BY <1>2
  <2> HIDE DEF f, g
  <2>3. f = g
    BY <2>1, <2>2
  <2> QED BY <2>3 DEF f, g
<1> QED BY <1>1, <1>3

\* and is not such a block itself.
LEMMA SumIsMade ==
    ASSUME NEW z \in Nat \ {0}, NEW k, NEW s, NEW u, NEW v,
           \A x \in u[1] : x[1] # "rounds",
           \A x \in v[1] : x[1] # "rounds"
    PROVE  BlockSum(z, Rounds(z, k, s), u) # v
<1> SUFFICES ASSUME BlockSum(z, Rounds(z, k, s), u) = v
             PROVE  FALSE
  OBVIOUS
<1> DEFINE x == <<"rounds", <<k, s>>, 1>>
<1>1. BlockSum(z, Rounds(z, k, s), u)[1] = Xor({x}, u[1])
  BY DEF BlockSum, Rounds
<1>2. x[1] = "rounds"
  OBVIOUS
<1> HIDE DEF x
<1>3. x \in v[1]
  BY <1>1, <1>2 DEF Xor
<1> QED BY <1>2, <1>3

\* Two chains that go back to their beginnings together are of one length and the
\* same.
LEMMA ChainsMeet ==
    ASSUME NEW x, NEW m \in Nat \ {0}, NEW y, NEW n \in Nat \ {0}, x[m] = y[n],
           \A i \in 1 .. m : \A j \in 1 .. n : x[i] = y[j] =>
               (i = 1 <=> j = 1) /\ (i # 1 => x[i - 1] = y[j - 1])
    PROVE  m = n /\ \A i \in 1 .. m : x[i] = y[i]
<1> DEFINE S == {d \in Nat : d < m /\ d < n => x[m - d] = y[n - d]}
<1>1. 0 \in S
  BY m - 0 = m, n - 0 = n
<1>2. ASSUME NEW d \in Nat, d \in S
      PROVE  d + 1 \in S
  <2> SUFFICES ASSUME d + 1 < m /\ d + 1 < n
               PROVE  x[m - (d + 1)] = y[n - (d + 1)]
    OBVIOUS
  <2> DEFINE q == m - d
             r == n - d
  <2>1. q \in 1 .. m /\ r \in 1 .. n /\ q # 1 /\ x[q] = y[r]
    BY <1>2
  <2>2. q - 1 = m - (d + 1) /\ r - 1 = n - (d + 1)
    OBVIOUS
  <2> HIDE DEF q, r
  <2>3. x[q - 1] = y[r - 1]
    BY <2>1
  <2> QED BY <2>2, <2>3
<1>3. \A d \in Nat : d \in S
  <2> HIDE DEF S
  <2> QED BY <1>1, <1>2, CountUp
<1>4. ~(m < n)
  <2> SUFFICES ASSUME m < n
               PROVE  FALSE
    OBVIOUS
  <2>1. m - 1 \in S
    BY <1>3
  <2> DEFINE r == n - (m - 1)
  <2>2. m - (m - 1) = 1 /\ m - 1 < m /\ m - 1 < n /\ r \in 1 .. n /\ r # 1 /\ 1 \in 1 .. m
    OBVIOUS
  <2>3. x[1] = y[r]
    BY <2>1, <2>2
  <2> HIDE DEF r, S
  <2> QED BY <2>2, <2>3
<1>5. ~(n < m)
  <2> SUFFICES ASSUME n < m
               PROVE  FALSE
    OBVIOUS
  <2>1. n - 1 \in S
    BY <1>3
  <2> DEFINE q == m - (n - 1)
  <2>2. n - (n - 1) = 1 /\ n - 1 < m /\ n - 1 < n /\ q \in 1 .. m /\ q # 1 /\ 1 \in 1 .. n
    OBVIOUS
  <2>3. x[q] = y[1]
    BY <2>1, <2>2
  <2> HIDE DEF q, S
  <2> QED BY <2>2, <2>3
<1>6. m = n
  BY <1>4, <1>5
<1>7. ASSUME NEW q \in 1 .. m
      PROVE  x[q] = y[q]
  <2>1. m - q \in S /\ m - q < m /\ m - (m - q) = q /\ m - q < n /\ n - (m - q) = q
    BY <1>3, <1>6
  <2> QED BY <2>1
<1> QED BY <1>6, <1>7

\* An array that is two in a row.
Joined(c, s, t) == c = s \o t

\* Its length and its elements.
LEMMA ArrayJoined ==
    ASSUME NEW s, NEW n, Array(s, n), NEW t, NEW m, Array(t, m), NEW c, Joined(c, s, t)
    PROVE  /\ n \in Nat /\ m \in Nat /\ Array(c, n + m) /\ Len(c) = n + m
           /\ \A i \in 1 .. n : c[i] = s[i]
           /\ \A i \in 1 .. m : c[n + i] = t[i]
<1>1. n \in Nat /\ m \in Nat
  BY DEF Array
<1> DEFINE d == s \o t
<1>2. d = [i \in 1 .. n + m |-> IF i <= n THEN s[i] ELSE t[i - n]]
  BY <1>1, ArrayConcat
<1>3. c = d
  BY DEF Joined
<1> HIDE DEF d
<1>4. Array(c, n + m)
  BY <1>1, <1>2, <1>3 DEF Array
<1>5. Len(c) = n + m
  BY <1>4, ArrayLen
<1>6. \A i \in 1 .. n : c[i] = s[i]
  <2> SUFFICES ASSUME NEW i \in 1 .. n
               PROVE  c[i] = s[i]
    OBVIOUS
  <2>1. i \in 1 .. n + m /\ i <= n
    BY <1>1
  <2> QED BY <1>2, <1>3, <2>1
<1>7. \A i \in 1 .. m : c[n + i] = t[i]
  <2> SUFFICES ASSUME NEW i \in 1 .. m
               PROVE  c[n + i] = t[i]
    OBVIOUS
  <2> DEFINE j == n + i
  <2>1. j \in 1 .. n + m /\ ~(j <= n) /\ j - n = i
    BY <1>1
  <2> HIDE DEF j
  <2>2. c[j] = t[i]
    BY <1>2, <1>3, <2>1
  <2> QED BY <2>2 DEF j
<1> QED BY <1>1, <1>4, <1>5, <1>6, <1>7

\* Two strings in a row are told apart if one of the cuts is known.
LEMMA ConcatTells ==
    ASSUME NEW s, NEW n, Array(s, n), NEW t, NEW m, Array(t, m),
           NEW u, NEW k, Array(u, k), NEW v, NEW l, Array(v, l),
           NEW c, Joined(c, s, t), Joined(c, u, v), n = k \/ m = l
    PROVE  s = u /\ t = v
<1>1. /\ n \in Nat /\ m \in Nat /\ Len(c) = n + m
      /\ \A i \in 1 .. n : c[i] = s[i]
      /\ \A i \in 1 .. m : c[n + i] = t[i]
  BY ArrayJoined
<1>2. /\ k \in Nat /\ l \in Nat /\ Len(c) = k + l
      /\ \A i \in 1 .. k : c[i] = u[i]
      /\ \A i \in 1 .. l : c[k + i] = v[i]
  BY ArrayJoined
<1>3. n = k /\ m = l
  BY <1>1, <1>2
<1>4. \A i \in 1 .. n : s[i] = u[i]
  BY <1>1, <1>2, <1>3
<1>5. \A i \in 1 .. m : t[i] = v[i]
  BY <1>1, <1>2, <1>3
<1> QED BY <1>3, <1>4, <1>5 DEF Array

-----------------------------------------------------------------------------
(***************************************************************************)
(* RC2 PBE: what comes back.  First the bits of a number.                  *)
(***************************************************************************)

\* The powers of two.  There are as many of n as sets of n numbers.
LEMMA PowerNext ==
    ASSUME NEW n \in Nat
    PROVE  2 ^ n \in Nat \ {0} /\ 2 ^ (n + 1) = 2 * 2 ^ n
<1> DEFINE m == n + 1
           S == 1 .. n
           A == SUBSET S
           G == {s \cup {m} : s \in A}
<1>1. ASSUME NEW k \in Nat
      PROVE  /\ IsFiniteSet(1 .. k) /\ IsFiniteSet(SUBSET (1 .. k))
             /\ Cardinality(SUBSET (1 .. k)) = 2 ^ k /\ Cardinality(SUBSET (1 .. k)) \in Nat
  <2>1. 1 \in Int /\ k \in Int /\ (IF 1 > k THEN 0 ELSE k - 1 + 1) = k
    OBVIOUS
  <2>2. IsFiniteSet(1 .. k) /\ Cardinality(1 .. k) = k
    BY <2>1, FS_Interval
  <2> QED BY <2>2, FS_SUBSET, FS_CardinalityType
<1>2. /\ IsFiniteSet(A) /\ Cardinality(A) = 2 ^ n /\ Cardinality(A) \in Nat
      /\ Cardinality(SUBSET (1 .. m)) = 2 ^ m
  <2>1. m \in Nat
    OBVIOUS
  <2> HIDE DEF m
  <2> QED BY <1>1, <2>1
<1>3. m \notin S /\ 1 .. m = S \cup {m}
  OBVIOUS
<1> HIDE DEF m, S
<1>4. SUBSET (S \cup {m}) = A \cup G
  <2>1. ASSUME NEW s \in SUBSET (S \cup {m})
        PROVE  s \in A \cup G
    <3>1. CASE m \in s
      <4>1. s \ {m} \in A /\ s = (s \ {m}) \cup {m}
        BY <3>1
      <4> QED BY <4>1
    <3>2. CASE m \notin s
      BY <3>2
    <3> QED BY <3>1, <3>2
  <2> QED BY <2>1
<1>5. A \cap G = {}
  BY <1>3
<1>6. ExistsBijection(A, G)
  <2> DEFINE f == [s \in A |-> s \cup {m}]
  <2>1. ASSUME NEW s \in A, NEW t \in A, f[s] = f[t]
        PROVE  s = t
    BY <1>3, <2>1
  <2>2. f \in [A -> G] /\ \A t \in G : \E s \in A : f[s] = t
    OBVIOUS
  <2>3. f \in Bijection(A, G)
    BY <2>1, <2>2 DEF Bijection, Injection, Surjection, IsInjective
  <2> QED BY <2>3 DEF ExistsBijection
<1> HIDE DEF A, G
<1>7. IsFiniteSet(G) /\ Cardinality(G) = Cardinality(A)
  BY <1>2, <1>6, FS_Bijection
<1>8. Cardinality(A \cup G) = Cardinality(A) + Cardinality(G) - Cardinality(A \cap G)
  BY <1>2, <1>7, FS_Union
<1>9. Cardinality(A \cap G) = 0
  BY <1>5, FS_EmptySet
<1>10. 2 ^ m = 2 * 2 ^ n /\ 2 ^ n \in Nat
  <2>1. Cardinality(A \cup G) = 2 ^ m
    BY <1>2, <1>3, <1>4
  <2> QED BY <1>2, <1>7, <1>8, <1>9, <2>1
<1>11. Cardinality(A) # 0
  <2>1. {} \in A
    BY DEF A
  <2> QED BY <1>2, <2>1, FS_EmptySet
<1> QED BY <1>2, <1>10, <1>11 DEF m

\* A half of a number has its bits but the last.
LEMMA HalfBits ==
    ASSUME NEW c \in Nat, NEW m \in Nat \ {0}
    PROVE  (c \div 2) \div m = c \div (2 * m)
<1> DEFINE h == c \div 2
           r == c % 2
           q == h \div m
           s == h % m
           x == m * q
           w == 2 * m
           e == 2 * s + r
<1>1. h \in Nat /\ r \in 0 .. 1 /\ c = 2 * h + r
  OBVIOUS
<1>2. q \in Nat /\ s \in 0 .. m - 1 /\ h = q * m + s
  <2> HIDE DEF h
  <2> QED BY <1>1, Divided
<1> HIDE DEF h, r, q, s
<1>3. w \in Nat \ {0} /\ e \in 0 .. w - 1
  BY <1>1, <1>2
<1>4. q * w = 2 * (q * m) /\ q * m \in Nat
  BY <1>2
<1>5. c = q * w + e
  <2> DEFINE y == q * m
             z == q * w
  <2>1. z = 2 * y /\ y \in Nat /\ h = y + s
    BY <1>2, <1>4
  <2> HIDE DEF y, z
  <2>2. c = z + e
    BY <1>1, <1>2, <2>1
  <2> QED BY <2>2 DEF z
<1> HIDE DEF w, e
<1>6. (q * w + e) \div w = q
  BY <1>2, <1>3, Quotient
<1> QED BY <1>5, <1>6 DEF h, q, w

\* A number of n bits is known by them.
LEMMA BitsTell ==
    ASSUME NEW n \in Nat, NEW c \in 0 .. 2 ^ n - 1, NEW d \in 0 .. 2 ^ n - 1,
           \A k \in 0 .. n - 1 : (c \div 2 ^ k) % 2 = (d \div 2 ^ k) % 2
    PROVE  c = d
<1> DEFINE same(x, y, m) == \A k \in 0 .. m - 1 : (x \div 2 ^ k) % 2 = (y \div 2 ^ k) % 2
           S == {m \in Nat : \A x, y \in 0 .. 2 ^ m - 1 : same(x, y, m) => x = y}
<1>1. 2 ^ 0 = 1
  OBVIOUS
<1>2. 0 \in S
  <2>1. \A x \in 0 .. 2 ^ 0 - 1 : x = 0
    BY <1>1
  <2> QED BY <2>1
<1>3. ASSUME NEW m \in Nat, m \in S
      PROVE  m + 1 \in S
  <2> SUFFICES ASSUME NEW x \in 0 .. 2 ^ (m + 1) - 1, NEW y \in 0 .. 2 ^ (m + 1) - 1,
                      same(x, y, m + 1)
               PROVE  x = y
    OBVIOUS
  <2> DEFINE p == 2 ^ m
             q == 2 ^ (m + 1)
             g == x \div 2
             h == y \div 2
  <2>1. p \in Nat \ {0} /\ q = 2 * p
    BY PowerNext
  <2>2. x \in 0 .. q - 1 /\ y \in 0 .. q - 1
    OBVIOUS
  <2> HIDE DEF p, q
  <2>3. g \in 0 .. p - 1 /\ h \in 0 .. p - 1
    BY <2>1, <2>2
  <2>4. ASSUME NEW k \in 0 .. m - 1
        PROVE  (g \div 2 ^ k) % 2 = (h \div 2 ^ k) % 2
    <3>1. k \in Nat /\ k + 1 \in 0 .. (m + 1) - 1
      OBVIOUS
    <3>2. (x \div 2 ^ (k + 1)) % 2 = (y \div 2 ^ (k + 1)) % 2
      BY <3>1
    <3>3. 2 ^ k \in Nat \ {0} /\ 2 ^ (k + 1) = 2 * 2 ^ k
      BY <3>1, PowerNext
    <3>4. x \in Nat /\ y \in Nat
      BY <2>1, <2>2
    <3> DEFINE f == 2 ^ k
    <3>5. f \in Nat \ {0}
      BY <3>3
    <3> HIDE DEF f
    <3>6. g \div f = x \div (2 * f) /\ h \div f = y \div (2 * f)
      BY <3>4, <3>5, HalfBits
    <3> QED BY <3>2, <3>3, <3>6 DEF f
  <2>5. g = h
    BY <1>3, <2>3, <2>4 DEF p
  <2>6. x % 2 = y % 2
    <3>1. 0 \in 0 .. (m + 1) - 1
      OBVIOUS
    <3>2. (x \div 2 ^ 0) % 2 = (y \div 2 ^ 0) % 2
      BY <3>1
    <3>3. x \div 1 = x /\ y \div 1 = y
      BY <2>1, <2>2
    <3> QED BY <1>1, <3>2, <3>3
  <2>7. x = 2 * g + (x % 2) /\ y = 2 * h + (y % 2)
    BY <2>1, <2>2
  <2> QED BY <2>5, <2>6, <2>7
<1>4. n \in S
  <2> HIDE DEF S
  <2> QED BY <1>2, <1>3, CountUp
<1> QED BY <1>4

\* The byte of a value tells the value,
LEMMA PbeValueTells ==
    ASSUME R!SizeAssumption, NEW v \in 0 .. 2 ^ Bits - 1, NEW w \in 0 .. 2 ^ Bits - 1,
           R!Value(v) = R!Value(w)
    PROVE  v = w
<1> DEFINE bit(x, k) == (x \div 2 ^ k) % 2
<1>1. Bits \in Nat
  BY DEF R!SizeAssumption
<1>2. ASSUME NEW x, NEW k \in 0 .. Bits - 1
      PROVE  <<"bit", 0, k>> \in R!Value(x) <=> bit(x, k) = 1
  <2>1. <<"bit", 0, k>> \in R!Value(x) <=>
            \E j \in 0 .. Bits - 1 : bit(x, j) = 1 /\ <<"bit", 0, k>> = <<"bit", 0, j>>
    BY DEF R!Value, R!Atom
  <2> HIDE DEF bit
  <2>2. \A j : <<"bit", 0, k>> = <<"bit", 0, j>> <=> k = j
    OBVIOUS
  <2> QED BY <2>1, <2>2
<1>3. ASSUME NEW k \in 0 .. Bits - 1
      PROVE  bit(v, k) = bit(w, k)
  <2>1. bit(v, k) = 1 <=> bit(w, k) = 1
    BY <1>2
  <2>2. bit(v, k) \in {0, 1} /\ bit(w, k) \in {0, 1}
    <3> DEFINE d == 2 ^ k
    <3>1. k \in Nat /\ d \in Nat \ {0}
      BY PowerNext
    <3>2. v \in Nat /\ w \in Nat
      BY <1>1, PowerNext
    <3> HIDE DEF d
    <3>3. v \div d \in Nat /\ w \div d \in Nat
      BY <3>1, <3>2, Divided
    <3>4. (v \div d) % 2 \in {0, 1} /\ (w \div d) % 2 \in {0, 1}
      BY <3>3
    <3> QED BY <3>4 DEF d
  <2> HIDE DEF bit
  <2> QED BY <2>1, <2>2
<1> QED BY <1>1, <1>3, BitsTell

\* and is known.
LEMMA PbeValueKnown ==
    ASSUME NEW v, NEW x \in R!Value(v)
    PROVE  x[1] = "bit"
<1>1. PICK k : x = <<"bit", 0, k>>
  BY Zenon DEF R!Value, R!Atom
<1> QED BY <1>1

\* CBC of w blocks p of z bytes, each known, opened in place: x are the blocks that were
\* enciphered, v what the first is chained to, o what is written.
PbeChain(z, w, p, v, x, o) ==
    /\ \A k \in 1 .. z : \A e \in v[k] : e[1] # "E"
    /\ \A m \in 0 .. w - 1 : \A k \in 1 .. z : \A e \in p[m][k] : e[1] # "E"
    /\ \A k \in 1 .. z : x[0][k] = Xor(p[0][k], v[k]) /\ o[0][k] = Xor(x[0][k], v[k])
    /\ \A m \in 1 .. w - 1 : \A k \in 1 .. z :
           /\ x[m][k] = Xor(p[m][k], {<<"E", x[m - 1], k>>})
           /\ o[m][k] = Xor(x[m][k], o[m - 1][k])

\* Only the first block comes back, and of the others no byte.
PbeFirstOnly(z, w, p, o) == \A m \in 0 .. w - 1 : \A k \in 1 .. z : o[m][k] = p[m][k] <=> m = 0

\* It is so of any such blocks.
LEMMA PbeChained ==
    ASSUME NEW z \in Nat \ {0}, NEW w \in Nat \ {0}, NEW p, NEW v, NEW x, NEW o,
           PbeChain(z, w, p, v, x, o)
    PROVE  PbeFirstOnly(z, w, p, o)
<1> USE DEF PbeChain
<1>1. ASSUME NEW m \in 1 .. w - 1, NEW k \in 1 .. z, NEW y
      PROVE  <<"E", y, k>> \in x[m][k] <=> y = x[m - 1]
  <2>1. x[m][k] = Xor(p[m][k], {<<"E", x[m - 1], k>>}) /\ m \in 0 .. w - 1
    <3>1. m \in 0 .. w - 1
      OBVIOUS
    <3>2. x[m][k] = Xor(p[m][k], {<<"E", x[m - 1], k>>})
      BY Zenon
    <3> QED BY <3>1, <3>2
  <2>2. <<"E", y, k>> \notin p[m][k]
    <3>1. \A e \in p[m][k] : e[1] # "E"
      BY <2>1
    <3>2. <<"E", y, k>>[1] = "E"
      OBVIOUS
    <3> QED BY <3>1, <3>2, Zenon
  <2>3. <<"E", y, k>> = <<"E", x[m - 1], k>> <=> y = x[m - 1]
    OBVIOUS
  <2> DEFINE e == <<"E", y, k>>
             f == <<"E", x[m - 1], k>>
  <2> HIDE DEF e, f
  <2>4. e \in Xor(p[m][k], {f}) <=> e = f
    <3>1. e \notin p[m][k]
      BY <2>2 DEF e
    <3> QED BY <3>1 DEF Xor
  <2> QED BY <2>1, <2>3, <2>4 DEF e, f
<1>2. ASSUME NEW k \in 1 .. z, NEW y
      PROVE  <<"E", y, k>> \notin x[0][k]
  <2> DEFINE e == <<"E", y, k>>
  <2>1. e[1] = "E" /\ 0 \in 0 .. w - 1
    OBVIOUS
  <2> HIDE DEF e
  <2>2. e \notin p[0][k] /\ e \notin v[k]
    BY <2>1
  <2>3. e \notin Xor(p[0][k], v[k])
    BY <2>2 DEF Xor
  <2> QED BY <2>3 DEF e
<1>3. ASSUME NEW m \in 0 .. w - 1, NEW n \in 0 .. w - 1, x[m] = x[n]
      PROVE  m = n
  <2> DEFINE g == [i \in 1 .. w |-> x[i - 1]]
             h == m + 1
             d == n + 1
  <2>1. h \in Nat \ {0} /\ d \in Nat \ {0} /\ h <= w /\ d <= w
    OBVIOUS
  <2>2. h - 1 = m /\ d - 1 = n
    OBVIOUS
  <2>3. g[h] = g[d]
    <3>1. h \in 1 .. w /\ d \in 1 .. w
      OBVIOUS
    <3>2. g[h] = x[h - 1] /\ g[d] = x[d - 1]
      BY <3>1
    <3> QED BY <1>3, <2>2, <3>2
  <2>4. ASSUME NEW i \in 1 .. h, NEW j \in 1 .. d, g[i] = g[j]
        PROVE  (i = 1 <=> j = 1) /\ (i # 1 => g[i - 1] = g[j - 1])
    <3>1. i \in 1 .. w /\ j \in 1 .. w /\ 1 \in 1 .. z
      BY <2>1
    <3>2. x[i - 1] = x[j - 1]
      BY <2>4, <3>1
    <3>3. i = 1 => i - 1 = 0
      OBVIOUS
    <3>4. j = 1 => j - 1 = 0
      OBVIOUS
    <3>5. i # 1 => i - 1 \in 1 .. w - 1 /\ i - 1 \in 1 .. w /\ g[i - 1] = x[(i - 1) - 1]
      BY <3>1
    <3>6. j # 1 => j - 1 \in 1 .. w - 1 /\ j - 1 \in 1 .. w /\ g[j - 1] = x[(j - 1) - 1]
      BY <3>1
    <3> HIDE DEF g
    <3>7. i # 1 => \A y : <<"E", y, 1>> \in x[i - 1][1] <=> y = x[(i - 1) - 1]
      BY <1>1, <3>1, <3>5
    <3>8. j # 1 => \A y : <<"E", y, 1>> \in x[j - 1][1] <=> y = x[(j - 1) - 1]
      BY <1>1, <3>1, <3>6
    <3>9. (i = 1 => \A y : <<"E", y, 1>> \notin x[i - 1][1])
          /\ (j = 1 => \A y : <<"E", y, 1>> \notin x[j - 1][1])
      BY <1>2, <3>1, <3>3, <3>4
    <3> DEFINE q == x[i - 1][1]
               r == x[j - 1][1]
               s == x[(i - 1) - 1]
               t == x[(j - 1) - 1]
    <3>10. q = r
      BY <3>2
    <3>11. /\ i # 1 => \A y : <<"E", y, 1>> \in q <=> y = s
           /\ j # 1 => \A y : <<"E", y, 1>> \in r <=> y = t
           /\ i = 1 => \A y : <<"E", y, 1>> \notin q
           /\ j = 1 => \A y : <<"E", y, 1>> \notin r
      BY <3>7, <3>8, <3>9
    <3> HIDE DEF q, r, s, t
    <3>12. (i = 1 <=> j = 1) /\ (i # 1 => s = t)
      BY <3>10, <3>11, Zenon
    <3> QED BY <3>5, <3>6, <3>12 DEF s, t
  <2>5. h = d
    <3> HIDE DEF g, h, d
    <3> QED BY <2>1, <2>3, <2>4, ChainsMeet
  <2> QED BY <2>2, <2>5
<1> DEFINE made(m) == \A k \in 1 .. z : \A e \in o[m][k] : e[1] = "E" =>
                          \E j \in 0 .. m - 1 : e = <<"E", x[j], k>>
           S == {m \in Nat : m < w => made(m)}
<1>4. 0 \in S
  <2>1. ASSUME NEW k \in 1 .. z, NEW e \in o[0][k]
        PROVE  e[1] # "E"
    <3>1. \A f \in p[0][k] : f[1] # "E"
      OBVIOUS
    <3>2. \A f \in v[k] : f[1] # "E"
      OBVIOUS
    <3>3. e \in p[0][k] \/ e \in v[k]
      BY <2>1 DEF Xor
    <3> QED BY <3>1, <3>2, <3>3
  <2> QED BY <2>1
<1>5. ASSUME NEW m \in Nat, m \in S
      PROVE  m + 1 \in S
  <2> SUFFICES ASSUME m + 1 < w
               PROVE  made(m + 1)
    OBVIOUS
  <2> SUFFICES ASSUME NEW k \in 1 .. z, NEW e \in o[m + 1][k], e[1] = "E"
               PROVE  \E j \in 0 .. (m + 1) - 1 : e = <<"E", x[j], k>>
    OBVIOUS
  <2>1. m + 1 \in 1 .. w - 1 /\ m + 1 \in 0 .. w - 1 /\ (m + 1) - 1 = m /\ made(m)
    BY <1>5
  <2>2. /\ o[m + 1][k] = Xor(x[m + 1][k], o[m][k])
        /\ x[m + 1][k] = Xor(p[m + 1][k], {<<"E", x[m], k>>})
        /\ \A f \in p[m + 1][k] : f[1] # "E"
    BY <2>1
  <2>3. e \notin p[m + 1][k]
    BY <2>2
  <2>4. e = <<"E", x[m], k>> \/ e \in o[m][k]
    <3> DEFINE f == <<"E", x[m], k>>
    <3> HIDE DEF f
    <3>1. e \in Xor(Xor(p[m + 1][k], {f}), o[m][k])
      BY <2>2 DEF f
    <3> QED BY <2>3, <3>1 DEF Xor, f
  <2>5. CASE e = <<"E", x[m], k>>
    BY <2>1, <2>5
  <2>6. CASE e \in o[m][k]
    <3>1. PICK j \in 0 .. m - 1 : e = <<"E", x[j], k>>
      BY <2>1, <2>6
    <3>2. j \in 0 .. (m + 1) - 1
      OBVIOUS
    <3> QED BY <3>1, <3>2
  <2> QED BY <2>4, <2>5, <2>6
<1>6. \A m \in Nat : m \in S
  <2> HIDE DEF S
  <2> QED BY <1>4, <1>5, CountUp
<1>7. ASSUME NEW m \in 0 .. w - 1, NEW k \in 1 .. z
      PROVE  o[m][k] # {<<"E", x[m], k>>}
  <2> SUFFICES ASSUME o[m][k] = {<<"E", x[m], k>>}
               PROVE  FALSE
    OBVIOUS
  <2> DEFINE e == <<"E", x[m], k>>
  <2>1. e \in o[m][k] /\ e[1] = "E" /\ m \in Nat /\ m < w
    OBVIOUS
  <2> HIDE DEF e
  <2>2. made(m)
    BY <1>6, <2>1
  <2>3. PICK j \in 0 .. m - 1 : e = <<"E", x[j], k>>
    BY <2>1, <2>2
  <2>4. x[m] = x[j] /\ j \in 0 .. w - 1 /\ j # m
    BY <2>3 DEF e
  <2> QED BY <1>3, <2>4
<1>8. ASSUME NEW m \in 0 .. w - 1, NEW k \in 1 .. z
      PROVE  o[m][k] = p[m][k] <=> m = 0
  <2>1. CASE m = 0
    <3>1. o[0][k] = Xor(Xor(p[0][k], v[k]), v[k])
      OBVIOUS
    <3>2. Xor(Xor(p[0][k], v[k]), v[k]) = p[0][k]
      BY XorTells
    <3> QED BY <2>1, <3>1, <3>2
  <2>2. CASE m # 0
    <3>1. m \in 1 .. w - 1 /\ m - 1 \in 0 .. w - 1
      BY <2>2
    <3> DEFINE f == {<<"E", x[m - 1], k>>}
    <3>2. o[m][k] = Xor(Xor(p[m][k], f), o[m - 1][k]) /\ o[m - 1][k] # f
      BY <1>7, <3>1
    <3> DEFINE q == p[m][k]
               r == o[m - 1][k]
    <3>3. o[m][k] = Xor(Xor(q, f), r) /\ r # f
      BY <3>2
    <3> HIDE DEF f, q, r
    <3>4. Xor(Xor(q, f), f) = q
      BY XorTells
    <3>5. Xor(Xor(q, f), r) = Xor(Xor(q, f), f) => r = f
      <4> DEFINE h == Xor(q, f)
      <4> HIDE DEF h
      <4>1. Xor(h, r) = Xor(h, f) => r = f
        BY DEF Xor
      <4> QED BY <4>1 DEF h
    <3>6. o[m][k] # q
      BY <3>3, <3>4, <3>5
    <3>7. o[m][k] # p[m][k]
      BY <3>6 DEF q
    <3> QED BY <2>2, <3>7
  <2> QED BY <2>1, <2>2
<1> QED BY <1>8 DEF PbeFirstOnly

\* What the cipher made is deciphered.
LEMMA PbeDecipheredBack ==
    ASSUME R!SizeAssumption, NEW x
    PROVE  R!rc2_decrypt_block(R!rc2_encrypt_block(x)) = x
<1> DEFINE c == R!rc2_encrypt_block(x)
           e == <<"E", x, 1>>
           made == {t[2] : t \in {t \in c[1] : t[1] = "E"}}
<1>1. c[1] = {e}
  <2>1. 1 \in 1 .. PbeBlock
    BY PbeSize
  <2> QED BY <2>1 DEF R!rc2_encrypt_block, R!BytesOf, R!Atom
<1>2. e[1] = "E" /\ e[2] = x
  OBVIOUS
<1>3. R!rc2_decrypt_block(c) = IF \E y \in made : c = R!rc2_encrypt_block(y)
                               THEN CHOOSE y \in made : c = R!rc2_encrypt_block(y)
                               ELSE R!BytesOf("D", c, PbeBlock)
  BY Zenon DEF R!rc2_decrypt_block
<1> HIDE DEF c, e
<1>4. made = {x}
  BY <1>1, <1>2
<1> HIDE DEF made
<1>5. c = R!rc2_encrypt_block(x)
  BY DEF c
<1>6. R!rc2_decrypt_block(c) = x
  BY <1>3, <1>4, <1>5
<1> QED BY <1>6 DEF c

\* The bytes of a text are known.
PbeKnown(text) == \A i \in 1 .. Len(text) : R!Known(text[i])

\* What came back: the end of a decryption that has looked at the padding.
PbeOpened == op = "dec" /\ ~active /\ off # 0 /\ src = sealed.cipher

\* What was enciphered for the block at o.
PbeEntered(o) == PbeSum(PbePart(PbePadded(sealed.text), o), PbePrev(sealed.cipher, o))

\* The text that was encrypted, and its padding, fill what is opened.
LEMMA PbeOpenedSizes ==
    ASSUME R!SizeAssumption, PbeInv, PbeOpened, PbeKnown(sealed.text)
    PROVE  LET m == Len(sealed.text)
               p == R!pad_len(m)
               n == Len(src)
           IN  /\ PbeBlock \in Nat \ {0} /\ m \in Nat /\ p \in 1 .. PbeBlock /\ n = m + p
               /\ n % PbeBlock = 0 /\ off = n /\ n <= room /\ room \in Nat
               /\ Array(sealed.text, m) /\ Array(out, room + PbeBlock)
               /\ \A i \in 1 .. n : R!Known(PbePadded(sealed.text)[i])
               /\ \A i \in 1 .. m : PbePadded(sealed.text)[i] = sealed.text[i]
               /\ \A i \in 1 .. p : PbePadded(sealed.text)[m + i] = R!Value(p)
<1> DEFINE m == Len(sealed.text)
           p == R!pad_len(m)
           n == Len(src)
           t == PbePadded(sealed.text)
<1>1. PbeTypes /\ PbePlace /\ PbeSealed /\ PbeBlock \in Nat \ {0}
  BY PbeSize DEF PbeInv
<1>2. n % PbeBlock = 0 /\ off = n /\ n <= room /\ src # <<>>
  BY <1>1 DEF PbePlace, PbeOpened, PbeEnd
<1>3. Array(sealed.text, m) /\ m \in Nat /\ n = m + p
  BY <1>1, <1>2 DEF PbeSealed, PbeOpened, Array
<1>4. Array(out, room + PbeBlock) /\ room \in Nat
  BY <1>1 DEF PbeTypes
<1>5. p \in 1 .. PbeBlock
  BY <1>3, PbePadLen
<1>6. (\A i \in 1 .. m : t[i] = sealed.text[i]) /\ (\A i \in 1 .. p : t[m + i] = R!Value(p))
  BY <1>3, PbePaddedArray
<1>7. ASSUME NEW i \in 1 .. n
      PROVE  R!Known(t[i])
  <2>1. CASE i <= m
    <3>1. i \in 1 .. m
      BY <1>3, <2>1
    <3>2. R!Known(sealed.text[i])
      BY <3>1 DEF PbeKnown
    <3> QED BY <1>6, <3>1, <3>2
  <2>2. CASE ~(i <= m)
    <3>1. i - m \in 1 .. p /\ m + (i - m) = i
      BY <1>3, <1>5, <2>2
    <3>2. t[i] = R!Value(p)
      BY <1>6, <3>1
    <3> QED BY <3>2, PbeValueKnown DEF R!Known
  <2> QED BY <2>1, <2>2
<1> QED BY <1>1, <1>2, <1>3, <1>4, <1>5, <1>6, <1>7

\* A byte is the one that was padded, enciphered and deciphered, chained as it was.
LEMMA PbeOpenedBlocks ==
    ASSUME R!SizeAssumption, PbeInv, PbeOpened, PbeKnown(sealed.text),
           NEW o \in Nat, o < Len(src), o % PbeBlock = 0
    PROVE  /\ PbePart(src, o) = R!rc2_encrypt_block(PbeEntered(o))
           /\ PbePart(out, o) = PbeSum(PbeEntered(o), PbePrev(PbeFed, o))
<1> DEFINE n == Len(src)
<1>1. off = n /\ n \in Nat /\ src # <<>> /\ op = "dec" /\ src = sealed.cipher
  <2>1. off = n /\ n \in Nat
    BY PbeOpenedSizes
  <2>2. n # 0
    BY <2>1 DEF PbeOpened
  <2> QED BY <2>1, <2>2, ArrayEmpty DEF PbeOpened
<1>2. o \in 0 .. n - 1 /\ o \in 0 .. off - 1
  BY <1>1
<1>3. PbePart(sealed.cipher, o) = PbeSealedBlock(sealed.text, sealed.cipher, o)
  BY <1>1, <1>2 DEF PbeInv, PbeSealed
<1>4. PbePart(src, o) = R!rc2_encrypt_block(PbeEntered(o))
  BY <1>1, <1>3 DEF PbeSealedBlock, PbeEntered
<1>5. PbePart(out, o) = PbeOpenedBlock(src, PbeFed, o)
  BY <1>1, <1>2 DEF PbeInv, PbeData, PbeWritten
<1>6. PbePart(out, o) = PbeSum(R!rc2_decrypt_block(PbePart(src, o)), PbePrev(PbeFed, o))
  BY <1>5 DEF PbeOpenedBlock
<1>7. R!rc2_decrypt_block(PbePart(src, o)) = PbeEntered(o)
  BY <1>4, PbeDecipheredBack
<1> QED BY <1>4, <1>6, <1>7

\* In place, or not, the first block comes back; into another buffer every one.
LEMMA PbeOpenedApart ==
    ASSUME R!SizeAssumption, PbeInv, PbeOpened, PbeKnown(sealed.text),
           NEW i \in 1 .. Len(src), ~inplace \/ i <= PbeBlock
    PROVE  out[i] = PbePadded(sealed.text)[i]
<1> DEFINE n == Len(src)
           t == PbePadded(sealed.text)
<1>1. PbeBlock \in Nat \ {0} /\ n \in Nat /\ n % PbeBlock = 0 /\ i \in Nat \ {0}
  BY PbeOpenedSizes
<1>2. PICK o \in Nat : \E k \in 1 .. PbeBlock : o % PbeBlock = 0 /\ i = o + k
  BY <1>1, BlockOf
<1>3. PICK k \in 1 .. PbeBlock : o % PbeBlock = 0 /\ i = o + k
  BY <1>2
<1>4. o < n /\ o \in Nat
  BY <1>1, <1>3
<1>5. PbePrev(PbeFed, o) = PbePrev(sealed.cipher, o)
  <2>1. CASE o = 0
    BY <2>1 DEF PbePrev
  <2>2. CASE o # 0
    <3>1. PbeBlock <= o
      <4>1. PbeBlock > o => o % PbeBlock = o
        BY <1>1
      <4> QED BY <1>1, <1>3, <2>2, <4>1
    <3>2. ~inplace
      BY <1>1, <1>3, <3>1
    <3>3. PbeFed = sealed.cipher
      BY <3>2 DEF PbeFed, PbeOpened
    <3> QED BY <3>3
  <2> QED BY <2>1, <2>2
<1> DEFINE p == PbePart(t, o)
           s == PbePrev(sealed.cipher, o)
<1>6. PbeEntered(o) = PbeSum(p, s) /\ PbePart(out, o) = PbeSum(PbeEntered(o), s)
  BY <1>3, <1>4, <1>5, PbeOpenedBlocks DEF PbeEntered
<1>7. PbePart(out, o)[k] = out[i] /\ p[k] = t[i]
  BY <1>3 DEF PbePart
<1> HIDE DEF p, s
<1>8. PbePart(out, o)[k] = Xor(Xor(p[k], s[k]), s[k])
  BY <1>6 DEF PbeSum
<1>9. Xor(Xor(p[k], s[k]), s[k]) = p[k]
  BY XorTells
<1> QED BY <1>7, <1>8, <1>9

\* In place nothing else does.
LEMMA PbeOpenedInPlace ==
    ASSUME R!SizeAssumption, PbeInv, PbeOpened, PbeKnown(sealed.text), inplace,
           NEW i \in 1 .. Len(src)
    PROVE  out[i] = PbePadded(sealed.text)[i] <=> i <= PbeBlock
<1> DEFINE z == PbeBlock
           n == Len(src)
           t == PbePadded(sealed.text)
           w == n \div z
           At(m) == m * z
           p == [m \in 0 .. w - 1 |-> PbePart(t, At(m))]
           x == [m \in 0 .. w - 1 |-> PbeEntered(At(m))]
           o == [m \in 0 .. w - 1 |-> PbePart(out, At(m))]
<1>1. z \in Nat \ {0} /\ n \in Nat /\ n % z = 0 /\ n # 0
  <2>1. z \in Nat \ {0} /\ n \in Nat /\ n % z = 0 /\ off = n
    BY PbeOpenedSizes
  <2> QED BY <2>1 DEF PbeOpened
<1>2. w \in Nat \ {0} /\ n = w * z
  <2> HIDE DEF z, n
  <2>1. w \in Nat /\ n = w * z + (n % z) /\ w * z \in Nat
    <3>1. w \in Nat /\ n = w * z + (n % z)
      BY <1>1, Divided
    <3> QED BY <1>1, <3>1
  <2>2. w = 0 => w * z = 0
    BY <1>1
  <2> QED BY <1>1, <2>1, <2>2
<1>3. ASSUME NEW m \in 0 .. w - 1
      PROVE  /\ At(m) \in Nat /\ At(m) + z <= n /\ At(m) % z = 0 /\ At(m) < n
             /\ m = 0 => At(m) = 0
             /\ m # 0 => At(m) # 0 /\ At(m) - z = At(m - 1) /\ m - 1 \in 0 .. w - 1
  <2> HIDE DEF z, n, w, t
  <2> DEFINE a1 == At(m)
             y == (w - 1 - m) * z
             r == 0
  <2>1. m \in Nat /\ w - 1 - m \in Nat /\ r \in 0 .. z - 1
    BY <1>1, <1>2
  <2>2. a1 \in Nat /\ y \in Nat /\ w * z = a1 + y + z
    BY <1>1, <1>2, <2>1
  <2>3. (m * z + r) % z = r
    <3> HIDE DEF r, a1, y
    <3> QED BY <1>1, <2>1, Quotient
  <2>4. a1 + r = a1
    BY <2>2
  <2>5. m = 0 => a1 = 0
    BY <1>1
  <2>6. m # 0 => a1 # 0 /\ a1 - z = At(m - 1) /\ m - 1 \in 0 .. w - 1
    <3> SUFFICES ASSUME m # 0
                 PROVE  a1 # 0 /\ a1 - z = At(m - 1) /\ m - 1 \in 0 .. w - 1
      OBVIOUS
    <3>1. m - 1 \in Nat /\ (m - 1) * z \in Nat
      BY <1>1, <2>1
    <3>2. m * z = (m - 1) * z + z
      BY <1>1, <2>1
    <3> DEFINE u == (m - 1) * z
    <3>3. u \in Nat /\ a1 = u + z /\ At(m - 1) = u
      BY <3>1, <3>2
    <3> HIDE DEF u, a1, At
    <3> QED BY <1>1, <1>2, <3>1, <3>3
  <2>7. a1 % z = 0
    BY <2>3, <2>4
  <2> HIDE DEF a1, y
  <2>8. a1 + z <= n /\ a1 < n
    BY <1>1, <1>2, <2>2
  <2> QED BY <2>2, <2>5, <2>6, <2>7, <2>8 DEF a1
<1>4. ASSUME NEW m \in 0 .. w - 1, NEW k \in 1 .. z
      PROVE  /\ x[m][k] = Xor(p[m][k], PbePrev(src, At(m))[k])
             /\ o[m][k] = Xor(x[m][k], PbePrev(out, At(m))[k])
             /\ \A e \in p[m][k] : e[1] # "E"
             /\ PbePart(src, At(m))[k] = {<<"E", x[m], k>>}
             /\ PbePart(out, At(m)) = o[m]
  <2> DEFINE d == At(m)
  <2>1. d \in Nat /\ d + z <= n /\ d % z = 0 /\ d < n
    BY <1>3
  <2>2. x[m] = PbeEntered(d) /\ p[m] = PbePart(t, d) /\ o[m] = PbePart(out, d)
    OBVIOUS
  <2> HIDE DEF d, x, p, o, w, At
  <2>3. PbeFed = out /\ sealed.cipher = src
    BY DEF PbeFed, PbeOpened
  <2>4. /\ PbePart(src, d) = R!rc2_encrypt_block(PbeEntered(d))
        /\ PbePart(out, d) = PbeSum(PbeEntered(d), PbePrev(out, d))
    BY <2>1, <2>3, PbeOpenedBlocks
  <2>5. PbeEntered(d) = PbeSum(PbePart(t, d), PbePrev(src, d))
    BY <2>3 DEF PbeEntered
  <2>6. d + k \in 1 .. n
    BY <1>1, <2>1
  <2>7. p[m][k] = t[d + k] /\ R!Known(t[d + k])
    <3>1. R!Known(t[d + k])
      BY <2>6, PbeOpenedSizes
    <3>2. p[m][k] = t[d + k]
      BY <2>2 DEF PbePart
    <3> QED BY <3>1, <3>2
  <2>8. \A e \in p[m][k] : e[1] # "E"
    BY <2>7 DEF R!Known
  <2>9. x[m][k] = Xor(p[m][k], PbePrev(src, d)[k])
    BY <2>2, <2>5 DEF PbeSum
  <2>10. o[m][k] = Xor(x[m][k], PbePrev(out, d)[k])
    BY <2>2, <2>4 DEF PbeSum
  <2>11. PbePart(src, d)[k] = {<<"E", x[m], k>>}
    BY <2>2, <2>4 DEF R!rc2_encrypt_block, R!BytesOf, R!Atom
  <2> QED BY <2>2, <2>8, <2>9, <2>10, <2>11 DEF d
<1> HIDE DEF x, p, o, At
<1>5. \A k \in 1 .. z : \A e \in R!Iv[k] : e[1] # "E"
  <2> SUFFICES ASSUME NEW k \in 1 .. z, NEW e \in R!Iv[k]
               PROVE  e[1] # "E"
    OBVIOUS
  <2>1. e = <<"iv", 0, k>>
    BY DEF R!Iv, R!BytesOf, R!Atom
  <2> QED BY <2>1
<1>6. \A m \in 0 .. w - 1 : \A k \in 1 .. z : \A e \in p[m][k] : e[1] # "E"
  BY <1>4
<1>7. ASSUME NEW k \in 1 .. z
      PROVE  x[0][k] = Xor(p[0][k], R!Iv[k]) /\ o[0][k] = Xor(x[0][k], R!Iv[k])
  <2>1. 0 \in 0 .. w - 1
    BY <1>2
  <2>2. PbePrev(src, At(0)) = R!Iv /\ PbePrev(out, At(0)) = R!Iv
    BY <1>3, <2>1 DEF PbePrev
  <2> QED BY <1>4, <2>1, <2>2
<1>8. ASSUME NEW m \in 1 .. w - 1, NEW k \in 1 .. z
      PROVE  /\ x[m][k] = Xor(p[m][k], {<<"E", x[m - 1], k>>})
             /\ o[m][k] = Xor(x[m][k], o[m - 1][k])
  <2>1. m \in 0 .. w - 1 /\ m # 0
    BY <1>2
  <2>2. At(m) # 0 /\ At(m) - z = At(m - 1) /\ m - 1 \in 0 .. w - 1
    BY <1>3, <2>1
  <2>3. PbePrev(src, At(m)) = PbePart(src, At(m - 1)) /\ PbePrev(out, At(m)) = PbePart(out, At(m - 1))
    BY <2>2 DEF PbePrev
  <2>4. x[m][k] = Xor(p[m][k], PbePrev(src, At(m))[k]) /\ o[m][k] = Xor(x[m][k], PbePrev(out, At(m))[k])
    BY <1>4, <2>1
  <2>5. PbePart(src, At(m - 1))[k] = {<<"E", x[m - 1], k>>} /\ PbePart(out, At(m - 1)) = o[m - 1]
    BY <1>4, <2>2
  <2> QED BY <2>3, <2>4, <2>5, Zenon
<1>9. \A m \in 0 .. w - 1 : \A k \in 1 .. z : o[m][k] = p[m][k] <=> m = 0
  <2> DEFINE v == R!Iv
  <2>1. \A k \in 1 .. z : \A e \in v[k] : e[1] # "E"
    BY <1>5
  <2>2. \A k \in 1 .. z : x[0][k] = Xor(p[0][k], v[k]) /\ o[0][k] = Xor(x[0][k], v[k])
    BY <1>7
  <2>3. \A m \in 1 .. w - 1 : \A k \in 1 .. z :
            /\ x[m][k] = Xor(p[m][k], {<<"E", x[m - 1], k>>})
            /\ o[m][k] = Xor(x[m][k], o[m - 1][k])
    BY <1>8
  <2>4. z \in Nat \ {0} /\ w \in Nat \ {0}
    BY <1>1, <1>2
  <2>5. PbeChain(z, w, p, v, x, o)
    <3> HIDE DEF v, z, w
    <3> QED BY <1>6, <2>1, <2>2, <2>3, Zenon DEF PbeChain
  <2>6. PbeFirstOnly(z, w, p, o)
    <3> HIDE DEF v, z, w
    <3> QED BY <2>4, <2>5, PbeChained, Zenon
  <2> QED BY <2>6 DEF PbeFirstOnly
<1>10. PICK k \in 1 .. z : \E m \in 0 .. w - 1 : i = At(m) + k /\ (i <= z <=> m = 0)
  <2> HIDE DEF z, n, w, t
  <2> DEFINE j == i - 1
             m == j \div z
             r == j % z
  <2>1. j \in Nat /\ j < n
    BY <1>1 DEF n
  <2>2. m \in Nat /\ r \in 0 .. z - 1 /\ j = m * z + r
    <3> HIDE DEF j
    <3> QED BY <1>1, <2>1, Divided
  <2> DEFINE y == m * z
  <2>3. y \in Nat /\ (m = 0 => y = 0) /\ (m # 0 => y >= z)
    <3>1. y \in Nat /\ (m = 0 => y = 0)
      BY <1>1, <2>2
    <3>2. m # 0 => m - 1 \in Nat /\ (m - 1) * z \in Nat /\ m * z = (m - 1) * z + z
      <4>1. m \in Nat
        BY <2>2
      <4> HIDE DEF m, y
      <4> QED BY <1>1, <4>1
    <3> DEFINE u == (m - 1) * z
    <3>3. m # 0 => u \in Nat /\ y = u + z
      BY <3>2
    <3> HIDE DEF u, y, m
    <3> QED BY <1>1, <3>1, <3>3
  <2>4. m < w
    <3> SUFFICES ASSUME m >= w
                 PROVE  FALSE
      BY <1>2, <2>2
    <3>1. m - w \in Nat /\ (m - w) * z \in Nat /\ m * z = (m - w) * z + w * z
      <4>1. m \in Nat
        BY <2>2
      <4> HIDE DEF m, y
      <4> QED BY <1>1, <1>2, <4>1
    <3> DEFINE u == (m - w) * z
               q == w * z
    <3>2. u \in Nat /\ q = n /\ y = u + q /\ j = y + r
      BY <1>2, <2>2, <3>1
    <3> HIDE DEF u, q, y, j, m, r
    <3> QED BY <1>1, <2>1, <2>2, <2>3, <3>2
  <2>5. r + 1 \in 1 .. z /\ i = At(m) + (r + 1) /\ (i <= z <=> m = 0) /\ m \in 0 .. w - 1
    <3>1. At(m) = y /\ j + 1 = i /\ j = y + r
      BY <2>2 DEF At
    <3> HIDE DEF y, j, m, r
    <3> QED BY <1>1, <1>2, <2>1, <2>2, <2>3, <2>4, <3>1
  <2> HIDE DEF m, r
  <2> QED BY <2>5
<1>11. PICK m \in 0 .. w - 1 : i = At(m) + k /\ (i <= z <=> m = 0)
  BY <1>10
<1>12. o[m][k] = out[i] /\ p[m][k] = t[i]
  BY <1>11 DEF o, p, PbePart
<1> QED BY <1>9, <1>11, <1>12

\* What else the last call left: a text is known, and so is what was encrypted last; a
\* text that is not accepted may have a padding that is wrong.
PbeCame ==
    /\ op = "enc" => PbeKnown(src)
    /\ PbeKnown(sealed.text)
    /\ op = "dec" /\ ~active /\ ret = -1 /\ off # 0 => \E val \in R!LastValues : ~R!PaddingRight(val)

\* It holds at first,
LEMMA PbeCameFirst == R!Init => PbeCame
<1> SUFFICES ASSUME R!Init
             PROVE  PbeCame
  OBVIOUS
<1>1. op = "none" /\ sealed.text = <<>>
  BY DEF R!Init, R!NoText
<1>2. \A i \in 1 .. Len(<<>>) : FALSE
  BY ArrayEmpty
<1> QED BY <1>1, <1>2 DEF PbeCame, PbeKnown

\* and after every step.
LEMMA PbeCameAfter ==
    ASSUME R!SizeAssumption, PbeCame, R!Next \/ UNCHANGED R!vars
    PROVE  PbeCame'
<1>1. PbeKnown(<<>>)
  <2>1. \A i \in 1 .. Len(<<>>) : FALSE
    BY ArrayEmpty
  <2> QED BY <2>1 DEF PbeKnown
<1>2. ASSUME NEW text, NEW n, NEW fn, NEW refused, NEW place, R!Call(fn, text, n, refused, place),
             fn = "enc" => PbeKnown(text)
      PROVE  PbeCame'
  <2>1. /\ op' = fn /\ src' = text /\ off' = 0
        /\ sealed' = IF fn = "enc" THEN R!NoText ELSE sealed
    BY <1>2, Zenon DEF R!Call
  <2>2. PbeKnown(sealed'.text)
    <3>1. R!NoText.text = <<>>
      BY DEF R!NoText
    <3> QED BY <1>1, <2>1, <3>1 DEF PbeCame
  <2> QED BY <1>2, <2>1, <2>2 DEF PbeCame, PbeKnown
<1>3. ASSUME NEW text \in R!Texts
      PROVE  PbeKnown(text)
  <2> DEFINE V == {R!Value(v) : v \in TextValues}
  <2>1. PICK n \in 0 .. MaxText : text \in [1 .. n -> V]
    BY Zenon DEF R!Texts
  <2>2. Array(text, Len(text)) /\ n \in Nat
    BY PbeTexts DEF R!SizeAssumption
  <2>3. Len(text) = n
    <3>1. Array(text, n)
      BY <2>1, <2>2 DEF Array
    <3> QED BY <3>1, ArrayLen
  <2>4. ASSUME NEW i \in 1 .. Len(text)
        PROVE  R!Known(text[i])
    <3>1. PICK v : text[i] = R!Value(v)
      BY <2>1, <2>3, <2>4
    <3> QED BY <3>1, PbeValueKnown DEF R!Known
  <2> QED BY <2>4 DEF PbeKnown
<1>4. ASSUME NEW text \in R!Texts, NEW n, NEW l, NEW place,
             R!gost_pfx_rc2_40_pbe_encrypt(text, n, l, place)
      PROVE  PbeCame'
  <2>1. R!Call("enc", text, n, R!EncryptRefused(text, n, l), place)
    BY <1>4, Zenon DEF R!gost_pfx_rc2_40_pbe_encrypt
  <2> QED BY <1>2, <1>3, <2>1
<1>5. ASSUME NEW text, NEW n, NEW l, NEW place, R!gost_pfx_rc2_40_pbe_decrypt(text, n, l, place)
      PROVE  PbeCame'
  <2>1. R!Call("dec", text, n, R!DecryptRefused(text, n, l), place)
    BY <1>5, Zenon DEF R!gost_pfx_rc2_40_pbe_decrypt
  <2> QED BY <1>2, <2>1
<1>6. CASE R!EncryptTurn
  <2>1. op = "enc" /\ UNCHANGED <<op, src, sealed>>
    BY <1>6, Zenon DEF R!EncryptTurn
  <2> QED BY <2>1 DEF PbeCame, PbeKnown
<1>7. CASE R!EncryptLast
  <2>1. /\ op = "enc" /\ UNCHANGED <<op, src>>
        /\ sealed' = [text |-> src, cipher |-> R!First(out', out_len')]
    BY <1>7, Zenon DEF R!EncryptLast
  <2>2. sealed'.text = src
    BY <2>1
  <2> QED BY <2>1, <2>2 DEF PbeCame, PbeKnown
<1>8. CASE R!DecryptTurn
  <2>1. op = "dec" /\ active /\ UNCHANGED <<op, active, sealed>>
    BY <1>8, Zenon DEF R!DecryptTurn
  <2> QED BY <2>1 DEF PbeCame, PbeKnown
<1>9. CASE R!Unpad
  <2>1. /\ op = "dec" /\ UNCHANGED <<op, src, out, off, sealed>>
        /\ \E val \in R!LastValues : ret' = IF R!PaddingRight(val) THEN 0 ELSE -1
    BY <1>9, Zenon DEF R!Unpad
  <2>2. R!LastValues' = R!LastValues
    BY <2>1, Zenon DEF R!LastValues, R!Block
  <2>3. ret' = -1 => \E val \in R!LastValues' : ~R!PaddingRight(val)
    <3>1. PICK val \in R!LastValues : ret' = IF R!PaddingRight(val) THEN 0 ELSE -1
      BY <2>1
    <3>2. ret' = -1 => ~R!PaddingRight(val)
      BY <3>1
    <3> QED BY <2>2, <3>1, <3>2
  <2>4. PbeKnown(sealed'.text) /\ op' # "enc"
    BY <2>1 DEF PbeCame
  <2> QED BY <2>3, <2>4, Zenon DEF PbeCame, R!PaddingRight
<1>10. CASE R!Release
  <2>1. op' = "none" /\ sealed' = sealed
    BY <1>10, Zenon DEF R!Release
  <2> QED BY <2>1 DEF PbeCame, PbeKnown
<1>11. CASE UNCHANGED R!vars
  <2>1. UNCHANGED <<op, active, src, out, ret, off, sealed>>
    BY <1>11 DEF R!vars
  <2>2. R!LastValues' = R!LastValues
    BY <2>1, Zenon DEF R!LastValues, R!Block
  <2>3. PbeKnown(sealed'.text) /\ (op' = "enc" => PbeKnown(src'))
    BY <2>1 DEF PbeCame
  <2>4. op' = "dec" /\ ~active' /\ ret' = -1 /\ off' # 0 =>
            \E val \in R!LastValues' : ~R!PaddingRight(val)
    BY <2>1, <2>2 DEF PbeCame
  <2> QED BY <2>3, <2>4, Zenon DEF PbeCame, R!PaddingRight
<1> QED BY <1>4, <1>5, <1>6, <1>7, <1>8, <1>9, <1>10, <1>11, Zenon DEF R!Next

\* If every byte comes back, so does the length.
LEMMA PbeOpenedAll ==
    ASSUME R!SizeAssumption, PbeInv, PbeCame, PbeOpened,
           \A i \in 1 .. Len(src) : out[i] = PbePadded(sealed.text)[i]
    PROVE  /\ ret = 0 /\ out_len = Len(sealed.text)
           /\ R!First(out, out_len) = sealed.text
<1> DEFINE z == PbeBlock
           m == Len(sealed.text)
           p == R!pad_len(m)
           n == Len(src)
           t == PbePadded(sealed.text)
<1>1. PbeKnown(sealed.text)
  BY DEF PbeCame
<1>2. /\ z \in Nat \ {0} /\ m \in Nat /\ p \in 1 .. z /\ n = m + p
      /\ n % z = 0 /\ off = n /\ n <= room /\ room \in Nat
      /\ Array(sealed.text, m) /\ Array(out, room + z)
      /\ \A i \in 1 .. m : t[i] = sealed.text[i]
      /\ \A i \in 1 .. p : t[m + i] = R!Value(p)
  BY <1>1, PbeOpenedSizes
<1>3. n - z \in Nat
  <2>1. off # 0
    BY DEF PbeOpened
  <2> HIDE DEF z, m, p, n, t
  <2>2. n \in Nat
    BY <1>2
  <2>3. z > n => n % z = n
    BY <1>2, <2>2
  <2> QED BY <1>2, <2>1, <2>2, <2>3
<1>4. ASSUME NEW val \in R!LastValues
      PROVE  val[z] = p /\ R!PaddingRight(val)
  <2> HIDE DEF z, m, p, n, t
  <2>1. /\ val \in [1 .. z -> 0 .. 2 ^ Bits - 1]
        /\ \A k \in 1 .. z : R!Known(R!Block(out, off - z)[k]) =>
                                 R!Value(val[k]) = R!Block(out, off - z)[k]
    BY Zenon DEF R!LastValues, z
  <2>2. R!Block(out, n - z) = PbePart(out, n - z)
    <3> DEFINE o == n - z
               r == room + z
    <3>1. o \in Nat /\ o + z <= r /\ Array(out, r)
      BY <1>2, <1>3
    <3> HIDE DEF o, r
    <3>2. R!Block(out, o) = PbePart(out, o)
      BY <3>1, PbeBlockIsPart DEF z
    <3> QED BY <3>2 DEF o
  <2>3. p \in 0 .. 2 ^ Bits - 1
    <3>1. z < 2 ^ Bits /\ Bits \in Nat
      BY DEF R!SizeAssumption, z
    <3>2. 2 ^ Bits \in Nat
      BY <3>1, PowerNext
    <3> DEFINE q == 2 ^ Bits
    <3> HIDE DEF q
    <3>3. p \in 0 .. q - 1
      BY <1>2, <3>1, <3>2 DEF q
    <3> QED BY <3>3 DEF q
  <2>4. ASSUME NEW e \in 0 .. p - 1
        PROVE  val[z - e] = p
    <3> DEFINE k == z - e
    <3>1. k \in 1 .. z /\ (n - z) + k \in 1 .. n /\ (n - z) + k = m + (p - e) /\ p - e \in 1 .. p
      BY <1>2, <1>3
    <3> HIDE DEF k
    <3>2. PbePart(out, n - z)[k] = out[(n - z) + k]
      BY <3>1 DEF PbePart, z
    <3>3. out[(n - z) + k] = t[(n - z) + k]
      BY <3>1 DEF n, t
    <3>4. t[(n - z) + k] = R!Value(p)
      BY <1>2, <3>1
    <3>5. R!Block(out, off - z)[k] = R!Value(p)
      BY <1>2, <2>2, <3>2, <3>3, <3>4
    <3>6. R!Known(R!Value(p))
      BY PbeValueKnown DEF R!Known
    <3>7. R!Value(val[k]) = R!Value(p) /\ val[k] \in 0 .. 2 ^ Bits - 1
      BY <2>1, <3>1, <3>5, <3>6
    <3>8. val[k] = p
      BY <2>3, <3>7, PbeValueTells
    <3> QED BY <3>8 DEF k
  <2>5. val[z] = p
    <3>1. 0 \in 0 .. p - 1 /\ z - 0 = z
      BY <1>2
    <3> QED BY <2>4, <3>1
  <2>6. p \in 1 .. z
    BY <1>2
  <2> QED BY <2>4, <2>5, <2>6 DEF R!PaddingRight, z
<1>5. ret = 0
  <2>1. ret \in {0, -1}
    BY DEF PbeInv, PbeTypes
  <2>2. ret # -1
    BY <1>4, Zenon DEF PbeCame, PbeOpened
  <2> QED BY <2>1, <2>2
<1>6. out_len = m
  <2>1. \E val \in R!LastValues : R!PaddingRight(val) /\ out_len = n - val[z]
    BY <1>5, Zenon DEF PbeInv, PbePlace, PbeOpened
  <2>2. PICK val \in R!LastValues : out_len = n - val[z]
    BY <2>1
  <2>3. val[z] = p
    BY <1>4
  <2> HIDE DEF n, m, p, z
  <2> QED BY <1>2, <2>2, <2>3
<1>7. R!First(out, m) = sealed.text
  <2> HIDE DEF n, m, p, z, t
  <2>1. m <= room + z /\ room + z \in Nat
    BY <1>2
  <2>2. SubSeq(out, 1, m) = [i \in 1 .. m |-> out[i]]
    <3> DEFINE r == room + z
    <3>1. Array(out, r) /\ m \in Nat /\ m <= r
      BY <1>2, <2>1
    <3> HIDE DEF r
    <3> QED BY <3>1, ArrayFirst
  <2>3. \A i \in 1 .. m : out[i] = sealed.text[i]
    <3> SUFFICES ASSUME NEW i \in 1 .. m
                 PROVE  out[i] = sealed.text[i]
      OBVIOUS
    <3>1. i \in 1 .. n
      BY <1>2
    <3>2. out[i] = t[i]
      BY <3>1 DEF n, t
    <3> QED BY <1>2, <3>2
  <2>4. sealed.text = [i \in 1 .. m |-> sealed.text[i]]
    BY <1>2 DEF Array
  <2> QED BY <2>2, <2>3, <2>4 DEF R!First
<1> QED BY <1>5, <1>6, <1>7

\* What was encrypted comes back, in place as far as the code lets it.
LEMMA PbeRecovers ==
    ASSUME R!SizeAssumption, PbeInv, PbeCame
    PROVE  R!Recovers
<1> SUFFICES ASSUME PbeOpened
             PROVE  /\ ~inplace \/ Len(src) = PbeBlock =>
                         ret = 0 /\ out_len = Len(sealed.text) /\ R!First(out, out_len) = sealed.text
                    /\ inplace =>
                         \A i \in 1 .. Len(sealed.text) : out[i] = sealed.text[i] <=> i <= PbeBlock
  BY Zenon DEF R!Recovers, PbeOpened
<1>1. PbeKnown(sealed.text)
  BY DEF PbeCame
<1>2. ASSUME ~inplace \/ Len(src) = PbeBlock
      PROVE  ret = 0 /\ out_len = Len(sealed.text) /\ R!First(out, out_len) = sealed.text
  <2>1. ASSUME NEW i \in 1 .. Len(src)
        PROVE  out[i] = PbePadded(sealed.text)[i]
    <3>1. ~inplace \/ i <= PbeBlock
      BY <1>2
    <3> QED BY <1>1, <3>1, PbeOpenedApart
  <2> QED BY <2>1, PbeOpenedAll
<1>3. ASSUME inplace, NEW i \in 1 .. Len(sealed.text)
      PROVE  out[i] = sealed.text[i] <=> i <= PbeBlock
  <2>1. i \in 1 .. Len(src) /\ PbePadded(sealed.text)[i] = sealed.text[i]
    <3> DEFINE m == Len(sealed.text)
               p == R!pad_len(m)
               n == Len(src)
    <3>1. m \in Nat /\ p \in 1 .. PbeBlock /\ n = m + p /\ PbeBlock \in Nat
          /\ \A j \in 1 .. m : PbePadded(sealed.text)[j] = sealed.text[j]
      BY <1>1, PbeOpenedSizes
    <3> HIDE DEF p
    <3> QED BY <3>1
  <2> QED BY <1>1, <1>3, <2>1, PbeOpenedInPlace
<1> QED BY <1>2, <1>3

-----------------------------------------------------------------------------
(***************************************************************************)
(* Key bag.  First the key of a password.                                  *)
(***************************************************************************)

BagHash(s) == [k \in 1 .. KeySize |-> {<<"hash", s, k>>}]

\* n turns of the hashing loop.
BagHashed(links, p, n) ==
    /\ links[0] = p.pass
    /\ \A j \in 1 .. n : links[j] = BagHash(B!HashInput(links[j - 1], p.salt, j))

\* The sizes, each by itself.
LEMMA BagSizes ==
    ASSUME B!SizeAssumption
    PROVE  /\ BagBlock \in Nat \ {0} /\ KeySize \in Nat \ {0} /\ ByteRadix \in Nat \ {0}
           /\ MaxIter \in Nat /\ Iters \subseteq Nat /\ BagLens \subseteq Nat
BY DEF B!SizeAssumption

\* Hashes are told apart by what is hashed.
LEMMA BagHashTells ==
    ASSUME B!SizeAssumption, NEW s, NEW t, BagHash(s) = BagHash(t)
    PROVE  s = t
<1>1. BagHash(s)[1] = {<<"hash", s, 1>>} /\ BagHash(t)[1] = {<<"hash", t, 1>>}
  BY BagSizes DEF BagHash
<1>2. <<"hash", s, 1>> = <<"hash", t, 1>>
  BY <1>1
<1> QED BY <1>2

\* The bytes of the counter.
LEMMA BagNum ==
    ASSUME NEW n
    PROVE  Array(B!Num(B!ctr(n)), 2)
<1> DEFINE c == B!ctr(n)
<1>1. Len(c) = 2
  BY DEF B!ctr
<1> HIDE DEF c
<1>2. Array(B!Num(c), 2)
  BY <1>1 DEF B!Num, Array
<1> QED BY <1>2 DEF c

\* The parts that are hashed in a row.
LEMMA BagInputTells ==
    ASSUME NEW c, NEW n, Array(c, n), NEW s, NEW m, Array(s, m),
           NEW d, NEW k, Array(d, k), NEW t, NEW l, Array(t, l), NEW i, NEW j,
           B!HashInput(c, s, i) = B!HashInput(d, t, j)
    PROVE  c \o s = d \o t
<1> DEFINE x == c \o s
           y == d \o t
           e == B!Num(B!ctr(i))
           f == B!Num(B!ctr(j))
<1>1. x \o e = y \o f
  BY DEF B!HashInput
<1>2. Array(e, 2) /\ Array(f, 2)
  BY BagNum
<1>3. Joined(x, c, s) /\ Joined(y, d, t)
  BY DEF Joined
<1> DEFINE z == x \o e
<1>4. Joined(z, y, f) /\ Joined(z, x, e)
  BY <1>1 DEF Joined
<1> HIDE DEF x, y, e, f, z
<1>5. Array(x, n + m) /\ Array(y, k + l)
  BY <1>3, ArrayJoined
<1>6. x = y
  BY <1>2, <1>4, <1>5, ConcatTells
<1> QED BY <1>6 DEF x, y

\* A string without an atom of a hash.
BagFresh(s) == Array(s, Len(s)) /\ \A i \in 1 .. Len(s) : \A x \in s[i] : x[1] # "hash"

\* Passwords and salts are such strings.
LEMMA BagStrings ==
    ASSUME B!SizeAssumption, NEW p \in B!Arguments
    PROVE  BagFresh(p.pass) /\ BagFresh(p.salt) /\ p.iter \in Nat
<1>1. ASSUME NEW s \in Passwords \cup Salts
      PROVE  BagFresh(s)
  <2> DEFINE S == {s[i] : i \in DOMAIN s}
  <2>1. s \in Seq(S) /\ \A i \in DOMAIN s : \A x \in s[i] : x[1] # "hash"
    BY DEF B!SizeAssumption, B!FreeOf
  <2> HIDE DEF S
  <2>2. DOMAIN s = 1 .. Len(s) /\ Len(s) \in Nat /\ s = [i \in 1 .. Len(s) |-> s[i]]
    BY <2>1
  <2> QED BY <2>1, <2>2 DEF BagFresh, Array
<1>2. p.pass \in Passwords /\ p.salt \in Salts /\ p.iter \in Iters
  BY DEF B!Arguments
<1> QED BY <1>1, <1>2, BagSizes

\* A hash is not at the front of password and salt.
LEMMA BagApart ==
    ASSUME B!SizeAssumption, NEW p, BagFresh(p), NEW s, BagFresh(s),
           NEW h, NEW t, NEW l, Array(t, l)
    PROVE  p \o s # BagHash(h) \o t
<1> DEFINE n == Len(p)
           m == Len(s)
           g == BagHash(h)
           c == p \o s
           d == g \o t
           x == <<"hash", h, 1>>
<1>1. KeySize \in Nat \ {0} /\ n \in Nat /\ m \in Nat /\ l \in Nat /\ Array(p, n) /\ Array(s, m)
  BY BagSizes DEF BagFresh, Array
<1>2. Array(g, KeySize) /\ g[1] = {x} /\ x[1] = "hash"
  BY <1>1 DEF BagHash, Array
<1> SUFFICES ASSUME c = d
             PROVE  FALSE
  OBVIOUS
<1>3. /\ Len(c) = n + m
      /\ \A i \in 1 .. n : c[i] = p[i]
      /\ \A i \in 1 .. m : c[n + i] = s[i]
  <2>1. Joined(c, p, s)
    BY DEF Joined
  <2>2. Array(p, n) /\ Array(s, m)
    BY <1>1
  <2> HIDE DEF n, m, c, d, g, x
  <2> QED BY <2>1, <2>2, ArrayJoined
<1>4. Len(d) = KeySize + l /\ \A i \in 1 .. KeySize : d[i] = g[i]
  <2>1. Joined(d, g, t)
    BY DEF Joined
  <2>2. Array(g, KeySize) /\ Array(t, l)
    BY <1>2
  <2> HIDE DEF n, m, c, d, g, x
  <2> QED BY <2>1, <2>2, ArrayJoined
<1>5. /\ \A i \in 1 .. n : \A y \in p[i] : y[1] # "hash"
      /\ \A i \in 1 .. m : \A y \in s[i] : y[1] # "hash"
  BY DEF BagFresh
<1>6. c = d
  OBVIOUS
<1> HIDE DEF n, m, g, c, d, x
<1>7. d[1] = {x}
  <2>1. 1 \in 1 .. KeySize
    BY <1>1
  <2> QED BY <1>2, <1>4, <2>1
<1>8. n + m >= 1
  BY <1>1, <1>3, <1>4, <1>6
<1>9. \A y \in c[1] : y[1] # "hash"
  <2>1. CASE n >= 1
    <3>1. 1 \in 1 .. n
      BY <1>1, <2>1
    <3> QED BY <1>3, <1>5, <3>1
  <2>2. CASE n = 0
    <3>1. 1 \in 1 .. m /\ n + 1 = 1
      BY <1>1, <1>8, <2>2
    <3>2. c[1] = s[1]
      BY <1>3, <3>1
    <3> QED BY <1>5, <3>1, <3>2
  <2> QED BY <1>1, <2>1, <2>2
<1> QED BY <1>2, <1>6, <1>7, <1>9

\* What the loop makes in a turn.
LEMMA BagLink ==
    ASSUME B!SizeAssumption, NEW x, NEW p, NEW n \in Nat, BagHashed(x, p, n), NEW i \in 1 .. n
    PROVE  /\ x[i] = BagHash(B!HashInput(x[i - 1], p.salt, i))
           /\ Array(x[i], KeySize)
<1>1. x[i] = BagHash(B!HashInput(x[i - 1], p.salt, i))
  BY DEF BagHashed
<1> DEFINE h == B!HashInput(x[i - 1], p.salt, i)
<1> HIDE DEF h
<1>2. Array(BagHash(h), KeySize)
  BY BagSizes DEF BagHash, Array
<1> QED BY <1>1, <1>2 DEF h

\* Two turns that make the same are both the first or both later ones.
BagTurns(p, x, i, q, y, j) ==
    /\ i = 1 <=> j = 1
    /\ i = 1 => p.pass \o p.salt = q.pass \o q.salt
    /\ i # 1 => x[i - 1] = y[j - 1] /\ p.salt = q.salt

\* If two turns made the same hash, the turns before did, or both are the first.
LEMMA BagTurnTells ==
    ASSUME B!SizeAssumption,
           NEW p \in B!Arguments, NEW x, NEW m \in Nat, BagHashed(x, p, m), NEW i \in 1 .. m,
           NEW q \in B!Arguments, NEW y, NEW n \in Nat, BagHashed(y, q, n), NEW j \in 1 .. n,
           x[i] = y[j]
    PROVE  BagTurns(p, x, i, q, y, j)
<1> DEFINE k == Len(p.pass)
           l == Len(q.pass)
           u == Len(p.salt)
           v == Len(q.salt)
           f == x[i - 1]
           g == y[j - 1]
           s == p.salt
           t == q.salt
<1>1. Array(p.pass, k) /\ Array(q.pass, l) /\ Array(s, u) /\ Array(t, v)
  BY BagStrings DEF BagFresh
<1>2. x[0] = p.pass /\ y[0] = q.pass
  BY DEF BagHashed
<1>3. i = 1 => f = p.pass
  BY <1>2
<1>4. j = 1 => g = q.pass
  BY <1>2
<1>5. i # 1 => Array(f, KeySize) /\ f = BagHash(B!HashInput(x[(i - 1) - 1], s, i - 1))
  <2>1. i # 1 => i - 1 \in 1 .. m
    OBVIOUS
  <2> HIDE DEF s
  <2> QED BY <2>1, BagLink DEF s
<1>6. j # 1 => Array(g, KeySize) /\ g = BagHash(B!HashInput(y[(j - 1) - 1], t, j - 1))
  <2>1. j # 1 => j - 1 \in 1 .. n
    OBVIOUS
  <2> HIDE DEF t
  <2> QED BY <2>1, BagLink DEF t
<1>7. B!HashInput(f, s, i) = B!HashInput(g, t, j)
  <2>1. BagHash(B!HashInput(f, s, i)) = BagHash(B!HashInput(g, t, j))
    BY BagLink
  <2> HIDE DEF f, g, s, t
  <2> QED BY <2>1, BagHashTells
<1>8. BagFresh(p.pass) /\ BagFresh(s) /\ BagFresh(q.pass) /\ BagFresh(t)
  BY BagStrings
<1> HIDE DEF f, g, s, t, k, l, u, v
<1>9. f \o s = g \o t
  <2>1. \E a1, a2 : Array(f, a1) /\ Array(g, a2)
    BY <1>1, <1>3, <1>4, <1>5, <1>6
  <2>2. PICK a1, a2 : Array(f, a1) /\ Array(g, a2)
    BY <2>1
  <2> QED BY <1>1, <1>7, <2>2, BagInputTells
<1>10. ~(i = 1 /\ j # 1)
  <2> SUFFICES ASSUME i = 1, j # 1
               PROVE  FALSE
    OBVIOUS
  <2> DEFINE h == B!HashInput(y[(j - 1) - 1], t, j - 1)
  <2>1. g = BagHash(h) /\ f = p.pass
    BY <1>3, <1>6
  <2> HIDE DEF h
  <2>2. p.pass \o s # BagHash(h) \o t
    BY <1>1, <1>8, BagApart
  <2> QED BY <1>9, <2>1, <2>2
<1>11. ~(i # 1 /\ j = 1)
  <2> SUFFICES ASSUME i # 1, j = 1
               PROVE  FALSE
    OBVIOUS
  <2> DEFINE h == B!HashInput(x[(i - 1) - 1], s, i - 1)
  <2>1. f = BagHash(h) /\ g = q.pass
    BY <1>4, <1>5
  <2> HIDE DEF h
  <2>2. q.pass \o t # BagHash(h) \o s
    BY <1>1, <1>8, BagApart
  <2> QED BY <1>9, <2>1, <2>2
<1>12. i = 1 => p.pass \o s = q.pass \o t
  BY <1>3, <1>4, <1>9, <1>10
<1>13. i # 1 => f = g /\ s = t
  <2> SUFFICES ASSUME i # 1
               PROVE  f = g /\ s = t
    OBVIOUS
  <2>1. Array(f, KeySize) /\ Array(g, KeySize)
    BY <1>5, <1>6, <1>11
  <2> DEFINE c == f \o s
  <2>2. Joined(c, f, s) /\ Joined(c, g, t)
    BY <1>9 DEF Joined
  <2> HIDE DEF c
  <2> QED BY <1>1, <2>1, <2>2, ConcatTells
<1> QED BY <1>10, <1>11, <1>12, <1>13 DEF f, g, s, t, BagTurns

\* The loop makes the same of the same arguments.
LEMMA BagSameLinks ==
    ASSUME NEW p, NEW m \in Nat, NEW x, BagHashed(x, p, m), NEW y, BagHashed(y, p, m)
    PROVE  x[m] = y[m]
<1> DEFINE S == {d \in Nat : d <= m => x[d] = y[d]}
<1>1. 0 \in S
  BY DEF BagHashed
<1>2. ASSUME NEW d \in Nat, d \in S
      PROVE  d + 1 \in S
  <2> SUFFICES ASSUME d + 1 <= m
               PROVE  x[d + 1] = y[d + 1]
    OBVIOUS
  <2>1. x[d] = y[d] /\ d + 1 \in 1 .. m /\ (d + 1) - 1 = d
    BY <1>2
  <2>2. \A j \in 1 .. m : /\ x[j] = BagHash(B!HashInput(x[j - 1], p.salt, j))
                          /\ y[j] = BagHash(B!HashInput(y[j - 1], p.salt, j))
    BY DEF BagHashed
  <2> HIDE DEF S
  <2> DEFINE e == d + 1
  <2>3. e \in 1 .. m /\ x[e - 1] = y[e - 1]
    BY <2>1
  <2> HIDE DEF e
  <2>4. x[e] = y[e]
    BY <2>2, <2>3
  <2> QED BY <2>4 DEF e
<1>3. \A d \in Nat : d \in S
  <2> HIDE DEF S
  <2> QED BY <1>1, <1>2, CountUp
<1>4. m \in S
  <2> HIDE DEF S
  <2> QED BY <1>3
<1> QED BY <1>4

\* The keys of two passwords.
LEMMA BagKeyTells ==
    ASSUME B!SizeAssumption,
           NEW p \in B!Arguments, p.iter # 0, NEW x, BagHashed(x, p, p.iter),
           NEW q \in B!Arguments, q.iter # 0, NEW y, BagHashed(y, q, q.iter)
    PROVE  x[p.iter] = y[q.iter] <=> B!SameKey(p, q)
<1> DEFINE m == p.iter
           n == q.iter
<1>1. m \in Nat \ {0} /\ n \in Nat \ {0}
  BY BagStrings
<1>2. BagHashed(x, p, m) /\ BagHashed(y, q, n)
  OBVIOUS
<1>3. B!SameKey(p, q) <=> \/ p = q
                          \/ m = 1 /\ n = 1 /\ p.pass \o p.salt = q.pass \o q.salt
  BY DEF B!SameKey
<1>4. p = q <=> p.pass = q.pass /\ p.salt = q.salt /\ m = n
  BY DEF B!Arguments
<1> HIDE DEF m, n
<1>9. ASSUME NEW i \in 1 .. m, NEW j \in 1 .. n, x[i] = y[j]
      PROVE  /\ i = 1 <=> j = 1
             /\ i = 1 => p.pass \o p.salt = q.pass \o q.salt
             /\ i # 1 => x[i - 1] = y[j - 1] /\ p.salt = q.salt
  <2>1. m \in Nat /\ n \in Nat
    BY <1>1
  <2>2. BagTurns(p, x, i, q, y, j)
    BY <1>2, <1>9, <2>1, BagTurnTells
  <2> QED BY <2>2 DEF BagTurns
<1>5. ASSUME x[m] = y[n]
      PROVE  B!SameKey(p, q)
  <2>1. \A i \in 1 .. m : \A j \in 1 .. n : x[i] = y[j] =>
            (i = 1 <=> j = 1) /\ (i # 1 => x[i - 1] = y[j - 1])
    BY <1>9
  <2>2. m = n /\ \A i \in 1 .. m : x[i] = y[i]
    BY <1>1, <1>5, <2>1, ChainsMeet
  <2>3. 1 \in 1 .. m /\ 1 \in 1 .. n /\ x[1] = y[1] /\ m \in 1 .. m /\ n \in 1 .. n
    BY <1>1, <2>2
  <2>4. p.pass \o p.salt = q.pass \o q.salt
    BY <1>9, <2>3
  <2>5. CASE m = 1
    BY <1>3, <2>2, <2>4, <2>5
  <2>6. CASE m # 1
    <3>1. p.salt = q.salt
      BY <1>5, <1>9, <2>3, <2>6
    <3> DEFINE c == p.pass \o p.salt
    <3>2. Joined(c, p.pass, p.salt) /\ Joined(c, q.pass, q.salt)
      BY <2>4 DEF Joined
    <3> HIDE DEF c
    <3>3. Array(p.pass, Len(p.pass)) /\ Array(q.pass, Len(q.pass)) /\ Array(p.salt, Len(p.salt))
      BY BagStrings DEF BagFresh
    <3>4. Array(q.salt, Len(p.salt))
      BY <3>1, <3>3
    <3>5. p.pass = q.pass
      BY <3>2, <3>3, <3>4, ConcatTells
    <3> QED BY <1>3, <1>4, <2>2, <3>1, <3>5
  <2> QED BY <2>5, <2>6
<1>6. ASSUME p = q
      PROVE  x[m] = y[n]
  <2>1. BagHashed(y, p, m) /\ m = n
    BY <1>2, <1>4, <1>6
  <2> QED BY <1>1, <1>2, <2>1, BagSameLinks
<1>7. ASSUME m = 1, n = 1, p.pass \o p.salt = q.pass \o q.salt
      PROVE  x[m] = y[n]
  <2>1. x[1] = BagHash(B!HashInput(p.pass, p.salt, 1)) /\ y[1] = BagHash(B!HashInput(q.pass, q.salt, 1))
    <3>1. 1 \in 1 .. m /\ 1 \in 1 .. n /\ 1 - 1 = 0
      BY <1>7
    <3>2. x[0] = p.pass /\ y[0] = q.pass
      BY <1>2 DEF BagHashed
    <3>3. x[1] = BagHash(B!HashInput(x[1 - 1], p.salt, 1)) /\ y[1] = BagHash(B!HashInput(y[1 - 1], q.salt, 1))
      BY <1>2, <3>1 DEF BagHashed
    <3> QED BY <3>1, <3>2, <3>3
  <2>2. B!HashInput(p.pass, p.salt, 1) = B!HashInput(q.pass, q.salt, 1)
    BY <1>7, Zenon DEF B!HashInput
  <2> QED BY <1>7, <2>1, <2>2
<1>8. x[m] = y[n] <=> B!SameKey(p, q)
  BY <1>3, <1>5, <1>6, <1>7
<1> QED BY <1>8 DEF m, n

-----------------------------------------------------------------------------
(***************************************************************************)
(* The blocks of a buffer and their MAC.                                   *)
(***************************************************************************)

BagPart(buf, j) == [p \in 1 .. BagBlock |-> buf[(j - 1) * BagBlock + p]]
BagRow(i) == ((i - 1) \div BagBlock) + 1
BagCol(i) == ((i - 1) % BagBlock) + 1

\* Every byte has its place in a block.
LEMMA BagPlace ==
    ASSUME B!SizeAssumption, NEW w \in Nat, NEW n, n = w * BagBlock, NEW i \in 1 .. n
    PROVE  /\ BagRow(i) \in 1 .. w /\ BagCol(i) \in 1 .. BagBlock
           /\ i = (BagRow(i) - 1) * BagBlock + BagCol(i)
           /\ \A buf : buf[i] = BagPart(buf, BagRow(i))[BagCol(i)]
<1> DEFINE d == (i - 1) \div BagBlock
           e == (i - 1) % BagBlock
<1>1. BagBlock \in Nat \ {0} /\ n \in Nat
  <2>1. BagBlock \in Nat \ {0}
    BY BagSizes
  <2>2. w * BagBlock \in Nat
    BY <2>1
  <2> QED BY <2>1, <2>2
<1>2. d \in Nat /\ e \in 0 .. BagBlock - 1 /\ i - 1 = d * BagBlock + e
  <2>1. i - 1 \in Nat
    BY <1>1
  <2> QED BY <1>1, <2>1, Divided
<1>3. BagRow(i) = d + 1 /\ BagCol(i) = e + 1
  BY DEF BagRow, BagCol
<1> HIDE DEF d, e
<1>4. d < w
  <2> SUFFICES ASSUME d >= w PROVE FALSE
    BY <1>2
  <2>1. d * BagBlock >= w * BagBlock /\ d * BagBlock \in Nat
    BY <1>1, <1>2
  <2> QED BY <1>1, <1>2, <2>1
<1>5. d + 1 \in 1 .. w /\ e + 1 \in 1 .. BagBlock /\ (d + 1) - 1 = d
  BY <1>1, <1>2, <1>4
<1>6. i = ((d + 1) - 1) * BagBlock + (e + 1)
  <2>1. d * BagBlock \in Nat
    BY <1>1, <1>2
  <2> QED BY <1>2, <1>5, <2>1
<1>7. \A buf : buf[i] = BagPart(buf, d + 1)[e + 1]
  <2> SUFFICES ASSUME NEW buf
               PROVE  buf[i] = BagPart(buf, d + 1)[e + 1]
    OBVIOUS
  <2> DEFINE g == e + 1
             f == d + 1
  <2>1. g \in 1 .. BagBlock /\ i = (f - 1) * BagBlock + g
    BY <1>5, <1>6
  <2> HIDE DEF g, f
  <2>2. BagPart(buf, f)[g] = buf[(f - 1) * BagBlock + g]
    BY <2>1 DEF BagPart
  <2>3. buf[i] = BagPart(buf, f)[g]
    BY <2>1, <2>2
  <2> QED BY <2>3 DEF g, f
<1> QED BY <1>3, <1>5, <1>6, <1>7

\* and every place is that of a byte.
LEMMA BagByte ==
    ASSUME B!SizeAssumption, NEW w \in Nat, NEW n, n = w * BagBlock,
           NEW j \in 1 .. w, NEW p \in 1 .. BagBlock
    PROVE  /\ (j - 1) * BagBlock + p \in 1 .. n
           /\ BagRow((j - 1) * BagBlock + p) = j /\ BagCol((j - 1) * BagBlock + p) = p
<1> DEFINE v == (j - 1) * BagBlock
           r == p - 1
           k == j - 1
<1>1. BagBlock \in Nat \ {0} /\ k \in Nat /\ r \in 0 .. BagBlock - 1
  BY BagSizes
<1>2. v \in Nat /\ v + BagBlock <= n
  <2>1. j * BagBlock = v + BagBlock /\ v \in Nat
    BY <1>1
  <2>2. j * BagBlock <= w * BagBlock
    BY <1>1
  <2> QED BY <2>1, <2>2
<1>3. (k * BagBlock + r) % BagBlock = r /\ (k * BagBlock + r) \div BagBlock = k
  <2> HIDE DEF k, r
  <2> QED BY <1>1, Quotient
<1>4. v = k * BagBlock
  OBVIOUS
<1>5. (v + p) - 1 = k * BagBlock + r
  <2> HIDE DEF v
  <2> QED BY <1>2, <1>4
<1>6. BagRow(v + p) = k + 1 /\ BagCol(v + p) = r + 1
  BY <1>3, <1>5 DEF BagRow, BagCol
<1>7. v + p \in 1 .. n /\ k + 1 = j /\ r + 1 = p
  <2> HIDE DEF v
  <2>1. n \in Int
    <3>1. w * BagBlock \in Nat
      BY <1>1
    <3> QED BY <3>1
  <2> QED BY <1>1, <1>2, <2>1
<1> QED BY <1>6, <1>7

\* The parts of a buffer are its blocks.
LEMMA BagBlockIs ==
    ASSUME B!SizeAssumption, NEW buf, NEW n, Array(buf, n), NEW w \in Nat, n = w * BagBlock,
           NEW j \in 1 .. w
    PROVE  B!Block(buf, j) = BagPart(buf, j)
<1> DEFINE o == (j - 1) * BagBlock
<1>1. BagBlock \in Nat
  BY BagSizes
<1>2. o \in Nat /\ o + BagBlock <= n /\ j * BagBlock = o + BagBlock
  <2>1. j * BagBlock = o + BagBlock /\ o \in Nat
    BY <1>1
  <2>2. j * BagBlock <= w * BagBlock
    BY <1>1
  <2> QED BY <2>1, <2>2
<1>3. B!Block(buf, j) = SubSeq(buf, o + 1, o + BagBlock)
  BY <1>2 DEF B!Block
<1>4. BagPart(buf, j) = [p \in 1 .. BagBlock |-> buf[o + p]]
  BY DEF BagPart
<1> HIDE DEF o
<1> QED BY <1>1, <1>2, <1>3, <1>4, ArrayCut

\* Two buffers with the same blocks are one.
LEMMA BagParts ==
    ASSUME B!SizeAssumption, NEW s, NEW t, NEW n, Array(s, n), Array(t, n),
           NEW w \in Nat, n = w * BagBlock, \A j \in 1 .. w : BagPart(s, j) = BagPart(t, j)
    PROVE  s = t
<1>1. ASSUME NEW i \in 1 .. n
      PROVE  s[i] = t[i]
  <2>1. BagRow(i) \in 1 .. w /\ \A buf : buf[i] = BagPart(buf, BagRow(i))[BagCol(i)]
    BY BagPlace
  <2>2. BagPart(s, BagRow(i)) = BagPart(t, BagRow(i))
    BY <2>1
  <2>3. s[i] = BagPart(s, BagRow(i))[BagCol(i)] /\ t[i] = BagPart(t, BagRow(i))[BagCol(i)]
    BY <2>1
  <2> QED BY <2>2, <2>3
<1> QED BY <1>1, ArrayEqual

BagMac(links, ke, buf, w) ==
    /\ links[0] = B!Ukm
    /\ \A j \in 1 .. w :
           links[j] = Rounds(BagBlock, ke, BlockSum(BagBlock, links[j - 1], BagPart(buf, j)))

\* There is a chain over any blocks.
LEMMA BagMacExists ==
    ASSUME NEW ke, NEW buf, NEW w \in Nat
    PROVE  \E links : BagMac(links, ke, buf, w)
<1> DEFINE S == {k \in Nat : \E links : BagMac(links, ke, buf, k)}
<1>1. 0 \in S
  <2> DEFINE f == [j \in 0 .. 0 |-> B!Ukm]
  <2>1. f[0] = B!Ukm
    OBVIOUS
  <2> HIDE DEF f
  <2>2. BagMac(f, ke, buf, 0)
    BY <2>1 DEF BagMac
  <2> QED BY <2>2
<1>2. ASSUME NEW k \in Nat, k \in S
      PROVE  k + 1 \in S
  <2>1. PICK g : BagMac(g, ke, buf, k)
    BY <1>2
  <2> DEFINE made == Rounds(BagBlock, ke, BlockSum(BagBlock, g[k], BagPart(buf, k + 1)))
             f == [j \in 0 .. k + 1 |-> IF j <= k THEN g[j] ELSE made]
  <2>2. (\A j \in 0 .. k : f[j] = g[j]) /\ f[k + 1] = made
    <3> HIDE DEF made
    <3> QED OBVIOUS
  <2> HIDE DEF f
  <2>3. ASSUME NEW j \in 1 .. k + 1
        PROVE  f[j] = Rounds(BagBlock, ke, BlockSum(BagBlock, f[j - 1], BagPart(buf, j)))
    <3>1. j - 1 \in 0 .. k /\ f[j - 1] = g[j - 1]
      BY <2>2
    <3>2. CASE j = k + 1
      <4>1. j - 1 = k
        BY <3>2
      <4> QED BY <2>2, <3>1, <3>2, <4>1
    <3>3. CASE j # k + 1
      <4>1. j \in 1 .. k /\ j \in 0 .. k
        BY <3>3
      <4>2. g[j] = Rounds(BagBlock, ke, BlockSum(BagBlock, g[j - 1], BagPart(buf, j)))
        BY <2>1, <4>1 DEF BagMac
      <4> QED BY <2>2, <3>1, <4>1, <4>2
    <3> QED BY <3>2, <3>3
  <2>4. f[0] = B!Ukm
    BY <2>1, <2>2 DEF BagMac
  <2>5. BagMac(f, ke, buf, k + 1)
    BY <2>3, <2>4 DEF BagMac
  <2> QED BY <2>5
<1>3. \A k \in Nat : k \in S
  <2> HIDE DEF S
  <2> QED BY <1>1, <1>2, CountUp
<1> QED BY <1>3

\* The ukm is a block that rounds have not made.
LEMMA BagUkm ==
    ASSUME B!SizeAssumption
    PROVE  /\ Array(B!Ukm, BagBlock)
           /\ \A p \in 1 .. BagBlock : \A x \in B!Ukm[p] : x[1] # "rounds"
<1>1. B!Ukm = [p \in 1 .. BagBlock |-> {<<"ukm", 0, p>>}] /\ BagBlock \in Nat
  BY BagSizes DEF B!Ukm, B!BytesOf, B!Atom
<1> QED BY <1>1 DEF Array

\* A link is made of the sum of the link before and a block.
LEMMA BagLinked ==
    ASSUME B!SizeAssumption, NEW ke, NEW s, Array(s, BagBlock),
           NEW buf, NEW n, Array(buf, n), NEW w \in Nat, n = w * BagBlock, NEW j \in 1 .. w
    PROVE  B!BytesOf("rounds", <<ke, B!XorBytes(s, B!Block(buf, j))>>, BagBlock)
             = Rounds(BagBlock, ke, BlockSum(BagBlock, s, BagPart(buf, j)))
<1> DEFINE t == B!Block(buf, j)
<1>1. t = BagPart(buf, j)
  BY BagBlockIs
<1>2. Len(s) = BagBlock
  BY ArrayLen
<1> HIDE DEF t
<1>3. B!XorBytes(s, t) = BlockSum(BagBlock, s, t)
  BY <1>2, Zenon DEF B!XorBytes, BlockSum, B!Xor, Xor
<1> DEFINE u == B!XorBytes(s, t)
<1> HIDE DEF u
<1>4. B!BytesOf("rounds", <<ke, u>>, BagBlock) = Rounds(BagBlock, ke, u)
  BY DEF B!BytesOf, B!Atom, Rounds
<1> QED BY <1>1, <1>3, <1>4 DEF t, u

\* The MAC of the code is the end of such a chain.
LEMMA BagMacIs ==
    ASSUME B!SizeAssumption, NEW ke, NEW buf, NEW n, Array(buf, n), NEW w \in Nat, n = w * BagBlock
    PROVE  \E links : BagMac(links, ke, buf, w) /\ B!gost28147_mac4(ke, B!Ukm, buf) = links[w]
<1>1. BagBlock \in Nat \ {0} /\ Len(buf) = n
  BY BagSizes, ArrayLen
<1>2. Len(buf) \div BagBlock = w
  <2> DEFINE z == 0
  <2>1. z \in 0 .. BagBlock - 1
    BY <1>1
  <2> HIDE DEF z
  <2>2. (w * BagBlock + z) \div BagBlock = w
    BY <1>1, <2>1, Quotient
  <2>3. w * BagBlock \in Nat
    BY <1>1
  <2>4. w * BagBlock + z = w * BagBlock
    BY <2>3 DEF z
  <2> QED BY <1>1, <2>2, <2>4
<1> DEFINE Loop(f) == [j \in 0 .. w |->
               IF j = 0 THEN B!Ukm
               ELSE B!BytesOf("rounds", <<ke, B!XorBytes(f[j - 1], B!Block(buf, j))>>, BagBlock)]
           chain == CHOOSE f : f = Loop(f)
<1>3. B!gost28147_mac4(ke, B!Ukm, buf) = chain[w]
  BY <1>2, Zenon DEF B!gost28147_mac4
<1>4. PICK g : BagMac(g, ke, buf, w)
  BY BagMacExists
<1> DEFINE f == [j \in 0 .. w |-> g[j]]
<1>5. ASSUME NEW j \in 1 .. w
      PROVE  /\ j - 1 \in 0 .. w /\ j \in 0 .. w /\ j # 0
             /\ g[j] = B!BytesOf("rounds", <<ke, B!XorBytes(g[j - 1], B!Block(buf, j))>>, BagBlock)
  <2>1. j - 1 \in 0 .. w /\ j \in 0 .. w /\ j # 0
    OBVIOUS
  <2>2. Array(g[j - 1], BagBlock)
    <3>1. CASE j = 1
      BY <1>4, <3>1, BagUkm DEF BagMac
    <3>2. CASE j # 1
      <4>1. j - 1 \in 1 .. w
        BY <3>2
      <4> DEFINE x == BlockSum(BagBlock, g[(j - 1) - 1], BagPart(buf, j - 1))
      <4>2. g[j - 1] = Rounds(BagBlock, ke, x)
        BY <1>4, <4>1 DEF BagMac
      <4> HIDE DEF x
      <4> QED BY <1>1, <4>2, RoundsArray
    <3> QED BY <3>1, <3>2
  <2>3. g[j] = Rounds(BagBlock, ke, BlockSum(BagBlock, g[j - 1], BagPart(buf, j)))
    BY <1>4 DEF BagMac
  <2> DEFINE s == g[j - 1]
  <2> HIDE DEF s
  <2>4. B!BytesOf("rounds", <<ke, B!XorBytes(s, B!Block(buf, j))>>, BagBlock)
          = Rounds(BagBlock, ke, BlockSum(BagBlock, s, BagPart(buf, j)))
    <3>1. Array(s, BagBlock)
      BY <2>2 DEF s
    <3> QED BY <3>1, BagLinked
  <2> QED BY <2>1, <2>3, <2>4 DEF s
<1>6. f = Loop(f)
  <2>1. ASSUME NEW j \in 0 .. w
        PROVE  f[j] = Loop(f)[j]
    <3>1. CASE j = 0
      <4>1. g[0] = B!Ukm
        BY <1>4 DEF BagMac
      <4> QED BY <3>1, <4>1
    <3>2. CASE j # 0
      <4>1. j \in 1 .. w
        BY <3>2
      <4>2. /\ j - 1 \in 0 .. w
            /\ g[j] = B!BytesOf("rounds", <<ke, B!XorBytes(g[j - 1], B!Block(buf, j))>>, BagBlock)
        BY <1>5, <4>1
      <4>3. f[j - 1] = g[j - 1] /\ f[j] = g[j]
        BY <4>2
      <4>4. Loop(f)[j] = B!BytesOf("rounds", <<ke, B!XorBytes(f[j - 1], B!Block(buf, j))>>, BagBlock)
        <5> HIDE DEF f
        <5> QED BY <3>2
      <4> HIDE DEF f, Loop
      <4> QED BY <4>2, <4>3, <4>4
    <3> QED BY <3>1, <3>2
  <2>2. f = [j \in 0 .. w |-> f[j]] /\ Loop(f) = [j \in 0 .. w |-> Loop(f)[j]]
    OBVIOUS
  <2> DEFINE h == Loop(f)
  <2>3. \A j \in 0 .. w : f[j] = h[j]
    BY <2>1
  <2>4. f = [j \in 0 .. w |-> f[j]] /\ h = [j \in 0 .. w |-> h[j]]
    BY <2>2
  <2> HIDE DEF f, h
  <2>5. f = h
    BY <2>3, <2>4
  <2> QED BY <2>5 DEF h
<1>7. chain = Loop(chain)
  <2> HIDE DEF Loop, f
  <2> QED BY <1>6
<1> HIDE DEF chain
<1>8. chain[0] = B!Ukm
  <2>1. Loop(chain)[0] = B!Ukm
    OBVIOUS
  <2> HIDE DEF Loop
  <2> QED BY <1>7, <2>1
<1>9. ASSUME NEW j \in 1 .. w
      PROVE  chain[j] = B!BytesOf("rounds", <<ke, B!XorBytes(chain[j - 1], B!Block(buf, j))>>, BagBlock)
  <2>1. j \in 0 .. w /\ j # 0
    OBVIOUS
  <2>2. Loop(chain)[j] = B!BytesOf("rounds", <<ke, B!XorBytes(chain[j - 1], B!Block(buf, j))>>, BagBlock)
    BY <2>1
  <2> HIDE DEF Loop
  <2> QED BY <1>7, <2>2
<1> HIDE DEF Loop
<1>10. ASSUME NEW j \in 0 .. w
       PROVE  Array(chain[j], BagBlock)
  <2>1. CASE j = 0
    BY <1>8, <2>1, BagUkm
  <2>2. CASE j # 0
    <3>1. j \in 1 .. w
      BY <2>2
    <3> DEFINE x == <<ke, B!XorBytes(chain[j - 1], B!Block(buf, j))>>
    <3>2. chain[j] = B!BytesOf("rounds", x, BagBlock)
      BY <1>9, <3>1
    <3> HIDE DEF x
    <3>3. Array(B!BytesOf("rounds", x, BagBlock), BagBlock)
      BY <1>1 DEF B!BytesOf, Array
    <3> QED BY <3>2, <3>3
  <2> QED BY <2>1, <2>2
<1>11. ASSUME NEW j \in 1 .. w
       PROVE  chain[j] = Rounds(BagBlock, ke, BlockSum(BagBlock, chain[j - 1], BagPart(buf, j)))
  <2> DEFINE s == chain[j - 1]
  <2>1. Array(s, BagBlock)
    BY <1>10, j - 1 \in 0 .. w
  <2>2. chain[j] = B!BytesOf("rounds", <<ke, B!XorBytes(s, B!Block(buf, j))>>, BagBlock)
    BY <1>9
  <2> HIDE DEF s
  <2>3. B!BytesOf("rounds", <<ke, B!XorBytes(s, B!Block(buf, j))>>, BagBlock)
          = Rounds(BagBlock, ke, BlockSum(BagBlock, s, BagPart(buf, j)))
    BY <2>1, BagLinked
  <2> QED BY <2>2, <2>3 DEF s
<1>12. BagMac(chain, ke, buf, w)
  BY <1>8, <1>11 DEF BagMac
<1> QED BY <1>3, <1>12

\* No byte of a buffer is made by rounds.
BagFree(buf, n) == \A i \in 1 .. n : \A x \in buf[i] : x[1] # "rounds"

\* Two MACs are the same exactly for one key and one text.
LEMMA BagMacTells ==
    ASSUME B!SizeAssumption, NEW w \in Nat \ {0}, NEW n, n = w * BagBlock,
           NEW k, NEW s, Array(s, n), BagFree(s, n),
           NEW l, NEW t, Array(t, n), BagFree(t, n),
           B!gost28147_mac4(k, B!Ukm, s) = B!gost28147_mac4(l, B!Ukm, t)
    PROVE  k = l /\ s = t
<1>1. PICK x : BagMac(x, k, s, w) /\ B!gost28147_mac4(k, B!Ukm, s) = x[w]
  BY BagMacIs
<1>2. PICK y : BagMac(y, l, t, w) /\ B!gost28147_mac4(l, B!Ukm, t) = y[w]
  BY BagMacIs
<1>3. x[w] = y[w] /\ BagBlock \in Nat \ {0}
  BY <1>1, <1>2, BagSizes
<1> DEFINE fed(z, buf, j) == BlockSum(BagBlock, z[j - 1], BagPart(buf, j))
<1>4. ASSUME NEW j \in 1 .. w
      PROVE  x[j] = Rounds(BagBlock, k, fed(x, s, j)) /\ y[j] = Rounds(BagBlock, l, fed(y, t, j))
  BY <1>1, <1>2 DEF BagMac
<1>5. ASSUME NEW j \in 1 .. w, NEW p \in 1 .. BagBlock
      PROVE  /\ \A e \in BagPart(s, j)[p] : e[1] # "rounds"
             /\ \A e \in BagPart(t, j)[p] : e[1] # "rounds"
  <2> DEFINE q == (j - 1) * BagBlock + p
  <2>1. q \in 1 .. n
    BY BagByte
  <2>2. BagPart(s, j)[p] = s[q] /\ BagPart(t, j)[p] = t[q]
    BY DEF BagPart
  <2> HIDE DEF q
  <2> QED BY <2>1, <2>2 DEF BagFree
<1>6. k = l
  <2> DEFINE f == fed(x, s, w)
             g == fed(y, t, w)
  <2>1. Rounds(BagBlock, k, f) = Rounds(BagBlock, l, g)
    BY <1>3, <1>4
  <2> HIDE DEF f, g
  <2> QED BY <1>3, <2>1, RoundsTell
<1>7. ASSUME NEW i \in 1 .. w, NEW j \in 1 .. w, x[i] = y[j]
      PROVE  /\ i = 1 <=> j = 1
             /\ i # 1 => x[i - 1] = y[j - 1]
             /\ i = j => BagPart(s, i) = BagPart(t, j)
  <2> DEFINE f == fed(x, s, i)
             g == fed(y, t, j)
             u == BagPart(s, i)
             v == BagPart(t, j)
             c == x[i - 1]
             d == y[j - 1]
  <2>1. f = g
    <3>1. Rounds(BagBlock, k, f) = Rounds(BagBlock, l, g)
      BY <1>4, <1>7
    <3> HIDE DEF f, g
    <3> QED BY <1>3, <3>1, RoundsTell
  <2>2. BlockSum(BagBlock, c, u) = BlockSum(BagBlock, d, v)
    BY <2>1
  <2>3. /\ \A p \in 1 .. BagBlock : \A e \in u[p] : e[1] # "rounds"
        /\ \A p \in 1 .. BagBlock : \A e \in v[p] : e[1] # "rounds"
    BY <1>5
  <2>4. u = [p \in 1 .. BagBlock |-> u[p]] /\ v = [p \in 1 .. BagBlock |-> v[p]]
    BY DEF BagPart
  <2>5. i # 1 => c = Rounds(BagBlock, k, fed(x, s, i - 1))
    <3>1. i # 1 => i - 1 \in 1 .. w
      OBVIOUS
    <3> HIDE DEF fed
    <3> QED BY <1>4, <3>1
  <2>6. j # 1 => d = Rounds(BagBlock, l, fed(y, t, j - 1))
    <3>1. j # 1 => j - 1 \in 1 .. w
      OBVIOUS
    <3> HIDE DEF fed
    <3> QED BY <1>4, <3>1
  <2>7. (i = 1 => c = B!Ukm) /\ (j = 1 => d = B!Ukm)
    <3>1. x[0] = B!Ukm /\ y[0] = B!Ukm /\ 1 - 1 = 0
      BY <1>1, <1>2 DEF BagMac
    <3> QED BY <3>1
  <2> DEFINE fx == fed(x, s, i - 1)
             fy == fed(y, t, j - 1)
  <2> HIDE DEF c, d, u, v, f, g
  <2>8. (i # 1 => c = Rounds(BagBlock, k, fx)) /\ (j # 1 => d = Rounds(BagBlock, l, fy))
    BY <2>5, <2>6
  <2> HIDE DEF fx, fy, fed
  <2>9. CASE i = 1 /\ j = 1
    <3>1. ASSUME NEW p \in 1 .. BagBlock
          PROVE  u[p] = v[p]
      <4>1. BlockSum(BagBlock, c, u)[p] = Xor(c[p], u[p]) /\ BlockSum(BagBlock, d, v)[p] = Xor(d[p], v[p])
        BY DEF BlockSum
      <4>2. Xor(c[p], u[p]) = Xor(c[p], v[p])
        BY <2>2, <2>7, <2>9, <4>1
      <4> DEFINE c1 == c[p]
                 u1 == u[p]
                 v1 == v[p]
      <4>3. Xor(c1, u1) = Xor(c1, v1)
        BY <4>2
      <4> HIDE DEF c1, u1, v1
      <4>4. u1 = v1
        BY <4>3 DEF Xor
      <4> QED BY <4>4 DEF u1, v1
    <3>2. u = v
      BY <2>4, <3>1
    <3> QED BY <2>9, <3>2 DEF u, v
  <2>10. CASE i = 1 /\ j # 1
    <3> DEFINE h == BlockSum(BagBlock, c, u)
    <3>1. h = BlockSum(BagBlock, Rounds(BagBlock, l, fy), v)
      BY <2>2, <2>8, <2>10
    <3>2. 1 \in 1 .. BagBlock
      BY <1>3
    <3>3. h[1] = Xor(B!Ukm[1], u[1])
      BY <2>7, <2>10, <3>2 DEF BlockSum
    <3>4. \A e \in h[1] : e[1] # "rounds"
      <4>1. \A e \in B!Ukm[1] : e[1] # "rounds"
        BY <3>2, BagUkm
      <4>2. \A e \in u[1] : e[1] # "rounds"
        BY <2>3, <3>2
      <4> QED BY <3>3, <4>1, <4>2 DEF Xor
    <3>5. \A e \in v[1] : e[1] # "rounds"
      BY <2>3, <3>2
    <3> HIDE DEF h
    <3>6. BlockSum(BagBlock, Rounds(BagBlock, l, fy), v) # h
      BY <1>3, <3>4, <3>5, SumIsMade
    <3> QED BY <3>1, <3>6
  <2>11. CASE i # 1 /\ j = 1
    <3> DEFINE h == BlockSum(BagBlock, d, v)
    <3>1. h = BlockSum(BagBlock, Rounds(BagBlock, k, fx), u)
      BY <2>2, <2>8, <2>11
    <3>2. 1 \in 1 .. BagBlock
      BY <1>3
    <3>3. h[1] = Xor(B!Ukm[1], v[1])
      BY <2>7, <2>11, <3>2 DEF BlockSum
    <3>4. \A e \in h[1] : e[1] # "rounds"
      <4>1. \A e \in B!Ukm[1] : e[1] # "rounds"
        BY <3>2, BagUkm
      <4>2. \A e \in v[1] : e[1] # "rounds"
        BY <2>3, <3>2
      <4> QED BY <3>3, <4>1, <4>2 DEF Xor
    <3>5. \A e \in u[1] : e[1] # "rounds"
      BY <2>3, <3>2
    <3> HIDE DEF h
    <3>6. BlockSum(BagBlock, Rounds(BagBlock, k, fx), u) # h
      BY <1>3, <3>4, <3>5, SumIsMade
    <3> QED BY <3>1, <3>6
  <2>12. CASE i # 1 /\ j # 1
    <3>1. BlockSum(BagBlock, Rounds(BagBlock, k, fx), u) = BlockSum(BagBlock, Rounds(BagBlock, l, fy), v)
      BY <2>2, <2>8, <2>12
    <3>2. Rounds(BagBlock, k, fx) = Rounds(BagBlock, l, fy) /\ \A p \in 1 .. BagBlock : u[p] = v[p]
      BY <2>3, <3>1, SumTells
    <3>3. u = v
      BY <2>4, <3>2
    <3> QED BY <2>8, <2>12, <3>2, <3>3 DEF c, d, u, v
  <2> QED BY <2>9, <2>10, <2>11, <2>12
<1>8. \A i \in 1 .. w : x[i] = y[i]
  <2>1. \A i \in 1 .. w : \A j \in 1 .. w : x[i] = y[j] =>
            (i = 1 <=> j = 1) /\ (i # 1 => x[i - 1] = y[j - 1])
    BY <1>7
  <2> QED BY <1>3, <2>1, ChainsMeet
<1>9. \A j \in 1 .. w : BagPart(s, j) = BagPart(t, j)
  BY <1>7, <1>8
<1>10. s = t
  BY <1>9, BagParts
<1> QED BY <1>6, <1>10

-----------------------------------------------------------------------------
(***************************************************************************)
(* The cipher of a block.                                                  *)
(***************************************************************************)

BagE(ke, block) == [p \in 1 .. BagBlock |-> {<<"E", <<ke, block>>, p>>}]
BagD(ke, block) == [p \in 1 .. BagBlock |-> {<<"D", <<ke, block>>, p>>}]

\* What the cipher of the model makes of a block.
LEMMA BagEncrypts ==
    ASSUME NEW ke, NEW block
    PROVE  B!encrypt_raw(ke, block) = BagE(ke, block)
BY DEF B!encrypt_raw, B!BytesOf, B!Atom, BagE

\* With its key an encrypted block comes back, with another one something else.
LEMMA BagDecrypts ==
    ASSUME B!SizeAssumption, NEW k, NEW l, NEW block
    PROVE  B!decrypt_raw(k, BagE(l, block)) = IF k = l THEN block ELSE BagD(k, BagE(l, block))
<1> DEFINE c == BagE(l, block)
           x == <<"E", <<l, block>>, 1>>
           made == {e[2][2] : e \in {e \in c[1] : e[1] = "E" /\ e[2][1] = k}}
<1>1. c[1] = {x}
  <2>1. 1 \in 1 .. BagBlock
    BY BagSizes
  <2> QED BY <2>1 DEF BagE
<1>2. x[1] = "E" /\ x[2][1] = l /\ x[2][2] = block
  OBVIOUS
<1>3. B!decrypt_raw(k, c) = IF \E y \in made : c = B!encrypt_raw(k, y)
                            THEN CHOOSE y \in made : c = B!encrypt_raw(k, y)
                            ELSE B!BytesOf("D", <<k, c>>, BagBlock)
  BY Zenon DEF B!decrypt_raw
<1> HIDE DEF c, x
<1>4. CASE k = l
  <2>1. made = {block}
    BY <1>1, <1>2, <1>4
  <2> HIDE DEF made
  <2>2. c = B!encrypt_raw(k, block)
    BY <1>4, BagEncrypts DEF c
  <2>3. (CHOOSE y \in made : c = B!encrypt_raw(k, y)) = block
    BY <2>1, <2>2
  <2>4. \E y \in made : c = B!encrypt_raw(k, y)
    BY <2>1, <2>2
  <2>5. B!decrypt_raw(k, c) = block
    BY <1>3, <2>3, <2>4
  <2> QED BY <1>4, <2>5 DEF c
<1>5. CASE k # l
  <2>1. made = {}
    <3>1. \A e \in c[1] : e[2][1] # k
      BY <1>1, <1>2, <1>5
    <3> QED BY <3>1
  <2> HIDE DEF made
  <2>2. B!decrypt_raw(k, c) = B!BytesOf("D", <<k, c>>, BagBlock)
    BY <1>3, <2>1
  <2>3. B!BytesOf("D", <<k, c>>, BagBlock) = BagD(k, c)
    BY DEF B!BytesOf, B!Atom, BagD
  <2> QED BY <1>5, <2>2, <2>3 DEF c
<1> QED BY <1>4, <1>5

\* A block with a wrong byte is not an encrypted one.
LEMMA BagSpoils ==
    ASSUME NEW k, NEW c, NEW p \in 1 .. BagBlock, NEW e, e \in c[p], e[1] # "E"
    PROVE  B!decrypt_raw(k, c) = BagD(k, c)
<1> DEFINE made == {f[2][2] : f \in {f \in c[1] : f[1] = "E" /\ f[2][1] = k}}
<1>1. B!decrypt_raw(k, c) = IF \E y \in made : c = B!encrypt_raw(k, y)
                            THEN CHOOSE y \in made : c = B!encrypt_raw(k, y)
                            ELSE B!BytesOf("D", <<k, c>>, BagBlock)
  BY Zenon DEF B!decrypt_raw
<1> HIDE DEF made
<1>2. ASSUME NEW y, c = B!encrypt_raw(k, y)
      PROVE  FALSE
  <2>1. c[p] = {<<"E", <<k, y>>, p>>}
    BY <1>2, BagEncrypts DEF BagE
  <2>2. e = <<"E", <<k, y>>, p>>
    BY <2>1
  <2> QED BY <2>2
<1>3. B!decrypt_raw(k, c) = B!BytesOf("D", <<k, c>>, BagBlock)
  BY <1>1, <1>2
<1> QED BY <1>3 DEF B!BytesOf, B!Atom, BagD

-----------------------------------------------------------------------------
(***************************************************************************)
(* The calls.  A bag that was wrapped has w blocks, n bytes.               *)
(***************************************************************************)

BagKe(c) == B!kdf_tree(c, B!Ukm)

\* A key is that of a password, a salt and a number of iterations.
BagKeyOf(p, c) ==
    /\ p \in B!Arguments /\ p.iter # 0
    /\ \E links : BagHashed(links, p, p.iter) /\ c = links[p.iter]

BagWrapped(c, w, n) ==
    /\ w \in Nat \ {0} /\ n = w * BagBlock
    /\ BagKeyOf(c.args, c.cur)
    /\ c.inplace \in BOOLEAN
    /\ c.raw = B!Raw(n) /\ Array(c.out, n)
    /\ \A j \in 1 .. n :
           c.out[j] = {<<"E", <<BagKe(c.cur), BagPart(c.raw, BagRow(j))>>, BagCol(j)>>}
    /\ c.mac = B!gost28147_mac4(BagKe(c.cur), B!Ukm, IF c.inplace THEN c.out ELSE c.raw)

\* What the receiver has made of s with the key c.
BagUnwrapped(p, c, s, o, m) ==
    /\ BagKeyOf(p, c)
    /\ Array(o, Len(s))
    /\ \A j \in 1 .. Len(s) : o[j] = B!decrypt_raw(BagKe(c), BagPart(s, BagRow(j)))[BagCol(j)]
    /\ m = B!gost28147_mac4(BagKe(c), B!Ukm, o)

\* The keys of a tree tell what they are made of.
LEMMA BagKeTells ==
    ASSUME NEW c, NEW d
    PROVE  BagKe(c) = BagKe(d) <=> c = d
BY DEF BagKe, B!kdf_tree

\* The key that is wrapped.
LEMMA BagRaw ==
    ASSUME NEW n \in Nat
    PROVE  Array(B!Raw(n), n) /\ \A j \in 1 .. n : B!Raw(n)[j] = {<<"key", 0, j>>}
BY DEF B!Raw, B!BytesOf, B!Atom, Array

\* A bag has as many bytes as its blocks.
LEMMA BagSize ==
    ASSUME B!SizeAssumption, NEW c, NEW w, NEW n, BagWrapped(c, w, n)
    PROVE  /\ w \in Nat \ {0} /\ n \in Nat \ {0} /\ n = w * BagBlock
           /\ Array(c.out, n) /\ Len(c.out) = n /\ Array(c.raw, n)
<1>1. w \in Nat \ {0} /\ n = w * BagBlock /\ Array(c.out, n) /\ c.raw = B!Raw(n)
  BY DEF BagWrapped
<1>2. n \in Nat \ {0}
  <2>1. BagBlock \in Nat \ {0}
    BY BagSizes
  <2> QED BY <1>1, <2>1
<1> QED BY <1>1, <1>2, BagRaw, ArrayLen

\* The blocks of a bag.
LEMMA BagWrappedBlock ==
    ASSUME B!SizeAssumption, NEW c, NEW w, NEW n, BagWrapped(c, w, n), NEW j \in 1 .. w
    PROVE  BagPart(c.out, j) = BagE(BagKe(c.cur), BagPart(c.raw, j))
<1>1. w \in Nat /\ n = w * BagBlock
  BY DEF BagWrapped
<1>2. ASSUME NEW p \in 1 .. BagBlock
      PROVE  BagPart(c.out, j)[p] = BagE(BagKe(c.cur), BagPart(c.raw, j))[p]
  <2> DEFINE q == (j - 1) * BagBlock + p
  <2>1. q \in 1 .. n /\ BagRow(q) = j /\ BagCol(q) = p
    BY <1>1, BagByte
  <2>2. BagPart(c.out, j)[p] = c.out[q]
    BY DEF BagPart
  <2> HIDE DEF q
  <2>3. c.out[q] = {<<"E", <<BagKe(c.cur), BagPart(c.raw, j)>>, p>>}
    BY <2>1 DEF BagWrapped
  <2>4. BagE(BagKe(c.cur), BagPart(c.raw, j))[p] = {<<"E", <<BagKe(c.cur), BagPart(c.raw, j)>>, p>>}
    BY DEF BagE
  <2> QED BY <2>2, <2>3, <2>4
<1> DEFINE f == BagPart(c.out, j)
           g == BagE(BagKe(c.cur), BagPart(c.raw, j))
<1>3. f = [p \in 1 .. BagBlock |-> f[p]] /\ g = [p \in 1 .. BagBlock |-> g[p]]
  BY DEF BagPart, BagE
<1>4. \A p \in 1 .. BagBlock : f[p] = g[p]
  BY <1>2
<1> HIDE DEF f, g
<1>5. f = g
  BY <1>3, <1>4
<1> QED BY <1>5 DEF f, g

BagError == <<"error", 0, 0>>

\* What arrives is as long, and a block of it is right or has the wrong byte.
LEMMA BagArrives ==
    ASSUME B!SizeAssumption, NEW w, NEW n, BagWrapped(sealed, w, n), NEW s \in B!Arriving
    PROVE  /\ Array(s, n) /\ Len(s) = n
           /\ \A j \in 1 .. w : \/ BagPart(s, j) = BagPart(sealed.out, j)
                                \/ \E p \in 1 .. BagBlock : BagError \in BagPart(s, j)[p]
<1> DEFINE o == sealed.out
<1>1. w \in Nat \ {0} /\ n \in Nat /\ n = w * BagBlock /\ Array(o, n) /\ Len(o) = n
  BY BagSize
<1>2. CASE s = o
  BY <1>1, <1>2
<1>3. CASE s # o
  <2>1. PICK k \in 1 .. n : s = [o EXCEPT ![k] = Xor(@, {BagError})]
    <3>1. PICK k \in 1 .. Len(o) : s = [o EXCEPT ![k] = Xor(@, {BagError})]
      BY <1>3, Zenon DEF B!Arriving, B!Atom, B!Xor, Xor, BagError
    <3> QED BY <1>1, <3>1
  <2>2. \A i \in 1 .. n : s[i] = IF i = k THEN Xor(o[k], {BagError}) ELSE o[i]
    BY <1>1, <2>1 DEF Array
  <2>3. Array(s, n)
    BY <1>1, <2>1 DEF Array
  <2>4. BagError \in s[k]
    <3>1. o[k] = {<<"E", <<BagKe(sealed.cur), BagPart(sealed.raw, BagRow(k))>>, BagCol(k)>>}
      BY DEF BagWrapped
    <3> DEFINE x == <<"E", <<BagKe(sealed.cur), BagPart(sealed.raw, BagRow(k))>>, BagCol(k)>>
    <3>2. x # BagError
      BY DEF BagError
    <3> HIDE DEF x
    <3>3. o[k] = {x}
      BY <3>1 DEF x
    <3>4. s[k] = Xor({x}, {BagError})
      BY <2>2, <3>3
    <3> QED BY <3>2, <3>4 DEF Xor
  <2>5. ASSUME NEW j \in 1 .. w
        PROVE  \/ BagPart(s, j) = BagPart(o, j)
               \/ \E p \in 1 .. BagBlock : BagError \in BagPart(s, j)[p]
    <3>1. CASE j = BagRow(k)
      <4>1. BagCol(k) \in 1 .. BagBlock /\ s[k] = BagPart(s, BagRow(k))[BagCol(k)]
        BY <1>1, BagPlace
      <4> QED BY <2>4, <3>1, <4>1
    <3>2. CASE j # BagRow(k)
      <4>1. ASSUME NEW p \in 1 .. BagBlock
            PROVE  s[(j - 1) * BagBlock + p] = o[(j - 1) * BagBlock + p]
        <5> DEFINE q == (j - 1) * BagBlock + p
        <5>1. q \in 1 .. n /\ BagRow(q) = j
          BY <1>1, BagByte
        <5>2. q # k
          BY <3>2, <5>1
        <5> HIDE DEF q
        <5>3. s[q] = o[q]
          BY <2>2, <5>1, <5>2
        <5> QED BY <5>3 DEF q
      <4> QED BY <4>1 DEF BagPart
    <3> QED BY <3>1, <3>2
  <2>6. Len(s) = n
    BY <2>3, ArrayLen
  <2> QED BY <2>3, <2>5, <2>6
<1> QED BY <1>2, <1>3

\* Every byte the receiver gets is the one that was wrapped, if the key is and the
\* block, or made by deciphering something else.
LEMMA BagOutByte ==
    ASSUME B!SizeAssumption, NEW w, NEW n, BagWrapped(sealed, w, n), NEW s \in B!Arriving,
           NEW p, NEW c, NEW o, NEW m, BagUnwrapped(p, c, s, o, m), NEW j \in 1 .. n
    PROVE  \/ /\ c = sealed.cur /\ BagPart(s, BagRow(j)) = BagPart(sealed.out, BagRow(j))
              /\ o[j] = sealed.raw[j]
           \/ /\ ~(c = sealed.cur /\ BagPart(s, BagRow(j)) = BagPart(sealed.out, BagRow(j)))
              /\ \E x : o[j] = {x} /\ x[1] = "D"
<1> DEFINE r == BagRow(j)
           e == BagCol(j)
           f == BagPart(s, r)
           a1 == BagPart(sealed.raw, r)
           a2 == BagPart(sealed.out, r)
           k == BagKe(c)
           l == BagKe(sealed.cur)
<1>1. w \in Nat \ {0} /\ n \in Nat /\ n = w * BagBlock /\ Len(s) = n
  BY BagSize, BagArrives
<1>2. r \in 1 .. w /\ e \in 1 .. BagBlock /\ sealed.raw[j] = a1[e]
  BY <1>1, BagPlace
<1>3. a2 = BagE(l, a1)
  BY <1>2, BagWrappedBlock
<1>4. o[j] = B!decrypt_raw(k, f)[e]
  BY <1>1 DEF BagUnwrapped
<1>5. k = l <=> c = sealed.cur
  BY BagKeTells
<1>6. f = a2 \/ \E q \in 1 .. BagBlock : BagError \in f[q]
  BY <1>2, BagArrives
<1> HIDE DEF r, e, f, a1, a2, k, l
<1>7. ASSUME NEW d
      PROVE  \E x : BagD(k, d)[e] = {x} /\ x[1] = "D"
  <2> DEFINE x == <<"D", <<k, d>>, e>>
  <2>1. BagD(k, d)[e] = {x} /\ x[1] = "D"
    BY <1>2 DEF BagD
  <2> HIDE DEF x
  <2> QED BY <2>1
<1>8. CASE f = a2 /\ k = l
  <2>1. B!decrypt_raw(k, BagE(l, a1)) = a1
    BY <1>8, BagDecrypts
  <2>2. o[j] = sealed.raw[j]
    BY <1>2, <1>3, <1>4, <1>8, <2>1
  <2> QED BY <1>5, <1>8, <2>2 DEF f, a2, r
<1>9. CASE f = a2 /\ k # l
  <2>1. B!decrypt_raw(k, BagE(l, a1)) = BagD(k, BagE(l, a1))
    BY <1>9, BagDecrypts
  <2>2. o[j] = BagD(k, a2)[e]
    BY <1>3, <1>4, <1>9, <2>1
  <2>3. \E x : o[j] = {x} /\ x[1] = "D"
    BY <1>7, <2>2
  <2> QED BY <1>5, <1>9, <2>3
<1>10. CASE f # a2
  <2>1. PICK q \in 1 .. BagBlock : BagError \in f[q]
    BY <1>6, <1>10
  <2>2. BagError[1] # "E"
    BY DEF BagError
  <2>3. B!decrypt_raw(k, f) = BagD(k, f)
    BY <2>1, <2>2, BagSpoils
  <2>4. \E x : o[j] = {x} /\ x[1] = "D"
    BY <1>4, <1>7, <2>3
  <2> QED BY <1>10, <2>4 DEF f, a2, r
<1> QED BY <1>8, <1>9, <1>10

\* A byte of the key is not one of a cipher.
LEMMA BagRawByte ==
    ASSUME B!SizeAssumption, NEW c, NEW w, NEW n, BagWrapped(c, w, n), NEW j \in 1 .. n
    PROVE  /\ c.raw[j] = {<<"key", 0, j>>}
           /\ \A x : c.raw[j] = {x} => x[1] # "D" /\ x[1] # "E" /\ x[1] # "rounds"
           /\ \A x : c.out[j] = {x} => x[1] = "E"
<1>1. n \in Nat /\ c.raw = B!Raw(n)
  BY BagSize DEF BagWrapped
<1>2. c.raw[j] = {<<"key", 0, j>>}
  BY <1>1, BagRaw
<1>3. ASSUME NEW x, c.raw[j] = {x}
      PROVE  x[1] # "D" /\ x[1] # "E" /\ x[1] # "rounds"
  <2>1. x = <<"key", 0, j>>
    BY <1>2, <1>3
  <2> QED BY <2>1
<1>4. ASSUME NEW x, c.out[j] = {x}
      PROVE  x[1] = "E"
  <2>1. c.out[j] = {<<"E", <<BagKe(c.cur), BagPart(c.raw, BagRow(j))>>, BagCol(j)>>}
    BY DEF BagWrapped
  <2> DEFINE y == <<"E", <<BagKe(c.cur), BagPart(c.raw, BagRow(j))>>, BagCol(j)>>
  <2>2. y[1] = "E" /\ c.out[j] = {y}
    BY <2>1
  <2> HIDE DEF y
  <2> QED BY <1>4, <2>2
<1> QED BY <1>2, <1>3, <1>4

\* Until its end a call has written nothing.
BagQuiet == active \/ ret = -1 => mac = <<>> /\ out = IF inplace THEN src ELSE B!Old(Len(src))

BagTypes ==
    /\ op \in {"none", "wrap", "unwrap"} /\ active \in BOOLEAN /\ inplace \in BOOLEAN
    /\ args \in B!Arguments \cup {B!NoArgs}
    /\ off \in 1 .. MaxIter + 1 /\ (off > 1 => off <= args.iter + 1)
    /\ Array(in, Len(in)) /\ Array(out, Len(in))
    /\ ret \in {0, -1}

\* The loop holds the hash of its last turn.
BagHashing ==
    active =>
        /\ args \in B!Arguments /\ args.iter \in 1 .. MaxIter /\ off <= args.iter + 1
        /\ in = src
        /\ \E links : BagHashed(links, args, off - 1) /\ iv = links[off - 1]

\* What a caller hands over.
BagGiven ==
    /\ op = "none" => ~active
    /\ op = "wrap" => \E n \in BagLens : src = B!Raw(n)
    /\ op = "unwrap" => sealed # B!NoBag /\ src \in B!Arriving

BagKept == sealed = B!NoBag \/ \E w, n : BagWrapped(sealed, w, n)

BagInv ==
    /\ BagQuiet /\ BagTypes /\ BagHashing /\ BagGiven /\ BagKept
    /\ B!Opened => BagUnwrapped(args, iv, src, out, mac)

\* The types of the run.
LEMMA BagTypeCorrect == BagInv => B!TypeOK
<1> SUFFICES ASSUME BagInv
             PROVE  B!TypeOK
  OBVIOUS
<1>1. Len(out) = Len(in)
  BY ArrayLen DEF BagInv, BagTypes
<1> QED BY <1>1 DEF BagInv, BagTypes, B!TypeOK

\* What an opened bag came from.
LEMMA BagOpenedIs ==
    ASSUME B!SizeAssumption, BagInv, B!Opened
    PROVE  /\ BagUnwrapped(args, iv, src, out, mac) /\ src \in B!Arriving
           /\ \E w, n : BagWrapped(sealed, w, n)
           /\ iv = sealed.cur <=> B!SameKey(args, sealed.args)
<1>1. BagUnwrapped(args, iv, src, out, mac) /\ src \in B!Arriving
  BY DEF BagInv, BagGiven, B!Opened
<1>2. PICK w, n : BagWrapped(sealed, w, n)
  BY DEF BagInv, BagGiven, BagKept, B!Opened
<1> DEFINE p == args
           q == sealed.args
           c == iv
           d == sealed.cur
<1>3. BagKeyOf(p, c) /\ BagKeyOf(q, d)
  BY <1>1, <1>2 DEF BagUnwrapped, BagWrapped
<1> HIDE DEF p, q, c, d
<1>4. PICK x : BagHashed(x, p, p.iter) /\ c = x[p.iter]
  BY <1>3 DEF BagKeyOf
<1>5. PICK y : BagHashed(y, q, q.iter) /\ d = y[q.iter]
  BY <1>3 DEF BagKeyOf
<1>6. p \in B!Arguments /\ q \in B!Arguments /\ p.iter # 0 /\ q.iter # 0
  BY <1>3 DEF BagKeyOf
<1>7. x[p.iter] = y[q.iter] <=> B!SameKey(p, q)
  BY <1>4, <1>5, <1>6, BagKeyTells
<1>8. c = d <=> B!SameKey(p, q)
  BY <1>4, <1>5, <1>7
<1> QED BY <1>1, <1>2, <1>8 DEF p, q, c, d

\* A bag is opened by whoever has its key, and by nobody else.
LEMMA BagRecovers == B!SizeAssumption /\ BagInv => B!Recovers
<1> SUFFICES ASSUME B!SizeAssumption, BagInv, B!Opened, NEW j \in 1 .. Len(out)
             PROVE  out[j] = sealed.raw[j] <=>
                        /\ B!SameKey(args, sealed.args)
                        /\ B!Block(src, ((j - 1) \div BagBlock) + 1)
                             = B!Block(sealed.out, ((j - 1) \div BagBlock) + 1)
  BY Zenon DEF B!Recovers
<1>1. /\ BagUnwrapped(args, iv, src, out, mac) /\ src \in B!Arriving
      /\ iv = sealed.cur <=> B!SameKey(args, sealed.args)
  BY BagOpenedIs
<1>2. PICK w, n : BagWrapped(sealed, w, n)
  BY BagOpenedIs
<1>3. w \in Nat \ {0} /\ n = w * BagBlock /\ Array(sealed.out, n)
  BY <1>2, BagSize
<1>4. Array(src, n) /\ Len(src) = n
  BY <1>1, <1>2, BagArrives
<1>5. j \in 1 .. n
  <2>1. Array(out, n)
    BY <1>1, <1>4 DEF BagUnwrapped
  <2>2. Len(out) = n
    BY <2>1, ArrayLen
  <2> QED BY <2>2
<1> DEFINE r == BagRow(j)
<1>6. r \in 1 .. w /\ r = ((j - 1) \div BagBlock) + 1
  BY <1>3, <1>5, BagPlace DEF BagRow
<1>7. \/ /\ iv = sealed.cur /\ BagPart(src, r) = BagPart(sealed.out, r)
         /\ out[j] = sealed.raw[j]
      \/ /\ ~(iv = sealed.cur /\ BagPart(src, r) = BagPart(sealed.out, r))
         /\ \E x : out[j] = {x} /\ x[1] = "D"
  BY <1>1, <1>2, <1>5, BagOutByte
<1> HIDE DEF r
<1>8. B!Block(src, r) = BagPart(src, r)
  BY <1>3, <1>4, <1>6, BagBlockIs
<1>9. B!Block(sealed.out, r) = BagPart(sealed.out, r)
  BY <1>3, <1>6, BagBlockIs
<1>10. \A x : sealed.raw[j] = {x} => x[1] # "D"
  BY <1>2, <1>5, BagRawByte
<1>11. (\E x : out[j] = {x} /\ x[1] = "D") => out[j] # sealed.raw[j]
  BY <1>10
<1> QED BY <1>1, <1>6, <1>7, <1>8, <1>9, <1>11

\* The MAC tells whether the key came back.
LEMMA BagSeparates == B!SizeAssumption /\ BagInv => B!MacSeparates
<1> SUFFICES ASSUME B!SizeAssumption, BagInv, B!Opened
             PROVE  mac = sealed.mac <=> out = sealed.raw /\ ~sealed.inplace
  BY DEF B!MacSeparates
<1>1. BagUnwrapped(args, iv, src, out, mac) /\ src \in B!Arriving
  BY BagOpenedIs
<1>2. PICK w, n : BagWrapped(sealed, w, n)
  BY BagOpenedIs
<1>3. /\ w \in Nat \ {0} /\ n \in Nat \ {0} /\ n = w * BagBlock
      /\ Array(sealed.out, n) /\ Array(sealed.raw, n) /\ Len(src) = n
  BY <1>1, <1>2, BagSize, BagArrives
<1>4. Array(out, n) /\ mac = B!gost28147_mac4(BagKe(iv), B!Ukm, out)
  BY <1>1, <1>3 DEF BagUnwrapped
<1> DEFINE fed == IF sealed.inplace THEN sealed.out ELSE sealed.raw
<1>5. sealed.mac = B!gost28147_mac4(BagKe(sealed.cur), B!Ukm, fed)
  BY <1>2 DEF BagWrapped
<1>6. ASSUME NEW j \in 1 .. n
      PROVE  \/ iv = sealed.cur /\ out[j] = sealed.raw[j]
             \/ \E x : out[j] = {x} /\ x[1] = "D"
  BY <1>1, <1>2, BagOutByte
<1>7. ASSUME NEW j \in 1 .. n
      PROVE  /\ \E x : sealed.raw[j] = {x} /\ x[1] # "rounds" /\ x[1] # "E" /\ x[1] # "D"
             /\ \E x : sealed.out[j] = {x} /\ x[1] = "E"
  <2>1. sealed.raw[j] = {<<"key", 0, j>>}
    BY <1>2, BagRawByte
  <2>2. \A x : sealed.raw[j] = {x} => x[1] # "D" /\ x[1] # "E" /\ x[1] # "rounds"
    BY <1>2, BagRawByte
  <2>3. \A x : sealed.out[j] = {x} => x[1] = "E"
    BY <1>2, BagRawByte
  <2>4. \E x : sealed.out[j] = {x}
    BY <1>2 DEF BagWrapped
  <2>5. \E x : sealed.raw[j] = {x}
    BY <2>1
  <2> QED BY <2>2, <2>3, <2>4, <2>5
<1>8. BagFree(sealed.raw, n) /\ BagFree(sealed.out, n)
  BY <1>7 DEF BagFree
<1>9. BagFree(fed, n) /\ Array(fed, n)
  BY <1>3, <1>8
<1>10. BagFree(out, n)
  <2> SUFFICES ASSUME NEW j \in 1 .. n, NEW x \in out[j]
               PROVE  x[1] # "rounds"
    BY DEF BagFree
  <2>1. out[j] = sealed.raw[j] \/ \E y : out[j] = {y} /\ y[1] = "D"
    BY <1>6
  <2>2. \E y : sealed.raw[j] = {y} /\ y[1] # "rounds"
    BY <1>7
  <2> QED BY <2>1, <2>2
<1>11. 1 \in 1 .. n
  BY <1>3
<1>12. out[1] # sealed.out[1]
  <2>1. out[1] = sealed.raw[1] \/ \E y : out[1] = {y} /\ y[1] = "D"
    BY <1>6, <1>11
  <2>2. /\ \E x : sealed.raw[1] = {x} /\ x[1] # "E"
        /\ \E x : sealed.out[1] = {x} /\ x[1] = "E"
    BY <1>7, <1>11
  <2> QED BY <2>1, <2>2
<1>13. out = sealed.raw => iv = sealed.cur
  <2>1. out[1] = sealed.raw[1] => iv = sealed.cur
    <3>1. iv = sealed.cur \/ \E y : out[1] = {y} /\ y[1] = "D"
      BY <1>6, <1>11
    <3>2. \E x : sealed.raw[1] = {x} /\ x[1] # "D"
      BY <1>7, <1>11
    <3> QED BY <3>1, <3>2
  <2> QED BY <2>1
<1>14. sealed.inplace => fed = sealed.out
  OBVIOUS
<1>15. ~sealed.inplace => fed = sealed.raw
  OBVIOUS
<1> HIDE DEF fed
<1>16. ASSUME mac = sealed.mac
       PROVE  out = sealed.raw /\ ~sealed.inplace
  <2>1. BagKe(iv) = BagKe(sealed.cur) /\ out = fed
    <3>1. B!gost28147_mac4(BagKe(iv), B!Ukm, out) = B!gost28147_mac4(BagKe(sealed.cur), B!Ukm, fed)
      BY <1>4, <1>5, <1>16
    <3> QED BY <1>3, <1>4, <1>9, <1>10, <3>1, BagMacTells
  <2>2. ~sealed.inplace
    BY <1>12, <1>14, <2>1
  <2> QED BY <1>15, <2>1, <2>2
<1>17. ASSUME out = sealed.raw, ~sealed.inplace
       PROVE  mac = sealed.mac
  <2>1. iv = sealed.cur /\ out = fed
    BY <1>13, <1>15, <1>17
  <2> QED BY <1>4, <1>5, <2>1
<1> QED BY <1>16, <1>17

\* A call that fails has written nothing.
LEMMA BagFailure ==
    ASSUME BagInv
    PROVE  B!FailureWritesNothing
BY Zenon DEF BagInv, BagQuiet, B!FailureWritesNothing

-----------------------------------------------------------------------------
(***************************************************************************)
(* Every step preserves the invariant.                                     *)
(***************************************************************************)

\* It holds of the caller without a call.
LEMMA BagInitial == B!SizeAssumption /\ B!Init => BagInv
<1> SUFFICES ASSUME B!SizeAssumption, B!Init
             PROVE  BagInv
  OBVIOUS
<1>1. BagQuiet /\ BagHashing /\ BagGiven /\ BagKept /\ ~B!Opened
  BY DEF B!Init, BagQuiet, BagHashing, BagGiven, BagKept, B!Opened
<1>2. BagTypes
  <2>1. 1 \in 1 .. MaxIter + 1 /\ ~(1 > 1)
    BY BagSizes
  <2>2. Array(<<>>, Len(<<>>))
    BY ArrayEmpty
  <2> QED BY <2>1, <2>2 DEF B!Init, BagTypes
<1> QED BY <1>1, <1>2 DEF BagInv

\* What the callers hand over is an array.
LEMMA BagBuffers ==
    ASSUME B!SizeAssumption, BagInv, NEW buf,
           (\E n \in BagLens : buf = B!Raw(n)) \/ (sealed # B!NoBag /\ buf \in B!Arriving)
    PROVE  Array(buf, Len(buf)) /\ Array(B!Old(Len(buf)), Len(buf))
<1>1. Array(buf, Len(buf))
  <2>1. CASE \E n \in BagLens : buf = B!Raw(n)
    <3>1. PICK n \in BagLens : buf = B!Raw(n)
      BY <2>1
    <3>2. n \in Nat
      BY BagSizes
    <3>3. Array(buf, n)
      BY <3>1, <3>2, BagRaw
    <3> QED BY <3>3, ArrayLen
  <2>2. CASE sealed # B!NoBag /\ buf \in B!Arriving
    <3>1. PICK w, n : BagWrapped(sealed, w, n)
      BY <2>2 DEF BagInv, BagKept
    <3>2. Array(buf, n) /\ Len(buf) = n
      BY <2>2, <3>1, BagArrives
    <3> QED BY <3>2
  <2> QED BY <2>1, <2>2
<1>2. Array(B!Old(Len(buf)), Len(buf))
  <2> DEFINE n == Len(buf)
  <2>1. n \in Nat
    BY <1>1 DEF Array
  <2> HIDE DEF n
  <2>2. Array(B!Old(n), n)
    BY <2>1 DEF B!Old, B!BytesOf, Array
  <2> QED BY <2>2 DEF n
<1> QED BY <1>1, <1>2

\* A call begins, or is refused.
LEMMA BagCalled ==
    ASSUME B!SizeAssumption, BagInv, NEW fn \in {"wrap", "unwrap"}, NEW p \in B!Arguments, NEW buf,
           NEW place \in BOOLEAN, B!Call(fn, p, buf, place),
           IF fn = "wrap" THEN \E n \in BagLens : buf = B!Raw(n)
           ELSE sealed # B!NoBag /\ buf \in B!Arriving
    PROVE  BagInv'
<1>1. /\ op' = fn /\ active' = ~B!KdfRefused(p) /\ ret' = IF B!KdfRefused(p) THEN -1 ELSE 0
      /\ args' = p /\ inplace' = place /\ off' = 1 /\ iv' = p.pass
      /\ src' = buf /\ in' = buf /\ mac' = <<>>
      /\ out' = IF place THEN buf ELSE B!Old(Len(buf))
      /\ sealed' = IF fn = "wrap" THEN B!NoBag ELSE sealed
  BY Zenon DEF B!Call
<1>2. active' \in BOOLEAN /\ (active' <=> ~B!KdfRefused(p))
  BY <1>1 DEF B!KdfRefused
<1>3. BagQuiet'
  <2>1. B!Old(Len(src))' = B!Old(Len(buf))
    BY <1>1, Zenon DEF B!Old, B!BytesOf
  <2> QED BY <1>1, <2>1, Zenon DEF BagQuiet
<1>4. Array(buf, Len(buf)) /\ Array(B!Old(Len(buf)), Len(buf))
  BY BagBuffers
<1>5. BagTypes'
  <2>1. 1 \in 1 .. MaxIter + 1 /\ ~(1 > 1)
    BY BagSizes
  <2>2. Array(out', Len(in'))
    BY <1>1, <1>4, Zenon
  <2>3. Array(in', Len(in')) /\ ret' \in {0, -1}
    BY <1>1, <1>4, Zenon
  <2> QED BY <1>1, <1>2, <2>1, <2>2, <2>3 DEF BagTypes
<1>6. BagHashing'
  <2> SUFFICES ASSUME ~B!KdfRefused(p)
               PROVE  /\ p \in B!Arguments /\ p.iter \in 1 .. MaxIter /\ 1 <= p.iter + 1
                      /\ \E links : BagHashed(links, p, 1 - 1) /\ p.pass = links[1 - 1]
    BY <1>1, <1>2 DEF BagHashing
  <2>1. p.iter \in Nat /\ p.iter # 0 /\ ~(p.iter > MaxIter) /\ MaxIter \in Nat
    BY BagStrings, BagSizes DEF B!KdfRefused
  <2> DEFINE f == [j \in 0 .. 0 |-> p.pass]
  <2>2. f[0] = p.pass
    OBVIOUS
  <2> HIDE DEF f
  <2>3. BagHashed(f, p, 0)
    BY <2>2 DEF BagHashed
  <2>4. 1 - 1 = 0
    OBVIOUS
  <2> QED BY <2>1, <2>2, <2>3, <2>4
<1>7. BagGiven'
  <2>1. CASE fn = "wrap"
    BY <1>1, <2>1 DEF BagGiven, B!Raw, B!BytesOf
  <2>2. CASE fn = "unwrap"
    <3>1. sealed' = sealed /\ sealed # B!NoBag /\ buf \in B!Arriving
      BY <1>1, <2>2
    <3>2. B!Arriving' = B!Arriving
      BY <3>1 DEF B!Arriving
    <3>3. B!NoBag' = B!NoBag
      BY DEF B!NoBag, B!NoArgs
    <3> QED BY <1>1, <2>2, <3>1, <3>2, <3>3 DEF BagGiven
  <2> QED BY <2>1, <2>2
<1>8. BagKept'
  <2>1. B!NoBag' = B!NoBag
    BY DEF B!NoBag, B!NoArgs
  <2> QED BY <1>1, <2>1 DEF BagKept, BagInv
<1>9. ~B!Opened'
  <2>1. ~active' => ret' = -1
    BY <1>1, <1>2
  <2> QED BY <2>1 DEF B!Opened
<1> QED BY <1>3, <1>5, <1>6, <1>7, <1>8, <1>9 DEF BagInv

\* What stays while the caller's strings and the last bag do.
LEMMA BagStays ==
    ASSUME BagInv, UNCHANGED <<op, src, sealed>>
    PROVE  /\ op' # "none" => BagGiven'
           /\ BagKept'
<1>1. B!Arriving' = B!Arriving /\ B!NoBag' = B!NoBag
  BY DEF B!Arriving, B!NoBag, B!NoArgs
<1>2. BagKept'
  BY <1>1 DEF BagKept, BagInv
<1>3. op' # "none" => BagGiven'
  BY <1>1 DEF BagGiven, BagInv
<1> QED BY <1>2, <1>3

\* A turn of the loop.
LEMMA BagTurned ==
    ASSUME B!SizeAssumption, BagInv, B!KdfTurn
    PROVE  BagInv'
<1>1. /\ active /\ off <= args.iter
      /\ iv' = BagHash(B!HashInput(iv, args.salt, off)) /\ off' = off + 1
      /\ UNCHANGED <<op, active, args, inplace, src, in, out, mac, ret, sealed>>
  BY DEF B!KdfTurn, B!gost3411_94, B!BytesOf, B!Atom, BagHash
<1>2. /\ args \in B!Arguments /\ args.iter \in 1 .. MaxIter /\ in = src /\ off \in Nat \ {0}
      /\ BagTypes
  BY <1>1 DEF BagInv, BagHashing, BagTypes
<1>3. PICK links : BagHashed(links, args, off - 1) /\ iv = links[off - 1]
  BY <1>1 DEF BagInv, BagHashing
<1>4. \E more : BagHashed(more, args, off) /\ iv' = more[off]
  <2> DEFINE more == [j \in 0 .. off |-> IF j < off THEN links[j] ELSE iv']
  <2>1. (\A j \in 0 .. off - 1 : more[j] = links[j]) /\ more[off] = iv'
    BY <1>2
  <2> HIDE DEF more
  <2>2. more[0] = args.pass
    BY <1>2, <1>3, <2>1 DEF BagHashed
  <2>3. ASSUME NEW j \in 1 .. off
        PROVE  more[j] = BagHash(B!HashInput(more[j - 1], args.salt, j))
    <3>1. j - 1 \in 0 .. off - 1 /\ more[j - 1] = links[j - 1]
      BY <1>2, <2>1
    <3>2. CASE j = off
      <4>1. more[j - 1] = iv
        BY <1>3, <3>1, <3>2
      <4> QED BY <1>1, <2>1, <3>2, <4>1
    <3>3. CASE j # off
      <4>1. j \in 1 .. off - 1 /\ j \in 0 .. off - 1
        BY <1>2, <3>3
      <4>2. links[j] = BagHash(B!HashInput(links[j - 1], args.salt, j))
        BY <1>3, <4>1 DEF BagHashed
      <4> QED BY <2>1, <3>1, <4>1, <4>2
    <3> QED BY <3>2, <3>3
  <2>4. BagHashed(more, args, off)
    BY <2>2, <2>3 DEF BagHashed
  <2> QED BY <2>1, <2>4
<1>5. off' - 1 = off /\ off' \in 1 .. MaxIter + 1 /\ off' <= args.iter + 1
  BY <1>1, <1>2, BagSizes
<1>6. BagTypes'
  BY <1>1, <1>2, <1>5 DEF BagTypes
<1>7. BagHashing'
  <2>1. \E more : BagHashed(more, args', off' - 1) /\ iv' = more[off' - 1]
    BY <1>1, <1>4, <1>5
  <2> QED BY <1>1, <1>2, <1>5, <2>1 DEF BagHashing
<1>8. BagQuiet'
  BY <1>1 DEF BagQuiet, BagInv, B!Old, B!BytesOf
<1>9. BagGiven' /\ BagKept'
  <2>1. op' # "none"
    BY <1>1 DEF BagInv, BagGiven
  <2> QED BY <1>1, <2>1, BagStays
<1>10. ~B!Opened'
  BY <1>1 DEF B!Opened
<1> QED BY <1>6, <1>7, <1>8, <1>9, <1>10 DEF BagInv

\* The caller lets go of its buffers.
LEMMA BagReleased ==
    ASSUME B!SizeAssumption, BagInv, B!Release
    PROVE  BagInv'
<1>1. /\ ~active /\ ~active' /\ op' = "none" /\ args' = B!NoArgs /\ inplace' = FALSE
      /\ off' = 1 /\ in' = <<>> /\ out' = <<>> /\ ret' = 0 /\ sealed' = sealed
  <2>1. /\ ~active /\ active' = active /\ op' = "none" /\ args' = B!NoArgs /\ inplace' = FALSE
        /\ off' = 1 /\ in' = <<>> /\ out' = <<>> /\ ret' = 0 /\ sealed' = sealed
    BY DEF B!Release
  <2> QED BY <2>1
<1>2. active' \in BOOLEAN
  BY DEF B!Release, BagInv, BagTypes
<1>3. BagQuiet' /\ BagHashing' /\ BagGiven' /\ ~B!Opened'
  BY <1>1 DEF BagQuiet, BagHashing, BagGiven, B!Opened
<1>4. BagKept'
  <2>1. B!NoBag' = B!NoBag
    BY DEF B!NoBag, B!NoArgs
  <2> QED BY <1>1, <2>1 DEF BagKept, BagInv
<1>5. BagTypes'
  <2>1. 1 \in 1 .. MaxIter + 1 /\ ~(1 > 1)
    BY BagSizes
  <2>2. Array(<<>>, Len(<<>>))
    BY ArrayEmpty
  <2>3. B!NoArgs' = B!NoArgs
    BY DEF B!NoArgs
  <2> QED BY <1>1, <1>2, <2>1, <2>2, <2>3 DEF BagTypes
<1> QED BY <1>3, <1>4, <1>5 DEF BagInv

\* The function, byte by byte.
LEMMA BagEach ==
    ASSUME B!SizeAssumption, NEW ke, NEW buf, NEW n, Array(buf, n), NEW w \in Nat, n = w * BagBlock
    PROVE  /\ Array(B!EachBlock(ke, buf), n)
           /\ \A j \in 1 .. n :
                  B!EachBlock(ke, buf)[j] = B!Crypt(ke, BagPart(buf, BagRow(j)))[BagCol(j)]
<1> DEFINE f == B!EachBlock(ke, buf)
<1>1. n \in Nat /\ Len(buf) = n
  BY ArrayLen DEF Array
<1>2. f = [j \in 1 .. n |-> B!Crypt(ke, B!Block(buf, BagRow(j)))[BagCol(j)]]
  BY <1>1, Zenon DEF B!EachBlock, BagRow, BagCol
<1> HIDE DEF f
<1>3. ASSUME NEW j \in 1 .. n
      PROVE  f[j] = B!Crypt(ke, BagPart(buf, BagRow(j)))[BagCol(j)]
  <2>1. BagRow(j) \in 1 .. w
    BY BagPlace
  <2>2. B!Block(buf, BagRow(j)) = BagPart(buf, BagRow(j))
    BY <2>1, BagBlockIs
  <2>3. f[j] = B!Crypt(ke, B!Block(buf, BagRow(j)))[BagCol(j)]
    BY <1>2
  <2> QED BY <2>2, <2>3
<1>4. Array(f, n)
  BY <1>1, <1>2 DEF Array
<1> QED BY <1>3, <1>4 DEF f

\* A key of a length that is wrapped is a whole number of blocks.
LEMMA BagLength ==
    ASSUME B!SizeAssumption, NEW n \in KeyLens, n \in Nat
    PROVE  \E w \in Nat \ {0} : n = w * BagBlock
<1> DEFINE d == n \div BagBlock
           e == n % BagBlock
<1>1. BagBlock \in Nat \ {0} /\ n # 0 /\ e = 0
  BY BagSizes DEF B!SizeAssumption
<1>2. d \in Nat /\ n = d * BagBlock + e
  BY <1>1, Divided
<1> HIDE DEF d, e
<1>3. n = d * BagBlock
  <2>1. d * BagBlock \in Nat
    BY <1>1, <1>2
  <2> QED BY <1>1, <1>2, <2>1
<1>4. d # 0
  <2>1. 0 * BagBlock = 0
    BY <1>1
  <2> QED BY <1>1, <1>3, <2>1
<1> QED BY <1>2, <1>3, <1>4

\* The end of a call.
LEMMA BagFinished ==
    ASSUME B!SizeAssumption, BagInv, B!cryptopro_keybag_wrap
    PROVE  BagInv'
<1> DEFINE ke == BagKe(iv)
<1>1. /\ active /\ off > args.iter /\ active' = FALSE
      /\ UNCHANGED <<op, args, inplace, off, iv, src>>
  BY Zenon DEF B!cryptopro_keybag_wrap
<1>2. /\ args \in B!Arguments /\ args.iter \in 1 .. MaxIter /\ in = src /\ off \in Nat \ {0}
      /\ off <= args.iter + 1 /\ BagTypes
  BY <1>1 DEF BagInv, BagHashing, BagTypes
<1>3. BagKeyOf(args, iv)
  <2>1. off - 1 = args.iter /\ args.iter # 0
    BY <1>1, <1>2
  <2>2. \E links : BagHashed(links, args, off - 1) /\ iv = links[off - 1]
    BY <1>1 DEF BagInv, BagHashing
  <2> QED BY <1>2, <2>1, <2>2 DEF BagKeyOf
<1>4. op = "wrap" \/ op = "unwrap"
  BY <1>1, <1>2 DEF BagInv, BagGiven, BagTypes
<1>5. BagHashing'
  BY <1>1 DEF BagHashing
<1>6. Array(in, Len(in)) /\ Len(in) \in Nat /\ Array(out, Len(in))
  BY <1>2 DEF BagTypes, Array
<1>7. CASE Len(in) \notin KeyLens
  <2>1. ret' = -1 /\ UNCHANGED <<in, out, mac, sealed>>
    BY <1>7, Zenon DEF B!cryptopro_keybag_wrap
  <2>2. BagTypes'
    BY <1>1, <1>2, <2>1 DEF BagTypes
  <2>3. BagQuiet'
    BY <1>1, <2>1 DEF BagQuiet, BagInv, B!Old, B!BytesOf
  <2>4. BagGiven' /\ BagKept'
    BY <1>1, <1>4, <2>1, BagStays
  <2>5. ~B!Opened'
    BY <2>1 DEF B!Opened
  <2> QED BY <1>5, <2>2, <2>3, <2>4, <2>5 DEF BagInv
<1>8. CASE Len(in) \in KeyLens
  <2> DEFINE n == Len(in)
  <2>1. /\ ret' = 0 /\ out' = B!EachBlock(ke, in)
        /\ in' = IF inplace THEN out' ELSE in
        /\ mac' = B!gost28147_mac4(ke, B!Ukm, B!MacInput(in', out'))
        /\ sealed' = IF op = "unwrap" THEN sealed
                     ELSE [args |-> args, cur |-> iv, inplace |-> inplace,
                           raw |-> src, out |-> out', mac |-> mac']
    BY <1>8, Zenon DEF B!cryptopro_keybag_wrap, BagKe
  <2>2. PICK w \in Nat \ {0} : n = w * BagBlock
    BY <1>6, <1>8, BagLength
  <2>3. n \in Nat /\ Array(in, n)
    BY <1>6
  <2> HIDE DEF n, ke
  <2>4. Array(out', n) /\ \A j \in 1 .. n : out'[j] = B!Crypt(ke, BagPart(in, BagRow(j)))[BagCol(j)]
    <3> DEFINE f == B!EachBlock(ke, in)
    <3>1. Array(f, n) /\ \A j \in 1 .. n : f[j] = B!Crypt(ke, BagPart(in, BagRow(j)))[BagCol(j)]
      BY <2>2, <2>3, BagEach
    <3>2. out' = f
      BY <2>1
    <3> HIDE DEF f
    <3> QED BY <3>1, <3>2
  <2>5. Array(in', n) /\ Len(in') = n
    <3>1. Array(in', n)
      BY <2>1, <2>3, <2>4, Zenon
    <3> QED BY <3>1, ArrayLen
  <2>6. BagTypes'
    BY <1>1, <1>2, <2>1, <2>4, <2>5 DEF BagTypes
  <2>7. BagQuiet'
    BY <1>1, <2>1 DEF BagQuiet
  <2>8. CASE op = "wrap"
    <3> DEFINE c == [args |-> args, cur |-> iv, inplace |-> inplace, raw |-> src, out |-> out', mac |-> mac']
    <3>1. sealed' = c
      BY <2>1, <2>8
    <3>2. /\ c.args = args /\ c.cur = iv /\ c.inplace = inplace /\ c.raw = src
          /\ c.out = out' /\ c.mac = mac'
      OBVIOUS
    <3> HIDE DEF c
    <3>3. src = B!Raw(n)
      <4>1. PICK m \in BagLens : src = B!Raw(m)
        BY <2>8 DEF BagInv, BagGiven
      <4>2. m \in Nat
        BY BagSizes
      <4>3. Len(src) = m
        <5>1. Array(src, m)
          BY <4>1, <4>2, BagRaw
        <5> QED BY <5>1, ArrayLen
      <4> QED BY <1>2, <4>1, <4>3 DEF n
    <3>4. ASSUME NEW j \in 1 .. n
          PROVE  out'[j] = {<<"E", <<ke, BagPart(src, BagRow(j))>>, BagCol(j)>>}
      <4>1. out'[j] = B!Crypt(ke, BagPart(in, BagRow(j)))[BagCol(j)]
        BY <2>4
      <4> DEFINE f == BagPart(src, BagRow(j))
      <4>2. B!Crypt(ke, f) = BagE(ke, f)
        BY <2>8, BagEncrypts DEF B!Crypt
      <4>3. BagCol(j) \in 1 .. BagBlock
        BY <2>2, BagPlace
      <4> HIDE DEF f
      <4>4. BagE(ke, f)[BagCol(j)] = {<<"E", <<ke, f>>, BagCol(j)>>}
        BY <4>3 DEF BagE
      <4>5. out'[j] = B!Crypt(ke, f)[BagCol(j)]
        BY <1>2, <4>1 DEF f
      <4> QED BY <4>2, <4>4, <4>5 DEF f
    <3>5. mac' = B!gost28147_mac4(ke, B!Ukm, IF inplace THEN out' ELSE src)
      <4>1. B!MacInput(in', out') = in'
        BY <2>8 DEF B!MacInput
      <4>2. in' = IF inplace THEN out' ELSE src
        BY <1>2, <2>1
      <4> QED BY <2>1, <4>1, <4>2
    <3>6. inplace \in BOOLEAN
      BY <1>2 DEF BagTypes
    <3>7. BagWrapped(c, w, n)
      BY <1>3, <2>2, <2>4, <3>2, <3>3, <3>4, <3>5, <3>6 DEF BagWrapped, ke
    <3>8. BagKept'
      <4>1. BagWrapped(sealed', w, n)
        BY <3>1, <3>7
      <4> QED BY <4>1 DEF BagKept
    <3>9. BagGiven'
      <4>1. \E m \in BagLens : src = B!Raw(m)
        BY <2>8 DEF BagInv, BagGiven
      <4> QED BY <1>1, <2>8, <4>1 DEF BagGiven, B!Raw, B!BytesOf
    <3>10. ~B!Opened'
      BY <1>1, <2>8 DEF B!Opened
    <3> QED BY <1>5, <2>6, <2>7, <3>8, <3>9, <3>10 DEF BagInv
  <2>9. CASE op = "unwrap"
    <3>1. sealed' = sealed
      BY <2>1, <2>9
    <3>2. BagGiven' /\ BagKept'
      BY <1>1, <2>9, <3>1, BagStays
    <3>3. ASSUME NEW j \in 1 .. n
          PROVE  out'[j] = B!decrypt_raw(ke, BagPart(src, BagRow(j)))[BagCol(j)]
      <4>1. out'[j] = B!Crypt(ke, BagPart(in, BagRow(j)))[BagCol(j)]
        BY <2>4
      <4> DEFINE f == BagPart(in, BagRow(j))
      <4> HIDE DEF f
      <4>2. B!Crypt(ke, f) = B!decrypt_raw(ke, f)
        BY <2>9 DEF B!Crypt
      <4> QED BY <1>2, <4>1, <4>2 DEF f
    <3>4. mac' = B!gost28147_mac4(ke, B!Ukm, out')
      <4>1. B!MacInput(in', out') = out'
        BY <2>9 DEF B!MacInput
      <4> QED BY <2>1, <4>1
    <3>5. Len(src) = n
      BY <1>2 DEF n
    <3>6. BagUnwrapped(args, iv, src, out', mac')
      BY <1>3, <2>4, <3>3, <3>4, <3>5 DEF BagUnwrapped, ke
    <3>7. BagUnwrapped(args', iv', src', out', mac')
      BY <1>1, <3>6
    <3> QED BY <1>5, <2>6, <2>7, <3>2, <3>7 DEF BagInv
  <2> QED BY <1>4, <2>8, <2>9
<1> QED BY <1>7, <1>8

\* A step of another function leaves everything as it is.
LEMMA BagUnchanged ==
    ASSUME BagInv, UNCHANGED B!vars
    PROVE  BagInv'
<1>1. UNCHANGED <<op, active, args, inplace, off, iv, src, in, out, mac, ret, sealed>>
  BY DEF B!vars
<1>2. BagQuiet' /\ BagTypes' /\ BagHashing'
  BY <1>1 DEF BagInv, BagQuiet, BagTypes, BagHashing, B!Old, B!BytesOf, B!Arguments, B!NoArgs
<1>3. BagKept' /\ (op' # "none" => BagGiven')
  BY <1>1, BagStays
<1>4. op' = "none" => BagGiven'
  BY <1>1 DEF BagInv, BagGiven
<1>5. B!Opened' => BagUnwrapped(args, iv, src, out, mac)'
  <2>1. B!Opened' => B!Opened
    BY <1>1 DEF B!Opened
  <2>2. B!Opened' => BagUnwrapped(args', iv', src', out', mac')
    BY <1>1, <2>1 DEF BagInv
  <2> QED BY <2>2
<1> QED BY <1>2, <1>3, <1>4, <1>5 DEF BagInv

\* Every step preserves the invariant.
LEMMA BagPreserved == B!SizeAssumption /\ BagInv /\ (B!Next \/ UNCHANGED B!vars) => BagInv'
<1> SUFFICES ASSUME B!SizeAssumption, BagInv, B!Next \/ UNCHANGED B!vars
             PROVE  BagInv'
  OBVIOUS
<1>1. ASSUME NEW p \in B!Arguments, NEW n \in BagLens, NEW place \in BOOLEAN,
             B!gost_pfx_cp80_wrap(p, B!Raw(n), place)
      PROVE  BagInv'
  BY <1>1, BagCalled DEF B!gost_pfx_cp80_wrap
<1>2. ASSUME NEW p \in B!Arguments, NEW buf \in B!Arriving, NEW place \in BOOLEAN,
             B!unwrap(p, buf, place)
      PROVE  BagInv'
  BY <1>2, BagCalled DEF B!unwrap
<1> QED BY <1>1, <1>2, BagTurned, BagFinished, BagReleased, BagUnchanged DEF B!Next

-----------------------------------------------------------------------------
(***************************************************************************)
(* IMIT.  A text is taken for blocks of its bytes with zeros behind, the   *)
(* first with the initial state added.                                     *)
(***************************************************************************)

\* The byte at q, and the block k of the text.
ImitByte(text, start, q) ==
    IF q <= ImitBlock THEN Xor(start[q], IF q <= Len(text) THEN text[q] ELSE Zero)
    ELSE IF q <= Len(text) THEN text[q] ELSE Zero
ImitPart(text, start, k) == [p \in 1 .. ImitBlock |-> ImitByte(text, start, (k - 1) * ImitBlock + p)]

\* n states in a row, each made from the one before and a block.
ImitFed(links, text, start, j) ==
    IF j = 1 THEN ImitPart(text, start, 1) ELSE BlockSum(ImitBlock, links[j - 1], ImitPart(text, start, j))
ImitChain(links, text, start, k, n) ==
    \A j \in 1 .. n : links[j] = Rounds(ImitBlock, k, ImitFed(links, text, start, j))

\* No byte of the text or of the initial state is made by rounds.
ImitFree(text, start) == \A q \in Nat \ {0} : \A x \in ImitByte(text, start, q) : x[1] # "rounds"

\* A block of free bytes.
LEMMA ImitPartFree ==
    ASSUME ImitBlock \in Nat \ {0}, NEW text, NEW start, ImitFree(text, start),
           NEW j \in Nat \ {0}, NEW p \in 1 .. ImitBlock
    PROVE  \A x \in ImitPart(text, start, j)[p] : x[1] # "rounds"
<1>1. (j - 1) * ImitBlock + p \in Nat \ {0}
  <2> DEFINE w == (j - 1) * ImitBlock
  <2>1. w \in Nat
    BY ImitBlock \in Nat, j - 1 \in Nat
  <2> HIDE DEF w
  <2>2. w + p \in Nat \ {0}
    BY <2>1
  <2> QED BY <2>2 DEF w
<1>2. ImitPart(text, start, j)[p] = ImitByte(text, start, (j - 1) * ImitBlock + p)
  BY DEF ImitPart
<1> QED BY <1>1, <1>2 DEF ImitFree

\* Two chains of any lengths that end alike have one key and the same blocks.
LEMMA ImitChainTells ==
    ASSUME ImitBlock \in Nat \ {0},
           NEW x, NEW s, NEW i, NEW k, NEW m \in Nat \ {0}, ImitChain(x, s, i, k, m), ImitFree(s, i),
           NEW y, NEW t, NEW j, NEW l, NEW n \in Nat \ {0}, ImitChain(y, t, j, l, n), ImitFree(t, j),
           x[m] = y[n]
    PROVE  k = l /\ m = n /\ \A q \in 1 .. m : ImitPart(s, i, q) = ImitPart(t, j, q)
<1>1. \A q \in 1 .. m : x[q] = Rounds(ImitBlock, k, ImitFed(x, s, i, q))
  BY DEF ImitChain
<1>2. \A q \in 1 .. n : y[q] = Rounds(ImitBlock, l, ImitFed(y, t, j, q))
  BY DEF ImitChain
<1>3. k = l
  <2>1. m \in 1 .. m /\ n \in 1 .. n
    OBVIOUS
  <2>2. Rounds(ImitBlock, k, ImitFed(x, s, i, m)) = Rounds(ImitBlock, l, ImitFed(y, t, j, n))
    BY <1>1, <1>2, <2>1
  <2> QED BY <2>2, RoundsTell
<1>4. ASSUME NEW q \in 1 .. m, NEW r \in 1 .. n, x[q] = y[r]
      PROVE  /\ q = 1 <=> r = 1
             /\ q = 1 => ImitPart(s, i, 1) = ImitPart(t, j, 1)
             /\ q # 1 => x[q - 1] = y[r - 1] /\ ImitPart(s, i, q) = ImitPart(t, j, r)
  <2>1. ImitFed(x, s, i, q) = ImitFed(y, t, j, r)
    <3>1. Rounds(ImitBlock, k, ImitFed(x, s, i, q)) = Rounds(ImitBlock, l, ImitFed(y, t, j, r))
      BY <1>1, <1>2, <1>4
    <3> QED BY <3>1, RoundsTell
  <2> DEFINE u == ImitPart(s, i, q)
             v == ImitPart(t, j, r)
  <2>2. /\ \A p \in 1 .. ImitBlock : \A e \in u[p] : e[1] # "rounds"
        /\ \A p \in 1 .. ImitBlock : \A e \in v[p] : e[1] # "rounds"
    BY ImitPartFree
  <2>3. u = [p \in 1 .. ImitBlock |-> u[p]] /\ v = [p \in 1 .. ImitBlock |-> v[p]]
    BY DEF ImitPart
  <2>4. q # 1 => q - 1 \in 1 .. m /\ ImitFed(x, s, i, q) = BlockSum(ImitBlock, x[q - 1], u)
    BY DEF ImitFed
  <2>5. r # 1 => r - 1 \in 1 .. n /\ ImitFed(y, t, j, r) = BlockSum(ImitBlock, y[r - 1], v)
    BY DEF ImitFed
  <2>6. q = 1 => ImitFed(x, s, i, q) = u
    BY DEF ImitFed
  <2>7. r = 1 => ImitFed(y, t, j, r) = v
    BY DEF ImitFed
  <2>8. (q = 1 => u = ImitPart(s, i, 1)) /\ (r = 1 => v = ImitPart(t, j, 1))
    OBVIOUS
  <2>9. 1 \in 1 .. ImitBlock
    OBVIOUS
  <2> HIDE DEF u, v
  <2>10. CASE q = 1 /\ r = 1
    BY <2>1, <2>6, <2>7, <2>8, <2>10
  <2>11. CASE q = 1 /\ r # 1
    <3>1. y[r - 1] = Rounds(ImitBlock, l, ImitFed(y, t, j, r - 1))
      BY <1>2, <2>5, <2>11
    <3>2. BlockSum(ImitBlock, Rounds(ImitBlock, l, ImitFed(y, t, j, r - 1)), v) = u
      BY <2>1, <2>5, <2>6, <2>11, <3>1
    <3> DEFINE f == ImitFed(y, t, j, r - 1)
    <3> HIDE DEF f
    <3> QED BY <2>2, <2>9, <3>2, SumIsMade DEF f
  <2>12. CASE q # 1 /\ r = 1
    <3>1. x[q - 1] = Rounds(ImitBlock, k, ImitFed(x, s, i, q - 1))
      BY <1>1, <2>4, <2>12
    <3>2. BlockSum(ImitBlock, Rounds(ImitBlock, k, ImitFed(x, s, i, q - 1)), u) = v
      BY <2>1, <2>4, <2>7, <2>12, <3>1
    <3> DEFINE f == ImitFed(x, s, i, q - 1)
    <3> HIDE DEF f
    <3> QED BY <2>2, <2>9, <3>2, SumIsMade DEF f
  <2>13. CASE q # 1 /\ r # 1
    <3> DEFINE f == ImitFed(x, s, i, q - 1)
               g == ImitFed(y, t, j, r - 1)
    <3>1. x[q - 1] = Rounds(ImitBlock, k, f) /\ y[r - 1] = Rounds(ImitBlock, l, g)
      BY <1>1, <1>2, <2>4, <2>5, <2>13
    <3>2. BlockSum(ImitBlock, x[q - 1], u) = BlockSum(ImitBlock, y[r - 1], v)
      BY <2>1, <2>4, <2>5, <2>13
    <3> HIDE DEF f, g
    <3>3. BlockSum(ImitBlock, Rounds(ImitBlock, k, f), u) = BlockSum(ImitBlock, Rounds(ImitBlock, l, g), v)
      BY <3>1, <3>2
    <3>4. Rounds(ImitBlock, k, f) = Rounds(ImitBlock, l, g) /\ \A p \in 1 .. ImitBlock : u[p] = v[p]
      BY <2>2, <3>3, SumTells
    <3>5. u = v
      BY <2>3, <3>4
    <3> QED BY <2>13, <3>1, <3>4, <3>5 DEF u, v
  <2> QED BY <2>10, <2>11, <2>12, <2>13
<1>5. m = n /\ \A q \in 1 .. m : x[q] = y[q]
  BY <1>4, ChainsMeet
<1>6. ASSUME NEW q \in 1 .. m
      PROVE  ImitPart(s, i, q) = ImitPart(t, j, q)
  BY <1>4, <1>5
<1> QED BY <1>3, <1>5, <1>6

\* Two chains with one key over the same blocks are the same.
LEMMA ImitChainSame ==
    ASSUME NEW x, NEW s, NEW i, NEW k, NEW m \in Nat \ {0}, ImitChain(x, s, i, k, m),
           NEW y, NEW t, NEW j, ImitChain(y, t, j, k, m),
           \A q \in 1 .. m : ImitPart(s, i, q) = ImitPart(t, j, q)
    PROVE  x[m] = y[m]
<1>1. \A q \in 1 .. m : /\ x[q] = Rounds(ImitBlock, k, ImitFed(x, s, i, q))
                        /\ y[q] = Rounds(ImitBlock, k, ImitFed(y, t, j, q))
  BY DEF ImitChain
<1> DEFINE S == {d \in Nat : d < m => x[d + 1] = y[d + 1]}
<1>2. 0 \in S
  <2>1. ImitFed(x, s, i, 1) = ImitFed(y, t, j, 1) /\ 1 \in 1 .. m /\ 0 + 1 = 1
    BY DEF ImitFed
  <2> QED BY <1>1, <2>1
<1>3. ASSUME NEW d \in Nat, d \in S
      PROVE  d + 1 \in S
  <2> SUFFICES ASSUME d + 1 < m
               PROVE  x[(d + 1) + 1] = y[(d + 1) + 1]
    OBVIOUS
  <2> DEFINE q == (d + 1) + 1
  <2>1. q \in 1 .. m /\ q # 1 /\ q - 1 = d + 1
    OBVIOUS
  <2>2. x[q - 1] = y[q - 1]
    BY <1>3, <2>1
  <2> HIDE DEF q
  <2>3. ImitFed(x, s, i, q) = ImitFed(y, t, j, q)
    BY <2>1, <2>2 DEF ImitFed
  <2>4. x[q] = y[q]
    BY <1>1, <2>1, <2>3
  <2> QED BY <2>4 DEF q
<1>4. \A d \in Nat : d \in S
  <2> HIDE DEF S
  <2> QED BY <1>2, <1>3, CountUp
<1>5. m - 1 \in S /\ m - 1 < m /\ (m - 1) + 1 = m
  BY <1>4
<1> QED BY <1>5

\* The bytes the callers use.
LEMMA ImitStrings ==
    ASSUME I!SizeAssumption, NEW text \in I!Texts, NEW start \in States
    PROVE  /\ Len(text) \in Nat /\ Array(text, Len(text)) /\ Array(start, ImitBlock)
           /\ ImitFree(text, start)
<1>1. ImitBlock \in Nat \ {0} /\ WordRadix \in Nat \ {0} /\ MaxText \in Nat
  BY DEF I!SizeAssumption
<1>2. PICK n \in 0 .. MaxText : text \in [1 .. n -> Values]
  BY DEF I!Texts
<1>3. Len(text) = n /\ Array(text, n)
  <2>1. Array(text, n)
    BY <1>2 DEF Array
  <2> QED BY <2>1, ArrayLen
<1>4. Array(start, ImitBlock) /\ \A p \in 1 .. ImitBlock : \A x \in start[p] : x[1] # "rounds"
  <2>1. Len(start) = ImitBlock /\ I!FreeOf("rounds", start)
    BY DEF I!SizeAssumption
  <2> DEFINE S == {start[i] : i \in DOMAIN start}
  <2>2. start \in Seq(S) /\ \A p \in DOMAIN start : \A x \in start[p] : x[1] # "rounds"
    BY <2>1 DEF I!FreeOf
  <2> HIDE DEF S
  <2>3. DOMAIN start = 1 .. ImitBlock /\ start = [p \in 1 .. ImitBlock |-> start[p]]
    BY <2>1, <2>2
  <2> QED BY <1>1, <2>2, <2>3 DEF Array
<1>5. ASSUME NEW p \in 1 .. n
      PROVE  \A x \in text[p] : x[1] # "rounds"
  <2>1. text[p] \in Values
    BY <1>2
  <2> DEFINE v == text[p]
  <2>2. I!FreeOf("rounds", <<v>>)
    BY <2>1 DEF I!SizeAssumption
  <2> HIDE DEF v
  <2>3. 1 \in DOMAIN <<v>> /\ <<v>>[1] = v
    OBVIOUS
  <2>4. \A x \in v : x[1] # "rounds"
    BY <2>2, <2>3 DEF I!FreeOf
  <2> QED BY <2>4 DEF v
<1>6. ASSUME NEW q \in Nat \ {0}, NEW x \in ImitByte(text, start, q)
      PROVE  x[1] # "rounds"
  <2> DEFINE f == IF q <= Len(text) THEN text[q] ELSE Zero
  <2>1. \A e \in f : e[1] # "rounds"
    BY <1>2, <1>3, <1>5 DEF Zero
  <2>2. ImitByte(text, start, q) = IF q <= ImitBlock THEN Xor(start[q], f) ELSE f
    BY Zenon DEF ImitByte
  <2> HIDE DEF f
  <2>3. q <= ImitBlock => \A e \in start[q] : e[1] # "rounds"
    BY <1>1, <1>4
  <2> QED BY <2>1, <2>2, <2>3 DEF Xor
<1> QED BY <1>2, <1>3, <1>4, <1>6 DEF ImitFree

\* The rounds of the model and of the proof.
LEMMA ImitRoundsAre ==
    ASSUME NEW block
    PROVE  I!rounds(block) = Rounds(ImitBlock, st, block)
BY DEF I!rounds, I!BytesOf, I!Atom, Rounds

\* What is added to the state behind o, a whole block or the tail, is the next
\* block of the text.
LEMMA ImitAdded ==
    ASSUME I!SizeAssumption, NEW text, NEW start,
           NEW k \in Nat, NEW o, o = k * ImitBlock,
           NEW s, Array(s, ImitBlock), NEW links, s = IF k = 0 THEN start ELSE links[k],
           NEW f, \A p \in 1 .. ImitBlock : f[p] = IF o + p <= Len(text) THEN text[o + p] ELSE Zero
    PROVE  I!XorBytes(s, f) = ImitFed(links, text, start, k + 1)
<1>1. ImitBlock \in Nat \ {0} /\ o \in Nat /\ Len(s) = ImitBlock
  <2>1. ImitBlock \in Nat \ {0}
    BY DEF I!SizeAssumption
  <2>2. k * ImitBlock \in Nat
    BY <2>1
  <2> QED BY <2>1, <2>2, ArrayLen
<1>2. I!XorBytes(s, f) = [p \in 1 .. ImitBlock |-> Xor(s[p], f[p])]
  BY <1>1, Zenon DEF I!XorBytes, I!Xor, Xor
<1>3. \A p \in 1 .. ImitBlock : ((k + 1) - 1) * ImitBlock + p = o + p
  <2>1. (k + 1) - 1 = k
    OBVIOUS
  <2> QED BY <1>1, <2>1
<1> DEFINE g(p) == ImitByte(text, start, ((k + 1) - 1) * ImitBlock + p)
<1>4. ImitPart(text, start, k + 1) = [p \in 1 .. ImitBlock |-> g(p)]
  BY DEF ImitPart
<1>5. CASE k = 0
  <2>1. o = 0
    BY <1>5, <1>1
  <2>2. ASSUME NEW p \in 1 .. ImitBlock
        PROVE  g(p) = Xor(s[p], f[p])
    <3>1. ((k + 1) - 1) * ImitBlock + p = p /\ o + p = p /\ p <= ImitBlock
      BY <1>3, <2>1
    <3>2. ImitByte(text, start, p) = Xor(start[p], IF p <= Len(text) THEN text[p] ELSE Zero)
      BY <3>1, Zenon DEF ImitByte
    <3>3. f[p] = IF p <= Len(text) THEN text[p] ELSE Zero
      BY <3>1
    <3> QED BY <1>5, <3>1, <3>2, <3>3
  <2>3. ImitFed(links, text, start, k + 1) = ImitPart(text, start, k + 1)
    BY <1>5 DEF ImitFed
  <2> HIDE DEF g
  <2>4. [p \in 1 .. ImitBlock |-> g(p)] = [p \in 1 .. ImitBlock |-> Xor(s[p], f[p])]
    BY <2>2
  <2> QED BY <1>2, <1>4, <2>3, <2>4
<1>6. CASE k # 0
  <2>1. ASSUME NEW p \in 1 .. ImitBlock
        PROVE  g(p) = f[p]
    <3> DEFINE w == (k - 1) * ImitBlock
    <3>1. w \in Nat /\ k * ImitBlock = w + ImitBlock
      BY <1>1, <1>6
    <3> HIDE DEF w
    <3>2. ((k + 1) - 1) * ImitBlock + p = o + p /\ ~(o + p <= ImitBlock)
      BY <1>1, <1>3, <3>1
    <3>3. ImitByte(text, start, o + p) = IF o + p <= Len(text) THEN text[o + p] ELSE Zero
      BY <3>2, Zenon DEF ImitByte
    <3> QED BY <3>2, <3>3
  <2>2. k + 1 # 1 /\ (k + 1) - 1 = k /\ s = links[k]
    BY <1>6
  <2>3. ImitFed(links, text, start, k + 1) = BlockSum(ImitBlock, s, ImitPart(text, start, k + 1))
    BY <2>2, Zenon DEF ImitFed
  <2> DEFINE e == ImitPart(text, start, k + 1)
  <2>4. \A p \in 1 .. ImitBlock : e[p] = f[p]
    BY <1>4, <2>1
  <2> HIDE DEF e, g
  <2>5. BlockSum(ImitBlock, s, e) = [p \in 1 .. ImitBlock |-> Xor(s[p], f[p])]
    <3>1. BlockSum(ImitBlock, s, e) = [p \in 1 .. ImitBlock |-> Xor(s[p], e[p])]
      BY DEF BlockSum
    <3>2. [p \in 1 .. ImitBlock |-> Xor(s[p], e[p])] = [p \in 1 .. ImitBlock |-> Xor(s[p], f[p])]
      BY <2>4
    <3> QED BY <3>1, <3>2
  <2> QED BY <1>2, <2>3, <2>5 DEF e
<1> QED BY <1>5, <1>6

\* A whole block of the text is one,
LEMMA ImitTurnFed ==
    ASSUME I!SizeAssumption, NEW text, NEW n, Array(text, n), NEW start,
           NEW k \in Nat, NEW o, o = k * ImitBlock, o + ImitBlock <= n,
           NEW s, Array(s, ImitBlock), NEW links, s = IF k = 0 THEN start ELSE links[k]
    PROVE  I!XorBytes(s, SubSeq(text, o + 1, o + ImitBlock)) = ImitFed(links, text, start, k + 1)
<1>1. ImitBlock \in Nat \ {0} /\ n \in Nat /\ Len(text) = n /\ o \in Nat
  <2>1. ImitBlock \in Nat \ {0}
    BY DEF I!SizeAssumption
  <2>2. k * ImitBlock \in Nat
    BY <2>1
  <2> QED BY <2>1, <2>2, ArrayLen DEF Array
<1> DEFINE f == SubSeq(text, o + 1, o + ImitBlock)
<1>2. f = [p \in 1 .. ImitBlock |-> text[o + p]]
  BY <1>1, ArrayCut
<1> HIDE DEF f
<1>3. \A p \in 1 .. ImitBlock : f[p] = IF o + p <= Len(text) THEN text[o + p] ELSE Zero
  BY <1>1, <1>2
<1>4. I!XorBytes(s, f) = ImitFed(links, text, start, k + 1)
  BY <1>3, ImitAdded
<1> QED BY <1>4 DEF f

\* and so is the tail with zeros behind.
LEMMA ImitTailFed ==
    ASSUME I!SizeAssumption, NEW text, NEW n, Array(text, n), NEW start,
           NEW k \in Nat, NEW o, o = k * ImitBlock, o <= n, o + ImitBlock > n,
           NEW s, Array(s, ImitBlock), NEW links, s = IF k = 0 THEN start ELSE links[k]
    PROVE  I!XorBytes(s, I!Last(text, Len(text) - o) \o I!Zeros(ImitBlock - (Len(text) - o)))
             = ImitFed(links, text, start, k + 1)
<1>1. ImitBlock \in Nat \ {0} /\ n \in Nat /\ Len(text) = n /\ o \in Nat
  <2>1. ImitBlock \in Nat \ {0}
    BY DEF I!SizeAssumption
  <2>2. k * ImitBlock \in Nat
    BY <2>1
  <2> QED BY <2>1, <2>2, ArrayLen DEF Array
<1> DEFINE r == n - o
           m == ImitBlock - r
           t == I!Last(text, Len(text) - o)
           z == I!Zeros(ImitBlock - (Len(text) - o))
           f == t \o z
<1>2. r \in Nat /\ m \in Nat /\ r + m = ImitBlock /\ o + r = n /\ o + r <= n
  BY <1>1
<1>3. t = [p \in 1 .. r |-> text[o + p]]
  <2>1. Len(text) - (Len(text) - o) + 1 = o + 1 /\ Len(text) = o + r
    BY <1>1, <1>2
  <2>2. t = SubSeq(text, o + 1, o + r)
    BY <2>1 DEF I!Last
  <2> HIDE DEF r, t
  <2> QED BY <1>1, <1>2, <2>2, ArrayCut
<1>4. z = [p \in 1 .. m |-> Zero]
  BY <1>1 DEF I!Zeros, I!Zero, Zero
<1> HIDE DEF r, m, t, z
<1>5. Array(t, r) /\ Array(z, m)
  BY <1>2, <1>3, <1>4 DEF Array
<1>6. f = [i \in 1 .. r + m |-> IF i <= r THEN t[i] ELSE z[i - r]]
  <2>1. r \in Nat /\ m \in Nat
    BY <1>2
  <2> QED BY <1>5, <2>1, ArrayConcat
<1> HIDE DEF f
<1>7. ASSUME NEW p \in 1 .. ImitBlock
      PROVE  f[p] = IF o + p <= Len(text) THEN text[o + p] ELSE Zero
  <2>1. p <= r <=> o + p <= Len(text)
    BY <1>1, <1>2
  <2>2. p <= r => t[p] = text[o + p]
    BY <1>3
  <2>3. ~(p <= r) => z[p - r] = Zero
    BY <1>2, <1>4
  <2>4. f[p] = IF p <= r THEN t[p] ELSE z[p - r]
    BY <1>2, <1>6
  <2> QED BY <2>1, <2>2, <2>3, <2>4
<1>8. I!XorBytes(s, f) = ImitFed(links, text, start, k + 1)
  BY <1>7, ImitAdded
<1> QED BY <1>8 DEF f, t, z

\* The number of whole blocks of a text.
ImitWhole(text) == Len(text) \div ImitBlock

\* Two texts with their initial states mean the same if they have the same blocks.
LEMMA ImitMeaning ==
    ASSUME I!SizeAssumption, NEW s \in I!Texts, NEW i \in States, NEW t \in I!Texts, NEW j \in States
    PROVE  /\ ImitWhole(s) \in Nat
           /\ I!Meaning(s, i) = I!Meaning(t, j) <=>
                 /\ ImitWhole(s) = ImitWhole(t)
                 /\ \A k \in 1 .. ImitWhole(s) + 1 : ImitPart(s, i, k) = ImitPart(t, j, k)
<1>1. ImitBlock \in Nat \ {0}
  BY DEF I!SizeAssumption
<1>2. ASSUME NEW x \in I!Texts, NEW u \in States
      PROVE  /\ ImitWhole(x) \in Nat
             /\ I!Meaning(x, u) = <<ImitWhole(x), [q \in 1 .. (ImitWhole(x) + 1) * ImitBlock |-> ImitByte(x, u, q)]>>
  <2> DEFINE n == Len(x)
             w == n \div ImitBlock
             e == n % ImitBlock
             l == (w + 1) * ImitBlock
             z == I!Zeros(l - n)
             c == x \o z
  <2>1. n \in Nat /\ Array(x, n) /\ Array(u, ImitBlock)
    BY ImitStrings
  <2>2. w \in Nat /\ e \in 0 .. ImitBlock - 1 /\ n = w * ImitBlock + e
    <3> HIDE DEF n
    <3> QED BY <1>1, <2>1, Divided
  <2>3. ImitWhole(x) = w
    BY DEF ImitWhole
  <2>4. l \in Nat /\ n <= l /\ ImitBlock <= l
    <3> HIDE DEF w, e, n
    <3> DEFINE v == w * ImitBlock
    <3>1. v \in Nat /\ l = v + ImitBlock
      BY <1>1, <2>2
    <3> HIDE DEF l
    <3>2. n = v + e
      BY <2>2
    <3> HIDE DEF v
    <3> QED BY <1>1, <2>2, <3>1, <3>2
  <2>5. I!Meaning(x, u) = <<w, I!XorBytes(I!First(c, ImitBlock), u) \o SubSeq(c, ImitBlock + 1, Len(c))>>
    BY Zenon DEF I!Meaning
  <2> HIDE DEF n, w, e, l
  <2> DEFINE m == l - n
  <2>6. m \in Nat /\ n + m = l
    BY <2>1, <2>4
  <2>7. z = [p \in 1 .. m |-> Zero]
    BY DEF I!Zeros, I!Zero, Zero
  <2> HIDE DEF m, z
  <2>8. Array(z, m)
    BY <2>6, <2>7 DEF Array
  <2>9. c = [q \in 1 .. n + m |-> IF q <= n THEN x[q] ELSE z[q - n]]
    BY <2>1, <2>6, <2>8, ArrayConcat
  <2> HIDE DEF c
  <2>10. Array(c, l) /\ \A q \in 1 .. l : c[q] = IF q <= n THEN x[q] ELSE Zero
    <3>1. Array(c, l)
      BY <2>4, <2>6, <2>9 DEF Array
    <3>2. \A q \in 1 .. l : ~(q <= n) => z[q - n] = Zero
      BY <2>1, <2>6, <2>7
    <3>3. \A q \in 1 .. l : c[q] = IF q <= n THEN x[q] ELSE z[q - n]
      BY <2>6, <2>9
    <3> QED BY <3>1, <3>2, <3>3
  <2> DEFINE a1 == I!First(c, ImitBlock)
             a2 == I!XorBytes(a1, u)
             a3 == SubSeq(c, ImitBlock + 1, Len(c))
             r == l - ImitBlock
  <2>11. a1 = [p \in 1 .. ImitBlock |-> c[p]]
    <3>1. a1 = SubSeq(c, 1, ImitBlock)
      BY DEF I!First
    <3> QED BY <1>1, <2>4, <2>10, <3>1, ArrayFirst
  <2>12. a2 = [p \in 1 .. ImitBlock |-> Xor(c[p], u[p])]
    <3>1. Array(a1, ImitBlock) /\ \A p \in 1 .. ImitBlock : a1[p] = c[p]
      BY <1>1, <2>11 DEF Array
    <3> HIDE DEF a1
    <3>2. Len(a1) = ImitBlock
      BY <3>1, ArrayLen
    <3>3. a2 = [p \in 1 .. ImitBlock |-> Xor(a1[p], u[p])]
      BY <3>2, Zenon DEF I!XorBytes, I!Xor, Xor
    <3> HIDE DEF a2
    <3>4. [p \in 1 .. ImitBlock |-> Xor(a1[p], u[p])] = [p \in 1 .. ImitBlock |-> Xor(c[p], u[p])]
      BY <3>1
    <3> QED BY <3>3, <3>4
  <2>13. a3 = [p \in 1 .. r |-> c[ImitBlock + p]] /\ r \in Nat /\ ImitBlock + r = l
    <3>1. r \in Nat /\ ImitBlock + r = l /\ ImitBlock + r <= l
      BY <1>1, <2>4
    <3>2. Len(c) = l
      BY <2>10, ArrayLen
    <3> HIDE DEF r
    <3>3. a3 = SubSeq(c, ImitBlock + 1, ImitBlock + r)
      BY <3>1, <3>2
    <3> HIDE DEF a3
    <3> QED BY <1>1, <2>10, <3>1, <3>3, ArrayCut
  <2> HIDE DEF a1, a2, a3, r
  <2> DEFINE h == a2 \o a3
  <2>14. Array(a2, ImitBlock) /\ Array(a3, r)
    BY <1>1, <2>12, <2>13 DEF Array
  <2>15. h = [q \in 1 .. ImitBlock + r |-> IF q <= ImitBlock THEN a2[q] ELSE a3[q - ImitBlock]]
    <3>1. ImitBlock \in Nat /\ r \in Nat
      BY <1>1, <2>13
    <3> QED BY <2>14, <3>1, ArrayConcat
  <2> HIDE DEF h
  <2>16. ASSUME NEW q \in 1 .. l
         PROVE  h[q] = ImitByte(x, u, q)
    <3>1. h[q] = IF q <= ImitBlock THEN a2[q] ELSE a3[q - ImitBlock]
      BY <2>13, <2>15
    <3>2. c[q] = IF q <= Len(x) THEN x[q] ELSE Zero
      BY <2>10 DEF n
    <3>3. ImitByte(x, u, q) = IF q <= ImitBlock THEN Xor(u[q], c[q]) ELSE c[q]
      BY <3>2, Zenon DEF ImitByte
    <3>4. q <= ImitBlock => a2[q] = Xor(c[q], u[q])
      BY <2>12
    <3>5. ~(q <= ImitBlock) => a3[q - ImitBlock] = c[q]
      BY <1>1, <2>13
    <3>6. Xor(c[q], u[q]) = Xor(u[q], c[q])
      BY DEF Xor
    <3> QED BY <3>1, <3>3, <3>4, <3>5, <3>6
  <2>17. h = [q \in 1 .. l |-> ImitByte(x, u, q)]
    <3>1. h = [q \in 1 .. l |-> h[q]]
      BY <2>13, <2>15
    <3>2. [q \in 1 .. l |-> h[q]] = [q \in 1 .. l |-> ImitByte(x, u, q)]
      BY <2>16
    <3> QED BY <3>1, <3>2
  <2>18. I!Meaning(x, u) = <<w, h>>
    BY <2>5 DEF a1, a2, a3, h
  <2> QED BY <2>2, <2>3, <2>17, <2>18 DEF l
<1> DEFINE v == ImitWhole(s)
           w == ImitWhole(t)
           f == [q \in 1 .. (v + 1) * ImitBlock |-> ImitByte(s, i, q)]
           g == [q \in 1 .. (w + 1) * ImitBlock |-> ImitByte(t, j, q)]
<1>3. v \in Nat /\ w \in Nat /\ I!Meaning(s, i) = <<v, f>> /\ I!Meaning(t, j) = <<w, g>>
  BY <1>2
<1> HIDE DEF v, w
<1>4. v = w => (f = g <=> \A k \in 1 .. v + 1 : ImitPart(s, i, k) = ImitPart(t, j, k))
  <2> SUFFICES ASSUME v = w
               PROVE  f = g <=> \A k \in 1 .. v + 1 : ImitPart(s, i, k) = ImitPart(t, j, k)
    OBVIOUS
  <2> DEFINE l == (v + 1) * ImitBlock
  <2>1. l \in Nat
    BY <1>1, <1>3
  <2>2. f = g <=> \A q \in 1 .. l : ImitByte(s, i, q) = ImitByte(t, j, q)
    <3> HIDE DEF l
    <3>1. f = [q \in 1 .. l |-> ImitByte(s, i, q)] /\ g = [q \in 1 .. l |-> ImitByte(t, j, q)]
      BY DEF l
    <3> HIDE DEF f, g
    <3>2. ASSUME f = g, NEW q \in 1 .. l
          PROVE  ImitByte(s, i, q) = ImitByte(t, j, q)
      <4>1. f[q] = ImitByte(s, i, q) /\ g[q] = ImitByte(t, j, q)
        BY <3>1
      <4> QED BY <3>2, <4>1
    <3> QED BY <3>1, <3>2
  <2>3. ASSUME NEW k \in 1 .. v + 1, NEW p \in 1 .. ImitBlock
        PROVE  (k - 1) * ImitBlock + p \in 1 .. l
    <3> DEFINE d == (k - 1) * ImitBlock
    <3>1. d \in Nat /\ d + ImitBlock <= l
      <4>1. d \in Nat /\ k * ImitBlock = d + ImitBlock
        BY <1>1, <1>3
      <4>2. k * ImitBlock <= l
        BY <1>1, <1>3
      <4> QED BY <4>1, <4>2
    <3> HIDE DEF d, l
    <3>2. d + p \in 1 .. l
      BY <1>1, <2>1, <3>1
    <3> QED BY <3>2 DEF d
  <2>4. ASSUME NEW q \in 1 .. l
        PROVE  \E k \in 1 .. v + 1 : \E p \in 1 .. ImitBlock : q = (k - 1) * ImitBlock + p
    <3> DEFINE d == (q - 1) \div ImitBlock
               e == (q - 1) % ImitBlock
    <3>1. q - 1 \in Nat
      OBVIOUS
    <3>2. d \in Nat /\ e \in 0 .. ImitBlock - 1 /\ q - 1 = d * ImitBlock + e
      BY <1>1, <3>1, Divided
    <3> HIDE DEF d, e
    <3>3. d <= v
      <4> SUFFICES ASSUME d >= v + 1 PROVE FALSE
        BY <1>3, <3>2
      <4>1. d * ImitBlock >= (v + 1) * ImitBlock
        BY <1>1, <1>3, <3>2
      <4>2. d * ImitBlock \in Nat
        BY <1>1, <3>2
      <4>3. q <= l
        OBVIOUS
      <4> QED BY <1>1, <2>1, <3>2, <4>1, <4>2, <4>3
    <3>4. d + 1 \in 1 .. v + 1 /\ e + 1 \in 1 .. ImitBlock /\ (d + 1) - 1 = d
      BY <1>1, <1>3, <3>2, <3>3
    <3>5. q = ((d + 1) - 1) * ImitBlock + (e + 1)
      <4>1. d * ImitBlock \in Nat
        BY <1>1, <3>2
      <4> QED BY <3>2, <3>4, <4>1
    <3> QED BY <3>4, <3>5
  <2>5. ASSUME NEW k \in 1 .. v + 1
        PROVE  ImitPart(s, i, k) = ImitPart(t, j, k) <=>
                 \A p \in 1 .. ImitBlock :
                     ImitByte(s, i, (k - 1) * ImitBlock + p) = ImitByte(t, j, (k - 1) * ImitBlock + p)
    <3> DEFINE x == ImitPart(s, i, k)
               y == ImitPart(t, j, k)
    <3>1. /\ x = [p \in 1 .. ImitBlock |-> x[p]] /\ y = [p \in 1 .. ImitBlock |-> y[p]]
          /\ \A p \in 1 .. ImitBlock : /\ x[p] = ImitByte(s, i, (k - 1) * ImitBlock + p)
                                       /\ y[p] = ImitByte(t, j, (k - 1) * ImitBlock + p)
      BY DEF ImitPart
    <3> HIDE DEF x, y
    <3>2. x = y <=> \A p \in 1 .. ImitBlock : x[p] = y[p]
      BY <3>1
    <3> QED BY <3>1, <3>2 DEF x, y
  <2> HIDE DEF f, g, l
  <2> QED BY <2>2, <2>3, <2>4, <2>5
<1> HIDE DEF f, g
<1>5. <<v, f>> = <<w, g>> <=> v = w /\ f = g
  OBVIOUS
<1> QED BY <1>3, <1>4, <1>5 DEF v, w

\* Two keys are the same if their parts differ by the same.
LEMMA ImitKeys ==
    ASSUME I!SizeAssumption,
           NEW p \in 0 .. WordRadix - 1, NEW q \in 0 .. WordRadix - 1,
           NEW r \in 0 .. WordRadix - 1, NEW s \in 0 .. WordRadix - 1
    PROVE  /\ I!Difference(p, q) \in 0 .. WordRadix - 1
           /\ I!Difference(p, q) = I!Difference(r, s) <=> (p + s) % WordRadix = (r + q) % WordRadix
<1> DEFINE n == WordRadix
<1>1. n \in Nat \ {0}
  BY DEF I!SizeAssumption
<1>2. \A x \in 0 .. n - 1 : x % n = x
  <2> HIDE DEF n
  <2> QED BY <1>1
<1>3. \A x \in 0 .. n - 1 : (x + n) % n = x
  <2> HIDE DEF n
  <2> QED BY <1>1
<1>4. \A x \in 0 .. n - 1 : (x - n) % n = x
  <2> HIDE DEF n
  <2> QED BY <1>1
<1>5. ASSUME NEW x \in 0 .. n - 1, NEW y \in 0 .. n - 1
      PROVE  /\ (x - y) % n = IF x >= y THEN x - y ELSE (x - y) + n
             /\ (x + y) % n = IF x + y < n THEN x + y ELSE (x + y) - n
  <2> HIDE DEF n
  <2>1. x >= y => x - y \in 0 .. n - 1
    BY <1>1
  <2>2. ~(x >= y) => (x - y) + n \in 0 .. n - 1 /\ ((x - y) + n) - n = x - y
    BY <1>1
  <2>3. x + y < n => x + y \in 0 .. n - 1
    BY <1>1
  <2>4. ~(x + y < n) => (x + y) - n \in 0 .. n - 1 /\ ((x + y) - n) + n = x + y
    BY <1>1
  <2>5. (x - y) % n = IF x >= y THEN x - y ELSE (x - y) + n
    BY <1>2, <1>4, <2>1, <2>2
  <2>6. (x + y) % n = IF x + y < n THEN x + y ELSE (x + y) - n
    BY <1>2, <1>3, <2>3, <2>4
  <2> QED BY <2>5, <2>6
<1>6. I!Difference(p, q) = (p - q) % n /\ I!Difference(r, s) = (r - s) % n
  BY DEF I!Difference
<1> DEFINE d == (p - q) % n
           e == (r - s) % n
           f == (p + s) % n
           g == (r + q) % n
<1>7. /\ d = IF p >= q THEN p - q ELSE (p - q) + n
      /\ e = IF r >= s THEN r - s ELSE (r - s) + n
      /\ f = IF p + s < n THEN p + s ELSE (p + s) - n
      /\ g = IF r + q < n THEN r + q ELSE (r + q) - n
  BY <1>5
<1>8. p \in 0 .. n - 1 /\ q \in 0 .. n - 1 /\ r \in 0 .. n - 1 /\ s \in 0 .. n - 1
  OBVIOUS
<1> HIDE DEF d, e, f, g, n
<1>9. d \in 0 .. n - 1 /\ (d = e <=> f = g)
  BY <1>1, <1>7, <1>8
<1> QED BY <1>6, <1>9 DEF d, e, f, g, n

\* A chain goes on with what rounds make of its end and the next block.
LEMMA ImitLonger ==
    ASSUME NEW links, NEW text, NEW start, NEW k0, NEW k \in Nat,
           ImitChain(links, text, start, k0, k),
           NEW made, made = Rounds(ImitBlock, k0, ImitFed(links, text, start, k + 1))
    PROVE  \E more : ImitChain(more, text, start, k0, k + 1) /\ more[k + 1] = made
<1> DEFINE l == [j \in 1 .. k + 1 |-> IF j <= k THEN links[j] ELSE made]
<1>1. (\A j \in 1 .. k : l[j] = links[j]) /\ l[k + 1] = made
  OBVIOUS
<1> HIDE DEF l
<1>2. ASSUME NEW j \in 1 .. k + 1
      PROVE  ImitFed(l, text, start, j) = ImitFed(links, text, start, j)
  <2>1. CASE j = 1
    BY <2>1, Zenon DEF ImitFed
  <2>2. CASE j # 1
    <3>1. j - 1 \in 1 .. k
      BY <2>2
    <3>2. l[j - 1] = links[j - 1]
      BY <1>1, <3>1
    <3> QED BY <3>2, Zenon DEF ImitFed
  <2> QED BY <2>1, <2>2
<1>3. ASSUME NEW j \in 1 .. k + 1
      PROVE  l[j] = Rounds(ImitBlock, k0, ImitFed(l, text, start, j))
  <2>1. CASE j = k + 1
    BY <1>1, <1>2, <2>1
  <2>2. CASE j # k + 1
    <3>1. j \in 1 .. k
      BY <2>2
    <3>2. links[j] = Rounds(ImitBlock, k0, ImitFed(links, text, start, j))
      BY <3>1 DEF ImitChain
    <3> QED BY <1>1, <1>2, <3>1, <3>2
  <2> QED BY <2>1, <2>2
<1>4. ImitChain(l, text, start, k0, k + 1)
  BY <1>3 DEF ImitChain
<1> QED BY <1>1, <1>4

\* What a call gave: the end of the chain over the text and the block behind its
\* last whole one.
ImitAnswer(text, start, parts, result) ==
    /\ text \in I!Texts /\ start \in States
    /\ \E p, q \in 0 .. WordRadix - 1 : parts = <<p, q>>
    /\ \E links :
           /\ ImitChain(links, text, start, I!Difference(parts[1], parts[2]), ImitWhole(text) + 1)
           /\ result = links[ImitWhole(text) + 1]

ImitTypes ==
    /\ active \in BOOLEAN
    /\ in \in I!Texts /\ init \in States
    /\ \E p, q \in 0 .. WordRadix - 1 : ab = <<p, q>>
    /\ st = I!Difference(ab[1], ab[2])

\* The invariant: a call has come to a whole number of blocks and holds the end
\* of the chain over them.
ImitInv ==
    /\ ImitTypes
    /\ \E k \in Nat :
           /\ off = k * ImitBlock /\ off <= Len(in)
           /\ active =>
                  /\ Array(iv, ImitBlock)
                  /\ \E links : ImitChain(links, in, init, st, k)
                                /\ iv = IF k = 0 THEN init ELSE links[k]
    /\ ~active /\ out # <<>> => ImitAnswer(in, init, ab, out)
    /\ sealed.out # <<>> => ImitAnswer(sealed.in, sealed.init, sealed.ab, sealed.out)

\* The empty text and the key of zeros.
LEMMA ImitNothing ==
    ASSUME I!SizeAssumption
    PROVE  /\ <<>> \in I!Texts /\ Len(<<>>) = 0
           /\ \E p, q \in 0 .. WordRadix - 1 : <<0, 0>> = <<p, q>>
           /\ I!Difference(<<0, 0>>[1], <<0, 0>>[2]) = 0
           /\ 0 = 0 * ImitBlock
<1>1. ImitBlock \in Nat \ {0} /\ WordRadix \in Nat \ {0} /\ MaxText \in Nat
  BY DEF I!SizeAssumption
<1>2. <<>> \in [1 .. 0 -> Values] /\ 0 \in 0 .. MaxText
  BY <1>1
<1>3. <<>> \in I!Texts
  BY <1>2 DEF I!Texts
<1>4. 0 \in 0 .. WordRadix - 1
  BY <1>1
<1>5. I!Difference(0, 0) = 0
  <2>1. 0 % WordRadix = 0
    BY <1>1
  <2> QED BY <2>1 DEF I!Difference
<1>6. <<0, 0>>[1] = 0 /\ <<0, 0>>[2] = 0
  OBVIOUS
<1>7. 0 = 0 * ImitBlock
  BY <1>1
<1> QED BY <1>3, <1>4, <1>5, <1>6, <1>7

\* It holds of the caller without a call.
LEMMA ImitInitial == I!SizeAssumption /\ I!Init => ImitInv
<1> SUFFICES ASSUME I!SizeAssumption, I!Init
             PROVE  ImitInv
  OBVIOUS
<1>1. ImitTypes
  BY ImitNothing DEF I!Init, ImitTypes
<1>2. off = 0 * ImitBlock /\ off <= Len(in) /\ ~active /\ 0 \in Nat
  BY ImitNothing DEF I!Init
<1>3. out = <<>> /\ sealed.out = <<>>
  BY DEF I!Init, I!NoCall
<1> QED BY <1>1, <1>2, <1>3 DEF ImitInv

\* A call begins.
LEMMA ImitCalled ==
    ASSUME I!SizeAssumption, ImitInv,
           NEW text \in I!Texts, NEW start \in States,
           NEW p \in 0 .. WordRadix - 1, NEW q \in 0 .. WordRadix - 1,
           I!gost28147_imit_cp12(text, start, p, q)
    PROVE  ImitInv'
<1> USE DEF I!gost28147_imit_cp12
<1>1. ImitTypes'
  <2>1. ab'[1] = p /\ ab'[2] = q
    OBVIOUS
  <2> QED BY <2>1 DEF ImitTypes
<1>2. off' = 0 * ImitBlock /\ off' <= Len(in') /\ 0 \in Nat
  BY ImitNothing, ImitStrings
<1>3. Array(iv', ImitBlock)
  BY ImitStrings
<1>4. ImitChain(<<>>, in', init', st', 0)
  BY DEF ImitChain
<1>5. iv' = init'
  OBVIOUS
<1>6. sealed'.out # <<>> => ImitAnswer(sealed'.in, sealed'.init, sealed'.ab, sealed'.out)
  <2>1. /\ sealed'.in = in /\ sealed'.init = init /\ sealed'.ab = ab /\ sealed'.out = out
        /\ ~active
    OBVIOUS
  <2> QED BY <2>1 DEF ImitInv
<1>7. active'
  OBVIOUS
<1> QED BY <1>1, <1>2, <1>3, <1>4, <1>5, <1>6, <1>7 DEF ImitInv

\* A turn of the loop takes the next whole block,
LEMMA ImitTurned ==
    ASSUME I!SizeAssumption, ImitInv, I!Turn
    PROVE  ImitInv'
<1> USE DEF I!Turn
<1>1. active /\ ImitTypes /\ Len(in) \in Nat /\ Array(in, Len(in)) /\ ImitBlock \in Nat \ {0}
  BY ImitStrings DEF ImitInv, ImitTypes, I!SizeAssumption
<1>2. PICK k \in Nat : /\ off = k * ImitBlock /\ off <= Len(in)
                       /\ Array(iv, ImitBlock)
                       /\ \E links : ImitChain(links, in, init, st, k)
                                     /\ iv = IF k = 0 THEN init ELSE links[k]
  BY <1>1 DEF ImitInv
<1>3. PICK links : ImitChain(links, in, init, st, k) /\ iv = IF k = 0 THEN init ELSE links[k]
  BY <1>2
<1> DEFINE fed == I!XorBytes(iv, SubSeq(in, off + 1, off + ImitBlock))
<1>4. fed = ImitFed(links, in, init, k + 1)
  <2>1. off + ImitBlock <= Len(in)
    OBVIOUS
  <2>2. off = k * ImitBlock /\ Array(iv, ImitBlock)
    BY <1>2
  <2>3. Array(in, Len(in)) /\ iv = IF k = 0 THEN init ELSE links[k]
    BY <1>1, <1>3
  <2> HIDE DEF I!Turn
  <2> QED BY <2>1, <2>2, <2>3, ImitTurnFed
<1>5. iv' = Rounds(ImitBlock, st, fed)
  BY ImitRoundsAre
<1> HIDE DEF fed
<1>6. \E more : ImitChain(more, in, init, st, k + 1) /\ more[k + 1] = iv'
  BY <1>3, <1>4, <1>5, ImitLonger
<1>7. Array(iv', ImitBlock)
  BY <1>1, <1>5, RoundsArray
<1>8. off' = (k + 1) * ImitBlock /\ off' <= Len(in)
  <2>1. (k + 1) * ImitBlock = k * ImitBlock + ImitBlock
    BY <1>1
  <2> QED BY <1>2, <2>1
<1>9. ImitTypes'
  BY <1>1 DEF ImitTypes
<1>10. UNCHANGED <<in, init, st, out, sealed>> /\ active' /\ k + 1 \in Nat /\ k + 1 # 0
  BY <1>1
<1>11. sealed.out # <<>> => ImitAnswer(sealed.in, sealed.init, sealed.ab, sealed.out)
  BY DEF ImitInv
<1>12. \E more : ImitChain(more, in', init', st', k + 1)
                 /\ iv' = IF k + 1 = 0 THEN init' ELSE more[k + 1]
  BY <1>6, <1>10
<1> HIDE DEF I!Turn
<1>13. off' <= Len(in')
  BY <1>8, <1>10
<1>14. sealed'.out # <<>> => ImitAnswer(sealed'.in, sealed'.init, sealed'.ab, sealed'.out)
  BY <1>10, <1>11
<1> QED BY <1>7, <1>8, <1>9, <1>10, <1>12, <1>13, <1>14 DEF ImitInv

\* and the end of the call the rest.
LEMMA ImitFinished ==
    ASSUME I!SizeAssumption, ImitInv, I!Finish
    PROVE  ImitInv'
<1> USE DEF I!Finish
<1>1. active /\ ImitTypes /\ Len(in) \in Nat /\ Array(in, Len(in)) /\ ImitBlock \in Nat \ {0}
  BY ImitStrings DEF ImitInv, ImitTypes, I!SizeAssumption
<1>2. PICK k \in Nat : /\ off = k * ImitBlock /\ off <= Len(in)
                       /\ Array(iv, ImitBlock)
                       /\ \E links : ImitChain(links, in, init, st, k)
                                     /\ iv = IF k = 0 THEN init ELSE links[k]
  BY <1>1 DEF ImitInv
<1>3. PICK links : ImitChain(links, in, init, st, k) /\ iv = IF k = 0 THEN init ELSE links[k]
  BY <1>2
<1>4. I!WithTail = ImitFed(links, in, init, k + 1)
  <2>1. off + ImitBlock > Len(in)
    OBVIOUS
  <2>2. I!WithTail = I!XorBytes(iv, I!Last(in, Len(in) - off) \o I!Zeros(ImitBlock - (Len(in) - off)))
    BY DEF I!WithTail
  <2> DEFINE f == I!XorBytes(iv, I!Last(in, Len(in) - off) \o I!Zeros(ImitBlock - (Len(in) - off)))
  <2>3. f = ImitFed(links, in, init, k + 1)
    <3>1. off <= Len(in) /\ off = k * ImitBlock /\ Array(iv, ImitBlock)
      BY <1>2
    <3>2. Array(in, Len(in)) /\ iv = IF k = 0 THEN init ELSE links[k]
      BY <1>1, <1>3
    <3> HIDE DEF I!Finish
    <3> QED BY <2>1, <3>1, <3>2, ImitTailFed
  <2> HIDE DEF f
  <2> QED BY <2>2, <2>3 DEF f
<1>5. out' = Rounds(ImitBlock, st, ImitFed(links, in, init, k + 1))
  BY <1>4, ImitRoundsAre
<1>6. \E more : ImitChain(more, in, init, st, k + 1) /\ more[k + 1] = out'
  BY <1>3, <1>5, ImitLonger
<1>7. ImitWhole(in) = k
  <2> DEFINE e == Len(in) - off
             w == k * ImitBlock
  <2>1. w \in Nat
    BY <1>1
  <2>2. e \in 0 .. ImitBlock - 1
    <3>1. off = w /\ ~(off + ImitBlock <= Len(in))
      BY <1>1, <1>2
    <3> HIDE DEF w, I!Finish
    <3> QED BY <1>1, <1>2, <2>1, <3>1
  <2>3. Len(in) = w + e
    <3>1. off = w
      BY <1>2
    <3> HIDE DEF w, I!Finish
    <3> QED BY <1>1, <2>1, <3>1
  <2>4. (k * ImitBlock + e) \div ImitBlock = k
    <3> HIDE DEF e
    <3> QED BY <1>1, <2>2, Quotient
  <2> HIDE DEF e
  <2> QED BY <2>3, <2>4 DEF ImitWhole
<1>8. ImitTypes'
  BY <1>1 DEF ImitTypes
<1>9. UNCHANGED <<in, init, ab, st, off, sealed>> /\ ~active'
  OBVIOUS
<1> HIDE DEF I!Finish
<1>10. ImitAnswer(in, init, ab, out')
  <2>1. st = I!Difference(ab[1], ab[2])
    BY <1>1 DEF ImitTypes
  <2>2. in \in I!Texts /\ init \in States /\ \E p, q \in 0 .. WordRadix - 1 : ab = <<p, q>>
    BY <1>1 DEF ImitTypes
  <2> QED BY <1>6, <1>7, <2>1, <2>2 DEF ImitAnswer
<1>11. sealed.out # <<>> => ImitAnswer(sealed.in, sealed.init, sealed.ab, sealed.out)
  BY DEF ImitInv
<1>12. off' = k * ImitBlock /\ off' <= Len(in')
  BY <1>2, <1>9
<1>13. ImitAnswer(in', init', ab', out')
  BY <1>9, <1>10
<1>14. sealed'.out # <<>> => ImitAnswer(sealed'.in, sealed'.init, sealed'.ab, sealed'.out)
  BY <1>9, <1>11
<1> QED BY <1>8, <1>9, <1>12, <1>13, <1>14 DEF ImitInv

\* The calls that were compared are gone.
LEMMA ImitForgotten ==
    ASSUME I!SizeAssumption, ImitInv, I!Forget
    PROVE  ImitInv'
<1>1. ImitTypes'
  BY ImitNothing DEF ImitInv, ImitTypes, I!Forget
<1>2. off' = 0 * ImitBlock /\ off' <= Len(in') /\ ~active' /\ 0 \in Nat
  BY ImitNothing DEF I!Forget
<1>3. out' = <<>> /\ sealed'.out = <<>>
  BY DEF I!Forget, I!NoCall
<1> QED BY <1>1, <1>2, <1>3 DEF ImitInv

\* Every step preserves the invariant.
LEMMA ImitPreserved == I!SizeAssumption /\ ImitInv /\ I!Next => ImitInv'
<1> SUFFICES ASSUME I!SizeAssumption, ImitInv, I!Next
             PROVE  ImitInv'
  OBVIOUS
<1>1. CASE \E text \in I!Texts, start \in States, p, q \in 0 .. WordRadix - 1 :
               I!gost28147_imit_cp12(text, start, p, q)
  BY <1>1, ImitCalled
<1>2. CASE I!Turn
  BY <1>2, ImitTurned
<1>3. CASE I!Finish
  BY <1>3, ImitFinished
<1>4. CASE I!Forget
  BY <1>4, ImitForgotten
<1> QED BY <1>1, <1>2, <1>3, <1>4 DEF I!Next

\* The types of the run.
LEMMA ImitTypeCorrect == I!SizeAssumption /\ ImitInv => I!TypeOK
<1> SUFFICES ASSUME I!SizeAssumption, ImitInv
             PROVE  I!TypeOK
  OBVIOUS
<1>1. ImitTypes /\ ImitBlock \in Nat \ {0}
  BY DEF ImitInv, I!SizeAssumption
<1>2. st \in 0 .. WordRadix - 1
  <2>1. PICK p, q \in 0 .. WordRadix - 1 : ab = <<p, q>>
    BY <1>1 DEF ImitTypes
  <2>2. st = I!Difference(p, q)
    BY <1>1, <2>1 DEF ImitTypes
  <2> QED BY <2>1, <2>2, ImitKeys
<1>3. PICK k \in Nat : off = k * ImitBlock /\ off <= Len(in) /\ (active => Array(iv, ImitBlock))
  BY DEF ImitInv
<1>4. off % ImitBlock = 0
  <2> DEFINE z == 0
  <2>1. z \in 0 .. ImitBlock - 1
    BY <1>1
  <2> HIDE DEF z
  <2>2. (k * ImitBlock + z) % ImitBlock = z
    BY <1>1, <2>1, Quotient
  <2>3. k * ImitBlock \in Nat
    BY <1>1
  <2>4. k * ImitBlock + z = k * ImitBlock
    BY <2>3 DEF z
  <2> QED BY <1>3, <2>2, <2>4 DEF z
<1>5. active => Len(iv) = ImitBlock
  BY <1>3, ArrayLen
<1> QED BY <1>1, <1>2, <1>3, <1>4, <1>5 DEF I!TypeOK, ImitTypes

\* Two answers are the same exactly if the texts mean the same, and the keys.
LEMMA ImitAnswersTell ==
    ASSUME I!SizeAssumption,
           NEW s, NEW i, NEW c, NEW x, ImitAnswer(s, i, c, x),
           NEW t, NEW j, NEW d, NEW y, ImitAnswer(t, j, d, y)
    PROVE  x = y <=> /\ I!Meaning(s, i) = I!Meaning(t, j)
                     /\ (c[1] + d[2]) % WordRadix = (d[1] + c[2]) % WordRadix
<1> DEFINE k == I!Difference(c[1], c[2])
           l == I!Difference(d[1], d[2])
           m == ImitWhole(s) + 1
           n == ImitWhole(t) + 1
<1>1. s \in I!Texts /\ i \in States /\ t \in I!Texts /\ j \in States
  BY DEF ImitAnswer
<1>2. PICK f : ImitChain(f, s, i, k, m) /\ x = f[m]
  BY DEF ImitAnswer
<1>3. PICK g : ImitChain(g, t, j, l, n) /\ y = g[n]
  BY DEF ImitAnswer
<1>4. k = l <=> (c[1] + d[2]) % WordRadix = (d[1] + c[2]) % WordRadix
  <2>1. PICK p, q \in 0 .. WordRadix - 1 : c = <<p, q>>
    BY DEF ImitAnswer
  <2>2. PICK r, o \in 0 .. WordRadix - 1 : d = <<r, o>>
    BY DEF ImitAnswer
  <2>3. c[1] = p /\ c[2] = q /\ d[1] = r /\ d[2] = o
    BY <2>1, <2>2
  <2>4. I!Difference(p, q) = I!Difference(r, o) <=> (p + o) % WordRadix = (r + q) % WordRadix
    BY <2>1, <2>2, ImitKeys
  <2> QED BY <2>3, <2>4
<1>5. /\ ImitWhole(s) \in Nat /\ ImitWhole(t) \in Nat
      /\ I!Meaning(s, i) = I!Meaning(t, j) <=>
            /\ ImitWhole(s) = ImitWhole(t)
            /\ \A q \in 1 .. ImitWhole(s) + 1 : ImitPart(s, i, q) = ImitPart(t, j, q)
  BY <1>1, ImitMeaning
<1>6. m \in Nat \ {0} /\ n \in Nat \ {0} /\ (m = n <=> ImitWhole(s) = ImitWhole(t))
  BY <1>5
<1>7. /\ I!Meaning(s, i) = I!Meaning(t, j) <=>
            m = n /\ \A q \in 1 .. m : ImitPart(s, i, q) = ImitPart(t, j, q)
  BY <1>5, <1>6
<1>8. ImitFree(s, i) /\ ImitFree(t, j) /\ ImitBlock \in Nat \ {0}
  BY <1>1, ImitStrings DEF I!SizeAssumption
<1> HIDE DEF k, l, m, n
<1>9. ASSUME x = y
      PROVE  k = l /\ m = n /\ \A q \in 1 .. m : ImitPart(s, i, q) = ImitPart(t, j, q)
  <2>1. f[m] = g[n]
    BY <1>2, <1>3, <1>9
  <2> QED BY <1>2, <1>3, <1>6, <1>8, <2>1, ImitChainTells
<1>10. ASSUME k = l, m = n, \A q \in 1 .. m : ImitPart(s, i, q) = ImitPart(t, j, q)
       PROVE  x = y
  <2>1. ImitChain(g, t, j, k, m)
    BY <1>3, <1>10
  <2>2. f[m] = g[m]
    BY <1>2, <1>6, <1>10, <2>1, ImitChainSame
  <2> QED BY <1>2, <1>3, <1>10, <2>2
<1> QED BY <1>4, <1>7, <1>9, <1>10

\* What the run compares are two answers.
LEMMA ImitSeparates == I!SizeAssumption /\ ImitInv => I!MacSeparates
<1> SUFFICES ASSUME I!SizeAssumption, ImitInv, ~active, out # <<>>, sealed.out # <<>>
             PROVE  out = sealed.out <=>
                        /\ I!Meaning(in, init) = I!Meaning(sealed.in, sealed.init)
                        /\ (ab[1] + sealed.ab[2]) % WordRadix = (sealed.ab[1] + ab[2]) % WordRadix
  BY DEF I!MacSeparates
<1>1. ImitAnswer(in, init, ab, out) /\ ImitAnswer(sealed.in, sealed.init, sealed.ab, sealed.out)
  BY DEF ImitInv
<1> QED BY <1>1, ImitAnswersTell

\* A step of another function leaves everything as it is.
LEMMA ImitUnchanged ==
    ASSUME ImitInv, UNCHANGED I!vars
    PROVE  ImitInv'
<1>1. UNCHANGED <<active, in, init, ab, st, iv, off, out, sealed>>
  BY DEF I!vars
<1>2. ImitTypes'
  BY <1>1 DEF ImitInv, ImitTypes
<1>3. \E k \in Nat :
           /\ off' = k * ImitBlock /\ off' <= Len(in')
           /\ active' =>
                  /\ Array(iv', ImitBlock)
                  /\ \E links : ImitChain(links, in', init', st', k)
                                /\ iv' = IF k = 0 THEN init' ELSE links[k]
  BY <1>1 DEF ImitInv
<1>4. ~active' /\ out' # <<>> => ImitAnswer(in', init', ab', out')
  BY <1>1, Zenon DEF ImitInv
<1>5. sealed'.out # <<>> => ImitAnswer(sealed'.in, sealed'.init, sealed'.ab, sealed'.out)
  BY <1>1, Zenon DEF ImitInv
<1> QED BY <1>2, <1>3, <1>4, <1>5 DEF ImitInv

-----------------------------------------------------------------------------
(***************************************************************************)
(* The functions together.                                                 *)
(***************************************************************************)

Inv ==
    /\ unit \in {"omac", "cfb", "rc2", "keybag", "imit"}
    /\ unit = "omac" => OmacInv
    /\ unit = "cfb" => CfbInv
    /\ unit = "rc2" => PbeInv /\ PbeCame
    /\ unit = "keybag" => BagInv
    /\ unit = "imit" => ImitInv

\* The sizes the constants are assumed to have.
LEMMA Sized ==
    O!SizeAssumption /\ C!SizeAssumption /\ R!SizeAssumption /\ B!SizeAssumption /\ I!SizeAssumption
BY ConstantsAssumption

\* It holds at first.
LEMMA InitInv == Init => Inv
BY Sized, OmacInitial, CfbInitial, PbeInitial, PbeCameFirst, BagInitial, ImitInitial, Zenon DEF Init, Inv

\* Every step of the function that is checked preserves its part,
LEMMA StepInv == Inv /\ Next => Inv'
<1> SUFFICES ASSUME Inv, Next
             PROVE  Inv'
  OBVIOUS
<1>1. unit' = unit
  BY DEF Next, OmacStep, CfbStep, Rc2Step, KeyBagStep, ImitStep
<1>2. unit = "omac" => OmacInv'
  <2> SUFFICES ASSUME unit = "omac"
               PROVE  OmacInv'
    OBVIOUS
  <2>1. O!Next
    BY DEF Next, OmacStep, CfbStep, Rc2Step, KeyBagStep, ImitStep
  <2> QED BY <2>1, Sized, OmacPreserved DEF Inv
<1>3. unit = "cfb" => CfbInv'
  <2> SUFFICES ASSUME unit = "cfb"
               PROVE  CfbInv'
    OBVIOUS
  <2>1. C!Next
    BY DEF Next, OmacStep, CfbStep, Rc2Step, KeyBagStep, ImitStep
  <2> QED BY <2>1, Sized, CfbPreserved DEF Inv
<1>4. unit = "rc2" => PbeInv' /\ PbeCame'
  <2> SUFFICES ASSUME unit = "rc2"
               PROVE  PbeInv' /\ PbeCame'
    OBVIOUS
  <2>1. R!Next
    BY DEF Next, OmacStep, CfbStep, Rc2Step, KeyBagStep, ImitStep
  <2> QED BY <2>1, Sized, PbePreserved, PbeCameAfter DEF Inv
<1>5. unit = "keybag" => BagInv'
  <2> SUFFICES ASSUME unit = "keybag"
               PROVE  BagInv'
    OBVIOUS
  <2>1. B!Next
    BY DEF Next, OmacStep, CfbStep, Rc2Step, KeyBagStep, ImitStep
  <2> QED BY <2>1, Sized, BagPreserved DEF Inv
<1>6. unit = "imit" => ImitInv'
  <2> SUFFICES ASSUME unit = "imit"
               PROVE  ImitInv'
    OBVIOUS
  <2>1. I!Next
    BY DEF Next, OmacStep, CfbStep, Rc2Step, KeyBagStep, ImitStep
  <2> QED BY <2>1, Sized, ImitPreserved DEF Inv
<1> QED BY <1>1, <1>2, <1>3, <1>4, <1>5, <1>6, Zenon DEF Inv

\* and so does a step that changes nothing.
LEMMA StutterInv == Inv /\ UNCHANGED vars => Inv'
<1> SUFFICES ASSUME Inv, UNCHANGED vars
             PROVE  Inv'
  OBVIOUS
<1>1. /\ UNCHANGED O!vars /\ UNCHANGED C!vars /\ UNCHANGED R!vars
      /\ UNCHANGED B!vars /\ UNCHANGED I!vars
  BY DEF vars, call, omac, cfb, pbe, keybag, imit, O!vars, C!vars, R!vars, B!vars, I!vars
<1>2. unit' = unit
  BY DEF vars
<1>3. unit = "omac" => OmacInv'
  BY <1>1, Sized, OmacPreserved DEF Inv
<1>4. unit = "cfb" => CfbInv'
  BY <1>1, Sized, CfbPreserved DEF Inv
<1>5. unit = "rc2" => PbeInv' /\ PbeCame'
  BY <1>1, Sized, PbePreserved, PbeCameAfter DEF Inv
<1>6. unit = "keybag" => BagInv'
  BY <1>1, Sized, BagPreserved DEF Inv
<1>7. unit = "imit" => ImitInv'
  BY <1>1, ImitUnchanged DEF Inv
<1> QED BY <1>2, <1>3, <1>4, <1>5, <1>6, <1>7, Zenon DEF Inv

\* The invariant holds in every state.
LEMMA Invariance == Spec => []Inv
<1>1. Inv /\ [Next]_vars => Inv'
  BY StepInv, StutterInv
<1> QED BY InitInv, <1>1, PTL DEF Spec

\* The OMAC of a text is that of the standard, for every block size, every set of
\* byte values and every cut into two strings.
THEOREM ConcatenationTheorem == Spec => []ConcatenationAuthenticated
<1>1. Inv => ConcatenationAuthenticated
  BY OmacConcatenation, Zenon DEF Inv, ConcatenationAuthenticated
<1> QED BY Invariance, <1>1, PTL

\* Two texts never give the cipher the same blocks and subkeys: no collision of OMAC
\* comes from the padding or from the cut.
THEOREM UnambiguousTheorem == Spec => []Unambiguous
<1>1. Inv => Unambiguous
  BY Sized, OmacUnambiguous, Zenon DEF Inv, Unambiguous
<1> QED BY Invariance, <1>1, PTL

\* For every size of block and every text: wherever a loop stands, CFB encryption has
\* written the cipher text of RFC 4357 and RC2 encryption CBC of the padded text as far
\* as it has come, in place or not, and decryption into another buffer the text of
\* whatever came; behind that the buffer is as it was.
THEOREM OutputTheorem == Spec => []OutputIsPrefix
<1>1. Inv => OutputIsPrefix
  BY Sized, CfbOutput, PbeOutput, Zenon DEF Inv, OutputIsPrefix
<1> QED BY Invariance, <1>1, PTL

\* For every size and every value of the padding: RC2 decryption accepts a text only
\* with a padding behind it that says its length and changes *out_len in no other case;
\* a key bag that is refused, at the entry or at its end, is not written.
THEOREM FailureTheorem == Spec => []FailureContained
<1>1. Inv => FailureContained
  BY Sized, PbeFailure, BagFailure, Zenon DEF Inv, FailureContained
<1> QED BY Invariance, <1>1, PTL

\* For every size of block and of section: a wrong byte of a cipher text spoils its own
\* place and the next block, across a change of the key too, and decryption in place
\* all behind the first block.
THEOREM DamageTheorem == Spec => []DamageIsLocal
<1>1. Inv => DamageIsLocal
  BY Sized, CfbDamage, Zenon DEF Inv, DamageIsLocal
<1> QED BY Invariance, <1>1, PTL

\* For every size, number of bits in a byte and iterations: a text that was encrypted
\* with RC2 comes back with its length whatever its last bytes are, in place the first
\* block and no byte of the others; a wrapped key comes back to whoever has the same
\* password, salt and number of iterations (or the same bytes in a row, hashed once),
\* and to nobody else, and a wrong byte spoils its block and no other.
THEOREM RecoversTheorem == Spec => []Recovers
<1>1. Inv => Recovers
  BY Sized, PbeRecovers, BagTypeCorrect, BagRecovers, Zenon DEF Inv, Recovers
<1> QED BY Invariance, <1>1, PTL

\* For every size and all words, passwords, salts and texts of the caller: the MAC of an
\* opened key bag is the one it was wrapped with exactly if the key came back and was
\* not wrapped in place; two calls of IMIT give one value exactly for one meaning of
\* text and initial state and one difference of the parts of the key.
THEOREM MacSeparatesTheorem == Spec => []MacSeparates
<1>1. Inv => MacSeparates
  BY Sized, BagSeparates, ImitTypeCorrect, ImitSeparates, Zenon DEF Inv, MacSeparates
<1> QED BY Invariance, <1>1, PTL
=============================================================================
