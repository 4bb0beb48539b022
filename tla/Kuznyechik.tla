----------------------------- MODULE Kuznyechik -----------------------------
(***************************************************************************)
(* The block cipher GOST R 34.12-2015 at its full width: the key schedule, *)
(* encryption and decryption of src/generic/kuznyechik_generic.c and of    *)
(* src/x86_64/kuznyechik_simd.c with its assembler.  Decryption works on   *)
(* keys that are transformed once and runs through the tables of another   *)
(* composition than encryption; the two implementations begin and end it   *)
(* differently.                                                            *)
(*                                                                         *)
(* A call of this module is a key schedule, one encryption and, on its     *)
(* result, one decryption; one step is one round.                          *)
(***************************************************************************)
EXTENDS Integers, Sequences, FiniteSets

CONSTANTS
    Inputs,             \* the operands that are tried, by function
    Null                \* a null pointer

VARIABLES
    fn, args, loc, ret  \* see VliModular

(***************************************************************************)
(* Strings of bytes of the full width, for this module and the other       *)
(* functions on blocks that extend it: bytes are the numbers from 0 to     *)
(* 255, a word is the sequence of its bytes, the lowest first, and a block *)
(* is a sequence too.  A number of 32 bits has no other form here, for TLC *)
(* counts in 31.                                                           *)
(***************************************************************************)
Byte == 0 .. 255

\* The same sequence; TLC evaluates its elements here, once for all uses.
Strict(u) == u \o <<>>

BitOf(a, k) == (a \div 2 ^ k) % 2

XorBits(a, b) ==
    LET x(k) == ((BitOf(a, k) + BitOf(b, k)) % 2) * 2 ^ k
    IN  x(0) + x(1) + x(2) + x(3) + x(4) + x(5) + x(6) + x(7)

XorTable == Strict([a \in 1 .. 256 |-> Strict([b \in 1 .. 256 |-> XorBits(a - 1, b - 1)])])

XorByte(a, b) == XorTable[a + 1][b + 1]

Xor(u, v) == Strict([i \in 1 .. Len(u) |-> XorByte(u[i], v[i])])

\* a + b counts the bits that both have twice, a ^ b not at all.
And(u, v) == Strict([i \in 1 .. Len(u) |-> (u[i] + v[i] - XorByte(u[i], v[i])) \div 2])

Not(u) == Strict([i \in 1 .. Len(u) |-> 255 - u[i]])

Zeros(n) == [i \in 1 .. n |-> 0]

\* The sum of u(1), ..., u(16).
XorSum16(u(_)) ==
    LET a(i) == Xor(u(i), u(i + 8))
        b(i) == Xor(a(i), a(i + 4))
        c(i) == Xor(b(i), b(i + 2))
    IN  Xor(c(1), c(2))

\* The sum of two numbers as long as each other and what it carries out.
AddCarry(u, v) ==
    LET sum[i \in 0 .. Len(u)] ==
            IF i = 0 THEN [low |-> <<>>, carry |-> 0]
            ELSE LET before == sum[i - 1]
                     s == u[i] + v[i] + before.carry
                 IN  [low |-> Append(before.low, s % 256), carry |-> s \div 256]
    IN  sum[Len(u)]

Add(u, v) == AddCarry(u, v).low

Sub(u, v) == AddCarry(AddCarry(u, Not(v)).low, [i \in 1 .. Len(u) |-> IF i = 1 THEN 1 ELSE 0]).low

\* u << s | u >> (bits - s)
Rol(u, s) ==
    LET at(i) == u[((i - 1 - s \div 8) % Len(u)) + 1]
    IN  Strict([i \in 1 .. Len(u) |->
            ((at(i) * 2 ^ (s % 8)) % 256) + at(i - 1) \div 2 ^ (8 - (s % 8))])

\* The number of a short word.
Number(u) == IF Len(u) = 1 THEN u[1] ELSE u[1] + 256 * u[2]

\* The words of a block, and the block of its words.
Words(block, size) ==
    Strict([i \in 1 .. Len(block) \div size |-> SubSeq(block, (i - 1) * size + 1, i * size)])

Concat(words) ==
    LET upto[i \in 0 .. Len(words)] == IF i = 0 THEN <<>> ELSE upto[i - 1] \o words[i]
    IN  upto[Len(words)]

Reversed(u) == Strict([i \in 1 .. Len(u) |-> u[Len(u) + 1 - i]])

\* A product in the field of 256 elements whose polynomial has the bits of poly.
FieldProduct(a, b, poly) ==
    LET step[k \in 0 .. 8] ==       \* Horner, from the highest bit of b
            IF k = 0 THEN 0
            ELSE LET twice == 2 * step[k - 1]
                     reduced == IF twice > 255 THEN XorBits(twice - 256, poly - 256) ELSE twice
                 IN  IF BitOf(b, 8 - k) = 1 THEN XorBits(reduced, a) ELSE reduced
    IN  step[8]

\* All products, that of a and b at [a + 1][b + 1], from those with the nibbles of b.
MultiplicationTable(poly) ==
    LET product(a) ==
            LET low == Strict([b \in 1 .. 16 |-> FieldProduct(a, b - 1, poly)])
                high == Strict([b \in 1 .. 16 |-> FieldProduct(a, 16 * (b - 1), poly)])
            IN  Strict([b \in 1 .. 256 |->
                    XorBits(low[((b - 1) % 16) + 1], high[(b - 1) \div 16 + 1])])
    IN  Strict([a \in 1 .. 256 |-> product(a - 1)])

-----------------------------------------------------------------------------
(***************************************************************************)
(* The tables of src/generic/kuztable.h.  The substitutions are listed;    *)
(* the tables that join them with the linear map, and the constants of the *)
(* key schedule, are what the map gives for a single byte: every entry of  *)
(* the source has been compared with these definitions.                    *)
(***************************************************************************)
BlockSize == 16

PiList == <<
    252, 238, 221, 17, 207, 110, 49, 22, 251, 196, 250, 218, 35, 197, 4, 77,
    233, 119, 240, 219, 147, 46, 153, 186, 23, 54, 241, 187, 20, 205, 95, 193,
    249, 24, 101, 90, 226, 92, 239, 33, 129, 28, 60, 66, 139, 1, 142, 79,
    5, 132, 2, 174, 227, 106, 143, 160, 6, 11, 237, 152, 127, 212, 211, 31,
    235, 52, 44, 81, 234, 200, 72, 171, 242, 42, 104, 162, 253, 58, 206, 204,
    181, 112, 14, 86, 8, 12, 118, 18, 191, 114, 19, 71, 156, 183, 93, 135,
    21, 161, 150, 41, 16, 123, 154, 199, 243, 145, 120, 111, 157, 158, 178, 177,
    50, 117, 25, 61, 255, 53, 138, 126, 109, 84, 198, 128, 195, 189, 13, 87,
    223, 245, 36, 169, 62, 168, 67, 201, 215, 121, 214, 246, 124, 34, 185, 3,
    224, 15, 236, 222, 122, 148, 176, 188, 220, 232, 40, 80, 78, 51, 10, 74,
    167, 151, 96, 115, 30, 0, 98, 68, 26, 184, 56, 130, 100, 159, 38, 65,
    173, 69, 70, 146, 39, 94, 85, 47, 140, 163, 165, 125, 105, 213, 149, 59,
    7, 88, 179, 64, 134, 172, 29, 247, 48, 55, 107, 228, 136, 217, 231, 137,
    225, 27, 131, 73, 76, 63, 248, 254, 141, 83, 170, 144, 202, 216, 133, 97,
    32, 113, 103, 164, 45, 43, 9, 91, 203, 155, 37, 208, 190, 229, 108, 82,
    89, 166, 116, 210, 230, 244, 180, 192, 209, 102, 175, 194, 57, 75, 99, 182 >>

PiInvList == <<
    165, 45, 50, 143, 14, 48, 56, 192, 84, 230, 158, 57, 85, 126, 82, 145,
    100, 3, 87, 90, 28, 96, 7, 24, 33, 114, 168, 209, 41, 198, 164, 63,
    224, 39, 141, 12, 130, 234, 174, 180, 154, 99, 73, 229, 66, 228, 21, 183,
    200, 6, 112, 157, 65, 117, 25, 201, 170, 252, 77, 191, 42, 115, 132, 213,
    195, 175, 43, 134, 167, 177, 178, 91, 70, 211, 159, 253, 212, 15, 156, 47,
    155, 67, 239, 217, 121, 182, 83, 127, 193, 240, 35, 231, 37, 94, 181, 30,
    162, 223, 166, 254, 172, 34, 249, 226, 74, 188, 53, 202, 238, 120, 5, 107,
    81, 225, 89, 163, 242, 113, 86, 17, 106, 137, 148, 101, 140, 187, 119, 60,
    123, 40, 171, 210, 49, 222, 196, 95, 204, 207, 118, 44, 184, 216, 46, 54,
    219, 105, 179, 20, 149, 190, 98, 161, 59, 22, 102, 233, 92, 108, 109, 173,
    55, 97, 75, 185, 227, 186, 241, 160, 133, 131, 218, 71, 197, 176, 51, 250,
    150, 111, 110, 194, 246, 80, 255, 93, 169, 142, 23, 27, 151, 125, 236, 88,
    247, 31, 251, 124, 9, 13, 122, 103, 69, 135, 220, 232, 79, 29, 78, 4,
    235, 248, 243, 62, 61, 189, 138, 136, 221, 205, 11, 19, 152, 2, 147, 128,
    144, 208, 36, 52, 203, 237, 244, 206, 153, 16, 68, 64, 146, 58, 1, 38,
    18, 26, 72, 104, 245, 129, 139, 199, 214, 32, 10, 8, 0, 76, 215, 116 >>

pi(b) == PiList[b + 1]
pi_inv(b) == PiInvList[b + 1]

\* The linear map takes a 1 in byte i, and zeros, to row i: sixteen steps of the shift
\* register over the field of 256 elements with x^8 + x^7 + x^6 + x + 1.  Its inverse
\* is the same register run in the other direction.
Poly == 451

Columns == <<
    <<207, 110, 162, 118, 114, 108, 72, 122, 184, 93, 39, 189, 16, 221, 132, 148>>,
    <<152, 32, 200, 51, 242, 118, 213, 230, 73, 212, 159, 149, 233, 153, 45, 32>>,
    <<116, 198, 135, 16, 107, 236, 98, 78, 135, 184, 190, 94, 208, 117, 116, 133>>,
    <<191, 218, 112, 12, 202, 12, 23, 26, 20, 47, 104, 48, 217, 202, 150, 16>>,
    <<147, 144, 104, 28, 32, 197, 6, 187, 203, 141, 26, 233, 243, 151, 93, 194>>,
    <<142, 72, 67, 17, 235, 188, 45, 46, 141, 18, 124, 96, 148, 68, 119, 192>>,
    <<242, 137, 28, 214, 2, 175, 196, 241, 171, 238, 173, 191, 61, 90, 111, 1>>,
    <<243, 156, 43, 106, 164, 110, 231, 190, 73, 246, 201, 16, 175, 224, 222, 251>>,
    <<10, 193, 161, 166, 141, 163, 213, 212, 9, 8, 132, 239, 123, 48, 84, 1>>,
    <<191, 100, 99, 215, 212, 225, 235, 175, 108, 84, 47, 57, 255, 166, 180, 192>>,
    <<246, 184, 48, 246, 196, 144, 153, 55, 42, 15, 235, 236, 100, 49, 141, 194>>,
    <<169, 45, 107, 73, 1, 88, 120, 177, 1, 243, 254, 145, 145, 211, 209, 16>>,
    <<234, 134, 159, 7, 101, 14, 82, 212, 96, 152, 198, 127, 82, 223, 68, 133>>,
    <<142, 68, 48, 20, 221, 2, 245, 42, 142, 200, 72, 72, 248, 72, 60, 32>>,
    <<77, 208, 227, 232, 76, 195, 22, 110, 75, 127, 162, 137, 13, 100, 165, 148>>,
    <<110, 162, 118, 114, 108, 72, 122, 184, 93, 39, 189, 16, 221, 132, 148, 1>> >>

ColumnsInv == [i \in 1 .. BlockSize |-> Reversed(Columns[BlockSize + 1 - i])]

Multiples == MultiplicationTable(Poly)

Mapped(column, b) == Strict([j \in 1 .. BlockSize |-> Multiples[column[j] + 1][b + 1]])

kuz_table(i, b) == Mapped(Columns[i], pi(b))
kuz_table_inv(i, b) == Mapped(ColumnsInv[i], b)
kuz_table_inv_LS(i, b) == Mapped(ColumnsInv[i], pi_inv(b))

kuz_key_table == Strict([j \in 1 .. 32 |-> Mapped(Columns[BlockSize], j)])

-----------------------------------------------------------------------------

s_transform(v) == Strict([i \in 1 .. BlockSize |-> pi(v[i])])
sinv_transform(v) == Strict([i \in 1 .. BlockSize |-> pi_inv(v[i])])

\* One table per byte of the block.
Lookup(table(_, _), v) ==
    LET column(i) == table(i, v[i]) IN XorSum16(column)

linv_transform(v) == Lookup(kuz_table_inv, v)
lsx_transform(v, key) == Lookup(kuz_table, Xor(v, key))
xli_si(v, dekey) == Xor(Lookup(kuz_table_inv_LS, v), dekey)

\* What the tables are made for, and what TLC finds of these: the second substitution
\* takes the first back, a product with an entry of a row is a sum for a sum of bytes,
\* and the rows of the inverse take those of the map back.
ASSUME TablesAssumption ==
    /\ PiList \in [1 .. 256 -> Byte] /\ PiInvList \in [1 .. 256 -> Byte]
    /\ \A b \in Byte : pi_inv(pi(b)) = b
    /\ Columns \in [1 .. BlockSize -> [1 .. BlockSize -> Byte]]
    /\ \A c \in Byte : (\E i, j \in 1 .. BlockSize : Columns[i][j] = c) =>
          LET products == Multiples[c + 1] IN
          /\ products \in [1 .. 256 -> Byte]
          /\ \A a, b \in Byte : products[XorByte(a, b) + 1] = XorByte(products[a + 1], products[b + 1])
    /\ \A i \in 1 .. BlockSize, b \in Byte :
          linv_transform(Mapped(Columns[i], b)) = [Zeros(BlockSize) EXCEPT ![i] = b]

\* Round i, from 0, of subkey: the halves of a pair of keys change in turn.
SubkeyRound(pair, i) ==
    LET c == kuz_key_table[i + 1] IN
    IF i % 2 = 0 THEN <<pair[1], Xor(lsx_transform(pair[1], c), pair[2])>>
    ELSE <<Xor(lsx_transform(pair[2], c), pair[1]), pair[2]>>

\* Mutant for MC: the last key is not transformed for decryption.
DecryptKeys_NotLast(keys) ==
    Strict([i \in 1 .. 10 |-> IF i = 10 THEN keys[i] ELSE linv_transform(keys[i])])

DecryptKeys(keys) == Strict([i \in 1 .. 10 |-> linv_transform(keys[i])])

\* kuznyechik_generic_setkey and kuznyechik_simd_setkey: the key is the first pair.
kuznyechik_setkey ==
    /\ fn = "idle"
    /\ \E impl \in {"generic", "simd"} :
          \/ /\ fn' = "return" /\ ret' = <<-1>>
             /\ args' = [call |-> "kuz_setkey", impl |-> impl, key |-> Null]
             /\ UNCHANGED loc
          \/ \E input \in Inputs.kuznyechik :
                LET pair == Words(input.key, BlockSize) IN
                /\ fn' = "kuz_setkey"
                /\ args' = [call |-> "kuznyechik", impl |-> impl, input |-> input,
                            keys |-> <<>>, dekeys |-> <<>>]
                /\ loc' = [i |-> 0, pair |-> pair, keys |-> pair]
                /\ UNCHANGED ret

\* Every eighth round completes the next pair.
SetkeyRound ==
    /\ fn = "kuz_setkey" /\ loc.i < 32
    /\ LET p == SubkeyRound(loc.pair, loc.i) IN
       loc' = [i |-> loc.i + 1, pair |-> p,
               keys |-> IF loc.i % 8 = 7 THEN loc.keys \o p ELSE loc.keys]
    /\ UNCHANGED <<fn, args, ret>>

\* The keys for decryption, and the call of encrypt.
SetkeyReturn ==
    /\ fn = "kuz_setkey" /\ loc.i = 32
    /\ fn' = "kuz_encrypt"
    /\ args' = [args EXCEPT !.keys = loc.keys, !.dekeys = DecryptKeys(loc.keys)]
    /\ loc' = [i |-> 0, temp |-> args.input.in, trace |-> <<args.input.in>>]
    /\ UNCHANGED ret

\* trace keeps the blocks that the rounds begin with.
EncryptRound ==
    /\ fn = "kuz_encrypt" /\ loc.i < 9
    /\ LET t == lsx_transform(args.keys[loc.i + 1], loc.temp) IN
       loc' = [i |-> loc.i + 1, temp |-> t, trace |-> Append(loc.trace, t)]
    /\ UNCHANGED <<fn, args, ret>>

\* The last key, and the call of decrypt: the generic code begins with the substitution
\* that its first table takes back, the other one with a table without it.
EncryptReturn ==
    /\ fn = "kuz_encrypt" /\ loc.i = 9
    /\ LET out == Xor(args.keys[10], loc.temp) IN
       /\ ret' = <<out>>
       /\ loc' = IF args.impl = "generic" THEN [loc EXCEPT !.i = 10, !.temp = s_transform(out)]
                 ELSE [loc EXCEPT !.temp = Xor(linv_transform(out), args.dekeys[10])]
    /\ fn' = "kuz_decrypt"
    /\ UNCHANGED args

DecryptRound ==
    /\ fn = "kuz_decrypt" /\ loc.i > 1
    /\ loc' = [loc EXCEPT !.i = @ - 1, !.temp = xli_si(@, args.dekeys[loc.i])]
    /\ UNCHANGED <<fn, args, ret>>

DecryptReturn ==
    /\ fn = "kuz_decrypt" /\ loc.i = 1
    /\ fn' = "return"
    /\ ret' = Append(ret, Xor(sinv_transform(loc.temp), args.keys[1]))
    /\ UNCHANGED <<args, loc>>

-----------------------------------------------------------------------------
(***************************************************************************)
(* What OMAC and MGM of src/generic/gost_tls_generic.c do with the blocks  *)
(* of the cipher: a block is a polynomial over the bits, the highest first.*)
(***************************************************************************)

\* The bit of x^k in a block.
BitAt(block, k) == BitOf(block[BlockSize - k \div 8], k % 8)

\* Mutant for MC: the byte that takes the bit in is the first one.
Double_First(block) ==
    LET shifted == Reversed(Rol(Reversed(block), 1))
    IN  IF BitAt(block, 127) = 1
        THEN [shifted EXCEPT ![16] = @ - 1, ![1] = XorByte(@, 135)] ELSE shifted

\* shift_left and the reduction behind it: a bit that is carried out comes back as 0x87,
\* and not as the one that the rotation brings.
Double(block) ==
    LET shifted == Reversed(Rol(Reversed(block), 1))
    IN  IF BitAt(block, 127) = 1
        THEN [shifted EXCEPT ![16] = XorByte(@ - 1, 135)] ELSE shifted

\* kuznyechik_omac2, from the encrypted zero block.
omac_subkeys ==
    /\ fn = "idle"
    /\ \E input \in Inputs.omac :
          /\ fn' = "return" /\ args' = [call |-> "omac", input |-> input]
          /\ ret' = << Double(input) \o Double(Double(input)) >>
    /\ UNCHANGED loc

gf128_mul ==
    /\ fn = "idle"
    /\ \E input \in Inputs.gf128_mul :
          /\ fn' = "gf128_mul" /\ args' = [call |-> "gf128_mul", input |-> input]
          /\ loc' = [i |-> 0, x |-> input.x, res |-> Zeros(BlockSize)]
    /\ UNCHANGED ret

\* Bit i of y, the lowest first, in the low half and then in the high one.
ProductStep ==
    /\ fn = "gf128_mul" /\ loc.i < 128
    /\ loc' = [i |-> loc.i + 1, x |-> Double(loc.x),
               res |-> IF BitAt(args.input.y, loc.i) = 1 THEN Xor(loc.res, loc.x) ELSE loc.res]
    /\ UNCHANGED <<fn, args, ret>>

ProductReturn ==
    /\ fn = "gf128_mul" /\ loc.i = 128
    /\ fn' = "return" /\ ret' = <<loc.res>>
    /\ UNCHANGED <<args, loc>>

KuznyechikNext ==
    omac_subkeys \/ gf128_mul \/ ProductStep \/ ProductReturn
    \/ kuznyechik_setkey \/ SetkeyRound \/ SetkeyReturn
    \/ EncryptRound \/ EncryptReturn \/ DecryptRound \/ DecryptReturn

-----------------------------------------------------------------------------

\* Decryption retraces encryption: once the key of round i is taken back, what is left
\* is the substituted sum of which round i - 1 made its result, in either
\* implementation, and both give the block back.
KuznyechikRetraced ==
    /\ fn = "kuz_decrypt" /\ loc.i < 10 =>
          loc.temp = s_transform(Xor(loc.trace[loc.i], args.keys[loc.i]))
    /\ (fn = "return" /\ args.call = "kuznyechik") => ret[2] = args.input.in

\* The powers of x in a block.
Powers(block) == {k \in 0 .. 127 : BitAt(block, k) = 1}

\* What is left of the product of two polynomials after division by
\* x^128 + x^7 + x^2 + x + 1: the powers from 128 on are folded onto those below, twice.
Remainder(a, b) ==
    LET product(s, t) == {k \in 0 .. 255 : Cardinality({i \in s : k - i \in t}) % 2 = 1}
        folded(s) ==
            LET high == product({k - 128 : k \in s \ (0 .. 127)}, {0, 1, 2, 7})
            IN  {k \in 0 .. 255 : (k \in high) # (k \in s /\ k < 128)}
    IN  folded(folded(product(a, b)))

\* The loop of gf128_mul has, in front of every bit of y, the sum for the bits before it
\* in the field, and x by the power that comes next.
ProductInField ==
    (fn = "gf128_mul" /\ loc.i \in {0, 1, 7, 64, 65, 127, 128}) =>
        LET x == Powers(args.input.x)
            y == Powers(args.input.y)
        IN  /\ Powers(loc.res) = Remainder(x, {k \in y : k < loc.i})
            /\ Powers(loc.x) = Remainder(x, {loc.i})
=============================================================================
