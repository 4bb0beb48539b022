----------------------------- MODULE BlockFunctions ---------------------------
(***************************************************************************)
(* What is done with one block, at its full width: GOST 28147-89 and RC2,  *)
(* crypt and the rounds of the MACs of src/generic/gost28147_generic.c, the *)
(* key schedule and the blocks of rc2_generic.c; and the compressions of the *)
(* digests and the stream cipher, chacha_permute of chacha_block_generic.c, *)
(* blake2s_compress of blake2s_generic.c, sha1_block of sha1_generic.c,    *)
(* hash_step of gost3411_94_generic.c, streebog_g of streebog_generic.c; the *)
(* generator of xoshiro256pp.c.                                            *)
(*                                                                         *)
(* A call is one encryption and, on its result, one decryption, or a MAC of *)
(* several blocks; or it compresses the blocks of its input one after the  *)
(* other into the chaining value h. One step is one round.                 *)
(***************************************************************************)
EXTENDS Kuznyechik

-----------------------------------------------------------------------------
(***************************************************************************)
(* GOST 28147-89 and RC2.                                                  *)
(***************************************************************************)

gost28147_sbox_cryptopro_a == <<
    <<11, 10, 15, 5, 0, 12, 14, 8, 6, 2, 3, 9, 1, 7, 13, 4>>,
    <<1, 13, 2, 9, 7, 10, 6, 0, 8, 12, 4, 5, 15, 3, 11, 14>>,
    <<3, 10, 13, 12, 1, 2, 0, 11, 7, 5, 9, 4, 8, 15, 14, 6>>,
    <<11, 5, 1, 9, 8, 13, 15, 0, 14, 4, 2, 3, 12, 7, 10, 6>>,
    <<14, 7, 10, 12, 13, 1, 3, 9, 0, 2, 11, 4, 15, 8, 5, 6>>,
    <<14, 4, 6, 2, 11, 3, 13, 8, 12, 15, 5, 10, 0, 7, 1, 9>>,
    <<3, 7, 14, 9, 8, 10, 15, 0, 5, 2, 6, 12, 11, 4, 13, 1>>,
    <<9, 6, 3, 2, 8, 11, 1, 7, 10, 4, 14, 15, 12, 0, 13, 5>> >>

gost28147_sbox_cryptopro_3411 == <<
    <<1, 3, 10, 9, 5, 11, 4, 15, 8, 6, 7, 14, 13, 0, 2, 12>>,
    <<13, 14, 4, 1, 7, 0, 5, 10, 3, 12, 8, 15, 6, 2, 9, 11>>,
    <<7, 6, 2, 4, 13, 9, 15, 0, 10, 1, 5, 11, 8, 14, 12, 3>>,
    <<7, 6, 4, 11, 9, 12, 2, 10, 1, 8, 0, 14, 15, 13, 3, 5>>,
    <<4, 10, 7, 12, 0, 15, 2, 8, 14, 1, 6, 5, 13, 11, 9, 3>>,
    <<7, 15, 12, 14, 9, 4, 1, 0, 3, 11, 5, 2, 6, 10, 8, 13>>,
    <<5, 15, 4, 0, 2, 13, 11, 9, 1, 7, 6, 3, 12, 14, 10, 8>>,
    <<10, 4, 5, 6, 8, 1, 3, 7, 13, 12, 14, 0, 9, 2, 11, 15>> >>

gost28147_sbox_tc26_z == <<
    <<1, 7, 14, 13, 0, 5, 8, 3, 4, 15, 10, 6, 9, 12, 11, 2>>,
    <<8, 14, 2, 5, 6, 9, 1, 12, 15, 4, 11, 0, 13, 10, 3, 7>>,
    <<5, 13, 15, 6, 9, 2, 12, 10, 11, 7, 8, 1, 4, 3, 14, 0>>,
    <<7, 15, 5, 10, 8, 1, 6, 13, 0, 9, 3, 14, 11, 4, 2, 12>>,
    <<12, 8, 2, 1, 13, 4, 15, 6, 7, 0, 10, 5, 3, 14, 9, 11>>,
    <<11, 3, 5, 8, 2, 15, 10, 13, 14, 1, 7, 4, 12, 9, 6, 0>>,
    <<6, 8, 2, 3, 9, 10, 5, 12, 1, 14, 4, 7, 11, 13, 0, 15>>,
    <<12, 4, 6, 2, 10, 5, 11, 9, 14, 8, 13, 7, 0, 3, 15, 1>> >>

\* The substitution of a nibble by each row, the last row that of the lowest, and the
\* rotation.
subst(sbox, v) ==
    Rol([b \in 1 .. 4 |-> sbox[10 - 2 * b][(v[b] % 16) + 1]
                          + 16 * sbox[9 - 2 * b][v[b] \div 16 + 1]], 11)

\* Mutant for MC: decryption turns the keys round from the ninth round on, as
\* encryption does from the last eighth.
KeyOfRound_Late(what, r) ==
    CASE what = "encrypt" -> IF r < 24 THEN r % 8 ELSE 7 - (r % 8)
      [] what = "decrypt" -> IF r < 9 THEN r % 8 ELSE 7 - (r % 8)
      [] what = "mac" -> r % 8

\* The word of the key, from 0, that is added in round r, from 0.
KeyOfRound(what, r) ==
    CASE what = "encrypt" -> IF r < 24 THEN r % 8 ELSE 7 - (r % 8)
      [] what = "decrypt" -> IF r < 8 THEN r ELSE 7 - (r % 8)
      [] what = "mac" -> r % 8

\* One round on the halves <<n1, n2>>, which change in turn.
Round(sbox, key, what, r, n) ==
    LET k == key[KeyOfRound(what, r) + 1] IN
    IF r % 2 = 1 THEN <<Xor(n[1], subst(sbox, Add(n[2], k))), n[2]>>
    ELSE <<n[1], Xor(n[2], subst(sbox, Add(n[1], k)))>>

gost28147_setkey_raw(key) == Words(key, 4)

\* All rounds in a row, for gost3411_94.
gost28147_encrypt_raw(sbox, key, in) ==
    LET n[r \in 0 .. 32] ==
            IF r = 0 THEN Words(in, 4)
            ELSE LET before == n[r - 1] IN Round(sbox, key, "encrypt", r - 1, before)
        end == n[32]
    IN  end[2] \o end[1]

\* trace keeps the halves that every round begins with.
gost28147 ==
    /\ fn = "idle"
    /\ \E input \in Inputs.gost28147 :
          /\ fn' = "gost_encrypt"
          /\ args' = [call |-> "gost28147", input |-> input, key |-> gost28147_setkey_raw(input.key)]
          /\ loc' = [r |-> 0, n |-> Words(input.in, 4), trace |-> <<Words(input.in, 4)>>]
    /\ UNCHANGED ret

CryptRound(what) ==
    /\ loc.r < 32
    /\ LET n == Round(args.input.sbox, args.key, what, loc.r, loc.n) IN
       loc' = [loc EXCEPT !.r = @ + 1, !.n = n, !.trace = IF what = "encrypt" THEN Append(@, n) ELSE @]
    /\ UNCHANGED <<fn, args, ret>>

\* The halves change places at the end; decryption follows.
GostEncrypt ==
    /\ fn = "gost_encrypt"
    /\ \/ CryptRound("encrypt")
       \/ /\ loc.r = 32 /\ fn' = "gost_decrypt"
          /\ ret' = <<loc.n[2] \o loc.n[1]>>
          /\ loc' = [loc EXCEPT !.r = 0, !.n = <<@[2], @[1]>>]
          /\ UNCHANGED args

GostDecrypt ==
    /\ fn = "gost_decrypt"
    /\ \/ CryptRound("decrypt")
       \/ /\ loc.r = 32 /\ fn' = "return"
          /\ ret' = Append(ret, loc.n[2] \o loc.n[1])
          /\ UNCHANGED <<args, loc>>

\* The MACs chain 16 rounds over the blocks of a text; one pass is one block.
BlockOfText(text, k) ==
    Strict([i \in 1 .. 8 |-> IF 8 * k + i <= Len(text) THEN text[8 * k + i] ELSE 0])

BeginMac(f, input, key, passes) ==
    /\ fn' = "gost_mac"
    /\ args' = [call |-> f, input |-> input, key |-> key, passes |-> passes]
    /\ loc' = [k |-> 1, r |-> 0, n |-> Words(Xor(input.state, BlockOfText(input.text, 0)), 4)]

\* Only whole blocks; the MAC is what the last one leaves.
gost28147_mac4_raw ==
    /\ fn = "idle"
    /\ \E input \in Inputs.mac4 :
          IF Len(input.text) = 0 \/ Len(input.text) % 8 # 0
          THEN /\ fn' = "return" /\ ret' = <<-1>>
               /\ args' = [call |-> "mac4", input |-> input] /\ UNCHANGED loc
          ELSE /\ BeginMac("mac4", input, gost28147_setkey_raw(input.key), Len(input.text) \div 8)
               /\ UNCHANGED ret

\* The key of IMIT is the difference of two, word by word.
DifferenceKey(a, b) ==
    Strict([i \in 1 .. 8 |-> Sub(SubSeq(a, 4 * i - 3, 4 * i), SubSeq(b, 4 * i - 3, 4 * i))])

\* Mutant for MC: there is a final pass only if there is a tail.
ImitPasses_Tail(text) == (Len(text) + 7) \div 8

\* The whole blocks, none in an empty text, and a final pass always: on the tail, filled up
\* with zeros, or without a block, which is a pass on a block of zeros.
ImitPasses(text) == Len(text) \div 8 + 1

gost28147_imit_cp12 ==
    /\ fn = "idle"
    /\ \E input \in Inputs.imit :
          BeginMac("imit", input, DifferenceKey(input.a, input.b), ImitPasses(input.text))
    /\ UNCHANGED ret

MacRound ==
    /\ fn = "gost_mac" /\ loc.r < 16
    /\ loc' = [loc EXCEPT !.r = @ + 1, !.n = Round(args.input.sbox, args.key, "mac", loc.r, @)]
    /\ UNCHANGED <<fn, args, ret>>

\* The halves keep their places; the first is the MAC.
MacNext ==
    /\ fn = "gost_mac" /\ loc.r = 16
    /\ IF loc.k < args.passes
       THEN /\ loc' = [k |-> loc.k + 1, r |-> 0,
                       n |-> Words(Xor(loc.n[1] \o loc.n[2],
                                       BlockOfText(args.input.text, loc.k)), 4)]
            /\ UNCHANGED <<fn, args, ret>>
       ELSE fn' = "return" /\ ret' = <<loc.n[1]>> /\ UNCHANGED <<args, loc>>

-----------------------------------------------------------------------------

key_table == <<
    217, 120, 249, 196, 25, 221, 181, 237, 40, 233, 253, 121, 74, 160, 216, 157,
    198, 126, 55, 131, 43, 118, 83, 142, 98, 76, 100, 136, 68, 139, 251, 162,
    23, 154, 89, 245, 135, 179, 79, 19, 97, 69, 109, 141, 9, 129, 125, 50,
    189, 143, 64, 235, 134, 183, 123, 11, 240, 149, 33, 34, 92, 107, 78, 130,
    84, 214, 101, 147, 206, 96, 178, 28, 115, 86, 192, 20, 167, 140, 241, 220,
    18, 117, 202, 31, 59, 190, 228, 209, 66, 61, 212, 48, 163, 60, 182, 38,
    111, 191, 14, 218, 70, 105, 7, 87, 39, 242, 29, 155, 188, 148, 67, 3,
    248, 17, 199, 246, 144, 239, 62, 231, 6, 195, 213, 47, 200, 102, 30, 215,
    8, 232, 234, 222, 128, 82, 238, 247, 132, 170, 114, 172, 53, 77, 106, 42,
    150, 26, 210, 113, 90, 21, 73, 116, 75, 159, 208, 94, 4, 24, 164, 236,
    194, 224, 65, 110, 15, 81, 203, 204, 36, 145, 175, 80, 161, 244, 112, 57,
    153, 124, 58, 133, 35, 184, 180, 122, 252, 2, 54, 91, 37, 85, 151, 49,
    45, 93, 250, 152, 227, 138, 146, 174, 5, 223, 41, 16, 103, 108, 186, 201,
    211, 0, 230, 207, 225, 158, 168, 44, 99, 22, 1, 63, 88, 226, 137, 169,
    13, 56, 52, 27, 171, 51, 255, 176, 187, 72, 12, 95, 185, 177, 205, 46,
    197, 243, 219, 71, 229, 165, 156, 119, 10, 166, 32, 104, 254, 127, 193, 173 >>

\* rc2_set_key: the data is stretched to 128 bytes, which begin as zeros, with the sum
\* of the byte before and one of the data; the last T8 bytes, of which the highest bits
\* of the first are cleared, determine the others from behind; the words have two bytes.
At(k, i) == IF i \in 1 .. Len(k) THEN k[i] ELSE 0

\* A byte more, k[i], of len bytes of data.
Stretched(k, len) ==
    LET i == Len(k) + 1 IN
    Append(k, key_table[((At(k, i - len) + At(k, i - 1)) % 256) + 1])

\* The last T8 bytes, and a byte before them.
Masked(k, bits) ==
    LET t8 == (bits + 7) \div 8
        clear == 2 ^ (8 - (8 * t8 - bits))
    IN  << key_table[(k[129 - t8] % clear) + 1] >> \o SubSeq(k, 130 - t8, 128)

Reduced(k, bits) ==
    LET t8 == (bits + 7) \div 8 IN << key_table[XorByte(k[t8], k[1]) + 1] >> \o k

\* The word i, from 0, of the four is replaced by w.
Put(x, i, w) == [x EXCEPT ![i + 1] = w]

\* The two words behind, chosen bit by bit by the one before.
Chosen(x, i) ==
    LET at(j) == x[((i + j) % 4) + 1] IN Add(And(at(1), Not(at(3))), And(at(2), at(3)))

Shifts == <<1, 2, 3, 5>>

\* Round r: each word in turn is mixed with the other three and the next key.
MixWord(x, i, k) == Put(x, i, Rol(Add(Add(x[i + 1], Chosen(x, i)), k), Shifts[i + 1]))

Mix(x, key, r) ==
    LET a == MixWord(x, 0, key[4 * r + 1])
        b == MixWord(a, 1, key[4 * r + 2])
        c == MixWord(b, 2, key[4 * r + 3])
    IN  MixWord(c, 3, key[4 * r + 4])

UnmixWord(x, i, k) ==
    Put(x, i, Sub(Sub(Rol(x[i + 1], 16 - Shifts[i + 1]), Chosen(x, i)), k))

Unmix(x, key, r) ==
    LET a == UnmixWord(x, 3, key[4 * r + 4])
        b == UnmixWord(a, 2, key[4 * r + 3])
        c == UnmixWord(b, 1, key[4 * r + 2])
    IN  UnmixWord(c, 0, key[4 * r + 1])

\* Between the rounds 5 and 6, and 11 and 12, a key is added to each word that the low
\* bits of the word before select.
Selected(x, i, key) == key[(x[((i + 3) % 4) + 1][1] % 64) + 1]

MashWord(x, i, key) == Put(x, i, Add(x[i + 1], Selected(x, i, key)))
UnmashWord(x, i, key) == Put(x, i, Sub(x[i + 1], Selected(x, i, key)))

Mash(x, key) == MashWord(MashWord(MashWord(MashWord(x, 0, key), 1, key), 2, key), 3, key)

\* Mutant for MC: the words are restored in the order in which they were mashed.
Unmash_Forward(x, key) ==
    UnmashWord(UnmashWord(UnmashWord(UnmashWord(x, 0, key), 1, key), 2, key), 3, key)

Unmash(x, key) ==
    UnmashWord(UnmashWord(UnmashWord(UnmashWord(x, 3, key), 2, key), 1, key), 0, key)

\* len and bits are in their ranges when the loops begin.
rc2_set_key ==
    /\ fn = "idle"
    /\ \E input \in Inputs.rc2 :
          LET len == IF Len(input.data) > 128 THEN 128 ELSE Len(input.data)
              bits == IF input.bits <= 0 \/ input.bits > 1024 THEN 1024 ELSE input.bits
          IN  /\ fn' = "rc2_stretch"
              /\ args' = [call |-> "rc2", input |-> input]
              /\ loc' = [k |-> SubSeq(input.data, 1, len), len |-> len, bits |-> bits]
    /\ UNCHANGED ret

rc2_stretch ==
    /\ fn = "rc2_stretch"
    /\ IF Len(loc.k) < 128
       THEN loc' = [loc EXCEPT !.k = Stretched(@, loc.len)] /\ UNCHANGED fn
       ELSE loc' = [loc EXCEPT !.k = Masked(@, loc.bits)] /\ fn' = "rc2_reduce"
    /\ UNCHANGED <<args, ret>>

\* The loop from behind, the words, and the call of encrypt.
rc2_reduce ==
    /\ fn = "rc2_reduce"
    /\ IF Len(loc.k) < 128
       THEN loc' = [loc EXCEPT !.k = Reduced(@, loc.bits)] /\ UNCHANGED <<fn, args>>
       ELSE LET in == Words(args.input.in, 2) IN
            /\ fn' = "rc2_encrypt"
            /\ args' = [call |-> "rc2", input |-> args.input, key |-> Words(loc.k, 2)]
            /\ loc' = [r |-> 0, x |-> in, trace |-> <<in>>]
    /\ UNCHANGED ret

\* The mashing belongs to the round before it; trace keeps what was in front of it.
rc2_encrypt_block ==
    /\ fn = "rc2_encrypt"
    /\ IF loc.r < 16
       THEN LET x == Mix(loc.x, args.key, loc.r) IN
            /\ loc' = [r |-> loc.r + 1, x |-> IF loc.r \in {4, 10} THEN Mash(x, args.key) ELSE x,
                       trace |-> Append(loc.trace, x)]
            /\ UNCHANGED <<fn, args, ret>>
       ELSE /\ fn' = "rc2_decrypt" /\ ret' = <<Concat(loc.x)>>
            /\ loc' = [loc EXCEPT !.r = 0] /\ UNCHANGED args

rc2_decrypt_block ==
    /\ fn = "rc2_decrypt"
    /\ IF loc.r < 16
       THEN LET x == Unmix(loc.x, args.key, 15 - loc.r) IN
            /\ loc' = [loc EXCEPT !.r = @ + 1, !.x = IF loc.r \in {4, 10} THEN Unmash(x, args.key) ELSE x]
            /\ UNCHANGED <<fn, args, ret>>
       ELSE fn' = "return" /\ ret' = Append(ret, Concat(loc.x)) /\ UNCHANGED <<args, loc>>

BlockCiphersNext ==
    \/ gost28147 \/ GostEncrypt \/ GostDecrypt
    \/ gost28147_mac4_raw \/ gost28147_imit_cp12 \/ MacRound \/ MacNext
    \/ rc2_set_key \/ rc2_stretch \/ rc2_reduce \/ rc2_encrypt_block \/ rc2_decrypt_block

-----------------------------------------------------------------------------

\* After every round of a decryption the state is the one from which encryption went
\* on: the keys come back in the reverse order, the halves with their places changed,
\* and the mashing is taken back between the same rounds.
CiphersRetraced ==
    /\ fn = "gost_decrypt" =>
          <<loc.n[2], loc.n[1]>> = loc.trace[33 - loc.r]
    /\ fn = "rc2_decrypt" => loc.x = loc.trace[17 - loc.r]
    /\ (fn = "return" /\ args.call \in {"gost28147", "rc2"}) => ret[2] = args.input.in

-----------------------------------------------------------------------------
(***************************************************************************)
(* The compressions: one step is one round on the working variables v.     *)
(***************************************************************************)
Block == args.input.blocks[loc.k]

\* The call of f, and of the function the blocks are given to.
Begin(f, input, v) ==
    /\ fn = "idle" /\ fn' = f
    /\ args' = [call |-> f, input |-> input]
    /\ loc' = [k |-> 1, i |-> 0, h |-> input.h, v |-> v]
    /\ UNCHANGED ret

Rounds(f, n, v) ==
    /\ fn = f /\ loc.i < n
    /\ loc' = [loc EXCEPT !.i = @ + 1, !.v = v]
    /\ UNCHANGED <<fn, args, ret>>

\* After n rounds a block has given h; the next one begins with next(h, that block).
End(f, n, h, next(_, _)) ==
    /\ fn = f /\ loc.i = n
    /\ IF loc.k < Len(args.input.blocks)
       THEN /\ loc' = [k |-> loc.k + 1, i |-> 0, h |-> h,
                       v |-> next(h, args.input.blocks[loc.k + 1])]
            /\ UNCHANGED <<fn, args, ret>>
       ELSE fn' = "return" /\ ret' = <<h>> /\ UNCHANGED <<args, loc>>

-----------------------------------------------------------------------------
(***************************************************************************)
(* ChaCha and BLAKE2s.                                                     *)
(***************************************************************************)

\* Word d becomes (d ^ a) turned left by s after a has grown by what; a, b, c, d count
\* from 0.
AddTurn(x, a, what, d, s) ==
    LET y == [x EXCEPT ![a + 1] = Add(@, what)] IN
    [y EXCEPT ![d + 1] = Rol(Xor(@, y[a + 1]), s)]

\* Two columns of the state of 16 words meet: m1 and m2 are zero in ChaCha.
Quarter(x, a, b, c, d, m1, m2, s) ==
    LET x1 == AddTurn(x, a, Add(x[b + 1], m1), d, s[1])
        x2 == AddTurn(x1, c, x1[d + 1], b, s[2])
        x3 == AddTurn(x2, a, Add(x2[b + 1], m2), d, s[3])
    IN  AddTurn(x3, c, x3[d + 1], b, s[4])

\* The columns, then the diagonals.
Quads == << <<0, 4, 8, 12>>, <<1, 5, 9, 13>>, <<2, 6, 10, 14>>, <<3, 7, 11, 15>>,
            <<0, 5, 10, 15>>, <<1, 6, 11, 12>>, <<2, 7, 8, 13>>, <<3, 4, 9, 14>> >>

\* All eight quarters, each with its two words of the message.
DoubleRound(x, m1, m2, s) ==
    LET y[i \in 0 .. 8] ==
            IF i = 0 THEN x
            ELSE LET before == y[i - 1] IN
                 Quarter(before, Quads[i][1], Quads[i][2], Quads[i][3], Quads[i][4], m1[i], m2[i], s)
    IN  y[8]

NoWords == [i \in 1 .. 8 |-> Zeros(4)]

\* chacha_permute: two rounds are one turn of its loop.
chacha_permute(x) == DoubleRound(x, NoWords, NoWords, <<16, 12, 8, 7>>)

Plus(x, y) == Strict([i \in 1 .. Len(x) |-> Add(x[i], y[i])])

\* Mutant for MC: the block is what is left of the rounds.
BlockOut_NoSum(state, x) == x

\* chacha_block_generic: the rounds could be run backwards but for the sum.
BlockOut(state, x) == Plus(x, state)

\* hchacha_block_generic, with another block for the words of the nonce.
HOut(x) == SubSeq(x, 1, 4) \o SubSeq(x, 13, 16)

\* state->x[12]++
NextState(state) == [state EXCEPT ![13] = Add(@, <<1, 0, 0, 0>>)]

chacha_block == \E input \in Inputs.chacha : Begin("chacha", input, Words(input.h, 4))

ChaChaRound == Rounds("chacha", 10, chacha_permute(loc.v))

ChaChaReturn ==
    /\ fn = "chacha" /\ loc.i = 10 /\ fn' = "return"
    /\ LET state == Words(args.input.h, 4) IN
       ret' = << Concat(BlockOut(state, loc.v)), Concat(HOut(loc.v)), Concat(NextState(state)) >>
    /\ UNCHANGED <<args, loc>>

blake2s_sigma == <<
    <<0, 1, 2, 3, 4, 5, 6, 7, 8, 9, 10, 11, 12, 13, 14, 15>>,
    <<14, 10, 4, 8, 9, 15, 13, 6, 1, 12, 0, 2, 11, 7, 5, 3>>,
    <<11, 8, 12, 0, 5, 2, 15, 13, 10, 14, 3, 6, 7, 1, 9, 4>>,
    <<7, 9, 3, 1, 13, 12, 11, 14, 2, 6, 5, 10, 4, 0, 15, 8>>,
    <<9, 0, 5, 7, 2, 4, 10, 15, 14, 1, 11, 12, 6, 8, 3, 13>>,
    <<2, 12, 6, 10, 0, 11, 8, 3, 4, 13, 7, 5, 15, 14, 1, 9>>,
    <<12, 5, 1, 15, 14, 13, 4, 10, 0, 7, 6, 3, 9, 2, 8, 11>>,
    <<13, 11, 7, 14, 12, 1, 3, 9, 5, 0, 15, 4, 8, 6, 2, 10>>,
    <<6, 15, 14, 9, 11, 3, 0, 8, 12, 2, 13, 7, 1, 4, 10, 5>>,
    <<10, 2, 8, 4, 7, 6, 1, 5, 15, 11, 9, 14, 3, 12, 13, 0>> >>

BLAKE2S_IV == <<
    <<103, 230, 9, 106>>, <<133, 174, 103, 187>>, <<114, 243, 110, 60>>, <<58, 245, 79, 165>>,
    <<127, 82, 14, 81>>, <<140, 104, 5, 155>>, <<171, 217, 131, 31>>, <<25, 205, 224, 91>> >>

\* What the compression begins with; a block is [m, t, f], its bytes, the counter and the
\* flags.
BlakeStart(h, block) == Words(h, 4) \o SubSeq(BLAKE2S_IV, 1, 4) \o
    Strict([i \in 1 .. 4 |-> Xor(BLAKE2S_IV[i + 4], Words(block.t \o block.f, 4)[i])])

\* The eight G of round r take the words in the order of sigma.
BlakeWords(block, r, odd) ==
    LET m == Words(block.m, 4) IN
    Strict([i \in 1 .. 8 |-> m[blake2s_sigma[r + 1][2 * i - 1 + odd] + 1]])

blake2s_compress ==
    \E input \in Inputs.blake2s :
        Begin("blake2s", input, BlakeStart(input.h, input.blocks[1]))

\* A turn to the right is the other way round.
BlakeRound ==
    Rounds("blake2s", 10,
           DoubleRound(loc.v, BlakeWords(Block, loc.i, 0), BlakeWords(Block, loc.i, 1),
                       <<16, 20, 24, 25>>))

\* The halves of v are both added to h.
BlakeReturn ==
    End("blake2s", 10,
        LET v == Concat(loc.v) IN Xor(Xor(loc.h, SubSeq(v, 1, 32)), SubSeq(v, 33, 64)), BlakeStart)

-----------------------------------------------------------------------------
(***************************************************************************)
(* SHA-1: words are read with the highest byte first.                      *)
(***************************************************************************)
BigEndian(block) == LET w == Words(block, 4) IN Strict([i \in 1 .. Len(w) |-> Reversed(w[i])])

\* Mutant for MC: the words of the schedule are not turned.
Scheduled_NoTurn(w) ==
    LET i == Len(w) IN Append(w, Xor(Xor(w[i - 2], w[i - 7]), Xor(w[i - 13], w[i - 15])))

\* The schedule and its next word: the code makes all 80 in front of the rounds.
Scheduled(w) ==
    LET i == Len(w) IN Append(w, Rol(Xor(Xor(w[i - 2], w[i - 7]), Xor(w[i - 13], w[i - 15])), 1))

\* x | y, where the two have no bit in common or their sum is corrected by the common.
Or(x, y) == Sub(Add(x, y), And(x, y))

ShaFunction(i, b, c, d) ==
    CASE i < 20 -> Or(And(b, c), And(Not(b), d))
      [] i \in 40 .. 59 -> Or(Or(And(b, c), And(b, d)), And(c, d))
      [] OTHER -> Xor(Xor(b, c), d)

ShaConstants == <<<<153, 121, 130, 90>>, <<161, 235, 217, 110>>,
                  <<220, 188, 27, 143>>, <<214, 193, 98, 202>>>>

ShaStart(h, block) == [w |-> BigEndian(block), x |-> h]

sha1_block ==
    \E input \in Inputs.sha1 : Begin("sha1", input, ShaStart(input.h, input.blocks[1]))

ShaRound ==
    Rounds("sha1", 80,
        LET x == loc.v.x
            k == ShaConstants[loc.i \div 20 + 1]
            t == Add(Add(Rol(x[1], 5), ShaFunction(loc.i, x[2], x[3], x[4])),
                     Add(Add(x[5], k), loc.v.w[loc.i + 1]))
        IN  [w |-> IF Len(loc.v.w) < 80 THEN Scheduled(loc.v.w) ELSE loc.v.w,
             x |-> <<t, x[1], Rol(x[2], 30), x[3], x[4]>>])

ShaReturn == End("sha1", 80, Plus(loc.h, loc.v.x), ShaStart)

-----------------------------------------------------------------------------
(***************************************************************************)
(* GOST R 34.11-94: four encryptions under keys made of h and of the       *)
(* message, and a register over words of two bytes.                        *)
(***************************************************************************)
swap_bytes(w) == Strict([n \in 1 .. 32 |-> w[8 * ((n - 1) % 4) + (n - 1) \div 4 + 1]])

circle_xor8(w) == SubSeq(w, 9, 32) \o Xor(SubSeq(w, 1, 8), SubSeq(w, 9, 16))

transform_3(data) ==
    LET sum(b) == XorByte(XorByte(XorByte(data[b], data[b + 2]), XorByte(data[b + 4], data[b + 6])),
                          XorByte(data[b + 24], data[b + 30]))
    IN  SubSeq(data, 3, 32) \o << sum(1), sum(2) >>

Times3(data, times) ==
    LET t[i \in 0 .. times] == IF i = 0 THEN data ELSE LET b == t[i - 1] IN transform_3(b)
    IN  t[times]

\* The bytes, from 0, that are inverted before the third key.
Inverted == {31, 29, 28, 24, 23, 20, 18, 17, 14, 12, 10, 8, 7, 5, 3, 1}

Invert(u) == Strict([i \in 1 .. 32 |-> IF i - 1 \in Inverted THEN 255 - u[i] ELSE u[i]])

GostStart(h, m) == [u |-> h, v |-> m, s |-> <<>>]

hash_step ==
    \E input \in Inputs.gost3411_94 :
        Begin("gost3411_94", input, GostStart(input.h, input.blocks[1]))

\* One of the four: the key from u and v, which change behind it.
HashEncryption ==
    Rounds("gost3411_94", 4,
        LET u == loc.v.u
            v == loc.v.v
            i == loc.i
            key == gost28147_setkey_raw(swap_bytes(Xor(u, v)))
            next == circle_xor8(u)
        IN  [u |-> IF i = 1 THEN Invert(next) ELSE next,
             v |-> circle_xor8(circle_xor8(v)),
             s |-> loc.v.s \o gost28147_encrypt_raw(gost28147_sbox_cryptopro_3411, key,
                                                   SubSeq(loc.h, 8 * i + 1, 8 * i + 8))])

HashMixing ==
    End("gost3411_94", 4,
        LET s == Xor(Times3(loc.v.s, 12), Block) IN Times3(Xor(Times3(s, 1), loc.h), 61), GostStart)

-----------------------------------------------------------------------------
(***************************************************************************)
(* Streebog: the table Ax has, for byte k of a word, the multiples of row  *)
(* k in the field of 256 elements with x^8 + x^4 + x^3 + x^2 + 1, after    *)
(* the substitution of Kuznyechik; every entry of the source has been      *)
(* compared with this definition.                                          *)
(***************************************************************************)
AxRows == <<
    <<131, 224, 142, 43, 75, 49, 28, 100>>, <<24, 220, 245, 158, 79, 71, 139, 164>>,
    <<40, 119, 50, 138, 217, 134, 125, 249>>, <<158, 168, 16, 24, 101, 140, 6, 91>>,
    <<56, 193, 147, 186, 140, 101, 33, 3>>, <<80, 137, 138, 50, 169, 156, 204, 172>>,
    <<142, 152, 131, 26, 1, 15, 182, 70>>, <<100, 135, 70, 178, 7, 139, 71, 131>> >>

AxMultiples == MultiplicationTable(285)

Ax(k, b) == LET p == pi(b) + 1 IN Strict([m \in 1 .. 8 |-> AxMultiples[AxRows[k][m] + 1][p]])

\* The constants of the rounds.
StreebogC == <<
    <<7, 69, 166, 242, 89, 101, 128, 221, 35, 77, 116, 204, 54, 116, 118, 5, 21, 211, 96, 164, 8, 42,
      66, 162, 1, 105, 103, 146, 145, 224, 124, 75, 252, 196, 133, 117, 141, 184, 78, 113, 22, 208, 69, 46,
      67, 118, 106, 47, 31, 124, 101, 192, 129, 47, 203, 235, 233, 218, 202, 30, 218, 91, 8, 177>>,
    <<183, 155, 177, 33, 112, 4, 121, 230, 86, 205, 203, 215, 27, 162, 221, 85, 202, 167, 10, 219, 194, 97,
      181, 92, 88, 153, 214, 18, 107, 23, 181, 154, 49, 1, 181, 22, 15, 94, 213, 97, 152, 43, 35, 10,
      114, 234, 254, 243, 215, 181, 112, 15, 70, 157, 227, 79, 26, 47, 157, 169, 138, 181, 163, 111>>,
    <<178, 10, 186, 10, 245, 150, 30, 153, 49, 219, 122, 134, 67, 244, 182, 194, 9, 219, 98, 96, 55, 58,
      201, 193, 177, 158, 53, 144, 228, 15, 226, 211, 123, 123, 41, 177, 20, 117, 234, 242, 139, 31, 156, 82,
      95, 94, 241, 6, 53, 132, 61, 106, 40, 252, 57, 10, 199, 47, 206, 43, 172, 220, 116, 245>>,
    <<46, 209, 227, 132, 188, 190, 12, 34, 241, 55, 232, 147, 161, 234, 83, 52, 190, 3, 82, 147, 51, 19,
      183, 216, 117, 214, 3, 237, 130, 44, 215, 169, 63, 53, 94, 104, 173, 28, 114, 157, 125, 60, 92, 51,
      126, 133, 142, 72, 221, 228, 113, 93, 160, 225, 72, 249, 210, 102, 21, 232, 179, 223, 31, 239>>,
    <<87, 254, 108, 124, 253, 88, 23, 96, 245, 99, 234, 169, 126, 162, 86, 122, 22, 26, 39, 35, 183, 0,
      255, 223, 163, 245, 58, 37, 71, 23, 205, 191, 189, 255, 15, 128, 215, 53, 158, 53, 74, 16, 134, 22,
      31, 28, 21, 127, 99, 35, 169, 108, 12, 65, 63, 154, 153, 71, 71, 173, 172, 107, 234, 75>>,
    <<110, 125, 100, 70, 122, 64, 104, 250, 53, 79, 144, 54, 114, 197, 113, 191, 182, 198, 190, 194, 102, 31,
      242, 10, 180, 183, 154, 28, 183, 166, 250, 207, 198, 142, 240, 154, 180, 154, 127, 24, 108, 164, 66, 81,
      249, 196, 102, 45, 192, 57, 48, 122, 59, 195, 164, 111, 217, 211, 58, 29, 174, 174, 79, 174>>,
    <<147, 212, 20, 58, 77, 86, 134, 136, 243, 74, 60, 162, 76, 69, 23, 53, 4, 5, 74, 40, 131, 105,
      71, 6, 55, 44, 130, 45, 197, 171, 146, 9, 201, 147, 122, 25, 51, 62, 71, 211, 201, 135, 191, 230,
      199, 198, 158, 57, 84, 9, 36, 191, 254, 134, 172, 81, 236, 197, 170, 238, 22, 14, 199, 244>>,
    <<30, 231, 2, 191, 212, 13, 127, 164, 217, 168, 81, 89, 53, 194, 172, 54, 47, 196, 165, 209, 43, 141,
      209, 105, 144, 6, 155, 146, 203, 43, 137, 244, 154, 196, 219, 77, 59, 68, 180, 137, 30, 222, 54, 156,
      113, 248, 183, 78, 65, 65, 110, 12, 2, 170, 231, 3, 167, 201, 147, 77, 66, 91, 31, 155>>,
    <<219, 90, 35, 131, 81, 68, 97, 114, 96, 42, 31, 203, 146, 220, 56, 14, 84, 156, 7, 166, 154, 138,
      43, 123, 177, 206, 178, 219, 11, 68, 10, 128, 132, 9, 13, 224, 183, 85, 217, 60, 36, 66, 137, 37,
      27, 58, 125, 58, 222, 95, 22, 236, 216, 154, 76, 148, 155, 34, 49, 22, 84, 90, 143, 55>>,
    <<237, 156, 69, 152, 251, 199, 180, 116, 195, 182, 59, 21, 209, 250, 152, 54, 244, 82, 118, 59, 48, 108,
      30, 122, 75, 51, 105, 175, 2, 103, 231, 159, 3, 97, 51, 27, 138, 225, 255, 31, 219, 120, 138, 255,
      28, 231, 65, 137, 243, 243, 228, 178, 72, 229, 42, 56, 82, 111, 5, 128, 166, 222, 190, 171>>,
    <<27, 45, 243, 129, 205, 164, 202, 107, 93, 216, 111, 192, 74, 89, 162, 222, 152, 110, 71, 125, 29, 205,
      186, 239, 202, 185, 72, 234, 239, 113, 29, 138, 121, 102, 132, 20, 33, 128, 1, 32, 97, 7, 171, 235,
      187, 107, 250, 216, 148, 254, 90, 99, 205, 198, 2, 48, 251, 137, 200, 239, 208, 158, 205, 123>>,
    <<32, 215, 27, 241, 74, 146, 188, 72, 153, 27, 178, 217, 213, 23, 244, 250, 82, 40, 225, 136, 170, 164,
      29, 231, 134, 204, 145, 24, 157, 239, 128, 93, 155, 159, 33, 48, 212, 18, 32, 248, 119, 29, 223, 188,
      50, 60, 164, 205, 122, 177, 73, 4, 176, 128, 19, 210, 186, 49, 22, 241, 103, 231, 142, 55>> >>

\* Word i of the result takes the byte i of every word of x ^ y.
streebog_xlps(x, y) ==
    LET z == Xor(x, y)
        word(i) ==
            LET t(k) == Ax(k, z[8 * (k - 1) + i]) IN
            Xor(Xor(Xor(t(1), t(2)), Xor(t(3), t(4))), Xor(Xor(t(5), t(6)), Xor(t(7), t(8))))
    IN  Concat([i \in 1 .. 8 |-> word(i)])

\* A block is [N, m].
StreebogStart(h, block) ==
    LET ki == streebog_xlps(h, block.N) IN [ki |-> ki, data |-> streebog_xlps(ki, block.m)]

streebog_g ==
    \E input \in Inputs.streebog :
        Begin("streebog", input, StreebogStart(input.h, input.blocks[1]))

streebog_round ==
    Rounds("streebog", 11,
        LET ki == streebog_xlps(loc.v.ki, StreebogC[loc.i + 1])
        IN  [ki |-> ki, data |-> streebog_xlps(ki, loc.v.data)])

StreebogReturn ==
    End("streebog", 11,
        LET last == streebog_xlps(loc.v.ki, StreebogC[12])
        IN  Xor(Xor(Xor(last, loc.v.data), loc.h), Block.m), StreebogStart)

-----------------------------------------------------------------------------
(***************************************************************************)
(* The generator of src/xoshiro256pp.c: a state of four words of 64 bits.  *)
(***************************************************************************)
Shl17(u) == LET r == Rol(u, 17) IN <<0, 0, r[3] - (r[3] % 2)>> \o SubSeq(r, 4, 8)

\* A state of zeros would never leave itself.
pogost_xoshiro256pp_seed ==
    \E input \in Inputs.xoshiro :
        LET zero == \A i \in 1 .. 4 : input.h[i] = Zeros(8) IN
        Begin("xoshiro", input,
              [s |-> IF zero THEN [input.h EXCEPT ![1] = <<1>> \o Zeros(7)] ELSE input.h,
               out |-> <<>>])

pogost_xoshiro256pp_step ==
    Rounds("xoshiro", 4,
        LET s == loc.v.s
            s2 == Xor(s[3], s[1])
            s3 == Xor(s[4], s[2])
            s1 == Xor(s[2], s2)
            s0 == Xor(s[1], s3)
        IN  [s |-> <<s0, s1, Xor(s2, Shl17(s[2])), Rol(s3, 45)>>,
             out |-> Append(loc.v.out, Add(Rol(Add(s[1], s[4]), 23), s[1]))])

XoshiroReturn ==
    /\ fn = "xoshiro" /\ loc.i = 4
    /\ fn' = "return" /\ ret' = <<loc.v.out>>
    /\ UNCHANGED <<args, loc>>

CompressionsNext ==
    \/ pogost_xoshiro256pp_seed \/ pogost_xoshiro256pp_step \/ XoshiroReturn
    \/ chacha_block \/ ChaChaRound \/ ChaChaReturn
    \/ blake2s_compress \/ BlakeRound \/ BlakeReturn
    \/ sha1_block \/ ShaRound \/ ShaReturn
    \/ hash_step \/ HashEncryption \/ HashMixing
    \/ streebog_g \/ streebog_round \/ StreebogReturn

-----------------------------------------------------------------------------
(***************************************************************************)
(* The calls of the run: the keys and the texts of the repository's tests  *)
(* and of the standards it implements, and zeros and ones.                 *)
(***************************************************************************)

Ones(n) == [i \in 1 .. n |-> 255]
Counting(n) == [i \in 1 .. n |-> i - 1]
Filled(text, size) == text \o Zeros(size - Len(text))
Number64(n) == <<n, 0, 0, 0, 0, 0, 0, 0>>

\* A vector: an input of a call, which of its results and what it is.
Vector(input, k, out) == [input |-> input, k |-> k, out |-> out]

\* tests/test_kuznyechik.c.
KuznyechikVectors == {Vector(
    [key |-> <<136, 153, 170, 187, 204, 221, 238, 255, 0, 17, 34, 51, 68, 85, 102, 119, 254, 220,
        186, 152, 118, 84, 50, 16, 1, 35, 69, 103, 137, 171, 205, 239>>,
     in |-> <<17, 34, 51, 68, 85, 102, 119, 0, 255, 238, 221, 204, 187, 170, 153, 136>>], 1,
    <<127, 103, 157, 144, 190, 188, 36, 48, 90, 70, 141, 66, 185, 212, 237, 205>>)}

\* GOST R 34.13-2015, A.1.6: both subkeys from the encrypted zero block.
OmacVectors == {Vector(
    <<148, 190, 193, 94, 38, 156, 241, 229, 6, 240, 43, 153, 76, 10, 142, 160>>, 1,
    <<41, 125, 130, 188, 77, 57, 227, 202, 13, 224, 87, 50, 152, 21, 29, 199, 82, 251, 5,
        120, 154, 115, 199, 148, 27, 192, 174, 101, 48, 42, 59, 142>>)}

\* tests/test_gost28147.c, plain and cipher.
Gost28147Input(in) == [
    sbox |-> gost28147_sbox_cryptopro_a,
    key |-> <<187, 241, 237, 211, 32, 175, 138, 98, 142, 17, 200, 169, 81, 204, 190, 129, 71, 123,
        65, 161, 106, 246, 127, 5, 232, 81, 47, 158, 1, 248, 207, 73>>,
    in |-> in]

Gost28147Vectors == {
    Vector(Gost28147Input(<<116, 61, 118, 249, 27, 238, 53, 60>>), 1,
           <<195, 115, 144, 149, 53, 88, 8, 99>>),
    Vector(Gost28147Input(<<162, 92, 59, 16, 235, 100, 207, 245>>), 1,
           <<203, 104, 133, 150, 119, 232, 251, 169>>)}

\* tests/test_cryptopro_keybag.c: mac_expected and mac64_expected, with the key that
\* gost_kdf_tree_256 makes there; other lengths are refused.
Mac4Input(sbox, key, state, text) == [sbox |-> sbox, key |-> key, state |-> state, text |-> text]

BagMacInput(len) == Mac4Input(gost28147_sbox_cryptopro_a,
    <<126, 216, 132, 25, 67, 48, 44, 240, 44, 161, 23, 118, 232, 241, 170, 127, 81, 203, 130,
      22, 99, 111, 81, 67, 73, 101, 23, 9, 126, 189, 26, 46>>,
    [i \in 1 .. 8 |-> i], [i \in 1 .. len |-> i - 1])

\* tests/test_gost28147.c: imit_a, imit_b, imit_input and imit_expected: eleven blocks and
\* a tail.
imit_a == <<35, 29, 1, 231, 207, 171, 96, 105, 254, 4, 13, 109, 189, 106, 122, 246, 2, 59, 3,
        221, 82, 105, 250, 223, 96, 98, 183, 157, 6, 189, 184, 57>>

imit_b == <<119, 9, 157, 126, 158, 8, 206, 70, 218, 238, 223, 214, 243, 255, 22, 44, 30, 167,
        53, 162, 1, 135, 182, 159, 240, 13, 71, 195, 254, 227, 207, 182>>

imit_input == <<48, 91, 4, 8, 0, 0, 0, 0, 0, 0, 0, 0, 48, 40, 4, 32, 204, 205, 156, 216, 51, 9, 249,
        132, 213, 238, 208, 63, 251, 179, 33, 41, 152, 140, 227, 160, 40, 186, 72, 104, 126,
        137, 205, 86, 109, 151, 44, 160, 4, 4, 194, 50, 195, 220, 160, 37, 3, 2, 7, 128,
        160, 31, 6, 8, 42, 133, 3, 7, 1, 1, 1, 1, 48, 19, 6, 7, 42, 133, 3, 2, 2, 35, 1, 6,
        8, 42, 133, 3, 7, 1, 1, 2, 2>>

ImitInput(text) == [sbox |-> gost28147_sbox_tc26_z, a |-> imit_a, b |-> imit_b,
                    state |-> Zeros(8), text |-> text]

\* No test has a text of whole blocks.  The rounds of its final pass are those of a block
\* of zeros, so its value, here what the program gives, is also that of the text with
\* seven zeros behind it, and the other MAC of the text with a block of zeros, of which
\* the key is the difference.
EndingInPass(text, mac) ==
    {Vector(ImitInput(text \o Zeros(z)), 1, mac) : z \in {0, 7}}

WithZeroBlock(text, mac) ==
    Vector(Mac4Input(gost28147_sbox_tc26_z, Concat(DifferenceKey(imit_a, imit_b)), Zeros(8),
                     text \o Zeros(8)), 1, mac)

ElevenBlocks == SubSeq(imit_input, 1, 88)

ImitVectors ==
    {Vector(ImitInput(imit_input), 1, <<220, 233, 166, 41>>)}
    \union EndingInPass(ElevenBlocks, <<37, 128, 99, 195>>)
    \union EndingInPass(<<>>, <<149, 99, 232, 193>>)

Mac4Vectors ==
    {Vector(BagMacInput(32), 1, <<207, 42, 59, 226>>), Vector(BagMacInput(64), 1, <<31, 206, 166, 134>>),
     WithZeroBlock(ElevenBlocks, <<37, 128, 99, 195>>), WithZeroBlock(<<>>, <<149, 99, 232, 193>>)}
    \union {Vector(BagMacInput(len), 1, -1) : len \in {0, 7, 33}}

\* RFC 2268, section 5, where the bits do not end with a byte and where they do.
Rc2Input(data, bits, in) == [data |-> data, bits |-> bits, in |-> in]

Rc2Vectors == {
    Vector(Rc2Input(Zeros(8), 63, Zeros(8)), 1, <<235, 183, 115, 249, 147, 39, 142, 255>>),
    Vector(Rc2Input(Ones(8), 64, Ones(8)), 1, <<39, 139, 39, 228, 46, 47, 13, 73>>),
    Vector(Rc2Input(<<136>>, 64, Zeros(8)), 1, <<97, 168, 162, 68, 173, 172, 204, 240>>)}

\* RFC 8439, section 2.3.2, and the block of HChaCha of the XChaCha draft.
ChaChaInput(rest) == [h |-> <<101, 120, 112, 97, 110, 100, 32, 51, 50, 45, 98, 121, 116, 101, 32, 107>>
                            \o Counting(32) \o rest]

ChaChaVectors == {
    Vector(ChaChaInput(<<1, 0, 0, 0, 0, 0, 0, 9, 0, 0, 0, 74, 0, 0, 0, 0>>), 1,
      <<16, 241, 231, 228, 209, 59, 89, 21, 80, 15, 221, 31, 163, 32, 113, 196, 199, 209,
        244, 199, 51, 192, 104, 3, 4, 34, 170, 154, 195, 212, 108, 78, 210, 130, 100, 70, 7,
        159, 170, 9, 20, 194, 215, 5, 217, 139, 2, 162, 181, 18, 156, 209, 222, 22, 78, 185,
        203, 208, 131, 232, 162, 80, 60, 78>>),
    Vector(ChaChaInput(<<0, 0, 0, 9, 0, 0, 0, 74, 0, 0, 0, 0, 49, 65, 89, 39>>), 2,
      <<130, 65, 59, 66, 39, 178, 123, 254, 211, 14, 66, 80, 138, 135, 125, 115, 160, 249,
        228, 213, 138, 116, 168, 83, 193, 46, 196, 19, 38, 211, 236, 220>>)}

\* "abc" of RFC 7693, appendix B, and a message of a whole block and three bytes.
BlakeInput(blocks) == [
    h |-> <<71, 230, 8, 107, 133, 174, 103, 187, 114, 243, 110, 60, 58, 245, 79, 165, 127, 82,
        14, 81, 140, 104, 5, 155, 171, 217, 131, 31, 25, 205, 224, 91>>,
    blocks |-> blocks]

BlakeBlock(m, t, last) == [m |-> Filled(m, 64), t |-> Number64(t),
                           f |-> IF last THEN Ones(4) \o Zeros(4) ELSE Zeros(8)]

BlakeVectors == {
    Vector(BlakeInput(<< BlakeBlock(<<97, 98, 99>>, 3, TRUE) >>), 1,
      <<80, 140, 94, 140, 50, 124, 20, 226, 225, 167, 43, 163, 78, 235, 69, 47, 55, 69, 139,
        32, 158, 214, 58, 41, 77, 153, 155, 76, 134, 103, 89, 130>>),
    Vector(BlakeInput(<< BlakeBlock([i \in 1 .. 64 |-> 97], 64, FALSE),
                                   BlakeBlock(<<98, 98, 98>>, 67, TRUE) >>), 1,
      <<177, 45, 166, 231, 189, 15, 74, 209, 147, 232, 133, 150, 47, 93, 213, 12, 61, 106,
        185, 240, 43, 93, 39, 64, 38, 70, 57, 85, 16, 77, 198, 100>>)}

\* "abc" of FIPS 180; the words have their lowest byte first.
ShaVectors == {Vector([
    h |-> <<<<1, 35, 69, 103>>,
            <<137, 171, 205, 239>>,
            <<254, 220, 186, 152>>,
            <<118, 84, 50, 16>>,
            <<240, 225, 210, 195>>>>,
    blocks |-> << Filled(<<97, 98, 99, 128>>, 63) \o <<24>> >>], 1,
    <<<<54, 62, 153, 169>>,
      <<106, 129, 6, 71>>,
      <<113, 37, 62, 186>>,
      <<108, 194, 80, 120>>,
      <<157, 216, 208, 156>>>>)}

\* tests/test_gost3411_94.c: two blocks of ones, the length and the sum of the blocks.
Gost94Vectors == {Vector([
    h |-> Zeros(32),
    blocks |-> << Ones(32), Ones(32), Filled(<<0, 2>>, 32), <<254>> \o Ones(31) >>], 1,
    <<88, 80, 77, 38, 179, 103, 126, 117, 107, 163, 244, 169, 253, 47, 20, 179, 186, 84,
        87, 6, 106, 74, 161, 215, 0, 101, 155, 144, 220, 221, 211, 198>>)}

\* tests/test_streebog.c: the message, its length in bits and the sum.
StreebogInput(h) ==
    LET m == [i \in 1 .. 64 |-> IF i = 64 THEN 1 ELSE 48 + ((i - 1) % 10)]
        block(b) == [N |-> Zeros(64), m |-> b]
    IN  [h |-> h, blocks |-> << block(m), block(Filled(<<248, 1>>, 64)), block(m) >>]

StreebogVectors == {
    Vector(StreebogInput(Zeros(64)), 1,
      <<27, 84, 208, 26, 74, 245, 185, 213, 204, 61, 134, 214, 141, 40, 84, 98, 177, 154,
        188, 36, 117, 34, 47, 53, 192, 133, 18, 43, 228, 186, 31, 250, 0, 173, 48, 248, 118,
        123, 58, 130, 56, 76, 101, 116, 240, 36, 195, 17, 226, 164, 129, 51, 43, 8, 239,
        127, 65, 121, 120, 145, 193, 100, 111, 72>>)}

\* The first four numbers after the seed 1, 2, 3, 4, and for the seed that is replaced.
XoshiroVectors == {
    Vector([h |-> [i \in 1 .. 4 |-> Number64(i)]], 1,
           << <<1, 0, 128, 2, 0, 0, 0, 0>>, <<103, 0, 128, 3, 0, 0, 0, 0>>,
              <<103, 0, 128, 3, 0, 192, 12, 0>>, <<178, 0, 68, 153, 1, 194, 12, 0>> >>)}

Vectors == [
    kuznyechik |-> KuznyechikVectors, omac |-> OmacVectors,
    gost28147 |-> Gost28147Vectors, imit |-> ImitVectors, mac4 |-> Mac4Vectors,
    rc2 |-> Rc2Vectors,
    chacha |-> ChaChaVectors, blake2s |-> BlakeVectors, sha1 |-> ShaVectors,
    gost3411_94 |-> Gost94Vectors, streebog |-> StreebogVectors, xoshiro |-> XoshiroVectors]

-----------------------------------------------------------------------------

InputsOf(call) == {v.input : v \in Vectors[call]}

Polynomials == {Zeros(16), Ones(16), <<128>> \o Zeros(15), Zeros(15) \o <<2>>} \union InputsOf("omac")

MCInputs == [
    kuznyechik |-> InputsOf("kuznyechik") \union
        [key : {Zeros(32), Ones(32), Counting(32)}, in : {Zeros(16), Ones(16)}],
    omac |-> Polynomials,
    gf128_mul |-> [x : Polynomials, y : Polynomials],
    gost28147 |-> InputsOf("gost28147") \union
        [sbox : {gost28147_sbox_tc26_z}, key : {Zeros(32), Counting(32)}, in : {Zeros(8), Ones(8)}],
    imit |-> InputsOf("imit"), mac4 |-> InputsOf("mac4"),
    rc2 |-> InputsOf("rc2") \union
        {Rc2Input(Counting(n), bits, in) :
            n \in {0, 5, 16, 128, 129}, bits \in {0, 1, 40, 1024, 1025}, in \in {Zeros(8), Ones(8)}},
    chacha |-> InputsOf("chacha"), blake2s |-> InputsOf("blake2s"), sha1 |-> InputsOf("sha1"),
    gost3411_94 |-> InputsOf("gost3411_94"), streebog |-> InputsOf("streebog"),
    xoshiro |-> InputsOf("xoshiro") \union {[h |-> [i \in 1 .. 4 |-> Zeros(8)]]}]

\* The sizes of what the block ciphers are given, and of the table of RC2.
ASSUME InputsAssumption ==
    /\ Inputs.kuznyechik \subseteq [key : [1 .. 32 -> Byte], in : [1 .. 16 -> Byte]]
    /\ Inputs.gf128_mul \subseteq [x : [1 .. 16 -> Byte], y : [1 .. 16 -> Byte]]
    /\ Inputs.gost28147 \subseteq [sbox : [1 .. 8 -> [1 .. 16 -> 0 .. 15]], key : [1 .. 32 -> Byte],
                                    in : [1 .. 8 -> Byte]]
    /\ Inputs.rc2 \subseteq [data : Seq(Byte), bits : Int, in : [1 .. 8 -> Byte]]
    /\ key_table \in [1 .. 256 -> Byte]

Init == fn = "idle" /\ args = <<>> /\ loc = <<>> /\ ret = <<>>

Forget == fn = "return" /\ fn' = "idle" /\ args' = <<>> /\ loc' = <<>> /\ ret' = <<>>

Next == KuznyechikNext \/ BlockCiphersNext \/ CompressionsNext \/ Forget

Spec == Init /\ [][Next]_<<fn, args, loc, ret>>

-----------------------------------------------------------------------------

\* Decryption retraces encryption round by round, for the three block ciphers and both
\* implementations of Kuznyechik, and gives the block back.
RoundsRetraced == KuznyechikRetraced /\ CiphersRetraced

\* Every call whose result the tests or the standards state returns it: the keys, blocks
\* and sums are theirs, so a table, a constant or a byte order that is wrong shows.
StandardVectors ==
    fn = "return" /\ args.call \in DOMAIN Vectors =>
        \A v \in Vectors[args.call] : args.input = v.input => ret[v.k] = v.out

=============================================================================
