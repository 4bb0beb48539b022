# libpogost: specification, model checking and proofs

libpogost is a library of Russian and Noise-protocol cryptography in C: digests, block and stream
ciphers, authenticated modes, key derivation and signatures. It allocates nothing, starts no thread,
keeps no global state and calls nobody back. Every function works on buffers and contexts of its caller
and returns.

What can go wrong in such code is seldom the S-box, which a test vector settles. It is the control
around it: a buffer that meets the end of a block in the middle of an update, a counter that carries, a
length that needs a block of padding of its own, a check that comes after the write it should guard, a
context used again, output written over the input it is still to be read from; and it is arithmetic at its
borders: a carry into a third word, a sum that is just the modulus, the one scalar a formula does not know.
Test vectors visit a few of these states. The modules here visit all of them on small blocks and small
numbers, and for the digests, CTR-ACPKM, OMAC, CFB, all key derivations, HMAC and the sums of the arithmetic the
result is proved for every size and every length.

## The method

The library is modelled in three ways, each for what it can show.

* **Modes, digests and containers** treat the primitives under them (block cipher, compression function,
  hash) as **symbolic**: a result is a value that names all the inputs it was computed from, so that two
  results are equal only if they were computed from the same inputs. This is the idealisation under which a
  mode of operation is right or wrong by its control alone.
* **The functions on blocks**, which are what the modes take as symbolic, are modelled at their **full
  width** (`Kuznyechik`, `BlockFunctions`), one action per round, and run on the inputs of the
  repository's tests and of the standards, and on zeros and ones.
* **The arithmetic** is modelled with **small numbers**: words of a few bits instead of 64, a prime of 5 to
  24 bits instead of 255 or 512, with the shape of the large one (2^k less a little, as many limbs or more
  than two, an order with the highest bit set). All operands, or all at the borders, are then tried.

Words of different sizes behave alike in such code as far as it does not mention the size; where it does
(a shift of 63, limbs of 51 bits, a chain of squarings for p - 2) the size is a constant of the module.

Two byte representations are used:

| module | a byte is | used for |
|---|---|---|
| `ByteBlocks` | its position in the stream of bytes the caller feeds (1, 2, 3, ...); a byte the code writes itself is the negation of its value | block buffers: a byte lost, repeated or out of order is visible |
| `SymbolicBytes` | the set of the atoms it is the exclusive or of | ciphers: the same key stream twice cancels, two different ones never do |

`Copy` and `Fill` of `ByteBlocks` stand for `memcpy` and `memset` on a buffer. What a buffer held
before stays in it until it is overwritten, so stale bytes are visible.

Calls are atomic where nobody can look in between (a digest update works on a private
context), and one action per turn of the loop where the intermediate states are of interest (a mode that
writes the caller's buffer block by block).

## Inventory

The state is always that of one call or one context of the caller: there are no components that run
side by side. Components interact by calls.

| component | state | operations | hard behaviour | correct if |
|---|---|---|---|---|
| Streebog (`streebog_generic.c`) | h, N, Sigma, buffer, fill | init, update, final, one-shot | the buffer at block borders; stale tail; reuse after final | the digest is that of the concatenation, whatever the cuts |
| BLAKE2s (`blake2s_*.c`) | h, t[2], f, buffer, buflen | init, init_key, update, final | the last block must be held back; counter carry; key block | as above |
| Poly1305 (`poly1305_generic.c`) | key, accumulator, buffer, buflen | init, update, final | top-up, bulk and tail in one call; the pad bit | as above |
| SHA-1 (`sha1_generic.c`) | h, block, bits, used | init, update, final | the length field may need a second block | as above |
| GOST R 34.11-94 (`gost3411_94_generic.c`) | h, checksum, remainder, length | one call over three parts | empty message, remainder over several parts | as above |
| ChaCha20-Poly1305 (`chacha*.c`) | state, key stream, MAC context | encrypt, decrypt, both nonce sizes | in place; check before release; padding | authenticated encryption |
| CTR-ACPKM (`gost_tls_generic.c`) | counter, key, position | one call | key change inside a text; counter carry | each section under its key, no key stream twice |
| OMAC (`gost_tls_generic.c`) | chaining value, position in two strings | omac, omac2 | byte at the seam; whole or padded last block | unambiguous MAC of the concatenation |
| MGM (`gost_tls_generic.c`) | counters y, z, sum | encrypt, decrypt | in place; wipe on failure; two counters from one nonce | authenticated encryption |
| KExp15 (`gost_tls_generic.c`) | none | kexp15, kimp15 | must decrypt before it can check | a key only if authentic |
| KDF_TREE, PRF, HKDF (`gost_tls_generic.c`) | counter, chaining value, position | one call each | byte counter; failure inside the loop; packing of labels | a prefix of the standard's stream, no repetition |
| TLSTREE, nonce (`gost_tls_generic.c`) | none | one call per record | masks in two byte orders; a reserved bit | a key per section, a nonce per record |
| HMAC (`hmac_streebog_generic.c`) | one digest context, used twice | parts, one-shot | key of about a block; context reuse | RFC 2104 |
| PBKDF2 (`pbkdf2_generic.c`) | block number, chain, sum | one call | two nested loops; block number | RFC 8018 |
| GOST 28147-89 (`gost28147_generic.c`) | key, iv, position | CFB, MAC, IMIT | key meshing every 1024 bytes; in place; zero-padded tail | the cipher text of RFC 4357; damage stays local |
| PKCS#12, RC2, key bag (`pfx_generic.c`, `rc2_generic.c`, `cryptopro_keybag_generic.c`) | iv, position; hash chain | derive, encrypt, decrypt, wrap | bad padding; in place; 16-bit counter | what goes in comes out; a failure is contained |
| GOST R 34.10 (`gost3410*.c`) | scalars, points | public key, sign, verify, VKO, ECDH | digests of zero and above the order, nonces that give zeros, equal points, the cofactor; two builds | verification accepts what can be signed; both parties get one key |
| ECC (`ecc_generic.c`) | a number in words, a loop's locals, points | add, sub, shift, multiply, reduce, invert; ladders | carries between words and out of the number, loops that must meet their end, points the formulas do not know | exact residues; the multiple of the point |
| CryptoPro A (`optimized/gost3410_256a.c`) | an element in five limbs, digits of a scalar | field operations, comb, interleaved multiplication | bounds of the limbs, signed digits, the even scalar | exact residues within the bounds; the multiple of the point |
| Curve25519 (`curve25519_*.c`) | an element in ten limbs or five, two points | field operations, ladder, X25519 | lazy carries, the final reduction, points of small order | both implementations give x of the multiple |
| Poly1305 core (`poly1305_donna*.c`) | accumulator in five limbs or three | set key, blocks, emit | partial reduction, comparison with p | the polynomial modulo p, of which the tag is cut |
| Kuznyechik (`kuznyechik_generic.c`, `x86_64/`, `kuztable.h`) | round keys | set key, encrypt, decrypt | combined tables, transformed keys for decryption | decryption retraces encryption, in both implementations |
| xoshiro256++ (`xoshiro256pp.c`) | four words | seed, next | a seed of zeros | the reference's sequence |
| memory helpers, kernel compatibility | | | | [Not modelled](#not-modelled) |

How they call each other:

```text
TLS record layer   TLSTREE ── KDF_TREE ──┐        make_nonce
                                         │
TLS handshake      PRF, HKDF(label) ─────┼── HMAC ── Streebog
PKCS#12 (GOST)     PBKDF2 ───────────────┘
TLS key transport  KExp15/KImp15 ── OMAC, CTR-ACPKM ── Kuznyechik
TLS 1.3 record     MGM ── Kuznyechik (generic, SIMD)
Noise              (X)ChaCha20-Poly1305 ── ChaCha20, Poly1305      BLAKE2s, Curve25519
PKCS#12 (legacy)   RC2 PBE ── SHA-1;  key bag ── GOST 28147, GOST R 34.11-94
signatures         GOST R 34.10 ── ECC, CryptoPro A
```

The layering of the modules follows these calls: a module takes what it calls by what the module of the
callee shows. `HmacStreebog` takes the digest as a function of the bytes fed since init, which is what
`Streebog` implements; `KeyExpansion` and `Pbkdf2` take HMAC as a function of the bytes authenticated;
`KeyExport` takes OMAC and CTR-ACPKM so, `ChaCha20Poly1305` Poly1305; `Gost3410` takes the multiplications
of points as `EccGeneric` and `Gost3410_256a` show them, and these the field as `VliModular`, `VliWords` and
their own limbs show it.

## The modules

### Abstract specifications

* `MessageDigest`: what a streaming digest promises. Between init and final a context *is* a parameter
  and a number of bytes; `final` gives `Digest[param][taken]`. A context that has been finished promises
  nothing until the next init (the code would go on from a spent state).
* `AuthenticatedEncryption`: a sender, a receiver and whatever arrives. `open` accepts exactly what
  was sealed, and gives out what was sealed.

### Digests

* `Streebog`: `ctx` is `struct streebog_state`; the actions `streebog_init`, `streebog_update(len)` and
  `streebog_final` are the three functions. `TopUp`, `WholeBlocks` and `KeepTail` are the three parts of
  the update, `streebog_stage2`, `streebog_pad` and `streebog_stage3` the functions of these names. h is
  the list of the compressions `<<N, m>>`.
* `Blake2s`, `Poly1305`, `Sha1`, `Gost3411_94`: likewise, with the action names of the code.
  `Gost3411_94` has no public context: its actions are the start of a call, one part, the return.
* `BufferedDigests` puts the five in front of one abstract digest. A variable `unit` says which one is
  checked; the other variables are shared, as only one context exists at a time.

### Ciphers and authenticated modes

* `ChaCha20Poly1305`, `KuznyechikMgm`, `KeyExport`: a sender (`Seal`, `kuznyechik_mgm_encrypt`,
  `kuznyechik_kexp15`), a channel (`Arrive`) and a receiver (`Open`, ...). The channel flips bytes,
  shortens and lengthens the text, moves the border between additional data and text, and substitutes the
  header. The receiver works in place or into a buffer that holds something else. Everything that is
  written is in `Encrypted`, `Decrypted` and their kin, which follow the functions' order of reads and
  writes.
* `AuthenticatedModes` puts the three in front of one abstract specification; a variable `unit` says which one
  is checked. Its constants are theirs, so that what is proved about it (`AuthenticatedModesProofs`) is about
  every size.
* `CtrAcpkm`: one action per block (`Turn`). A key stream byte is `[key, ctr, at]`.
* `Omac`: one action per block, one for the last (`Finish`). `before` remembers the call before, so that
  two calls can be compared.

* `Gost28147Cfb`: one action per block (`Turn`), entered by the functions that call it. `in` and `out` are
  the buffers as they are *now*, so that an in-place call reads what it has written; `src` is what the
  caller put there.

### Containers

* `Rc2Pbe`: the PBE functions with the CBC loop, one action per block, one for the padding. A byte is made
  of bits where its value matters, and a block that the cipher makes of a wrong one may have any values,
  which the check of the padding sees.
* `KeyBag`: `gost_pfx_cp80_wrap`, one action per iteration of the derivation, one for the wrapping.
  `unwrap` is the same code in the other direction, as the repository's test calls it.
* `Gost28147Imit`: one action per block; two calls are compared.
* `BlockModes` checks these three, `Omac` and `Gost28147Cfb` in one run, one at a time. Its constants are
  theirs, so that what is proved about it (`BlockModesProofs`) is about every size.

### Functions on blocks

* `Kuznyechik`: bytes, words and blocks of the full width; the key schedule, encryption and decryption with
  the generic code's order of the transformations and that of the assembler (`impl`); a table is what it is
  computed from, and every entry of `kuztable.h` has been compared with that. `Double`, which makes the
  subkeys of OMAC, and `gf128_mul` of MGM, one bit per step.
* `BlockFunctions`: GOST 28147-89 with its three substitution tables and its two MACs, the one of whole blocks
  (`gost28147_mac4_raw`) and IMIT, with a difference of keys and always a final pass; RC2 with
  its key schedule, one byte per step, and both directions; ChaCha and HChaCha, BLAKE2s, SHA-1, GOST R
  34.11-94, Streebog (with `Ax`'s 2048 words as the products they hold) and xoshiro256++; one step is one
  round, an input may have several blocks.
  The module ends with the inputs of its run and the results that the tests and standards state (`Vectors`).

### Numbers, curves and signatures

All of these share `fn` (the function that runs), `args` (its operands), `loc` (the locals of its loop) and
`ret` (its result), so that one run can call each of them.

* `VliWords`: the numbers of `ecc_generic.c` word by word: sums, differences, shifts, products column by
  column, one product of words per step; also the carry of `streebog_add512` and of GOST R 34.11-94's sum.
* `VliModular`: the modular arithmetic on whole numbers of `Width` bits with the carry and the borrow the code
  has; inversion and the reductions (special, special2, slow, Barrett's, those of the three NIST primes) are loops, one
  action per branch and round.
* `Limbs`, and on top of it `PolyDonna` (five limbs or three), `Fe25519` (ten or five) and the field part of
  `Gost3410_256a` (five): numbers in limbs with room to spare. A value that is stored is cut off at the word;
  the differences of the code, which would wrap, are seen as such. In `Gost3410_256a` that includes the
  limbs that squaring doubles or multiplies with C before a product and the carries that are cast to a word.
* `CurveGroup`: the reference, a curve with its group law by the textbook, as tables.
* `EccGeneric`: `ecc_point_mult` (co-Z ladder) and `ecc_point_mult_shamir`, one action per round, with the
  projective coordinates that the code keeps.
* `Gost3410_256a`: the complete additions, the three recodings of scalars, the comb for the base point and the
  interleaved multiplication for verification, one action per row of digits.
* `Curve25519`: both ladders, one action per bit, and the functions of `curve25519_generic.c`.
* `Gost3410`: public key, signature, verification and VKO of the curves without a cofactor, in three builds
  (512 bits, 256 bits with and without 128-bit integers), over the multiplications above with the cases these
  do not know.
* `Gost3410Tc26`: the five functions of `gost3410_256_tc26_generic.c`, one action each; parties make keys,
  sign, verify whatever is given to them and agree on keys. `point_add`, `point_double` and `point_mult` are
  those of this file, with its special cases.
* `MCFunctions` instantiates all of them but the last, once per size or number of limbs.

### Keys

* `HmacStreebog`: one call per action; three parts; both digest sizes; remembers a call to compare with.
* `KeyExpansion`: KDF_TREE, the PRF and HKDF-Expand, one action per turn of the loop; `GiveUp` is the
  error return from inside HKDF's loop.
* `HkdfLabel`: the packing of `gost_tls13_hkdf_expand_label` and what HKDF-Expand returns for it.
* `Pbkdf2`: one action per turn of either loop.
* `TlsRecordKeys`: the three TLSTREE functions and `gost_tls13_make_nonce` on true 64-bit numbers (sets
  of bit positions), two records of a connection at a time.
* `KeyDerivation` puts the five on one state space; a variable `unit` says which one is checked. Its constants
  are theirs, so that what is proved about it (`KeyDerivationProofs`) is about every size.

### Proofs

`BufferedDigestsProofs`, `AuthenticatedModesProofs`, `CtrAcpkmProofs`, `KeyDerivationProofs`,
`BlockModesProofs`, `BlockFunctionsProofs` and `ArithmeticProofs` (of `VliWords` and `Gost3410Tc26`); the lemmas on buffers, sequences and induction that several of them cite are in
`ByteBlocks`. See [below](#what-is-proved).

## What each run checks

A run is of the `MC*.tla` module and the `.cfg` of the same name; `buffered_digests`,
`authenticated_modes`, `ctr_acpkm`, `block_modes`, `key_derivation`, `block_functions` and `gost3410_tc26` need no such module, and
`ecc_addition` and `word_product` are `MCFunctions` with `MCEccAddition.cfg` and `MCWordProduct.cfg`. No run switches deadlock checking off, and none finds one: a call
is always possible when the last has returned. Where several components take turns in one run, a variable
`unit` says which one is checked, the type invariant of each is a conjunct of the first invariant about it,
and the properties are conjunctions over the components they speak of.

| run | shows | bounds, and why they are enough |
|---|---|---|
| `buffered_digests` | Every way of cutting the input leaves the contexts of BLAKE2s, Poly1305, SHA-1, GOST R 34.11-94 and Streebog at a position of the one-shot computation (`StateIsPrefix`), and each implements `MessageDigest` (`ImplementsDigest`). | Blocks of 4 bytes (Poly1305: 3), 13 bytes between two inits: three blocks and a tail, so that one update can top up, absorb two blocks and leave a tail. A context may be used after final. BLAKE2s's counter words have 3 bits, so that the carry comes with every second block, with and without a key. SHA-1's length field has two bytes of 3 bits: it spills into a second block, its high byte is used, and it wraps. Two Poly1305 keys, both sizes of Streebog. Proved for all sizes. |
| `authenticated_modes` | Both ChaCha20-Poly1305 AEADs, MGM and KExp15 implement `AuthenticatedEncryption` (`ImplementsAE`), in place or not; a rejected text or container releases nothing (`RejectionReleasesNothing`): the AEADs and `kimp15` leave the output as it was (in place, the ciphertext), MGM leaves zeros. | AEADs: a key stream block of 3 and a MAC block of 2 bytes, messages of 0 to 4, which end before, at and behind the end of either; additional data that end in zeros, as padding does. MGM: blocks of 2, texts of 0 to 5 bytes, so up to 3 counter blocks, additional data of 0 to 3, nonces with either first bit. KExp15: keys and MACs of 2 bytes, up to two wrong bytes in the container, two of each kind of key and of iv. Both are proved for all sizes. |
| `ctr_acpkm` | Every section has its key (`SectionsRekeyed`), no byte of key stream is used twice (`NoStreamReuse`), short texts keep out of the neighbouring iv's counter blocks (`IvSeparates`). | Blocks of 2, counter of 4 bits, half of it iv; 10 blocks: the counter carries into the iv and wraps. Sections of 0, 1, 1.5, 2 and 3 blocks. All four are proved for all sizes. |
| `block_modes` | `omac2` depends on the concatenation only (`ConcatenationAuthenticated`), and no two texts share a result (`Unambiguous`). GOST 28147 CFB and RC2 CBC write the cipher text of their standard at every step, in place or not (`OutputIsPrefix`); a wrong byte spoils itself and the next block, also where the key changes (`DamageIsLocal`). RC2 texts and wrapped keys come back under their password, in place as far as the code lets them (`Recovers`); a failure changes no length and a refusal writes nothing (`FailureContained`); a bag's MAC is that of the key in it unless it was wrapped in place, and two texts share an IMIT exactly if they differ in zeros within the last block (`MacSeparates`). | OMAC and IMIT: all texts of the two bytes that occur in padding, up to two blocks of 2, in every cut. CFB: blocks of 2, a new key every 2 blocks, texts of 0 to 9 bytes: the key changes twice, and a text may end at a change; every place for the wrong byte. RC2: bytes of 2 bits, texts of 0 to 4 that look like padding, buffers of 0 to 7, every error of a byte, every cut. Key bag: 0 to 6 iterations, of which 1 to 5 are allowed, with a counter of 2 bits. All six are proved for all sizes. |
| `key_derivation` | At every turn the output of KDF_TREE, PRF, HKDF and PBKDF2 is a prefix of the standard's stream and untouched behind (`OutputIsPrefix`); no block repeats (`BlocksDiffer`); a failing call leaves nothing, or one block in the one case there is (`FailureLeavesOneBlock`); labels separate (`LabelSeparates`). HMAC of three parts is RFC 2104 HMAC of the concatenation (`ImplementsHmac`), and two calls agree only if their key block and text do (`Unambiguous`). Two TLS records share a key exactly when they are in the same section (`KeyPerSection`); their nonces differ (`NonceDiffers`). | A byte with 4 values (PBKDF2: block number of two bits): three blocks are the most a counter can tell apart, and more are asked for. Labels around the size of the buffer. HMAC: blocks of 4; keys of 0, 1, 4 and 5 bytes; texts that look like the masked key. Records: full width, sequence numbers with up to two ones at either side of each mask border. All eight are proved for all sizes. |
| `functions` | Sums, shifts and products word by word, every reduction and the inversion are exact but for the carry below (`NumbersExact`); the three straight-line fields are, within the bounds of their limbs (`FieldsExact`); so is Poly1305's polynomial after every block, and its tag (`PolyExact`). The ladder gives the multiple but for three scalars and for points with x = 0, simultaneous multiplication the sum wherever no addition on the way is of a point to itself, its negative or infinity, CryptoPro A's multiplications always (`PointsExact`); both X25519 ladders agree with the multiple and refuse the points of small order only (`X25519Agrees`). Three builds make and accept the signatures of the standard (`SignaturesExact`), and VKO gives both parties one key (`VkoExact`), with the exceptions of the multiplications. Every loop ends (`EveryCallReturns`). | Numbers of 5 bits for the reductions: every pair of operands, every product; the primes 31 and 29 are 2^5 less 1 and 3 as the fields are 2^k less a small number, the orders 23, with the highest bit set, and 7; 17 and 19 for special2. Three words of 2 bits, where a column can carry into the third word, and one of 4, whose halves count. Limbs: three of 3 to 9 bits with as many spare bits as the bounds of the code need, operands at the ends of the bounds and around p; in CryptoPro A's squaring a limb times 4 C takes the last bit of its word, as with 64 bits, where it is 0.90 of 2^64. The curve y² = x³ - 3x + 25 over 31 elements has order 23, below p and with the highest bit set like the curve of 512 bits, and two points with x = 0: every scalar and point for the ladder, every pair of scalars and every key for verification. X25519: over 109 elements, cofactors 8 and 4, x below and above p. |
| `block_functions` | Kuznyechik in both implementations, GOST 28147-89 and RC2 are retraced by their decryption, round by round (`RoundsRetraced`); every call gives what the tests and standards state (`StandardVectors`); `gf128_mul` multiplies in MGM's field after every bit (`ProductInField`). | Full width; the keys and texts of the tests and standards, and keys and texts of zeros, ones and counting bytes; RC2 keys of 0 to 129 bytes and of 0 to 1025 effective bits; the MAC of a key bag of both lengths and lengths it refuses; IMIT with a tail, without one and of an empty text. `RoundsRetraced` and `ProductInField` are proved for all keys and blocks. |
| `gost3410_tc26` | Verification accepts under a key made here exactly the pairs its owner can make for the digest (`AcceptsExactlySignatures`); VKO and ECDH give both parties the same key, which is that of four times the product (`SharedKeysAgree`). | The curve y² = x³ - 3x + 9 over 31 elements has 28 points: a subgroup of order 7 and the cofactor 4 of TC26 paramSetA. Two parties; every key, nonce and half of a signature, and some that are none; digests of zero, of a multiple of the order and above it. Proved for all curves. |
| `ecc_addition` | Violated: the comment on `ecc_point_add` (see below). | As `functions`. |
| `word_product` | Violated: the comments on the product of two numbers (see below). | As `functions`. |

`FailureLeavesOneBlock` states a fact of the code that a caller should know: `gost_tls13_hkdf_expand`
checks the size of `info` in the loop, and the limit is 32 bytes lower from the second block on, so an
`info` of 480 to 511 bytes makes a call for more than one block fail after the first block was written.

`DamageIsLocal`, `Recovers` and `MacSeparates` state what the in-place calls of GOST 28147 CFB, RC2 CBC and
the key bag do: encryption is right in place, decryption of more than a block is not, and a key that is
wrapped in place carries the MAC of its own cipher text. No header promises otherwise.

`PointsExact` names the scalars 1, n - 2 and n - 1, for which the co-Z ladder meets a pair of points its
formulas do not know and gives zeros. `gost3410_512a_public` therefore returns 0 with a public key of zeros
for these three private keys; a compiled program does the same.

Each property has a mutant in the module it is about: an operator next to the definition it replaces (mostly
`<Definition>_<What>`), the code with a plausible mistake, which makes the run fail.

### The findings

`word_product` checks what `ecc_generic.c:975` ("Computes result = (left * right) % mod.") and 415 ("Compute
each digit of result in sequence, maintaining the carries.") say of `vli_mult`. The carry into the third word of
a column is told from `r01.m_high < product.m_high` alone (line 432; 493 in `vli_square`). When the high word
of the sum was all ones and the low words carry, the new high word *equals* that of the product, and the carry
is lost. TLC finds it with three words of two bits. With words of 64 bits, the product of (2^64-1, 2^64-1, 2)
and (2^63, 2^64-1, 3), highest word first, comes out with its fifth word one too small. It takes operands of a
special form, which is why no test vector meets it; for random ones the chance is about 2^-64 per column.
`NumbersExact` states the converse too: the product is right in every other case.

`ecc_addition` checks what the comments at `ecc_generic.c:1370` ("Computes R = P + Q mod p") and 1390
("Computes R = u1P + u2Q mod p using Shamir's trick") say, for the base point and every public key that is
not its negative. TLC finds the key that *is* the base point: the difference of the x-coordinates is zero,
and the "sum" is `<<0, 0>>` instead of 2P. The caller for 256 bits (`gost3410_256_generic.c:226`) has a case
for it, the one for 512 bits (`gost3410_generic.c:198`) has none: a compiled program refuses there a signature
that is right under the public key of the private key 1.

### Fairness and liveness

Nothing in this library waits for another, and most of its loops are bounded by a length or count a variable
down. A few are not: the inversion runs until two numbers meet, the reduction of a special modulus until the
upper half is zero and then until the number is small, that of special2 until nothing is above the top bit,
Barrett's and those of the NIST primes until a sum of signed terms is in range. `EveryCallReturns` says that
they (and the bit-wise reduction) end for every operand. `FairSpec` assumes weak fairness of the rounds of
these loops and of nothing else: the code is sequential, and a loop whose condition holds goes on. Calls are
not fair.

### Assumptions on the callers

* Lengths stay below 2^32 bytes per call where the code passes a `size_t` on as an `unsigned int`
  (`LengthAssumption` of `ChaCha20Poly1305`, `UintAssumption` of `Poly1305`), and the number of blocks
  below half of the counter (`LengthAssumption` of `KuznyechikMgm`).
* What the callers hand to the authenticated modes is symbols of its own (`MadeOf` in `SymbolicBytes`): their
  data, messages and ivs are not computed from the key stream or the tags of the same key.
* Passwords and salts of a key bag are not made by hashing others (`FreeOf`, `SizeAssumption` of `KeyBag`),
  texts and initial states of IMIT not by its rounds (`SizeAssumption` of `Gost28147Imit`). Otherwise the hash of
  a password would be a password that needs one iteration less.
* MGM is given additional data or a text: for neither the tag is E(0) under every nonce, and the code
  leaves the check to its caller (guard of `kuznyechik_mgm_encrypt`).
* `SectionsRekeyed` speaks of sections of whole blocks: the loop looks for the end of a section only
  between two blocks, so with one of another size (one and a half blocks is in the run) it is found at the
  common multiples only.
* Labels and seeds of the key expansions are any strings that hold no byte of a MAC under the same secret
  (`SizeAssumption` of `KeyExpansion`): the PRF chains MACs, and would return to an earlier one from a seed that
  was chosen to be one.
* A sequence number is used once: `NonceDiffers` is about two different numbers of one connection.

### Assumptions on the curve

`CurveAssumption` and `GroupLaw` (`CurveGroup`): the field and the order of the base point are prime, the base
point is on the curve and has that order, and the chord and tangent addition of the curve's points is
closed and associative. The first are what the
parameters of a standard claim, the last is the theorem on which elliptic curves rest. The proofs take it as an
assumption on the constants; TLC evaluates it for the curve of the run.

### Assumptions on the block ciphers

`InputsAssumption` (`BlockFunctions`) says how long the keys, blocks and operands are; an RC2 key may have any number of bytes
and of effective bits. `TablesAssumption` (`Kuznyechik`) has no constant in it: it lists four facts about the
tables of `kuztable.h` that only a computation can decide, and TLC decides them for every entry. The substitutions
are tables of bytes and the second inverts the first; so are the rows of the map; multiplication by each entry of a
row turns the sum of any two bytes into the sum of the products; and the inverse map takes what each row makes of
each byte back to that byte alone.

## What is proved

For every value of the constants that satisfies the modules' assumptions:

* `BufferedDigestsProofs!TypeCorrect`, `ContextIsPrefix`, `DigestsImplement`: each buffer in a part of its own
  (`Blake...`, `Poly...`, `Sha...`, `Gost...`, `Streebog...`), joined at the end. The inductive
  invariant `IInv` is that of the primitive in use, its type and its `StateIsPrefix`. The argument is the same in
  each: a context *represents* t bytes if the compressions made are those of its whole blocks and the buffer holds
  the rest. The empty context represents no bytes; top-up, whole blocks and tail each preserve it, hence so does an
  update of any length; the finish of a context that represents t bytes is the reference digest of t bytes.
  * Streebog: N and Sigma are the sums of the whole blocks (`StreebogUpdatedRepresents`,
    `StreebogFinalIsReference`); that no call but init changes the digest size (`StreebogSizeKept`) is what makes
    the refinement go through, since the context is the only place that holds it. The update loop is a closed form
    in the module (`WholeBlocks`); `StreebogLoopTheorem` shows by induction that the loop, one
    `streebog_stage2` per block, makes the same context.
  * BLAKE2s: a context of `l` compressed blocks has them and their counter words in its chain (`BlakeChained`), and
    what is in the buffer is input (`BlakeStreams`), key block or message. `BlakeCounterExact` shows that the code's
    carry (`low < inc`) keeps the pair of words the number of bytes modulo the square of the radix, for every radix
    above the block size; `BlakeUpdatedRepresents` that an update never empties a buffer that holds input, on which
    the last flag depends.
  * Poly1305: `PolyRepresentsSplit` and `PolyRepresentsJoin` say what a context of t bytes has in the accumulator and
    what in the buffer; top-up, bulk and tail preserve it, and `PolyFinalIsReference` adds the padded tail.
    That an update's length fits an `unsigned int` is `UintAssumption`.
  * SHA-1: one turn of the copying loop per induction step (`ShaTurnType`, `ShaTurnRepresents`); marker, spill and
    length field are the padding of FIPS 180-4 block by block (`ShaFinalIsReference`).
  * GOST R 34.11-94: the checksum is the list of the blocks, their number times the block size the length, and the
    last block and the length block close it (`GostFinalIsReference`).
* `AuthenticatedModesProofs!RejectionTheorem`, `AETheorem`: the refinement of `AuthenticatedEncryption` and what a
  rejection leaves. The inductive invariant `AInv` is that of the mode in use, `CInv`, `MInv` or `EInv`. Each says
  what the last encryption wrote, what the receiver's buffer holds before and after the call, and what *shape* a
  thing has that reaches the receiver: the channel cuts, flips and inserts as it likes, but puts in no tag that
  was not sent (`CShaped`, `MShaped`) and changes the container of a key by errors only (`EShaped`). Without the
  shape, "accepts only what was sent" is not inductive. The rest is about what was computed, in three steps.
  * What is written is that of the standard (`CReference`, `MReference`, `EExported`): the counters do not wrap, the
    text meets the key stream from block 1 on, padding and lengths are where they belong.
  * What is authenticated can be read back: data, text and their padding from the MAC input with its lengths
    (`CInputTells`), kind and nonce from the one-time key (`CKeyTells`). For MGM, no two summands cancel (`MSum`),
    each tells its counter and so its place and the nonce (`MTotalTells`), and the block of the lengths, the only
    one with lengths in it (`MNoBits`), tells where data end and text begins (`MSumTells`), unless both are empty.
  * Hence the receiver's comparison succeeds for nothing else (`CAuthentic`, `MAuthentic`, `EAuthentic`), and what
    it then writes is the message (`CInverse`, `MInverse`), in place or not (`COpen`, `MOpen`, `EOpen`).
* `BlockModesProofs!ConcatenationTheorem`, `UnambiguousTheorem`, `DamageTheorem`, `OutputTheorem`,
  `FailureTheorem`, `RecoversTheorem`, `MacSeparatesTheorem`: all properties of the run `block_modes`. The inductive
  invariant `Inv` is that of the function in use: `OmacInv`, `CfbInv`, `PbeInv` with `PbeCame`, `BagInv`, `ImitInv`.
  * `OmacInv` says that the chain of a running call is that of the first blocks of the concatenation, and that of a
    call that has returned `Reference` of it. `OmacByteOf` is the seam (a byte of the concatenation is one of the
    first string or, moved, of the second), `OmacFinishIsReference` the last block. `OmacReferenceInjective` is why
    the padding is unambiguous: the subkey tells whether the last block was whole, and where it was padded the marker
    is the last byte that is not zero.
  * `CfbInv` says at which key, register and block of cipher text the loop stands, that what is written was
    combined with the key stream of the standard (`CfbStream`), and of which message and damage the text of a
    decryption is. It is needed because `DamageIsLocal` compares the result with the message, while the step only
    knows its register. `CfbStreamTells` shows that a byte of key stream tells the block of cipher text before its own
    and nothing else, with a change of the key before it or not; `CfbMeshed` that the loop changes the key where
    the standard does; `CfbErrorApart` that a bit error is not cancelled by key stream, so that a wrong
    byte shows where it stands. `CfbOutput` is CFB's half of `OutputIsPrefix`.
  * `PbeInv` says of RC2 PBE what the next block is chained to (`PbeData`: in place, decryption is chained to what it
    has just written), that every written block is that of the standard and everything behind as it was, where a call
    ends (`PbePlace`), and that the last encryption gave CBC of its padded text (`PbeSealed`). The latter is needed
    because the symbolic inverse of the cipher looks into its argument: what arrives is made of that encryption, cut or
    damaged, so that every block the inverse finds is one of bytes (`PbeArrives`, `PbeDeciphered`).
    `PbeLastBlock` shows that the last block, put together apart from the buffers, is that of the padded text.
  * `PbeCame` adds that the texts encrypted consist of bytes, and that a text was refused only if its padding is
    wrong. `Recovers` then needs that the last byte tells its number: `PbeValueTells`, from the fact that sums of
    different powers of two differ (`BitsTell`). The library's power of two is known to the provers as the number of
    subsets only (`PowerNext`). In place, `PbeChained` follows what is written into later blocks: each byte of them
    keeps what was deciphered from an earlier one, so that it is not the byte of the text.
  * `BagInv` says that the loop of the derivation holds the hash of its last turn (`BagHashing`), that the sealed bag
    is made with the key so derived (`BagWrapped`) and the opened one from what arrived (`BagUnwrapped`). Two
    derivations end alike only if they go back to their beginnings together (`ChainsMeet`: of two chains of hashes
    the shorter one would begin with a hash); this is where passwords and salts must not be hashes.
  * `ImitInv` says that the loop holds the end of a chain of rounds over the blocks done, with the difference of the
    key's parts (`ImitChain`), and that what a call has returned is such an end (`ImitAnswer`). `ChainsMeet` takes
    two equal results back to the same number of blocks, the same initial state and, block by block, the same text
    but for zeros behind its end.
* `KeyDerivationProofs!OutputTheorem`, `BlocksTheorem`, `FailureTheorem`, `LabelTheorem`, `HmacTheorem`,
  `UnambiguousTheorem`, `KeyTheorem`, `NonceTheorem`: all properties of the run. The inductive invariant `Inv` (`Invariance`) is that of the
  component in use.
  * KDF_TREE, PRF and HKDF (`KInv`): at the head of the loop after k turns (`Turns`), the counter is the k-th, the
    chaining value the k-th of the standard's chain, and the buffer holds the standard's stream as far as it
    is written and what it held before behind (`WrittenFilled`). `TurnInput` shows that what a turn gives to HMAC
    is what the standard says, which needs that the byte counter has not wrapped: that follows from the check
    of the length. `BlockInputsDiffer` is why no block repeats; a chain does not return because a MAC is never
    what it was made of (`LinksDiffer`).
  * PBKDF2 (`PInv`): after c blocks (`Blocks`), in the middle of the next, the MAC is the next link of the chain from
    salt and number (`IterationLinks`), the sum that of all links so far, of which no two cancel (`SumNext`). Block
    numbers are told apart by their digits (`DigitsTell`, `BasesDiffer`), as long as they fit, which is
    the check of the length again (`BlockNumber`).
  * Labels (`LabelInv`): the packing of length, label and context can be read back, each part behind a byte that says
    how long it is (`SixParts`, `CutUnique`, `PackedOnce`), and what is packed fits its buffer (`PackedLength`).
  * HMAC (`HmacInv`): three updates make the text of RFC 2104 (`HmacExact`), and the value determines the key block
    and the text (`HmacInjective`).
  * Records (`Derived`): key and nonce of both records are computed from their numbers; the rest is about bits. The
    TLS 1.2 masks in little-endian order are, read in the number's own order, the bits from 6 on (`MovedBit`,
    `MaskReversed`, `SeedBits`), and the three levels together determine all bits of the section (`KeyBits`).
* `ArithmeticProofs!AcceptsTheorem`, `AgreeTheorem`: both properties of the run `gost3410_tc26`, for every curve. The
  inductive invariant `Held` adds to them `KeysBelong`: a party's public key is the multiple of the base point by
  its private key, which is valid. Without it nothing can be said of a signature or of a shared key.
  * Numbers: every remainder of a prime but zero has an inverse (`InverseExists`: of the remainders of the
    multiples of a number the least one but zero divides the prime), so that `ModInv` and the field's `Inverse` find
    one (`ModInvIs`, `InverseInField`), and no product of two such remainders is a multiple (`ProductNotZero`).
  * Points: `point_double` and `point_add` are the textbook's sum in every special case (`DoubleIsSum`,
    `AddIsSum`), where `GroupLaw` makes it a group; multiples, defined by a list of sums, add and multiply
    (`MultipleSum`, `MultipleProduct`), and the double-and-add loop of `point_mult` makes them (`PointMult`,
    by induction over the prefixes of the scalar). Two multiples of the base point are the same exactly if the
    scalars have one remainder (`SameMultiple`, `OrderExact`).
  * Signatures: verification adds z1 times the base point to z2 times the key, which is one multiple of the base
    point (`VerifyIs`), the nonce's exactly if s = d r + k e (`SignatureEquation`); so what is accepted is what
    some nonce makes (`AcceptedIsSigned`), for digests of zero and above the order as well (`DigestScalar`).
  * Keys: the scalar of VKO is d times the UKM times the cofactor modulo the order (`SharedScalar`), zero only if the
    UKM is; both sides multiply to the same (`SharedPoint`), and never to infinity.
* `BlockFunctionsProofs!RoundsAreRetraced`: `RoundsRetraced` for every key and block, at full width. The inductive
  invariant `RetraceInv` says, for each of the three ciphers, that every element of `trace` is what the round of
  encryption makes of the one before, with the key in use, and that the state of a decryption is made of an element of
  `trace`: which one, depends on the round. `RoundsRetraced` says the latter only, and a step needs the former.
  For RC2 it also says how many bytes of the key there are in each loop of `rc2_set_key` (`Rc2ReduceState`:
  at least T8 and at most 128), so that the key always has 64 words.
  * Bytes and strings are a group under `Xor` (`XorGroup`); `XorTable` has every sum in its place. Sums and
    differences of two bytes with carry take each other back (`SubTakesBack`), and so do two rotations that add up to
    the width (`RolBack`).
  * GOST 28147-89: a round changes one half only, by something made of the other, which adds it away again
    (`RoundBack`); the keys of decryption are those of encryption in the reverse order (`KeysReversed`).
  * RC2: neither what is chosen for a word nor the key that is selected for it depends on the word (`OthersOnly`), so mixing and mashing are taken back word by word in the other direction (`MixBack`, `MashBack`).
  * Kuznyechik: `lsx_transform` and `xli_si` look their tables up byte by byte; both are images under a map
    (`LsxIsImage`, `XliIsImage`) that adds up (`ImageAdds`, `ImageOfSum`), so the inverse map undoes the map for any block
    because it does for each byte alone (`SumOfOnly`, `LinvBack`), and decryption may add a key on which the inverse map was used
    behind the map (`KuznyechikRoundBack`).
* `BlockFunctionsProofs!ProductsAreExact`: `ProductInField` for every two blocks, and `ProductState`, which says the
  same in front of every bit and not only of those that the run looks at and is the inductive invariant. A block is
  the set of its powers. There `Xor` is the sum (`PowersOfSum`, from the bits of `XorByte`) and `Double` is the
  product with x (`PowersOfDouble`: what `TurnedBlock` moves into each bit, and 0x87). On the other side,
  `Remainder` counts the pairs of powers, and only the parity of the counts matters (`OddChanges`): a power more of
  y adds the product with it (`RemainderMore`), since folding is linear (`FoldedSum`), and the next power is a
  product with x (`RemainderNext`), since folding what moves past the highest power leaves a multiple of the
  modulus, which folds to nothing (`FoldedNext`, `FoldedModulus`).
* `ArithmeticProofs!AddTheorem`, `SubTheorem`, `Sum512Theorem`, about `VliWords`. The code tells the carry out of a word by comparing the
  sum with one of the words, and keeps the carry it had if they are equal; `SumDigit` shows that this is the
  carry there is, `Chain` that exact words make an exact number, `Horner` that `ValueOf` is what its definition
  seems to say. They take the base of the numbers as any positive number, of which 2^WordBits is one.
* `CtrAcpkmProofs!TypeCorrect`, `SectionTheorem`. `SectionsRekeyed` speaks of the bytes written; the
  inductive invariant adds `KeyIsCurrent`, which says which section the *current* key belongs to at the
  head of the loop. It rests on facts about division (`SameSection`, `SectionBefore`): between two
  borders of sections of whole blocks the quotient does not change.
* `CtrAcpkmProofs!StreamTheorem`, `IvTheorem`. The counter block is read as a number (`Value`, Horner's
  scheme from any byte on) and `ctr_inc` is shown to count it up, modulo the period of its bytes
  (`IncCounts`, by induction on the number of bytes: those before a byte count when all bytes from it on are at
  their maximum). The inductive invariant `Places` says of every byte of key stream, and of the counter
  between two turns, which number it holds. Two bytes in different places then differ in the place in the block
  or in the number (`SameModulo`), and a number that fits the bytes behind the iv leaves the iv as it was.
  `StreamTheorem` assumes what nothing in the code checks and no text can break: that there are no more
  blocks than counter blocks, 2^128 of them.
* Induction is by the least number of a set (`LeastNumber`, `Induction`): the induction theorems of the library
  take a predicate, which the provers do not instantiate, a set they do.
* `ByteBlocks` holds the lemmas on buffers (`CopyExtends`, `FullBuffer`), on quotients and remainders
  (`DivMod`, `DivModUnique`) and on sequences given by a table (`AppendTable`, `ConcatTable`).

Only model-checked: products and reductions, the field arithmetic in limbs, the curves without a cofactor with their
projective formulas and their signatures; that the functions on blocks give the values of the standards (`StandardVectors`);
and all liveness, which is out of the provers' reach. What a recursive definition computes is proved where induction over a set of numbers is enough
(`IncCounts`, `StreebogLoopTheorem`, `Horner`, `PointMult`, the loops of `Blake2s` and `Sha1` by `Iteration`, the chains of the key
derivations and the sum and counters of MGM by `CountUp`); a recursion over data of another shape is out of reach. The compressions are
evaluated and not reasoned about.

## Plan

1. Done: `ByteBlocks`, `MessageDigest`, `Streebog` with proofs; the four other digests.
2. Done: `SymbolicBytes`, `AuthenticatedEncryption`, the three authenticated modes, `CtrAcpkm` with
   proofs, `Omac`.
3. Done: `HmacStreebog`, `KeyExpansion`, `HkdfLabel`, `Pbkdf2`, `TlsRecordKeys` with proofs.
4. Done: `Gost28147Cfb`, `Gost28147Imit`, `Rc2Pbe`, `KeyBag`.
5. Done: `VliWords`, `VliModular`, `EccGeneric`, `Limbs` with `PolyDonna`, `Fe25519` and `Gost3410_256a`,
   `Curve25519`, `Gost3410`, `Gost3410Tc26`.
6. Done: `Kuznyechik`, `BlockFunctions`.
7. Left: the two MACs of `pfx_generic.c` and what `pkcs12_sha1_derive` hashes; `gost_tls13_hkdf_extract`;
   four blocks in one call of the assembler.
8. Done, proofs: `Streebog` with its loop, `Blake2s`, `Poly1305`, `Sha1`, `Gost3411_94`, the three modes of
   `AuthenticatedModes`, `CtrAcpkm`,
   the five of `KeyDerivation`, the five of `BlockModes`, the sums of `VliWords`, `Gost3410Tc26`, the block ciphers of
   `Kuznyechik` and `BlockFunctions`, and the product of MGM.
   Left: `vli_uadd` and `vli_usub` (`Chain` with a first carry of any size).

## Not modelled

* What sizes do that a small number does not show: constants of the large fields and curves, and the tables of
  multiples of the base point in `optimized/gost3410_256a.c` (`lut_cmb`), which are taken to hold the multiples
  they are said to.
* Lines 60 to 137 and 1470 to 1723 of `ecc_generic.c`, which the preprocessor removes. Barrett's reduction,
  `vli_mmod_special2` and those of the NIST primes are modelled, though no curve of this library reaches them.
* `x86_64/`: four blocks of Kuznyechik side by side, which nothing in the library uses but to decrypt one.
* The two MACs of `pfx_generic.c`, the hashing of `pkcs12_sha1_derive`, `gost_tls13_hkdf_extract`: one call of
  a digest or of HMAC after another, with nothing between that can go wrong on its own.
* `memory.c` and the kernel's compatibility headers; timing, constant-time comparison and clearing of the
  stack: no behaviour of states. Where clearing is of a buffer that the caller sees
  (`RejectionReleasesNothing`, the cleared contexts of BLAKE2s and Poly1305), it is modelled.
