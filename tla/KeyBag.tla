------------------------------- MODULE KeyBag -------------------------------
(***************************************************************************)
(* gost_pfx_cp80_wrap of src/generic/pfx_generic.c with the functions of   *)
(* src/generic/cryptopro_keybag_generic.c it calls: a key is made of a     *)
(* password by repeated hashing, and encrypts another key block by block,  *)
(* with a MAC.  One action per turn of the hashing loop, one for the rest. *)
(* cryptopro_keybag_wrap is also taken the other way, which is how the     *)
(* receiver of a bag opens it.                                             *)
(*                                                                         *)
(* Hash, cipher and MAC rounds are symbolic.                               *)
(***************************************************************************)
EXTENDS SymbolicBytes

CONSTANTS
    BlockSize,      \* bytes in a block, 8
    KeySize,        \* bytes in the key made of a password, 32
    KeyLens,        \* the lengths of a key that is wrapped, 32 and 64
    ByteRadix,      \* values of a byte, 256
    MinSalt,        \* the least length of a salt, 8
    MaxIter,        \* the most iterations, 1000000
    Passwords, Salts, Iters, Lens   \* the arguments the callers use

\* Passwords and salts are not made by the hashing of others.
SizeAssumption ==
    /\ {BlockSize, KeySize, ByteRadix} \subseteq Nat \ {0}
    /\ MaxIter \in Nat /\ Iters \subseteq Nat /\ Lens \subseteq Nat
    /\ \A s \in Passwords \cup Salts : FreeOf("hash", s)
    /\ \A n \in KeyLens : n % BlockSize = 0 /\ n # 0

VARIABLES
    op, active,     \* the call, "wrap" or "unwrap", and whether it still runs
    args, inplace,  \* its password, salt and iter; are in and out one buffer?
    i, cur,         \* the local variables of the hashing loop
    src,            \* what the caller put into in
    in, out, mac,   \* what the buffers hold
    ret,            \* what the call returned
    bag             \* the last wrap: its arguments, its key, and what it gave

vars == <<op, active, args, inplace, i, cur, src, in, out, mac, ret, bag>>

-----------------------------------------------------------------------------

Ukm == BytesOf("ukm", 0, BlockSize)
Raw(n) == BytesOf("key", 0, n)
Old(n) == BytesOf("old", 0, n)

gost3411_94(bytes) == BytesOf("hash", bytes, KeySize)

\* gost_kdf_tree_256 with the label of the key bag.
kdf_tree(key, seed) == <<key, seed>>

encrypt_raw(ke, block) == BytesOf("E", <<ke, block>>, BlockSize)

\* The inverse of it where there is one.
decrypt_raw(ke, block) ==
    LET made == {a[2][2] : a \in {a \in block[1] : a[1] = "E" /\ a[2][1] = ke}}
    IN  IF \E b \in made : block = encrypt_raw(ke, b)
        THEN CHOOSE b \in made : block = encrypt_raw(ke, b)
        ELSE BytesOf("D", <<ke, block>>, BlockSize)

Block(buf, j) == SubSeq(buf, (j - 1) * BlockSize + 1, j * BlockSize)

Crypt(ke, block) == IF op = "wrap" THEN encrypt_raw(ke, block) ELSE decrypt_raw(ke, block)

\* Block by block, each apart from the others.
EachBlock(ke, buf) ==
    [k \in 1 .. Len(buf) |->
        Crypt(ke, Block(buf, ((k - 1) \div BlockSize) + 1))[((k - 1) % BlockSize) + 1]]

gost28147_mac4(ke, iv, buf) ==
    LET chain[j \in 0 .. Len(buf) \div BlockSize] ==
            IF j = 0 THEN iv
            ELSE BytesOf("rounds", <<ke, XorBytes(chain[j - 1], Block(buf, j))>>, BlockSize)
    IN  chain[Len(buf) \div BlockSize]

\* The number of the iteration in two bytes: the higher ones of i are lost.
ctr(n) == <<(n \div ByteRadix) % ByteRadix, n % ByteRadix>>

Num(c) == [k \in 1 .. Len(c) |-> {Atom("num", c[k], 0)}]

\* Mutant of HashInput: the salt is left out.
HashInput_NoSalt(c, salt, n) == c \o Num(ctr(n))

\* The three parts that are hashed as one.
HashInput(c, salt, n) == c \o salt \o Num(ctr(n))

\* Mutant of KdfRefused: the number of iterations has no limit.
KdfRefused_NoLimit(a) == Len(a.salt) < MinSalt \/ a.iter = 0

KdfRefused(a) == Len(a.salt) < MinSalt \/ a.iter = 0 \/ a.iter > MaxIter

NoArgs == [pass |-> <<>>, salt |-> <<>>, iter |-> 0]
NoBag == [args |-> NoArgs, cur |-> <<>>, inplace |-> FALSE, raw |-> <<>>, out |-> <<>>, mac |-> <<>>]

Init ==
    /\ op = "none" /\ active = FALSE
    /\ args = NoArgs /\ inplace = FALSE
    /\ i = 1 /\ cur = <<>>
    /\ src = <<>> /\ in = <<>> /\ out = <<>> /\ mac = <<>>
    /\ ret = 0
    /\ bag = NoBag

Call(fn, a, buf, place) ==
    /\ op = "none"
    /\ op' = fn
    /\ active' = ~KdfRefused(a) /\ ret' = IF KdfRefused(a) THEN -1 ELSE 0
    /\ args' = a /\ inplace' = place
    /\ i' = 1 /\ cur' = a.pass
    /\ src' = buf /\ in' = buf /\ mac' = <<>>
    /\ out' = IF place THEN buf ELSE Old(Len(buf))
    /\ bag' = IF fn = "wrap" THEN NoBag ELSE bag

gost_pfx_cp80_wrap(a, buf, place) == Call("wrap", a, buf, place)

unwrap(a, buf, place) == bag # NoBag /\ Call("unwrap", a, buf, place)

KdfTurn ==
    /\ active /\ i <= args.iter
    /\ cur' = gost3411_94(HashInput(cur, args.salt, i))
    /\ i' = i + 1
    /\ UNCHANGED <<op, active, args, inplace, src, in, out, mac, ret, bag>>

\* Mutant of MacInput: the MAC is of out in either direction.
MacInput_Out(read, written) == written

\* The text: what in holds after out was written, or out.
MacInput(read, written) == IF op = "wrap" THEN read ELSE written

cryptopro_keybag_wrap ==
    /\ active /\ i > args.iter
    /\ LET ke == kdf_tree(cur, Ukm)
       IN  IF Len(in) \notin KeyLens
           THEN ret' = -1 /\ UNCHANGED <<in, out, mac, bag>>
           ELSE /\ ret' = 0
                /\ out' = EachBlock(ke, in)
                /\ in' = IF inplace THEN out' ELSE in
                /\ mac' = gost28147_mac4(ke, Ukm, MacInput(in', out'))
                /\ bag' = IF op = "unwrap" THEN bag
                          ELSE [args |-> args, cur |-> cur, inplace |-> inplace,
                                raw |-> src, out |-> out', mac |-> mac']
    /\ active' = FALSE
    /\ UNCHANGED <<op, args, inplace, i, cur, src>>

\* The caller has seen the result and lets go of its buffers.
Release ==
    /\ op # "none" /\ ~active
    /\ op' = "none" /\ args' = NoArgs /\ inplace' = FALSE
    /\ i' = 1 /\ cur' = <<>>
    /\ src' = <<>> /\ in' = <<>> /\ out' = <<>> /\ mac' = <<>> /\ ret' = 0
    /\ UNCHANGED <<active, bag>>

Arguments == [pass : Passwords, salt : Salts, iter : Iters]

\* What arrives: the bag that was wrapped last, with a wrong byte or without.
Arriving ==
    {bag.out} \cup {[bag.out EXCEPT ![k] = Xor(@, {Atom("error", 0, 0)})] : k \in 1 .. Len(bag.out)}

Next ==
    \/ \E a \in Arguments, n \in Lens, place \in BOOLEAN : gost_pfx_cp80_wrap(a, Raw(n), place)
    \/ \E a \in Arguments, buf \in Arriving, place \in BOOLEAN : unwrap(a, buf, place)
    \/ KdfTurn
    \/ cryptopro_keybag_wrap
    \/ Release

Spec == Init /\ [][Next]_vars

-----------------------------------------------------------------------------

\* Type invariant: the loop stays within the number of iterations, no call
\* changes the length of a buffer.
TypeOK ==
    /\ op \in {"none", "wrap", "unwrap"} /\ {active, inplace} \subseteq BOOLEAN
    /\ args \in Arguments \cup {NoArgs}
    /\ i \in 1 .. MaxIter + 1 /\ (i > 1 => i <= args.iter + 1)
    /\ Len(out) = Len(in)
    /\ ret \in {0, -1}

\* Two passwords, salts and numbers of iterations make one key only if they are
\* the same, or if both are hashed once and password and salt are the same bytes
\* in a row: nothing separates the two in the first iteration.
SameKey(a, b) == a = b \/ (a.iter = 1 /\ b.iter = 1 /\ a.pass \o a.salt = b.pass \o b.salt)

Opened == op = "unwrap" /\ ~active /\ ret = 0

\* A bag is opened by whoever has its key, in place or not, even if the number
\* of the iterations does not fit its two bytes; nobody else recovers anything
\* of it, and a wrong byte spoils its block and no other.
Recovers ==
    Opened =>
        \A j \in 1 .. Len(out) :
            LET k == ((j - 1) \div BlockSize) + 1
            IN  out[j] = bag.raw[j] <=> SameKey(args, bag.args) /\ Block(src, k) = Block(bag.out, k)

\* The MAC of the opened bag is the one it was wrapped with exactly if the key
\* came back, provided it was not wrapped in place: then the MAC was taken of
\* the encrypted key, and no opened bag has it.
MacSeparates ==
    Opened => (mac = bag.mac <=> out = bag.raw /\ ~bag.inplace)

\* A call that fails writes nothing.
FailureWritesNothing ==
    ret = -1 => mac = <<>> /\ out = IF inplace THEN src ELSE Old(Len(src))

=============================================================================
