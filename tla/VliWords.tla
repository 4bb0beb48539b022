------------------------------ MODULE VliWords ------------------------------
(***************************************************************************)
(* The numbers of src/generic/ecc_generic.c word by word: what ripples     *)
(* from one word into the next in additions, subtractions, shifts and      *)
(* products.  A number is a sequence of words, the lowest first.  A        *)
(* product is built column by column, and one step of this module is one   *)
(* turn of the inner loop.                                                 *)
(*                                                                         *)
(* args, loc and ret are those of VliModular; args.size tells instances    *)
(* with words of different sizes apart.                                    *)
(***************************************************************************)
EXTENDS Integers, Sequences

CONSTANTS
    WordBits,           \* bits of a word, 64; even
    NDigits             \* words of a number

Size == <<WordBits, NDigits>>
Word == 2 ^ WordBits
Half == 2 ^ (WordBits \div 2)

WordAssumption == WordBits \in Nat \ {0} /\ WordBits % 2 = 0 /\ NDigits \in Nat \ {0}

VARIABLES fn, args, loc, ret

Numbers == [1..NDigits -> 0..(Word - 1)]

\* The number whose words are those of vli, by Horner's scheme.
ValueOf(vli) ==
    LET from[i \in 1 .. Len(vli) + 1] ==
            IF i > Len(vli) THEN 0 ELSE vli[i] + Word * from[i + 1]
    IN  from[1]

Truth(b) == IF b THEN 1 ELSE 0

\* The loop from the lowest word to the highest: Digit(i, carry) is word i of the
\* result and what it hands on.
Ripple(Digit(_, _), first, n) ==
    LET carry[i \in 0 .. n] == IF i = 0 THEN first ELSE Digit(i, carry[i - 1]).carry
    IN  [result |-> [i \in 1 .. n |-> Digit(i, carry[i - 1]).word], carry |-> carry[n]]

-----------------------------------------------------------------------------

vli_cmp(left, right) ==
    IF left = right THEN 0
    ELSE LET top == CHOOSE i \in 1..Len(left) :
                        left[i] # right[i] /\ \A j \in (i + 1)..Len(left) : left[j] = right[j]
         IN  IF left[top] > right[top] THEN 1 ELSE -1

vli_num_digits(vli) ==
    CHOOSE n \in 0..Len(vli) :
        /\ n > 0 => vli[n] # 0
        /\ \A j \in (n + 1)..Len(vli) : vli[j] = 0

vli_num_bits(vli) ==
    LET n == vli_num_digits(vli)
        bits == CHOOSE b \in 1..WordBits : vli[n] >= 2 ^ (b - 1) /\ vli[n] < 2 ^ b
    IN  IF n = 0 THEN 0 ELSE (n - 1) * WordBits + bits

vli_lshift(in, shift) ==
    LET Digit(i, carry) ==
            [word |-> ((in[i] * 2 ^ shift) % Word) + carry,
             carry |-> in[i] \div 2 ^ (WordBits - shift)]
    IN  Ripple(Digit, 0, Len(in))

\* From the highest word down.
vli_rshift1(vli) ==
    [i \in 1..Len(vli) |->
        (vli[i] \div 2) + (IF i < Len(vli) THEN (vli[i + 1] * (Word \div 2)) % Word ELSE 0)]

\* Mutant for MC: a carry that meets a word of ones is forgotten.
AddForgets(left, right) ==
    LET Digit(i, carry) ==
            LET sum == (left[i] + right[i] + carry) % Word
            IN  [word |-> sum, carry |-> Truth(sum < left[i])]
    IN  Ripple(Digit, 0, Len(left))

\* When the sum is the left word again, the carry stays what it was: zero was
\* added, or a word of ones and a carry.
vli_add(left, right) ==
    LET Digit(i, carry) ==
            LET sum == (left[i] + right[i] + carry) % Word
            IN  [word |-> sum, carry |-> IF sum = left[i] THEN carry ELSE Truth(sum < left[i])]
    IN  Ripple(Digit, 0, Len(left))

\* The 512-bit sums of streebog_generic.c, whose last carry is dropped.
streebog_add512(x, y) == vli_add(x, y).result

\* The 256-bit sums of gost3411_94_generic.c, whose words are bytes and whose carry is
\* what does not fit into one.
add_blocks(left, right) ==
    LET Digit(i, carry) ==
            LET sum == left[i] + right[i] + carry
            IN  [word |-> sum % Word, carry |-> sum \div Word]
    IN  Ripple(Digit, 0, Len(left)).result

vli_uadd(left, right) ==
    LET Digit(i, carry) ==
            LET sum == (left[i] + carry) % Word
            IN  [word |-> sum,
                 carry |-> IF sum = left[i] THEN Truth(carry # 0) ELSE Truth(sum < left[i])]
    IN  Ripple(Digit, right, Len(left))

vli_sub(left, right) ==
    LET Digit(i, borrow) ==
            LET diff == (left[i] - right[i] - borrow) % Word
            IN  [word |-> diff, carry |-> IF diff = left[i] THEN borrow ELSE Truth(diff > left[i])]
    IN  Ripple(Digit, 0, Len(left))

vli_usub(left, right) ==
    LET Digit(i, borrow) ==
            LET diff == (left[i] - borrow) % Word
            IN  [word |-> diff, carry |-> IF diff = left[i] THEN borrow ELSE Truth(diff > left[i])]
    IN  Ripple(Digit, right, Len(left))

\* The product of two words from those of their halves, as where there is no
\* integer type for it.
mul_64_64(left, right) ==
    LET m0 == (left % Half) * (right % Half)
        m1 == (left % Half) * (right \div Half)
        m2 == ((left \div Half) * (right % Half) + (m0 \div Half) + m1) % Word
        m3 == ((left \div Half) * (right \div Half) + (IF m2 < m1 THEN Half ELSE 0)) % Word
    IN  [low |-> (m0 % Half) + ((m2 * Half) % Word), high |-> (m3 + (m2 \div Half)) % Word]

add_128_128(a, b) ==
    LET low == (a.low + b.low) % Word
    IN  [low |-> low, high |-> (a.high + b.high + Truth(low < a.low)) % Word]

\* The product is two words long; the low word of a column is its digit.
vli_umult(left, right) ==
    LET Digit(i, r01) ==
            LET sum == add_128_128(r01, mul_64_64(left[i], right))
            IN  [word |-> sum.low, carry |-> [low |-> sum.high, high |-> 0]]
        all == Ripple(Digit, [low |-> 0, high |-> 0], Len(left))
    IN  [i \in 1..(2 * Len(left)) |->
            IF i <= Len(left) THEN all.result[i]
            ELSE IF i = Len(left) + 1 THEN all.carry.low ELSE 0]

\* Mutant for MC: no word above the two.
AccumulateInTwo(acc, product) == [acc EXCEPT !.r01 = add_128_128(@, product)]

\* What the inner loop does with a product.
Accumulate(acc, product) ==
    LET sum == add_128_128(acc.r01, product)
    IN  [r01 |-> sum, r2 |-> acc.r2 + Truth(sum.high < product.high)]

\* A product that a square has twice, without the bit that leaves it at the top.
Doubled(product) ==
    [low |-> (2 * product.low) % Word,
     high |-> ((2 * product.high) % Word) + (product.low \div (Word \div 2))]

-----------------------------------------------------------------------------

Idle == fn = "idle"

Result(call, left, right, result) ==
    /\ fn' = "return" /\ UNCHANGED loc
    /\ args' = [call |-> call, size |-> Size, left |-> left, right |-> right]
    /\ ret' = <<result>>

Binary ==
    /\ Idle
    /\ \E left, right \in Numbers :
          \/ Result("vli_add", left, right, vli_add(left, right))
          \/ Result("vli_sub", left, right, vli_sub(left, right))
          \/ Result("vli_cmp", left, right, vli_cmp(left, right))
          \/ Result("streebog_add512", left, right, streebog_add512(left, right))
          \/ Result("add_blocks", left, right, add_blocks(left, right))

WordResult(call, left, word, result) ==
    /\ fn' = "return" /\ UNCHANGED loc
    /\ args' = [call |-> call, size |-> Size, left |-> left, word |-> word]
    /\ ret' = <<result>>

Unary ==
    /\ Idle
    /\ \E left \in Numbers :
          \/ \E word \in 0..(Word - 1) :
                \/ WordResult("vli_uadd", left, word, vli_uadd(left, word))
                \/ WordResult("vli_usub", left, word, vli_usub(left, word))
                \/ WordResult("vli_umult", left, word, vli_umult(left, word))
                \/ WordResult("mul_64_64", left, word, mul_64_64(left[1], word))
          \/ \E shift \in 1..(WordBits - 1) :
                WordResult("vli_lshift", left, shift, vli_lshift(left, shift))
          \/ WordResult("vli_rshift1", left, 1, vli_rshift1(left))
          \/ WordResult("vli_num_bits", left, 0, vli_num_bits(left))

\* vli_mult and vli_square; k and i are those of the code, from 0.
Start == [k |-> 0, i |-> 0, acc |-> [r01 |-> [low |-> 0, high |-> 0], r2 |-> 0], result |-> <<>>]

CallMult ==
    /\ Idle
    /\ \E left, right \in Numbers :
          args' = [call |-> "vli_mult", size |-> Size, left |-> left, right |-> right]
    /\ fn' = "vli_mult" /\ loc' = Start /\ UNCHANGED ret

CallSquare ==
    /\ Idle
    /\ \E left \in Numbers :
          args' = [call |-> "vli_square", size |-> Size, left |-> left, right |-> left]
    /\ fn' = "vli_square" /\ loc' = Start /\ UNCHANGED ret

Runs(call) == fn = call /\ args.size = Size

First(k) == IF k < NDigits THEN 0 ELSE (k + 1) - NDigits

MultTurn ==
    /\ Runs("vli_mult") /\ loc.k < 2 * NDigits - 1
    /\ loc.i <= loc.k /\ loc.i < NDigits
    /\ loc' = [loc EXCEPT !.i = @ + 1,
                 !.acc = Accumulate(@, mul_64_64(args.left[loc.i + 1], args.right[loc.k - loc.i + 1]))]
    /\ UNCHANGED <<fn, args, ret>>

SquareTurn ==
    /\ Runs("vli_square") /\ loc.k < 2 * NDigits - 1
    /\ loc.i <= loc.k - loc.i
    /\ LET product == mul_64_64(args.left[loc.i + 1], args.left[loc.k - loc.i + 1])
           twice == loc.i < loc.k - loc.i
           acc == IF twice THEN [loc.acc EXCEPT !.r2 = @ + (product.high \div (Word \div 2))]
                  ELSE loc.acc
       IN  loc' = [loc EXCEPT !.i = @ + 1,
                     !.acc = Accumulate(acc, IF twice THEN Doubled(product) ELSE product)]
    /\ UNCHANGED <<fn, args, ret>>

\* Digit k is stored and the rest moves down a word.
Column ==
    /\ \/ Runs("vli_mult") /\ ~(loc.i <= loc.k /\ loc.i < NDigits)
       \/ Runs("vli_square") /\ loc.i > loc.k - loc.i
    /\ loc.k < 2 * NDigits - 1
    /\ loc' = [k |-> loc.k + 1, i |-> First(loc.k + 1),
               acc |-> [r01 |-> [low |-> loc.acc.r01.high, high |-> loc.acc.r2], r2 |-> 0],
               result |-> Append(loc.result, loc.acc.r01.low)]
    /\ UNCHANGED <<fn, args, ret>>

ProductReturn ==
    /\ Runs("vli_mult") \/ Runs("vli_square")
    /\ loc.k = 2 * NDigits - 1
    /\ fn' = "return" /\ ret' = <<Append(loc.result, loc.acc.r01.low)>>
    /\ UNCHANGED <<args, loc>>

WordNext ==
    Binary \/ Unary \/ CallMult \/ CallSquare \/ MultTurn \/ SquareTurn \/ Column \/ ProductReturn

-----------------------------------------------------------------------------

Returned(call) == fn = "return" /\ args.call = call /\ args.size = Size

\* Every function on words computes what it says of the numbers: what is carried
\* out of a word always arrives in the next one.
RipplesExact ==
    LET left == args.left
        right == args.right
        word == args.word
        top == Word ^ NDigits
        r == ret[1]
    IN  /\ Returned("vli_add") =>
             ValueOf(r.result) + r.carry * top = ValueOf(left) + ValueOf(right)
        /\ Returned("streebog_add512") \/ Returned("add_blocks") =>
             ValueOf(r) = (ValueOf(left) + ValueOf(right)) % top
        /\ Returned("vli_sub") =>
             ValueOf(r.result) - r.carry * top = ValueOf(left) - ValueOf(right)
        /\ Returned("vli_uadd") => ValueOf(r.result) + r.carry * top = ValueOf(left) + word
        /\ Returned("vli_usub") => ValueOf(r.result) - r.carry * top = ValueOf(left) - word
        /\ Returned("vli_lshift") =>
             ValueOf(r.result) + r.carry * top = ValueOf(left) * 2 ^ word
        /\ Returned("vli_rshift1") => ValueOf(r) = ValueOf(left) \div 2
        /\ Returned("vli_num_bits") =>
             ValueOf(left) < 2 ^ r /\ (r > 0 => ValueOf(left) >= 2 ^ (r - 1))
        /\ Returned("vli_umult") => ValueOf(r) = ValueOf(left) * word
        /\ Returned("mul_64_64") => r.low + r.high * Word = left[1] * word
        /\ Returned("vli_cmp") => (r = 0 <=> ValueOf(left) = ValueOf(right))
                                  /\ (r = 1 <=> ValueOf(left) > ValueOf(right))

\* The exact sum of column k before its product i.
Times(i, j) == args.left[i + 1] * args.right[j + 1]

Summand(k, i) ==
    IF args.call = "vli_square" THEN (IF i < k - i THEN 2 * Times(i, k - i) ELSE Times(i, i))
    ELSE Times(i, k - i)

Last(k) ==
    IF args.call = "vli_square" THEN k \div 2 ELSE IF k < NDigits THEN k ELSE NDigits - 1

ColumnSum(k, i) ==
    LET upto[j \in First(k)..i] ==
            IF j = First(k) THEN 0 ELSE upto[j - 1] + Summand(k, j - 1)
        carried[c \in 0..k] ==
            IF c = 0 THEN 0
            ELSE LET all[j \in First(c - 1)..(Last(c - 1) + 1)] ==
                         IF j = First(c - 1) THEN 0 ELSE all[j - 1] + Summand(c - 1, j - 1)
                 IN  (carried[c - 1] + all[Last(c - 1) + 1]) \div Word
    IN  carried[k] + upto[i]

\* Is a carry lost?  The high word of a sum, all ones, takes the carry of the low
\* one, and what is added is no smaller than what was added.
Loses ==
    \E k \in 0..(2 * NDigits - 2) : \E i \in First(k)..Last(k) :
        LET sum == ColumnSum(k, i)
        IN  (sum \div Word) % Word = Word - 1 /\ (sum % Word) + (Summand(k, i) % Word) >= Word

\* A product or a square is exact unless a carry is lost, in one way only: out of a
\* high word of ones into which the low word carries.
ProductUnlessLost ==
    Returned("vli_mult") \/ Returned("vli_square") =>
        (ValueOf(ret[1]) = ValueOf(args.left) * ValueOf(args.right)) <=> ~Loses

\* What the comments on the products say without a condition: "Computes result =
\* (left * right) % mod", and in vli_mult, "Compute each digit of result in sequence,
\* maintaining the carries."
ProductExact ==
    Returned("vli_mult") => ValueOf(ret[1]) = ValueOf(args.left) * ValueOf(args.right)
=============================================================================
