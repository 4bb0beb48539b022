----------------------------- MODULE VliModular -----------------------------
(***************************************************************************)
(* The modular arithmetic of src/generic/ecc_generic.c on whole numbers of *)
(* ndigits words.  The words are not told apart: a number is an integer of *)
(* Width bits, and what leaves it at the top is the carry or the borrow    *)
(* that the functions return.  Reduction and inversion are loops, and one  *)
(* step of this module is one round of the loop.                           *)
(*                                                                         *)
(* Every call has the modulus and its operands in args; loc holds the      *)
(* local variables of a loop that runs.                                    *)
(*                                                                         *)
(* The primes of the library's own curves lead vli_mmod_fast to            *)
(* vli_mmod_special and vli_mmod_slow only.  The reductions for primes     *)
(* above a power of two, Barrett's and the ones for the NIST primes wait   *)
(* for another curve; there a product is a sequence of half words, the     *)
(* lowest first, and so is every term that is added or subtracted, and the *)
(* result and what carry counts are one number, result + carry * 2^(bits). *)
(***************************************************************************)
EXTENDS Integers, Sequences

CONSTANTS
    Width,              \* bits of a number
    Primes,             \* curve->p of the curves, 2^Width less a few
    Orders,             \* curve->n
    Primes2,            \* 2^(Width - 1) and a little
    BarrettPrimes,      \* any other primes of Width bits
    HalfBits,           \* bits of half a word, 32
    HalfWords           \* what the upper half words of products are

Base == 2 ^ Width

SizeAssumption ==
    /\ Width \in Nat \ {0, 1}
    /\ Primes \union Orders \subseteq {m \in 3..(Base - 1) : m % 2 = 1}
    /\ \A p \in Primes : (Base - p) * (Base - p) < Base

VARIABLES
    fn,                 \* the function that runs, "idle" between two calls
    args, loc, ret      \* its operands, its local variables, its result

Vli == 0..(Base - 1)

vli_add(left, right) ==
    [result |-> (left + right) % Base, carry |-> (left + right) \div Base]

vli_sub(left, right) ==
    [result |-> (left - right) % Base, borrow |-> IF left < right THEN 1 ELSE 0]

\* vli_rshift1 and the bit that is then set at the top for a carry.
vli_rshift1(vli, carry) == vli \div 2 + carry * (Base \div 2)

vli_num_bits(vli) == CHOOSE b \in 0..Width : vli < 2 ^ b /\ (b > 0 => vli >= 2 ^ (b - 1))

-----------------------------------------------------------------------------

\* Mutant for MC: the carry of the addition is not looked at.
AddWithoutCarry(left, right, mod) ==
    LET sum == vli_add(left, right) IN
    IF sum.result >= mod THEN vli_sub(sum.result, mod).result ELSE sum.result

-----------------------------------------------------------------------------

vli_mod_add(left, right, mod) ==
    LET sum == vli_add(left, right) IN
    IF sum.carry = 1 \/ sum.result >= mod THEN vli_sub(sum.result, mod).result ELSE sum.result

vli_mod_sub(left, right, mod) ==
    LET diff == vli_sub(left, right) IN
    IF diff.borrow = 1 THEN vli_add(diff.result, mod).result ELSE diff.result

\* vli / 2 modulo an odd number, as it is done four times in vli_mod_inv.
Halve(vli, mod) ==
    IF vli % 2 = 0 THEN vli_rshift1(vli, 0)
    ELSE LET sum == vli_add(vli, mod) IN vli_rshift1(sum.result, sum.carry)

\* vli - other modulo mod, as it is done there: the carry of the addition that
\* comes first is dropped and the subtraction takes it back.
Less(vli, other, mod) ==
    vli_sub(IF vli < other THEN vli_add(vli, mod).result ELSE vli, other).result

Return(r) == fn' = "return" /\ ret' = r /\ UNCHANGED <<args, loc>>

Call(f, a, l) == fn' = f /\ args' = a /\ loc' = l /\ UNCHANGED ret

Idle == fn = "idle"

\* The two functions without a loop.
CallAddSub ==
    /\ Idle
    /\ \E mod \in Primes \union Orders :
       \E left, right \in 0..(mod - 1) :
          /\ fn' = "return"
          /\ \/ /\ args' = [call |-> "vli_mod_add", mod |-> mod, left |-> left, right |-> right]
                /\ ret' = <<vli_mod_add(left, right, mod)>>
             \/ /\ args' = [call |-> "vli_mod_sub", mod |-> mod, left |-> left, right |-> right]
                /\ ret' = <<vli_mod_sub(left, right, mod)>>
          /\ UNCHANGED loc

\* vli_mod_inv: a and b shrink to the greatest common divisor, u and v keep
\* what the operand has to be multiplied with to become a and b.
CallInv ==
    /\ Idle
    /\ \E mod \in Primes \union Orders : \E input \in 0..(mod - 1) :
          LET a == [call |-> "vli_mod_inv", mod |-> mod, input |-> input] IN
          IF input = 0 THEN fn' = "return" /\ args' = a /\ ret' = <<0>> /\ UNCHANGED loc
          ELSE Call("vli_mod_inv", a, [a |-> input, b |-> mod, u |-> 1, v |-> 0])

InvHalveA ==
    /\ fn = "vli_mod_inv" /\ loc.a # loc.b
    /\ loc.a % 2 = 0
    /\ loc' = [loc EXCEPT !.a = vli_rshift1(@, 0), !.u = Halve(@, args.mod)]
    /\ UNCHANGED <<fn, args, ret>>

\* Mutant for MC: an even b has a shifted, as in the lines for an even a.
HalveTheOther ==
    /\ fn = "vli_mod_inv" /\ loc.a # loc.b
    /\ loc.a % 2 = 1 /\ loc.b % 2 = 0
    /\ loc' = [loc EXCEPT !.a = vli_rshift1(@, 0), !.v = Halve(@, args.mod)]
    /\ UNCHANGED <<fn, args, ret>>

InvHalveB ==
    /\ fn = "vli_mod_inv" /\ loc.a # loc.b
    /\ loc.a % 2 = 1 /\ loc.b % 2 = 0
    /\ loc' = [loc EXCEPT !.b = vli_rshift1(@, 0), !.v = Halve(@, args.mod)]
    /\ UNCHANGED <<fn, args, ret>>

InvSubtract ==
    /\ fn = "vli_mod_inv" /\ loc.a # loc.b
    /\ loc.a % 2 = 1 /\ loc.b % 2 = 1
    /\ LET m == args.mod IN
       loc' = IF loc.a > loc.b
              THEN [loc EXCEPT !.a = vli_rshift1(vli_sub(@, loc.b).result, 0),
                               !.u = Halve(Less(@, loc.v, m), m)]
              ELSE [loc EXCEPT !.b = vli_rshift1(vli_sub(@, loc.a).result, 0),
                               !.v = Halve(Less(@, loc.u, m), m)]
    /\ UNCHANGED <<fn, args, ret>>

InvReturn == fn = "vli_mod_inv" /\ loc.a = loc.b /\ Return(<<loc.u>>)

\* vli_mmod_special: for p = 2^Width - c the upper half of the product is folded
\* into the lower one, times c, until there is none; then p is subtracted.
CallSpecial ==
    /\ Idle
    /\ \E mod \in Primes : \E product \in 0..((mod - 1) * (mod - 1)) :
          Call("vli_mmod_special", [call |-> "vli_mmod_special", mod |-> mod, product |-> product],
               [r |-> product, folding |-> TRUE])

SpecialFold ==
    /\ fn = "vli_mmod_special" /\ loc.folding
    /\ LET upper == loc.r \div Base
           c == vli_sub(0, args.mod).result
       IN  loc' = IF upper = 0 THEN [loc EXCEPT !.folding = FALSE]
                  ELSE [loc EXCEPT !.r = ((loc.r % Base) + upper * c) % (Base * Base)]
    /\ UNCHANGED <<fn, args, ret>>

SpecialSubtract ==
    /\ fn = "vli_mmod_special" /\ ~loc.folding
    /\ IF loc.r >= args.mod
       THEN loc' = [loc EXCEPT !.r = @ - args.mod] /\ UNCHANGED <<fn, args, ret>>
       ELSE Return(<<loc.r % Base>>)

\* vli_mmod_slow: the modulus, shifted until its highest bit is that of the
\* product, is subtracted where it can be and shifted back bit by bit.
CallSlow ==
    /\ Idle
    /\ \E mod \in Orders : \E product \in 0..((mod - 1) * (mod - 1)) :
          LET shift == 2 * Width - vli_num_bits(mod) IN
          Call("vli_mmod_slow", [call |-> "vli_mmod_slow", mod |-> mod, product |-> product],
               [v |-> product, mod_m |-> mod * 2 ^ shift, shift |-> shift])

SlowStep ==
    /\ fn = "vli_mmod_slow" /\ loc.shift >= 0
    /\ loc' = [v |-> IF loc.v < loc.mod_m THEN loc.v ELSE loc.v - loc.mod_m,
               mod_m |-> loc.mod_m \div 2, shift |-> loc.shift - 1]
    /\ UNCHANGED <<fn, args, ret>>

SlowReturn == fn = "vli_mmod_slow" /\ loc.shift < 0 /\ Return(<<loc.v % Base>>)

\* Not code: the caller takes the result and goes on.
Forget == fn = "return" /\ fn' = "idle" /\ args' = <<>> /\ loc' = <<>> /\ ret' = <<>>

Init == fn = "idle" /\ args = <<>> /\ loc = <<>> /\ ret = <<>>

ModularStep == InvHalveA \/ InvHalveB \/ InvSubtract \/ InvReturn
               \/ SpecialFold \/ SpecialSubtract \/ SlowStep \/ SlowReturn

ModularNext == CallAddSub \/ CallInv \/ CallSpecial \/ CallSlow \/ ModularStep

-----------------------------------------------------------------------------

Congruent(left, right, mod) == (left - right) % mod = 0

\* The loops never lose the residue they compute, although numbers wrap and bits
\* are carried out of them, and what they return is the reduced result.
ReturnsExact ==
    /\ fn = "vli_mod_inv" =>
         /\ Congruent(loc.a, loc.u * args.input, args.mod)
         /\ Congruent(loc.b, loc.v * args.input, args.mod)
    /\ fn = "vli_mmod_special" => Congruent(loc.r, args.product, args.mod)
    /\ fn = "vli_mmod_slow" => Congruent(loc.v, args.product, args.mod)
    /\ fn = "return" /\ args.call = "vli_mod_add" => ret[1] = (args.left + args.right) % args.mod
    /\ fn = "return" /\ args.call = "vli_mod_sub" => ret[1] = (args.left - args.right) % args.mod
    /\ fn = "return" /\ args.call = "vli_mod_inv" =>
         /\ ret[1] \in 0..(args.mod - 1)
         /\ IF args.input = 0 THEN ret[1] = 0 ELSE Congruent(ret[1] * args.input, 1, args.mod)
    /\ fn = "return" /\ args.call \in {"vli_mmod_special", "vli_mmod_slow"} =>
         ret[1] = args.product % args.mod

-----------------------------------------------------------------------------

Half == 2 ^ HalfBits

ReductionsAssumption ==
    /\ \A p \in Primes2 : p \in Nat /\ 2 * p > Base /\ 2 * (p - Base \div 2) ^ 2 < Base
    /\ \A p \in BarrettPrimes : p \in Nat /\ 2 * p > Base /\ p < Base
    /\ HalfBits \in Nat \ {0} /\ HalfBits <= 2 /\ HalfWords \subseteq 0 .. Half - 1

-----------------------------------------------------------------------------

\* vli_mmod_special2: what is above the bit Width - 1 is folded in, times c, with a
\* sign that changes from round to round.  q is that and the bit of carry below it.
CallSpecial2 ==
    /\ Idle
    /\ \E mod \in Primes2 : \E product \in 0 .. (mod - 1) * (mod - 1) :
          Call("vli_mmod_special2", [call |-> "vli_mmod_special2", mod |-> mod, product |-> product],
               [r |-> product % (Base \div 2), q |-> product \div (Base \div 2), i |-> 1])

\* Mutant for MC: every round subtracts.
Special2AlwaysSubtracts ==
    /\ fn = "vli_mmod_special2" /\ loc.q # 0
    /\ LET qc == loc.q * (args.mod - Base \div 2)
           low == qc % (Base \div 2)
       IN  loc' = [r |-> (loc.r - low) % (Base * Base), q |-> qc \div (Base \div 2), i |-> loc.i + 1]
    /\ UNCHANGED <<fn, args, ret>>

Special2Fold ==
    /\ fn = "vli_mmod_special2" /\ loc.q # 0
    /\ LET qc == loc.q * (args.mod - Base \div 2)
           low == qc % (Base \div 2)
       IN  loc' = [r |-> (IF loc.i % 2 = 1 THEN loc.r - low ELSE loc.r + low) % (Base * Base),
                   q |-> qc \div (Base \div 2), i |-> loc.i + 1]
    /\ UNCHANGED <<fn, args, ret>>

\* Negative numbers have the highest bit of the double length set.
Special2Return ==
    /\ fn = "vli_mmod_special2" /\ loc.q = 0
    /\ LET negative == loc.r >= (Base * Base) \div 2
       IN  CASE negative ->
                  loc' = [loc EXCEPT !.r = (@ + args.mod) % (Base * Base)] /\ UNCHANGED <<fn, args, ret>>
             [] ~negative /\ loc.r >= args.mod ->
                  loc' = [loc EXCEPT !.r = @ - args.mod] /\ UNCHANGED <<fn, args, ret>>
             [] OTHER -> Return(<<loc.r>>)

\* vli_mmod_barrett: mu, which the curve has behind p, is one bit longer than p.
CallBarrett ==
    /\ Idle
    /\ \E mod \in BarrettPrimes : \E product \in 0 .. (mod - 1) * (mod - 1) :
          LET mu == (Base * Base) \div mod
              high == product \div Base
              q == (((high * (mu % Base)) \div Base) + (IF mu >= Base THEN high ELSE 0)) % Base
          IN  Call("vli_mmod_barrett",
                   [call |-> "vli_mmod_barrett", mod |-> mod, product |-> product],
                   [r |-> (product - mod * q) % (Base * Base)])

BarrettSubtract ==
    /\ fn = "vli_mmod_barrett"
    /\ IF loc.r >= args.mod
       THEN loc' = [loc EXCEPT !.r = @ - args.mod] /\ UNCHANGED <<fn, args, ret>>
       ELSE Return(<<loc.r>>)

-----------------------------------------------------------------------------

\* The number with the half words a_i of the product, i from places, none where it is
\* Zero.
Zero == -1

Term(a, places) ==
    LET s[i \in 0 .. Len(places)] ==
            IF i = 0 THEN 0
            ELSE s[i - 1] + (IF places[i] = Zero THEN 0 ELSE a[places[i] + 1]) * Half ^ (i - 1)
    IN  s[Len(places)]

O == Zero

Sum192(a) ==
    Term(a, <<0, 1, 2, 3, 4, 5>>) + Term(a, <<6, 7, 8, 9, 10, 11>>)
    + Term(a, <<O, O, 6, 7, 8, 9>>) + Term(a, <<10, 11, 10, 11, O, O>>)

Sum256(a) ==
    Term(a, <<0, 1, 2, 3, 4, 5, 6, 7>>)
    + 2 * Term(a, <<O, O, O, 11, 12, 13, 14, 15>>) + 2 * Term(a, <<O, O, O, 12, 13, 14, 15, O>>)
    + Term(a, <<8, 9, 10, O, O, O, 14, 15>>) + Term(a, <<9, 10, 11, 13, 14, 15, 13, 8>>)
    - Term(a, <<11, 12, 13, O, O, O, 8, 10>>) - Term(a, <<12, 13, 14, 15, O, O, 9, 11>>)
    - Term(a, <<13, 14, 15, 8, 9, 10, O, 12>>) - Term(a, <<14, 15, O, 9, 10, 11, O, 13>>)

Sum384(a) ==
    Term(a, <<0, 1, 2, 3, 4, 5, 6, 7, 8, 9, 10, 11>>)
    + 2 * Term(a, <<O, O, O, O, 21, 22, 23, O, O, O, O, O>>)
    + Term(a, <<12, 13, 14, 15, 16, 17, 18, 19, 20, 21, 22, 23>>)
    + Term(a, <<21, 22, 23, 12, 13, 14, 15, 16, 17, 18, 19, 20>>)
    + Term(a, <<O, 23, O, 20, 12, 13, 14, 15, 16, 17, 18, 19>>)
    + Term(a, <<O, O, O, O, 20, 21, 22, 23, O, O, O, O>>)
    + Term(a, <<20, O, O, 21, 22, 23, O, O, O, O, O, O>>)
    - Term(a, <<23, 12, 13, 14, 15, 16, 17, 18, 19, 20, 21, 22>>)
    - Term(a, <<O, 20, 21, 22, 23, O, O, O, O, O, O, O>>)
    - Term(a, <<O, O, O, 23, 23, O, O, O, O, O, O, O>>)

\* The half words of a number of the curve, and the prime in powers of Half.
Length(ndigits) == 2 * ndigits

NistPrime(ndigits) ==
    CASE ndigits = 3 -> Half ^ 6 - Half ^ 2 - 1
      [] ndigits = 4 -> Half ^ 8 - Half ^ 7 + Half ^ 6 + Half ^ 3 - 1
      [] ndigits = 6 -> Half ^ 12 - Half ^ 4 - Half ^ 3 + Half - 1

NistSum(ndigits, a) ==
    CASE ndigits = 3 -> Sum192(a) [] ndigits = 4 -> Sum256(a) [] ndigits = 6 -> Sum384(a)

\* The products that are tried: any upper half with a few lower ones.
NistProducts(ndigits) ==
    LET k == Length(ndigits) IN
    {low \o high : low \in {[i \in 1 .. k |-> 0], [i \in 1 .. k |-> Half - 1]},
                   high \in [1 .. k -> HalfWords]}

\* vli_mmod_fast: the name of a NIST curve begins with "nist_", and the length tells
\* which one it is.
CallNist ==
    /\ Idle
    /\ \E ndigits \in {3, 4, 6} : \E a \in NistProducts(ndigits) :
          Call("vli_mmod_fast", [call |-> "vli_mmod_fast", ndigits |-> ndigits, product |-> a],
               [sum |-> NistSum(ndigits, a)])

NistAdjust ==
    /\ fn = "vli_mmod_fast"
    /\ LET p == NistPrime(args.ndigits)
       IN  CASE loc.sum < 0 -> loc' = [sum |-> loc.sum + p] /\ UNCHANGED <<fn, args, ret>>
             [] loc.sum >= p -> loc' = [sum |-> loc.sum - p] /\ UNCHANGED <<fn, args, ret>>
             [] OTHER -> Return(<<loc.sum>>)

ReductionsNext ==
    CallSpecial2 \/ Special2Fold \/ Special2Return \/ CallBarrett \/ BarrettSubtract
    \/ CallNist \/ NistAdjust

-----------------------------------------------------------------------------

\* The residue of a sequence of half words.
Residue(a, p) ==
    LET r[i \in 0 .. Len(a)] == IF i = 0 THEN 0 ELSE (r[i - 1] * Half + a[Len(a) + 1 - i]) % p
    IN  r[Len(a)]

\* Every reduction returns the residue, and below p; in the one for p above a power of
\* two what was taken off and what is left to be folded alternate in sign and always
\* make up the product.
ReductionsExact ==
    /\ fn = "vli_mmod_special2" =>
          LET signed == IF loc.r >= (Base * Base) \div 2 THEN loc.r - Base * Base ELSE loc.r
              left == loc.q * (args.mod - Base \div 2)
          IN  (signed + (IF loc.i % 2 = 1 THEN -left ELSE left) - args.product) % args.mod = 0
    /\ (fn = "return" /\ args.call \in {"vli_mmod_special2", "vli_mmod_barrett"}) =>
          ret[1] = args.product % args.mod
    /\ (fn = "return" /\ args.call = "vli_mmod_fast") =>
          ret[1] = Residue(args.product, NistPrime(args.ndigits))
=============================================================================
