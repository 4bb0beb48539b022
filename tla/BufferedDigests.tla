-------------------------- MODULE BufferedDigests ---------------------------
(***************************************************************************)
(* The five block buffers, one of them at a time: BLAKE2s (full blocks     *)
(* wait), Poly1305 and Streebog (full blocks do not), SHA-1 (every byte is *)
(* copied) and GOST R 34.11-94 (a call of three parts).  Against one       *)
(* abstract digest.                                                        *)
(*                                                                         *)
(* In the configuration blocks are of four bytes, of three for Poly1305.   *)
(* The counter words of BLAKE2s have three bits, so that the low one wraps *)
(* on every second block; the length field of SHA-1 has two bytes of three *)
(* bits, so that the high one comes into use and the field wraps.          *)
(***************************************************************************)
EXTENDS Integers

CONSTANTS
    BlakeBlock, BlakeRadix, KeyLens, OutLens,   \* of Blake2s
    PolyBlock, UintRadix, Keys, NoKey,          \* of Poly1305
    ShaBlock, LenBytes, ByteRadix, MaxLog,      \* of Sha1
    GostBlock, GostRadix,                       \* of Gost3411_94
    StreebogBlock, StreebogLog,                 \* of Streebog
    MaxTaken                                    \* bound: bytes between two inits

VARIABLES
    unit,                       \* the primitive that is checked
    ctx,                        \* its context
    part,                       \* of the GOST R 34.11-94 call
    phase, param, taken, out    \* the caller's view, see MessageDigest

vars == <<unit, ctx, part, phase, param, taken, out>>

Blake == INSTANCE Blake2s WITH BlockSize <- BlakeBlock, Radix <- BlakeRadix
Poly == INSTANCE Poly1305 WITH BlockSize <- PolyBlock, desc <- ctx
Sha == INSTANCE Sha1 WITH BlockSize <- ShaBlock
Gost == INSTANCE Gost3411_94 WITH BlockSize <- GostBlock, BitsRadix <- GostRadix
Streebog == INSTANCE Streebog WITH BlockSize <- StreebogBlock, MaxLog <- StreebogLog

ASSUME BlakeBlockAssumption == BlakeBlock \in Nat \ {0}
ASSUME PolyBlockAssumption == PolyBlock \in Nat \ {0}
ASSUME ShaBlockAssumption == ShaBlock \in Nat \ {0}
ASSUME GostBlockAssumption == GostBlock \in Nat \ {0}
ASSUME StreebogBlockAssumption == StreebogBlock \in Nat \ {0}
ASSUME ConstantsAssumption ==
    /\ Blake!RadixAssumption /\ Blake!LensAssumption
    /\ Poly!UintAssumption /\ Poly!KeyAssumption
    /\ Sha!LenAssumption
    /\ Gost!BoundsAssumption
    /\ Streebog!BoundsAssumption

Init ==
    \/ unit = "blake2s" /\ Blake!Init /\ part = 0
    \/ unit = "poly1305" /\ Poly!Init /\ part = 0
    \/ unit = "sha1" /\ Sha!Init /\ part = 0 /\ param = "none"
    \/ unit = "gost3411_94" /\ Gost!Init /\ param = "none"
    \/ unit = "streebog" /\ Streebog!Init /\ part = 0 /\ param = "none"

Blake2sStep == unit = "blake2s" /\ Blake!Next /\ UNCHANGED <<unit, part>>
Poly1305Step == unit = "poly1305" /\ Poly!Next /\ UNCHANGED <<unit, part>>
Sha1Step == unit = "sha1" /\ Sha!Next /\ UNCHANGED <<unit, part, param>>
Gost3411_94Step == unit = "gost3411_94" /\ Gost!Next /\ UNCHANGED <<unit, param>>

StreebogStep == unit = "streebog" /\ Streebog!Next /\ UNCHANGED <<unit, part, param>>

Next == Blake2sStep \/ Poly1305Step \/ Sha1Step \/ Gost3411_94Step \/ StreebogStep

Spec == Init /\ [][Next]_vars

-----------------------------------------------------------------------------

\* Type invariant: no buffer holds more than the code's branches count on: a
\* whole block in BLAKE2s, less than a block in the others.
TypeOK ==
    /\ unit = "blake2s" => Blake!TypeOK
    /\ unit = "poly1305" => Poly!TypeOK
    /\ unit = "sha1" => Sha!TypeOK
    /\ unit = "gost3411_94" => Gost!TypeOK
    /\ unit = "streebog" => Streebog!TypeOK

\* While a context absorbs, the blocks of the message before the buffered tail
\* have been compressed once, in order and none of them as a last block, the
\* buffer holds the tail, and the counters count what the standard counts; and whatever
\* was called, no field leaves its range.
StateIsPrefix ==
    /\ TypeOK
    /\ unit = "blake2s" => Blake!StateIsPrefix
    /\ unit = "poly1305" => Poly!StateIsPrefix
    /\ unit = "sha1" => Sha!StateIsPrefix
    /\ unit = "gost3411_94" => Gost!StateIsPrefix
    /\ unit = "streebog" => Streebog!StateIsPrefix

AllParams ==
    ({"blake2s"} \X Blake!Params) \cup ({"poly1305"} \X Keys)
        \cup {<<"sha1", "none">>, <<"gost3411_94", "none">>}
        \cup ({"streebog"} \X Streebog!Sizes)

\* The context of Streebog has its parameter itself.
Parameter == <<unit, IF unit = "streebog" THEN ctx.digest_size ELSE param>>

Reference(p, t) ==
    CASE p[1] = "blake2s" -> Blake!Reference(p[2], t)
      [] p[1] = "poly1305" -> Poly!Reference(p[2], t)
      [] p[1] = "sha1" -> Sha!Reference(t)
      [] p[1] = "gost3411_94" -> Gost!Reference(t)
      [] p[1] = "streebog" -> Streebog!Reference(p[2], t)

Abstract == INSTANCE MessageDigest WITH
    Params <- AllParams,
    param <- Parameter,
    Digest <- [p \in AllParams |-> [t \in Nat |-> Reference(p, t)]]

\* Each of the five implements the abstract digest: what final returns is the
\* digest of the concatenated updates under the parameters of the last init,
\* for every way to cut the message and whatever the context was used for.
ImplementsDigest == Abstract!Spec
=============================================================================
