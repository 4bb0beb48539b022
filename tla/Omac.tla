-------------------------------- MODULE Omac --------------------------------
(***************************************************************************)
(* kuznyechik_omac2 of src/generic/gost_tls_generic.c: a CBC-MAC over the  *)
(* concatenation of two strings, whose last block is masked with one       *)
(* subkey if it is whole and padded and masked with the other if not.      *)
(* One action per turn of the loop over the blocks, one for the last.      *)
(*                                                                         *)
(* The cipher is symbolic: the chaining value is the list of the blocks    *)
(* encrypted so far, each with the subkey added to it.                     *)
(***************************************************************************)
EXTENDS ByteBlocks

CONSTANTS
    Bytes,          \* the byte values the callers use
    MaxLen          \* bound: bytes of both strings together

SizeAssumption ==
    /\ {0, 128} \subseteq Bytes
    /\ MaxLen \in Nat

VARIABLES
    active,         \* inside a call?
    a, b,           \* its arguments
    i,              \* the loop variable, from 0
    state,          \* the chaining value
    out,            \* the result of the last call
    before          \* the arguments and the result of the call before

vars == <<active, a, b, i, state, out, before>>

-----------------------------------------------------------------------------

\* Mutant of omac_byte: the second string is not read from its start.
omac_byte_NoOffset(x, y, pos) == IF pos < Len(x) THEN x[pos + 1] ELSE y[(pos % Len(y)) + 1]

\* Byte pos (from 0) of the two strings.
omac_byte(x, y, pos) == IF pos < Len(x) THEN x[pos + 1] ELSE y[pos - Len(x) + 1]

data_len == Len(a) + Len(b)

blocks == IF data_len = 0 THEN 1 ELSE (data_len + BlockSize - 1) \div BlockSize

last_len == data_len - (blocks - 1) * BlockSize

encrypt(block, subkey) == Append(state, [block |-> block, subkey |-> subkey])

\* Mutant of LastBlock: a whole last block is masked like a padded one.
LastBlock_OneKey ==
    LET at(j) == omac_byte(a, b, (blocks - 1) * BlockSize + j)
    IN  [block |-> [j \in Index |-> IF j < last_len THEN at(j)
                                    ELSE IF j = last_len THEN 128 ELSE 0],
         subkey |-> 2]

\* What the last encryption sees.
LastBlock ==
    LET at(j) == omac_byte(a, b, (blocks - 1) * BlockSize + j)
    IN  IF last_len = BlockSize
        THEN [block |-> [j \in Index |-> at(j)], subkey |-> 1]
        ELSE [block |-> [j \in Index |-> IF j < last_len THEN at(j)
                                         ELSE IF j = last_len THEN 128 ELSE 0],
              subkey |-> 2]

Strings == UNION {[1 .. n -> Bytes] : n \in 0 .. MaxLen}

Init ==
    /\ active = FALSE
    /\ a = <<>> /\ b = <<>> /\ i = 0
    /\ state = <<>> /\ out = <<>>
    /\ before = [data |-> <<>>, out |-> <<>>]

kuznyechik_omac2(x, y) ==
    /\ ~active
    /\ Len(x) + Len(y) <= MaxLen
    /\ before' = [data |-> a \o b, out |-> out]
    /\ active' = TRUE
    /\ a' = x /\ b' = y
    /\ i' = 0
    /\ state' = <<>>
    /\ UNCHANGED out

Turn ==
    /\ active /\ i + 1 < blocks
    /\ state' = encrypt([j \in Index |-> omac_byte(a, b, i * BlockSize + j)], 0)
    /\ i' = i + 1
    /\ UNCHANGED <<active, a, b, out, before>>

Finish ==
    /\ active /\ i + 1 >= blocks
    /\ out' = encrypt(LastBlock.block, LastBlock.subkey)
    /\ active' = FALSE
    /\ UNCHANGED <<a, b, i, state, before>>

Next ==
    \/ \E x, y \in Strings : kuznyechik_omac2(x, y)
    \/ Turn
    \/ Finish

Spec == Init /\ [][Next]_vars

-----------------------------------------------------------------------------

\* The reference, GOST R 34.13-2015 section 5.6, on the one string data.
Reference(data) ==
    LET n == IF data = <<>> THEN 1 ELSE (Len(data) + BlockSize - 1) \div BlockSize
        whole == data # <<>> /\ Len(data) % BlockSize = 0
        padded == IF whole THEN data
                  ELSE data \o <<128>> \o [k \in 1 .. n * BlockSize - Len(data) - 1 |-> 0]
    IN  [k \in 1 .. n |->
            [block |-> [j \in Index |-> padded[(k - 1) * BlockSize + j + 1]],
             subkey |-> IF k < n THEN 0 ELSE IF whole THEN 1 ELSE 2]]

\* The result depends on the concatenation only, not on where it is cut.
ConcatenationAuthenticated ==
    ~active /\ out # <<>> => out = Reference(a \o b)

\* Two calls return the same value only for the same concatenation: the padding
\* of a short text is never taken for a part of a whole one.
Unambiguous ==
    ~active /\ out # <<>> /\ before.out = out => before.data = a \o b

=============================================================================
