---------------------------- MODULE MCMangleBytes ---------------------------
(***************************************************************************)
(* Checks the byte algorithms of MangleBytes against reference            *)
(* definitions on integers.  word is an int8 or int16 in memory, mutated   *)
(* by repeated AddSub steps (any delta, either byte order); val is the     *)
(* integer the reference arithmetic says word holds.                       *)
(***************************************************************************)
EXTENDS MangleBytes

CONSTANT Deltas

VARIABLES word, val

\* Deltas at both ends of [-4096, 4096] and around zero.
MCDeltas == {-4096, -1, 1, 4096}

\* The little-endian value of a byte sequence (reference decoding).
RECURSIVE LEValue(_)
LEValue(bytes) == IF bytes = <<>> THEN 0 ELSE Head(bytes) + 256 * LEValue(Tail(bytes))

\* The integer whose w bytes are those of v in the opposite order.
ByteSwap(v, w) == LEValue(Reverse([i \in 1 .. w |-> (v \div 256 ^ (i - 1)) % 256]))

\* Reference: wrapping addition modulo 2^(8w), in the native order or
\* between two byte swaps.
RefAddSub(v, w, d, native) ==
  IF native THEN (v + d) % 256 ^ w
  ELSE ByteSwap((ByteSwap(v, w) + d) % 256 ^ w, w)

Init ==
  \E w \in {1, 2} :
    /\ word = Rep(0, w)
    /\ val = 0

AddSubStep ==
  \E d \in Deltas, native \in BOOLEAN :
    /\ word' = AddSubWord(word, d, native)
    /\ val' = RefAddSub(val, Len(word), d, native)

Spec == Init /\ [][AddSubStep]_<<word, val>>

\* The carry chain of AddLE and the byte swaps of the foreign-endianness
\* path of mangle_AddSubWithRange compute two's complement wrapping
\* addition, at every value a sequence of AddSub steps can reach.
AddSubMatchesInteger == LEValue(word) = val

=============================================================================
