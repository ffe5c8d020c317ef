---------------------------- MODULE MCAddSubWide ----------------------------
(***************************************************************************)
(* The int32 and int64 cases of mangle_AddSubWithRange, whose values TLC's *)
(* integers cannot hold.  Instead of an integer reference, the byte-wise   *)
(* addition is checked against the law wrapping addition obeys: k         *)
(* successive AddSub steps in one byte order equal one step by the sum of *)
(* their deltas.  word starts at a boundary value of its width.            *)
(***************************************************************************)
EXTENDS MangleBytes

CONSTANTS Deltas, MaxSteps

VARIABLES
  start,   \* the bytes before the first step
  native,  \* the byte order of every step of this behaviour
  word,    \* the bytes after the steps so far
  total,   \* the sum of the deltas applied so far
  steps    \* the number of steps so far

wvars == <<start, native, word, total, steps>>

\* Deltas at both ends of [-4096, 4096] and around zero.
MCDeltas == {-4096, -1, 1, 4096}

\* 0, -1, the maximum and the minimum of an int of w bytes, in memory order
\* for the native (little endian) path.
Boundaries(w) ==
  { Rep(0, w), Rep(\hFF, w),
    Rep(\hFF, w - 1) \o <<\h7F>>, Rep(0, w - 1) \o <<\h80>> }

Init ==
  /\ \E w \in {4, 8} : start \in Boundaries(w) \cup {Reverse(b) : b \in Boundaries(w)}
  /\ native \in BOOLEAN
  /\ word = start
  /\ total = 0
  /\ steps = 0

AddSubStep ==
  /\ steps < MaxSteps
  /\ \E d \in Deltas :
       /\ word' = AddSubWord(word, d, native)
       /\ total' = total + d
  /\ steps' = steps + 1
  /\ UNCHANGED <<start, native>>

Spec == Init /\ [][AddSubStep]_wvars

\* The carry of AddLE runs across all four or eight bytes, and the byte
\* swaps of the foreign-endianness path are undone: repeated int32/int64
\* AddSub steps, wrapping through 0, -1 and the extremes, compose like
\* addition modulo 2^(8w).
AddSubComposes == word = AddSubWord(start, total, native)
=============================================================================
