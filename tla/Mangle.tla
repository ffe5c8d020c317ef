------------------------------- MODULE Mangle -------------------------------
(***************************************************************************)
(* One call of mangle_mangleContent (src/mangle.c) on a run's dynamic     *)
(* file: mangle_Resize, then changesCnt operators drawn from mangleFuncs.  *)
(*                                                                         *)
(* The dynamic file is an mmap'd region whose bytes past dynamicFileSz     *)
(* still exist: file maps every cell of that region, plus the seven cells  *)
(* just after it, to a byte, so that a read or write past the logical size *)
(* (or past the region) is observable.  touched is a history variable: the *)
(* cells the last step read or wrote, all of which are accessed after the *)
(* step's input_setSize, so they are compared with the new size.          *)
(*                                                                         *)
(* Every util_rndGet / util_rndBuf draw is an \E over a small set.         *)
(***************************************************************************)
EXTENDS Integers, Sequences, SequencesExt, Bitwise, MangleBytes

CONSTANTS
  MaxFileSz,        \* run->global->mutate.maxFileSz
  MutationsPerRun,  \* run->global->mutate.mutationsPerRun (bounds changesCnt)
  RunMutations,     \* values run->mutationsPerRun may hold on entry
  OnlyPrintable,    \* run->global->cfg.only_printable
  Dictionaries,     \* possible dictq contents: sequences of byte strings
  InitBytes,        \* byte values of the input loaded before mangling
  RndBytes,         \* bytes util_rndBuf / util_rndGet(0, UINT8_MAX) yield
  RndPrintables,    \* bytes util_rndBufPrintable / util_rndPrintable yield
  Deltas,           \* values of util_rndGet(0, 8192) - 4096
  Rnd64Vals,        \* values of (int64_t)util_rnd64() formatted by ASCIIVal
  MagicChoices      \* indices of mangleMagicVals util_rndGet may pick

ASSUME MaxFileSz \in Nat \ {0}
ASSUME MutationsPerRun \in Nat /\ RunMutations \subseteq Nat
ASSUME OnlyPrintable \in BOOLEAN
ASSUME \A d \in Dictionaries : d \in Seq(Seq(Byte))
ASSUME InitBytes \subseteq Byte /\ RndBytes \subseteq Byte
ASSUME RndPrintables \subseteq 32 .. 126
ASSUME Deltas \subseteq -4096 .. 4096
ASSUME MagicChoices \subseteq 1 .. Len(mangleMagicVals)

\* The backing region and the seven cells past it an 8-byte write can reach.
Cells == 0 .. MaxFileSz + 6

VARIABLES
  file,            \* run->dynamicFile, cell by cell
  size,            \* run->dynamicFileSz
  pc,              \* "start", "mutate" (inside the loop) or "done"
  left,            \* changesCnt - x: loop iterations still to run
  mutationsPerRun, \* run->mutationsPerRun
  dict,            \* run->global->mutate.dictq (fixed during a call)
  touched          \* history: cells accessed by the last step

vars == <<file, size, pc, left, mutationsPerRun, dict, touched>>

Offsets == 0 .. size - 1

Span(off, len) == off .. off + len - 1

Min2(a, b) == IF a < b THEN a ELSE b

\* Write bytes (a sequence) into f starting at cell off.
Fill(f, off, bytes) ==
  [i \in DOMAIN f |-> IF i \in Span(off, Len(bytes)) THEN bytes[i - off + 1] ELSE f[i]]

\* Bug variant: util_rndBuf called whatever the printable flag.
RndBufIgnoresPrintable(len, printable) == [1 .. len -> RndBytes]

\* The possible outcomes of util_rndBuf / util_rndBufPrintable of len bytes.
RndBuf(len, printable) == [1 .. len -> IF printable THEN RndPrintables ELSE RndBytes]

(***************************************************************************)
(* input_setSize (src/input.c is not part of this repository: modelled    *)
(* from the spec).  Shrinking keeps the bytes; growing makes the new       *)
(* bytes undefined: either the stale contents of the region or the zeros  *)
(* an ftruncate extension reads as.                                        *)
(***************************************************************************)
input_setSize(f, old, new, zero) ==
  IF new > old /\ zero THEN Fill(f, old, Rep(0, new - old)) ELSE f

(***************************************************************************)
(* mangle_Overwrite: copy sz bytes of src to off, clamped to the size s.   *)
(***************************************************************************)
\* Bug variant: sz not clamped to the size.
OverwriteLenNoClamp(s, off, sz) == sz

OverwriteLen(s, off, sz) == Min2(sz, s - off)

mangle_Overwrite(f, s, src, off, sz) ==
  Fill(f, off, SubSeq(src, 1, OverwriteLen(s, off, sz)))

(***************************************************************************)
(* mangle_Move: no-op if an offset is at or past the size s, else clamp    *)
(* len to s - off - 1 for both offsets and memmove.                        *)
(***************************************************************************)
MoveLen(s, from, to, len) == Min2(len, Min2(s - from - 1, s - to - 1))

MoveSpan(s, from, to, len) ==
  IF from >= s \/ to >= s THEN {}
  ELSE Span(from, MoveLen(s, from, to, len)) \cup Span(to, MoveLen(s, from, to, len))

mangle_Move(f, s, from, to, len) ==
  IF from >= s \/ to >= s THEN f
  ELSE [i \in DOMAIN f |->
          IF i \in Span(to, MoveLen(s, from, to, len)) THEN f[from + (i - to)] ELSE f[i]]

(***************************************************************************)
(* mangle_Inflate: the set of outcomes [file, size, touched] of growing    *)
(* the file by len (clamped to maxFileSz) at off: input_setSize, Move of   *)
(* the bytes from off by len, then random bytes at off.                    *)
(***************************************************************************)
mangle_Inflate(f, s, off, len, printable) ==
  IF s >= MaxFileSz THEN {[file |-> f, size |-> s, touched |-> {}]}
  ELSE LET l  == Min2(len, MaxFileSz - s)
           ns == s + l
       IN  { [file    |-> Fill(mangle_Move(input_setSize(f, s, ns, z), ns, off, off + l, ns), off, r),
              size    |-> ns,
              touched |-> MoveSpan(ns, off, off + l, ns) \cup Span(off, l)]
             : z \in BOOLEAN, r \in RndBuf(l, printable) }

-----------------------------------------------------------------------------
(***************************************************************************)
(* mangle_mangleContent: the early return, mangle_Resize and the draw of   *)
(* changesCnt; then one loop iteration per operator step.                  *)
(***************************************************************************)
Init ==
  /\ size \in 1 .. MaxFileSz
  /\ \E content \in [0 .. size - 1 -> InitBytes] :
       file = [i \in Cells |-> IF i < size THEN content[i] ELSE 0]
  /\ pc = "start"
  /\ left = 0
  /\ mutationsPerRun \in RunMutations
  /\ dict \in Dictionaries
  /\ touched = {}

\* if (run->mutationsPerRun == 0U) return;
NoMutations ==
  /\ pc = "start"
  /\ mutationsPerRun = 0
  /\ pc' = "done"
  /\ touched' = {}
  /\ UNCHANGED <<file, size, left, mutationsPerRun, dict>>

\* Bug variant: the  newsz < 1  clamp missing.
ResizeTargetNoFloor(oldsz, v, r) ==
  LET newsz == CASE v = 0       -> r
                 [] v \in 1 .. 8 -> oldsz + v
                 [] OTHER       -> oldsz + 8 - v
  IN  IF newsz > MaxFileSz THEN MaxFileSz ELSE newsz

\* mangle_Resize's new size for the draw v (and r, drawn only when v = 0).
ResizeTarget(oldsz, v, r) ==
  LET newsz == CASE v = 0       -> r
                 [] v \in 1 .. 8 -> oldsz + v
                 [] OTHER       -> oldsz + 8 - v
  IN  IF newsz < 1 THEN 1 ELSE IF newsz > MaxFileSz THEN MaxFileSz ELSE newsz

\* mangle_Resize, followed by changesCnt = util_rndGet(1, mutationsPerRun).
\* The draw reads the global bound, not run->mutationsPerRun: when that is
\* 0 the range 1 .. 0 is empty, util_rndGet has no result (it aborts on
\* min > max) and the call never reaches its loop.
mangle_Resize ==
  /\ pc = "start"
  /\ mutationsPerRun # 0
  /\ \E v \in 0 .. 16, z \in BOOLEAN :
     \E r \in IF v = 0 THEN 1 .. MaxFileSz ELSE {0} :
       LET newsz == ResizeTarget(size, v, r)
           g     == input_setSize(file, size, newsz, z)
       IN  /\ size' = newsz
           /\ IF newsz > size
                THEN /\ \E rnd \in RndBuf(newsz - size, OnlyPrintable) :
                          file' = Fill(g, size, rnd)
                     /\ touched' = Span(size, newsz - size)
                ELSE /\ file' = g
                     /\ touched' = {}
  /\ \E changesCnt \in 1 .. MutationsPerRun :
       /\ left' = changesCnt
       /\ pc' = "mutate"
  /\ UNCHANGED <<mutationsPerRun, dict>>

\* The for loop of mangle_mangleContent: guard and x++ around one operator.
Mutating == pc = "mutate"

\* Bug variant: x <= changesCnt, one iteration too many.
LoopNextOffByOne ==
  /\ left' = left - 1
  /\ pc' = IF left - 1 < 0 THEN "done" ELSE "mutate"
  /\ UNCHANGED <<mutationsPerRun, dict>>

\* Bug variant: x++ missing, the loop never exits.
LoopNextNoIncrement ==
  /\ left' = left
  /\ pc' = IF left = 0 THEN "done" ELSE "mutate"
  /\ UNCHANGED <<mutationsPerRun, dict>>

LoopNext ==
  /\ left' = left - 1
  /\ pc' = IF left - 1 = 0 THEN "done" ELSE "mutate"
  /\ UNCHANGED <<mutationsPerRun, dict>>
-----------------------------------------------------------------------------
(***************************************************************************)
(* The sixteen operators of mangleFuncs.  Each is one loop iteration.      *)
(***************************************************************************)

\* The effect of mangle_Bit at off with bit b (also the empty-dictionary
\* fallback of Dictionary and DictionaryInsert).
BitEffect(f, off, b) ==
  LET g == [f EXCEPT ![off] = @ ^^ (2 ^ b)]
  IN  IF OnlyPrintable THEN TurnToPrintable(g, off, 1) ELSE g

mangle_Bit ==
  /\ Mutating
  /\ \E off \in Offsets, b \in 0 .. 7 :
       /\ file' = BitEffect(file, off, b)
       /\ touched' = {off}
  /\ UNCHANGED size
  /\ LoopNext

\* An 8-byte random buffer of which toCopy bytes are overwritten at off;
\* only the bytes that survive the clamp are enumerated.
mangle_Bytes ==
  /\ Mutating
  /\ \E off \in Offsets, toCopy \in 1 .. 8 :
     \E buf \in RndBuf(OverwriteLen(size, off, toCopy), OnlyPrintable) :
       /\ file' = mangle_Overwrite(file, size, buf, off, toCopy)
       /\ touched' = Span(off, OverwriteLen(size, off, toCopy))
  /\ UNCHANGED size
  /\ LoopNext

\* The overwrite is clamped to the size; util_turnToPrintable is not.
mangle_Magic ==
  /\ Mutating
  /\ \E off \in Offsets, choice \in MagicChoices :
       LET m == mangleMagicVals[choice]
           g == mangle_Overwrite(file, size, m.val, off, m.size)
       IN  /\ file' = IF OnlyPrintable THEN TurnToPrintable(g, off, m.size) ELSE g
           /\ touched' = Span(off, OverwriteLen(size, off, m.size))
                         \cup (IF OnlyPrintable THEN Span(off, m.size) ELSE {})
  /\ UNCHANGED size
  /\ LoopNext

mangle_IncByte ==
  /\ Mutating
  /\ \E off \in Offsets :
       /\ file' = [file EXCEPT ![off] =
                     IF OnlyPrintable THEN IncPrintable(@) ELSE U8(@ + 1)]
       /\ touched' = {off}
  /\ UNCHANGED size
  /\ LoopNext

mangle_DecByte ==
  /\ Mutating
  /\ \E off \in Offsets :
       /\ file' = [file EXCEPT ![off] =
                     IF OnlyPrintable THEN DecPrintable(@) ELSE U8(@ - 1)]
       /\ touched' = {off}
  /\ UNCHANGED size
  /\ LoopNext

mangle_NegByte ==
  /\ Mutating
  /\ \E off \in Offsets :
       /\ file' = [file EXCEPT ![off] =
                     IF OnlyPrintable THEN NegPrintable(@) ELSE 255 - @]
       /\ touched' = {off}
  /\ UNCHANGED size
  /\ LoopNext

\* varLen = 1 << util_rndGet(0, 3), forced to 1 when it does not fit; the
\* endianness coin (util_rnd64() & 1) is drawn only for widths 2, 4 and 8.
mangle_AddSub ==
  /\ Mutating
  /\ \E off \in Offsets, e \in 0 .. 3, delta \in Deltas :
       LET varLen == IF size - off < 2 ^ e THEN 1 ELSE 2 ^ e
           val    == [i \in 1 .. varLen |-> file[off + i - 1]]
       IN  \E native \in IF varLen = 1 THEN {TRUE} ELSE BOOLEAN :
             LET g == mangle_Overwrite(file, size, AddSubWord(val, delta, native), off, varLen)
             IN  /\ file' = IF OnlyPrintable THEN TurnToPrintable(g, off, varLen) ELSE g
                 /\ touched' = Span(off, varLen)
  /\ UNCHANGED size
  /\ LoopNext
\* The empty-dictionary fallback to mangle_Bit.
DictionaryFallback ==
  /\ Len(dict) = 0
  /\ \E off \in Offsets, b \in 0 .. 7 :
       /\ file' = BitEffect(file, off, b)
       /\ touched' = {off}
  /\ UNCHANGED size

\* mangle_DictionaryNoCheck writes the entry verbatim, printable or not.
mangle_Dictionary ==
  /\ Mutating
  /\ \/ DictionaryFallback
     \/ /\ Len(dict) > 0
        /\ \E off \in Offsets, choice \in 1 .. Len(dict) :
             /\ file' = mangle_Overwrite(file, size, dict[choice], off, Len(dict[choice]))
             /\ touched' = Span(off, OverwriteLen(size, off, Len(dict[choice])))
        /\ UNCHANGED size
  /\ LoopNext

\* mangle_DictionaryInsertNoCheck: Inflate by the entry's length at off,
\* then Overwrite the entry there (against the size after the Inflate).
mangle_DictionaryInsert ==
  /\ Mutating
  /\ \/ DictionaryFallback
     \/ /\ Len(dict) > 0
        /\ \E choice \in 1 .. Len(dict), off \in Offsets :
           \E r \in mangle_Inflate(file, size, off, Len(dict[choice]), OnlyPrintable) :
             /\ file' = mangle_Overwrite(r.file, r.size, dict[choice], off, Len(dict[choice]))
             /\ size' = r.size
             /\ touched' = r.touched \cup Span(off, OverwriteLen(r.size, off, Len(dict[choice])))
  /\ LoopNext

mangle_MemMove ==
  /\ Mutating
  /\ \E off_from, off_to \in Offsets, len \in 0 .. size :
       /\ file' = mangle_Move(file, size, off_from, off_to, len)
       /\ touched' = MoveSpan(size, off_from, off_to, len)
  /\ UNCHANGED size
  /\ LoopNext

\* mangle_MemSet and mangle_MemSetWithVal.
mangle_MemSet ==
  /\ Mutating
  /\ \E val \in IF OnlyPrintable THEN RndPrintables ELSE RndBytes :
     \E off \in Offsets : \E sz \in 1 .. size - off :
       /\ file' = Fill(file, off, Rep(val, sz))
       /\ touched' = Span(off, sz)
  /\ UNCHANGED size
  /\ LoopNext

mangle_Random ==
  /\ Mutating
  /\ \E off \in Offsets : \E len \in 1 .. size - off :
     \E rnd \in RndBuf(len, OnlyPrintable) :
       /\ file' = Fill(file, off, rnd)
       /\ touched' = Span(off, len)
  /\ UNCHANGED size
  /\ LoopNext

\* A swap of two bytes, despite the name.
mangle_CloneByte ==
  /\ Mutating
  /\ \E off1, off2 \in Offsets :
       /\ file' = [file EXCEPT ![off1] = file[off2], ![off2] = file[off1]]
       /\ touched' = {off1, off2}
  /\ UNCHANGED size
  /\ LoopNext

mangle_Expand ==
  /\ Mutating
  /\ \E off \in Offsets : \E len \in 1 .. size - off :
     \E r \in mangle_Inflate(file, size, off, len, OnlyPrintable) :
       /\ file' = r.file
       /\ size' = r.size
       /\ touched' = r.touched
  /\ LoopNext

\* input_setSize to size - len first, then Move of the bytes from off + len
\* to off, measured against the new size.
mangle_Shrink ==
  /\ Mutating
  /\ \/ /\ size <= 1
        /\ touched' = {}
        /\ UNCHANGED <<file, size>>
     \/ /\ size > 1
        /\ \E len \in 1 .. size - 1 : \E off \in 0 .. len :
             LET ns == size - len
             IN  /\ size' = ns
                 /\ file' = mangle_Move(input_setSize(file, size, ns, FALSE), ns, off + len, off, ns)
                 /\ touched' = MoveSpan(ns, off + len, off, ns)
  /\ LoopNext

mangle_ASCIIVal ==
  /\ Mutating
  /\ \E n \in Rnd64Vals, off \in Offsets :
       /\ file' = mangle_Overwrite(file, size, Decimal(n), off, Len(Decimal(n)))
       /\ touched' = Span(off, OverwriteLen(size, off, Len(Decimal(n))))
  /\ UNCHANGED size
  /\ LoopNext

Next ==
  \/ NoMutations
  \/ mangle_Resize
  \/ mangle_Bit
  \/ mangle_Bytes
  \/ mangle_Magic
  \/ mangle_IncByte
  \/ mangle_DecByte
  \/ mangle_NegByte
  \/ mangle_AddSub
  \/ mangle_Dictionary
  \/ mangle_DictionaryInsert
  \/ mangle_MemMove
  \/ mangle_MemSet
  \/ mangle_Random
  \/ mangle_CloneByte
  \/ mangle_Expand
  \/ mangle_Shrink
  \/ mangle_ASCIIVal

\* mangleContent runs on one thread to completion: every enabled step of
\* the call is eventually taken.
Spec == Init /\ [][Next]_vars /\ WF_vars(Next)

-----------------------------------------------------------------------------
TypeOK ==
  /\ file \in [Cells -> Byte]
  /\ size \in Nat
  /\ pc \in {"start", "mutate", "done"}
  /\ left \in 0 .. MutationsPerRun
  /\ touched \subseteq Cells

\* The bytes of the file within its logical size, as a sequence.
Content == [i \in 1 .. size |-> file[i - 1]]

\* The refinement mapping onto the caller's view of a call: the buffer is
\* the file within its logical size, the budget the iterations left.
Session == INSTANCE MangleSession
             WITH buf <- Content, phase <- pc, budget <- left,
                  runMutations <- mutationsPerRun

AllPrintable(f, s) == \A i \in 0 .. s - 1 : Printable(f[i])

\* Spec 3.1/3.4: every clamp of Resize, Inflate and Shrink keeps the
\* size within [1, maxFileSz] before and after every operator.
SizeInRange == size \in 1 .. MaxFileSz

\* Spec 3.2: no operator reads or writes a byte at or past dynamicFileSz
\* (Overwrite's clamp, Move's early returns and length clamps, AddSub's
\* width fallback, and the printable fix-ups all contribute).
AccessInBounds == \A i \in touched : i < size

InPlacePrintable ==
  [][ OnlyPrintable /\ pc = "mutate" /\ size' = size /\ AllPrintable(file, size)
        => AllPrintable(file', size') ]_vars

\* Spec 3.3 and the operator table ("rotate within [0x20, 0x7E]"): in
\* printable mode every byte an operator writes is printable.  A byte a
\* size-keeping step changes is printable, or a copy of a byte already in
\* the buffer (MemMove and CloneByte only move the caller's bytes).  The
\* printable branches of IncByte, DecByte and NegByte evaluate C's % on an
\* int that is negative, or exceeds the range, for a non-printable input.
FreshBytesPrintable ==
  [][ OnlyPrintable /\ pc = "mutate" /\ size' = size =>
        \A i \in 0 .. size - 1 :
          file'[i] # file[i] =>
            \/ Printable(file'[i])
            \/ \E j \in 0 .. size - 1 : file'[i] = file[j] ]_vars

\* Every mangleContent call returns: the loop runs changesCnt times.
SessionTerminates == <>(pc = "done")

\* Spec 4.1 / scenario S4: Shrink removes a window of len bytes, the bytes
\* after it sliding left: the new content is the old with some window cut.
ShrinkRemovesWindow ==
  [][ pc = "mutate" /\ size' < size =>
        \E off \in 0 .. size' :
          Content' = SubSeq(Content, 1, off) \o SubSeq(Content, off + size - size' + 1, size) ]_vars

\* Spec 4.1: Inflate shifts the bytes from off right by len and fills the
\* gap: the old content is the new one with some window of len bytes cut.
InflateInserts ==
  [][ pc = "mutate" /\ size' > size =>
        \E off \in 0 .. size :
          Content = SubSeq(Content', 1, off) \o SubSeq(Content', off + size' - size + 1, size') ]_vars

\* mangleContent implements the contract of MangleSession: the early
\* return gives the input back unchanged; mangle_Resize keeps the prefix
\* and fills growth from the right RNG source (input_setSize's stale or
\* zero bytes never survive); exactly changesCnt in 1 .. mutationsPerRun
\* operators follow, none leaving the size outside 1 .. maxFileSz; and
\* the call returns.
SessionRefined == Session!Spec
=============================================================================
