---------------------------- MODULE MangleSession ---------------------------
(***************************************************************************)
(* What one mangleContent call promises its caller (spec sections 3, 4.3, *)
(* 5 and 8), with the buffer seen only through its logical contents:      *)
(*  - with mutationsPerRun = 0 the buffer is returned byte-identical;     *)
(*  - otherwise the call resizes once, keeping the common prefix and       *)
(*    filling any growth with random bytes (printable when flagged),       *)
(*  - then applies between 1 and mutationsPerRun operators, each leaving  *)
(*    a buffer of 1 .. maxFileSz bytes, and returns.                       *)
(***************************************************************************)
EXTENDS Integers, Sequences

CONSTANTS MaxFileSz, MutationsPerRun, OnlyPrintable

VARIABLES
  buf,          \* the bytes of the file within its logical size
  phase,        \* "start", "mutate" or "done"
  budget,       \* operators still to apply
  runMutations  \* run->mutationsPerRun

absvars == <<buf, phase, budget, runMutations>>

AnyByte == 0 .. 255

\* The bytes a fresh random fill may hold.
FillBytes == IF OnlyPrintable THEN 32 .. 126 ELSE AnyByte

Sizes == 1 .. MaxFileSz

Init ==
  /\ \E n \in Sizes : buf \in [1 .. n -> AnyByte]
  /\ phase = "start"
  /\ budget = 0
  /\ runMutations \in Nat

\* No mutations: the input comes back unchanged.
Return ==
  /\ phase = "start"
  /\ runMutations = 0
  /\ phase' = "done"
  /\ UNCHANGED <<buf, budget, runMutations>>

\* The resize: any new size, the prefix both sizes share kept, the growth
\* fresh; then the number of operators to apply.
Begin ==
  /\ phase = "start"
  /\ runMutations # 0
  /\ \E n \in Sizes :
       LET kept == IF n < Len(buf) THEN n ELSE Len(buf)
       IN  \E growth \in [1 .. n - kept -> FillBytes] :
             buf' = SubSeq(buf, 1, kept) \o growth
  /\ budget' \in 1 .. MutationsPerRun
  /\ phase' = "mutate"
  /\ UNCHANGED runMutations

\* One operator: any contents of an allowed size.
Step ==
  /\ phase = "mutate"
  /\ budget > 0
  /\ \E n \in Sizes : buf' \in [1 .. n -> AnyByte]
  /\ budget' = budget - 1
  /\ phase' = IF budget' = 0 THEN "done" ELSE "mutate"
  /\ UNCHANGED runMutations

Next == Return \/ Begin \/ Step

\* The call runs to completion.
Spec == Init /\ [][Next]_absvars /\ WF_absvars(Next)
=============================================================================
