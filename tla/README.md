# TLA+ models of the honggfuzz input mangler (`src/mangle.c`)

## 1. The system

`src/mangle.c` is honggfuzz's input mutator. Its only public entry point is
`mangle_mangleContent(run)`. It mutates the run's dynamic file in place. The
file is an mmap'd region: `run->dynamicFile`, with logical size
`run->dynamicFileSz` and capacity `maxFileSz`. The code runs on one thread per
run. Nothing inside it is concurrent, blocks or persists. What makes it hard is
arithmetic on offsets, lengths and bytes at their boundaries, and stacked calls
that each rely on the previous one having left the buffer consistent.

### Components, their state and operations

| Component | Code | State | Operations |
|---|---|---|---|
| Buffer primitives | `mangle_Overwrite` 42-49, `mangle_Move` 51-70, `mangle_Inflate` 72-87 | file bytes, `dynamicFileSz` | clamped overwrite; move that skips the last byte (`-1` clamp); grow at an offset |
| Primitive operators | 89-604 | same | Bit, Bytes, Magic, Inc/Dec/NegByte, AddSub, Dictionary, DictionaryInsert, MemMove, MemSet, Random, CloneByte, Expand, Shrink, ASCIIVal |
| Mutation session | `mangle_Resize` 562-596, `mangle_mangleContent` 606-638 | file, size, loop counter | early return if `run->mutationsPerRun == 0`; Resize; draw `changesCnt`; loop |
| Magic value table | 162-397 | constant | 221 (value, width) entries |
| Byte arithmetic | 430-532, 598-604 | none | wrapping add in both byte orders, printable-range rotations, decimal text |
| Collaborators (not in `src/`) | `input_setSize`, `util_rnd*`, `util_turnToPrintable` | size, RNG | modelled from the spec (`input_setSize`, `util_turnToPrintable`) or as nondeterministic choice (RNG) |

### How they interact

The session calls Resize, then `changesCnt` operators chosen uniformly. The
operators call the buffer primitives. Inflate and Shrink call `input_setSize`
*before* they move bytes. Every random draw comes from the RNG. All state is
shared through `run`.

### What is hard here

- Two primitives run in an order that matters. Inflate and Shrink resize
  first and then call Move against the *new* size. Together with Move's
  `size - off - 1` clamp, this decides which bytes survive.
- Clamps at the boundaries. Overwrite clamps to `size - off`. AddSub falls
  back to width 1. Resize uses signed `ssize_t` arithmetic, and its result
  may go below 1. Inflate stops at `maxFileSz`.
- Printable mode depends on every operator staying in `[0x20, 0x7E]`. The
  code does this with C `%` on `int` (which can be negative) and with
  `util_turnToPrintable`, which is not clamped to the size.
- AddSub does two's-complement wrapping addition at widths 1, 2, 4 and 8, in
  both byte orders.

### What makes each component correct (the properties)

- Buffer primitives and operators:
  - `1 <= size <= maxFileSz`.
  - No operator reads or writes at or past `size`.
  - Inflate inserts and Shrink deletes a window, as spec section 4.1 says.
  - Printable mode keeps the buffer printable.
- Session: every call returns after `changesCnt` operators.
- Byte arithmetic: AddSub is integer addition modulo `2^(8w)` in both byte
  orders.

## 2. Modules

| Module | Models |
|---|---|
| `MangleBytes.tla` | The magic table (`mangleMagicVals`, compared entry by entry with the C table when written), `U8`/`CRem` (C int→uint8 and `%`), the printable rotations, the carry-chain addition `AddLE` and `AddSubWord`, `Decimal` (libc's snprintf `%PRId64`, taken as given and not checked), and `util_turnToPrintable` (spec-modelled). |
| `Mangle.tla` | One call of `mangle_mangleContent`. |
| `MCMangle.tla` | Constants for the `MCMangle_*.cfg` runs. |
| `MCMangleBytes.tla` | A harness that applies AddSub steps to an int8/int16 and compares the bytes with integer reference arithmetic. |
| `MangleSession.tla` | The caller's contract of one `mangleContent` call (spec sections 3, 4.3, 5 and 8), over the logical contents only. Three actions: `Return` (input unchanged), `Begin` (resize that keeps the common prefix and fills growth from the RNG, printable when flagged, then a budget in `1..mutationsPerRun`), and `Step` (any contents of size `1..maxFileSz`, budget minus one). |
| `MCAddSubWide.tla` | A harness for the int32/int64 cases of AddSub. TLC's integers cannot hold them, so it checks the law that wrapping addition obeys: k steps in one byte order equal one step by the sum of the deltas. It starts from 0, -1, INT_MAX and INT_MIN in both byte orders. |

The state of `Mangle.tla`:
- `file` maps each cell of the mmap'd region, plus the 7 cells past its end
  (`Cells == 0..maxFileSz+6`), to a byte. This makes writes past the size, or
  past the region, observable.
- `size` is `dynamicFileSz`.
- `pc` is `"start"`, `"mutate"` or `"done"`.
- `left` is the number of loop iterations still to run.
- `mutationsPerRun` is `run->mutationsPerRun`.
- `dict` is the dictionary.
- `touched` is a history variable: the cells the last step read or wrote.

The actions:
- `NoMutations` is the early return.
- `mangle_Resize` is Resize plus the draw of `changesCnt`.
- `Session` in `Mangle.tla` instantiates `MangleSession` with the refinement
  mapping `buf <- Content`, `phase <- pc`, `budget <- left`,
  `runMutations <- mutationsPerRun`. `SessionRefined == Session!Spec`
  (with its fairness) is checked as a PROPERTY. The bytes past the size and
  `touched` are hidden.
- There is one action per operator. Each one is a whole loop iteration,
  including its helper calls, `turnToPrintable` and the `x++` (`LoopNext`).

Every `util_rndGet` or `util_rndBuf` becomes an `\E` over a small set.
`input_setSize` is not in `src/`. Following the spec ("fill undefined"), a
growth leaves the new bytes either stale or zero (the ftruncate case).

## 3. Runs

| Run | Cfg | Expect | Shows |
|---|---|---|---|
| raw | `MCMangle_raw.cfg` | pass | In non-printable mode, every clamp keeps the size in range. No operator reads or writes past the size. |
| printable | `MCMangle_printable.cfg` | pass | Each size-preserving operator maps a printable buffer to a printable one. This covers the rotations on printable bytes, `turnToPrintable`, and the printable RNG sources. The rotations are not exercised on non-printable bytes here; the fresh_printable run does that. |
| addsub | `MCMangleBytes_addsub.cfg` | pass | The carry-chain add and the byte-swapped path equal integer wrapping addition on int8/int16, over all 65,792 reachable values. For int8/int16 the C code has no undefined behaviour: the value is promoted to `int`, then converted back modulo 2^w. |
| session | `MCMangle_session.cfg` | pass | In printable mode, `Mangle` implements `MangleSession`. The early return keeps the input. Resize keeps the prefix, and no stale or zero byte from `input_setSize` survives its fill. Exactly `changesCnt` operators run, and the call returns. |
| addsub_wide | `MCAddSubWide.cfg` | pass | The int32/int64 cases of AddSub carry across all 4 or 8 bytes and undo their byte swaps. Three steps from each boundary value compose like addition modulo `2^(8w)`. |
| mismatch | `MCMangle_mismatch.cfg` | violation | The run's `mutationsPerRun` is 1 and the global one is 0. The call passes the early return, then has no `changesCnt` to draw (`util_rndGet(1, 0)`), so it never returns. |
| dict_printable | `MCMangle_dict_printable.cfg` | violation | In printable mode, Dictionary writes a non-printable entry verbatim into a printable buffer. |
| magic_oob | `MCMangle_magic_oob.cfg` | violation | In printable mode, Magic's unclamped `util_turnToPrintable` reads and writes past `dynamicFileSz`. |
| printable_kept | `MCMangle_printable_kept.cfg` | violation | In printable mode, Expand leaves an unprintable zero byte at the end of a printable buffer. |
| shrink | `MCMangle_shrink.cfg` | violation | Shrink does not remove a window as in scenario S4. |
| inflate | `MCMangle_inflate.cfg` | violation | Inflate/Expand loses the last byte instead of inserting. |
| fresh_printable | `MCMangle_fresh_printable.cfg` | violation | In printable mode, IncByte turns the non-printable input byte `00` into `01`, not into a byte of `[0x20, 0x7E]`. |

### Bounds

| Bound | Value | Why |
|---|---|---|
| `maxFileSz` | 4 | Gives AddSub's 4-byte width, Shrink/Expand on both sides, and Resize's ±8 clamps at both ends. The session, mismatch, dict_printable and fresh_printable runs use 2. |
| `mutationsPerRun` | 2, entry values {0, 2} | Two stacked operators after Resize: a size change followed by a use. |
| Byte sets | `{00, FF}` raw, `{20, 7E}` printable, `{00, 20}` mixed (fresh_printable) | The edges of the byte and printable ranges. The mixed set is an input that is not all printable, which spec 8.3 allows for. |
| Deltas | ±1, ±4096 | The smallest and largest deltas. |
| ASCIIVal | 1-, 3- and 5-character texts (one negative) | The 5-character text overruns the file. |
| Magic entries | one each of widths 1, 2, 4 and 8 | The wide ones overhang the end of the file. |
| Dictionary | empty (the Bit fallback), or entries of lengths 1 and 2 | Covers the fallback and entries that fit or overhang. |

The session and mismatch runs use `maxFileSz` 2 because they check
liveness. Growth and shrink by Resize, and both clamps, still
happen at that size. In the `Mangle` runs, AddSub's 8-byte width needs a file
of 8 bytes, which TLC cannot explore. `MCAddSubWide` checks that arithmetic
on its own instead, taking at most 3 steps (`MaxSteps`) from every boundary
value of int32 and int64, in both byte orders. Overflow of `val += delta` on
int32/int64 is undefined in C. On a local copied in by `memcpy`, the build
emits a plain two's-complement add, so the wrapped value is the one outcome
modelled.

Each property of a passing run has a mutant: a plausible bug in the code it
is about, which TLC must find. The mutants used are:
- Resize without its floor;
- Overwrite without its clamp;
- the loop running one time too many;
- NegByte's printable branch dropped;
- `util_rndBuf` used where `util_rndBufPrintable` belongs;
- the foreign-endianness path of AddSub without its second byte swap.

### Fairness

`WF_vars(Next)`: `mangleContent` is a straight-line loop on one thread, so an
enabled step is always taken. The session and mismatch runs check
liveness. Termination on its own is not a separate run: the loop counter is
touched by no operator. The session run checks the abstract `WF_absvars(Next)` of
`MangleSession` under the concrete fairness.

## 4. Findings

- **Shrink** calls `input_setSize(size - len)` *before*
  `mangle_Move(off + len, off, dynamicFileSz)`. The source of the move lies at
  or past the new size, so `mangle_Move` returns early, or its clamps drop
  bytes. The file is truncated, not cut. For example, `[00 FF 00 00]` with
  len=1, off=0 becomes `[FF FF 00]`, where S4 would give `[FF 00 00]`.
- **Inflate** shifts only `size - off - len - 1` bytes, because of Move's `-1`
  clamp. The original last byte is lost, and the new last byte is whatever
  `input_setSize` left. For example, `[00 FF]` with off=0, len=1 becomes
  `[00 00 00]`. In printable mode that leftover byte is a non-printable zero.
  For example, `[20]` expanded at off 0 by 1 becomes `[20 00]`
  (printable_kept run).
- **Magic** calls `util_turnToPrintable(&file[off], size)` with the entry's
  full width, not the clamped one. In printable mode it reads, and may
  rewrite, up to 7 bytes past `dynamicFileSz`, and past the mapping when the
  file is full.
- **changesCnt** is drawn from `run->global->mutate.mutationsPerRun` (line
  633), but the early return tests `run->mutationsPerRun` (line 626). Spec
  4.3 has one bound. If the run's value is non-zero and the global one is 0,
  `util_rndGet(1, 0)` is called with min > max, and the call does not return
  (mismatch run). Whether the caller, which is not in this repository, can
  reach that combination cannot be seen from here. The model draws
  `changesCnt` in the same step as Resize, so its trace stops before the
  resize the code performs ahead of the abort.
- **IncByte, DecByte and NegByte in printable mode** compute with C's `%` on
  an `int` (lines 510, 519 and 528). For a non-printable byte the result can
  be negative, or past the range, so the byte stays non-printable. For
  example, IncByte turns `00` into `01` (fresh_printable run). The spec's
  operator table says these operators rotate within `[0x20, 0x7E]`, and spec
  3.3 says every byte written is printable. Spec 8.3 promises printability
  only for a printable input, and the code keeps that weaker promise.
- **Dictionary** and DictionaryInsert ignore the printable flag and write the
  entry verbatim (line 149). Spec 3.3 and 8.3 say printable mode writes only
  bytes in `[0x20, 0x7E]`. A dictionary entry `00 FF` turns the printable
  `[20]` into `[00]` (dict_printable run).
- The spec says the magic table has 220 entries. The code has 221. Each BE
  group has 30 entries, where the spec says 27 for the 2-byte group and 31 for
  the 4- and 8-byte groups. The model uses the code's table. A constant-level
  check cannot be a TLC run, so this is noted here only.

## 5. Plan

Done: the core model, the session refinement (`MangleSession`), the
int32/int64 AddSub check, and runs for every
listed hazard (including the `mutationsPerRun` mismatch and the
dictionary's verbatim write). The two items still open were weighed and
left out, for the reasons given in section 6 (`MangleSeq`, repeated calls).

## 6. Not modelled

- The RNG is a nondeterministic choice, not a distribution.
- Uniform operator choice and weights are not modelled.
- Logging (`LOG_F` paths only fire on impossible draws).
- Dictionary loading, and the file I/O behind `input_setSize`.
- **A sequence-edit refinement (`MangleSeq`).** Spec section 4 as insert,
  delete and in-place rewrite would add nothing checkable beyond what the
  runs show. The in-place operators meet it as soon as `AccessInBounds`
  holds. Inflate and Shrink do not meet it, which the inflate and shrink
  violation runs already demonstrate.
- **Repeated calls on one context.** Between calls the caller (not in
  `src/`) reloads the input. The only state a call leaves for the next one
  is the bytes past the size. No passing property depends on those bytes:
  - size and access bounds do not read them;
  - Resize's growth overwrites them;
  - Magic's printable fix-up only rewrites them.
  `Init`'s zero tail is itself a state the region can be in, after an
  `ftruncate` extension, and it is the worst case for printability. So a
  second call would change no verdict.
- **AddSub's 8-byte width inside `Mangle`.** It needs an 8-byte file.
  `MCAddSubWide` checks that arithmetic on its own instead.
