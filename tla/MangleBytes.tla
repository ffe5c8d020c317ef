---------------------------- MODULE MangleBytes ----------------------------
(***************************************************************************)
(* Pure byte-level algorithms used by the operators of src/mangle.c:       *)
(* the magic value table of mangle_Magic, the wrapping add of              *)
(* mangle_AddSubWithRange in both byte orders, the printable-range         *)
(* arithmetic of Inc/Dec/NegByte, decimal formatting of mangle_ASCIIVal    *)
(* and util_turnToPrintable (a collaborator, modelled from the spec).     *)
(* Bytes are naturals in 0..255; a multi-byte value is a sequence of       *)
(* bytes in memory order (index 1 = lowest address).                       *)
(***************************************************************************)
EXTENDS Integers, Sequences, SequencesExt

Byte == 0 .. 255

\* Conversion of an int to uint8_t on assignment to a buffer byte.
U8(x) == x % 256

\* C's % on int: the result takes the sign of the dividend.
CRem(a, n) == IF a >= 0 THEN a % n ELSE -((-a) % n)

Printable(b) == b \in 32 .. 126

(***************************************************************************)
(* util_turnToPrintable(ptr, len): every byte outside [0x20, 0x7E] becomes *)
(* b % 95 + 0x20.  It reads and may write all len bytes from off, with no  *)
(* regard for the buffer's logical size.                                   *)
(***************************************************************************)
ToPrintable(b) == IF Printable(b) THEN b ELSE (b % 95) + 32

TurnToPrintable(f, off, len) ==
  [i \in DOMAIN f |-> IF i \in off .. off + len - 1 THEN ToPrintable(f[i]) ELSE f[i]]

(***************************************************************************)
(* mangle_IncByte / DecByte / NegByte in printable mode, evaluated in C    *)
(* int arithmetic (the byte is promoted to int) and stored back as uint8.  *)
(***************************************************************************)
IncPrintable(b) == U8(CRem(b - 32 + 1, 95) + 32)
DecPrintable(b) == U8(CRem(b - 32 + 94, 95) + 32)
\* Bug variant: the non-printable ~b used in printable mode too.
NegPrintableRaw(b) == U8(255 - b)
NegPrintable(b) == U8(94 - (b - 32) + 32)

(***************************************************************************)
(* Two's complement, wrapping addition of an int delta to a little-endian  *)
(* integer held in a byte sequence: the  val += delta  of int8/16/32/64 in *)
(* mangle_AddSubWithRange.  Computed byte by byte with a carry so that the *)
(* 64-bit case stays within TLC's integers.                                *)
(***************************************************************************)
RECURSIVE LEBytes(_, _)
\* The w low bytes of d in two's complement, least significant first.
LEBytes(d, w) ==
  IF w = 0 THEN <<>>
  ELSE <<d % 256>> \o LEBytes((d - (d % 256)) \div 256, w - 1)

RECURSIVE AddCarry(_, _, _)
AddCarry(a, b, c) ==
  IF a = <<>> THEN <<>>
  ELSE LET s == Head(a) + Head(b) + c
       IN  <<s % 256>> \o AddCarry(Tail(a), Tail(b), s \div 256)

AddLE(bytes, delta) == AddCarry(bytes, LEBytes(delta, Len(bytes)), 0)

\* Bug variant: the foreign path's second bswap missing, so the sum is
\* stored in swapped byte order.
AddSubWordNoSwapBack(bytes, delta, native) ==
  IF native THEN AddLE(bytes, delta)
  ELSE AddLE(Reverse(bytes), delta)

\* One width case of mangle_AddSubWithRange: the native (x86, little
\* endian) path adds directly; the foreign path byte-swaps, adds, swaps back.
AddSubWord(bytes, delta, native) ==
  IF native THEN AddLE(bytes, delta)
  ELSE Reverse(AddLE(Reverse(bytes), delta))

(***************************************************************************)
(* snprintf(buf, 32, "%" PRId64, n): the ASCII codes of n in decimal.      *)
(***************************************************************************)
RECURSIVE Digits(_)
Digits(n) == IF n < 10 THEN <<48 + n>> ELSE Digits(n \div 10) \o <<48 + (n % 10)>>

Decimal(n) == IF n < 0 THEN <<45>> \o Digits(-n) ELSE Digits(n)

(***************************************************************************)
(* mangleMagicVals: records of an 8-byte value and the number of its      *)
(* leading bytes that are written, in the order of the source table.      *)
(***************************************************************************)
MagicSingles == << \h00, \h01, \h02, \h03, \h04, \h05, \h06, \h07, \h08, \h09,
                   \h0A, \h0B, \h0C, \h0D, \h0E, \h0F, \h10, \h20, \h40, \h7E,
                   \h7F, \h80, \h81, \hC0, \hFE, \hFF >>

Rep(b, n) == [i \in 1 .. n |-> b]

Magic(bytes) == [val |-> bytes \o Rep(0, 8 - Len(bytes)), size |-> Len(bytes)]

\* "NE" group of width n: the bytes 00, 01, 80 and FF repeated.
MagicNE(n) == [k \in 1 .. 4 |-> Magic(Rep(<<\h00, \h01, \h80, \hFF>>[k], n))]

\* "BE" group: 00..00 m for every single magic but 00, then five boundaries.
MagicBE(n) ==
  [k \in 1 .. 25 |-> Magic(Rep(0, n - 1) \o <<MagicSingles[k + 1]>>)]
  \o << Magic(<<\h7E>> \o Rep(\hFF, n - 1)), Magic(<<\h7F>> \o Rep(\hFF, n - 1)),
        Magic(<<\h80>> \o Rep(0, n - 1)),
        Magic(<<\h80>> \o Rep(0, n - 2) \o <<\h01>>),
        Magic(Rep(\hFF, n - 1) \o <<\hFE>>) >>

\* "LE" group: m 00..00 for every single magic, then five boundaries.
MagicLE(n) ==
  [k \in 1 .. 26 |-> Magic(<<MagicSingles[k]>> \o Rep(0, n - 1))]
  \o << Magic(Rep(\hFF, n - 1) \o <<\h7E>>), Magic(Rep(\hFF, n - 1) \o <<\h7F>>),
        Magic(Rep(0, n - 1) \o <<\h80>>),
        Magic(<<\h01>> \o Rep(0, n - 2) \o <<\h80>>),
        Magic(<<\hFE>> \o Rep(\hFF, n - 1)) >>

mangleMagicVals ==
  [k \in 1 .. 26 |-> Magic(<<MagicSingles[k]>>)]
  \o MagicNE(2) \o MagicBE(2) \o MagicLE(2)
  \o MagicNE(4) \o MagicBE(4) \o MagicLE(4)
  \o MagicNE(8) \o MagicBE(8) \o MagicLE(8)
=============================================================================
