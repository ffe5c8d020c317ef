------------------------------ MODULE MCMangle ------------------------------
(***************************************************************************)
(* Model-checking instance of Mangle: constant values for the .cfg files. *)
(***************************************************************************)
EXTENDS Mangle

\* A file of up to 4 bytes: AddSub's 4-byte width fits, Shrink and Expand
\* have room on both sides, and the clamps of Resize (+/-8) all bite.
MCMaxFileSz == 4

\* A smaller file for the liveness check, whose behaviour graph is costly.
MCSmallFileSz == 2

\* Byte values chosen at the boundaries the operators treat differently.
MCRawBytes == {\h00, \hFF}
MCPrintBytes == {\h20, \h7E}

\* No dictionary (the Bit fallback) and one with entries of length 1 and 2.
MCRawDictionaries == {<<>>, << <<\h41>>, <<\h00, \hFF>> >>}
MCPrintDictionaries == {<<>>, << <<\h41>>, <<\h20, \h7E>> >>}

\* Deltas at both ends of [-4096, 4096] and around zero.
MCDeltas == {-4096, -1, 1, 4096}

\* Decimal texts of 1, 3 and 5 characters, one negative.
MCRnd64Vals == {7, -42, 12345}

\* Magic entries: 1-byte 0x00, 2-byte FF FF (NE), 4-byte 00 00 00 C0 (BE)
\* and 8-byte FE FF..FF (LE); the wide ones overhang the end of the file.
\* 0x00 and 0xC0 are outside the printable range.

\* An input holding a non-printable byte next to a printable one.
MCMixedBytes == {\h00, \h20}
MCMagicChoices == {1, 30, 118, 221}
=============================================================================
