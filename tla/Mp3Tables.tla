----------------------------- MODULE Mp3Tables ------------------------------
(***************************************************************************)
(* helix/mp3tabs.c, as far as other modules use it: the length of a frame  *)
(* and of its side information, and the first coefficient of each band.    *)
(*                                                                         *)
(* A header is a record with its version ("mpeg1", "mpeg2" or "mpeg25"),   *)
(* its sample rate index srIdx, its bitrate index brIdx (0 is "free"), and *)
(* whether it has a CRC, a padding byte and one channel.                   *)
(***************************************************************************)
EXTENDS Integers

MAX_NSAMP == 576   \* samples of a channel in a granule

Slots44 == <<0, 104, 130, 156, 182, 208, 261, 313, 365, 417, 522, 626, 731, 835, 1044>>
Slots48 == <<0, 96, 120, 144, 168, 192, 240, 288, 336, 384, 480, 576, 672, 768, 960>>
Slots32 == <<0, 144, 180, 216, 252, 288, 360, 432, 504, 576, 720, 864, 1008, 1152, 1440>>
Slots22 == <<0, 26, 52, 78, 104, 130, 156, 182, 208, 261, 313, 365, 417, 470, 522>>
Slots24 == <<0, 24, 48, 72, 96, 120, 144, 168, 192, 240, 288, 336, 384, 432, 480>>
Slots16 == <<0, 36, 72, 108, 144, 180, 216, 252, 288, 360, 432, 504, 576, 648, 720>>
Slots11 == <<0, 52, 104, 156, 208, 261, 313, 365, 417, 522, 626, 731, 835, 940, 1044>>
Slots12 == <<0, 48, 96, 144, 192, 240, 288, 336, 384, 480, 576, 672, 768, 864, 960>>
Slots8 == <<0, 72, 144, 216, 288, 360, 432, 504, 576, 720, 864, 1008, 1152, 1296, 1440>>

\* Rows by sample rate index, columns by bitrate index, both from 0 in the code.
slotTab == [mpeg1 |-> <<Slots44, Slots48, Slots32>>,
            mpeg2 |-> <<Slots22, Slots24, Slots16>>,
            mpeg25 |-> <<Slots11, Slots12, Slots8>>]

SideBytes(mpeg1, mono) == IF mpeg1 THEN IF mono THEN 17 ELSE 32 ELSE IF mono THEN 9 ELSE 17

sfBandTable == [
  mpeg1_44 |-> [mpeg1 |-> TRUE,
    l |-> <<0, 4, 8, 12, 16, 20, 24, 30, 36, 44, 52, 62, 74, 90, 110, 134, 162, 196, 238, 288, 342, 418, 576>>,
    s |-> <<0, 4, 8, 12, 16, 22, 30, 40, 52, 66, 84, 106, 136, 192>>],
  mpeg2_22 |-> [mpeg1 |-> FALSE,
    l |-> <<0, 6, 12, 18, 24, 30, 36, 44, 54, 66, 80, 96, 116, 140, 168, 200, 238, 284, 336, 396, 464, 522, 576>>,
    s |-> <<0, 4, 8, 12, 18, 24, 32, 42, 56, 74, 100, 132, 174, 192>>],
  mpeg25_8 |-> [mpeg1 |-> FALSE,
    l |-> <<0, 12, 24, 36, 48, 60, 72, 88, 108, 132, 160, 192, 232, 280, 336, 400, 476, 566, 568, 570, 572, 574, 576>>,
    s |-> <<0, 8, 16, 24, 36, 52, 72, 96, 124, 160, 162, 164, 166, 192>>]]

----------------------------------------------------------------------------
Versions == {"mpeg1", "mpeg2", "mpeg25"}
Headers == [ver : Versions, srIdx : 0..2, brIdx : 0..14, crc : BOOLEAN, pad : BOOLEAN, mono : BOOLEAN]

\* UnpackFrameHeader() and UnpackSideInfo(): the bytes before the main data.
fhBytes(h) == IF h.crc THEN 6 ELSE 4
siBytes(h) == SideBytes(h.ver = "mpeg1", h.mono)
HeadBytes(h) == fhBytes(h) + siBytes(h)
CheckPadBit(h) == IF h.pad THEN 1 ELSE 0

\* The main data bytes of a frame whose bitrate is in the table.
TableSlots(h) == slotTab[h.ver][h.srIdx + 1][h.brIdx + 1] - HeadBytes(h) + CheckPadBit(h)
=============================================================================
