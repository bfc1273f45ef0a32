--------------------------- MODULE Mp3Filterbank ----------------------------
(***************************************************************************)
(* helix/subband.c, the output of dct32.c and polyphase.c: the FIFO of the *)
(* last 16 blocks that the synthesis filter runs over.  It is twice as     *)
(* long as its contents so that nobody has to wrap an index, even and odd  *)
(* blocks have a half each, and a part of every block goes to the half of  *)
(* the next.                                                               *)
(*                                                                         *)
(* vbuf is rows of 64 cells, 32 of them for a channel.  A cell holds the   *)
(* number of the block it was written for and the part: the samples 17 to  *)
(* 31 and 16 of a block are "lo", 16 down to 1 "hi", sample 0 is "zero".   *)
(***************************************************************************)
EXTENDS Integers

CONSTANT MaxBlocks   \* bound on the blocks of a stream

VARIABLES
  vbuf,     \* [half, row, cell] -> what was written there last: <<channel, block, part>>
  vindex,
  blockCount,  \* blocks so far
  nChans,   \* channels of the stream
  taps      \* what the filter read for the last block: [row, tap, side] -> a cell
filterVars == <<vbuf, vindex, blockCount, nChans, taps>>

\* Rows 1 to 15 are treated alike: row 1 stands for them, 0 and 16 are special.
Rows == {0, 1, 16}

Zero == <<0, -1, "lo">>   \* a place nothing was written to
oddBlock == blockCount % 2

----------------------------------------------------------------------------
(* FDCT32: where a block of a channel is written.                          *)

\* Seeded fault: the late parts go to the cells of the block itself.
LateNow(offset, odd) == offset

\* The samples 0 to 16 are for the next block, whose offset is one less after
\* an odd block.
Late(offset, odd) == (offset - odd) % 8

Written(ch, offset, odd) ==
  LET twice(half, row, at, part) ==
        {<<half, row, 32 * ch + at + d>> : d \in {0, 8}} \X {<<ch, blockCount, part>>}
  IN twice(1 - odd, 16, Late(offset, odd), "zero")
       \cup UNION {twice(odd, row, offset, "lo") \cup twice(1 - odd, row, 16 + Late(offset, odd), "hi") :
                     row \in Rows \ {16}}

FDCT32(buffer, ch, offset, odd) ==
  LET written == Written(ch, offset, odd)
      places == {w[1] : w \in written}
  IN [p \in places \cup DOMAIN buffer |->
        IF p \in places THEN (CHOOSE w \in written : w[1] = p)[2] ELSE buffer[p]]

----------------------------------------------------------------------------
(* PolyphaseMono, PolyphaseStereo: the cells read from the start on.       *)

\* vLo and vHi of the taps 0 to 7; row 16 has no vHi.
Polyphase(buffer, channels, start, half) ==
  [t \in {t \in (0..(channels - 1)) \X Rows \X (0..7) \X {"lo", "hi"} : t[2] = 16 => t[4] = "lo"} |->
     LET place == <<half, t[2], 32 * t[1] + start + (IF t[4] = "lo" THEN t[3] ELSE 23 - t[3])>>
     IN IF place \in DOMAIN buffer THEN buffer[place] ELSE Zero]

----------------------------------------------------------------------------
FilterInit ==
  /\ vbuf = <<>>
  /\ vindex = 0
  /\ blockCount = 0
  /\ nChans \in 1..2
  /\ taps = <<>>

\* One of the BLOCK_SIZE blocks of a granule; that is even, so a granule starts
\* with an even block.
Subband ==
  /\ blockCount < MaxBlocks
  /\ \E left \in {FDCT32(vbuf, 0, vindex, oddBlock)} :
     \E filled \in {IF nChans = 2 THEN FDCT32(left, 1, vindex, oddBlock) ELSE left} :
       /\ vbuf' = filled
       /\ taps' = Polyphase(filled, nChans, vindex, oddBlock)
  /\ vindex' = (vindex - oddBlock) % 8
  /\ blockCount' = blockCount + 1
  /\ UNCHANGED nChans

FilterNext == Subband
FilterSpec == FilterInit /\ [][FilterNext]_filterVars

----------------------------------------------------------------------------
(* Property.                                                               *)

\* The synthesis filter gets the last 16 blocks, each at its own tap and each
\* of its own channel: the even taps back in time from the block just written,
\* the odd ones from the block before (Subband(), FDCT32(), PolyphaseStereo()).
TapsInOrder ==
  taps # <<>> =>
    \A t \in DOMAIN taps :
      LET age == IF t[2] = 16 THEN 2 * t[3] + 1 ELSE IF t[4] = "lo" THEN 2 * t[3] ELSE 15 - 2 * t[3]
          written == blockCount - 1 - age
      IN taps[t] = IF written < 0 THEN Zero
                   ELSE <<t[1], written, IF t[2] = 16 THEN "zero" ELSE t[4]>>
=============================================================================
