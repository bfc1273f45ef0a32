------------------------------- MODULE Mp3Bits ------------------------------
(***************************************************************************)
(* How the MP3 decoder reads fields of bits: the reader of                 *)
(* helix/bitstream.c, the side information of a frame, and the scale       *)
(* factors of helix/scalfact.c.                                            *)
(*                                                                         *)
(* Only where a bit comes from matters here, never whether it is set: a    *)
(* bit of the buffer is its number, from 1 on, and 0 is a bit shifted into *)
(* the cache.  What was read is the sequence of its bits.                  *)
(***************************************************************************)
EXTENDS Integers, Sequences, Mp3Tables

CONSTANTS
  ReaderBytes,  \* lengths of the buffers of the "draws"
  Draws,        \* lengths of the fields drawn there
  FactorCodes,  \* codes for the lengths of scale factors
  FactorOffsets \* bits of its first byte before a block

\* GetBits() takes 0 to 31 bits, as the comment on it says; a code has four bits, and nine in MPEG-2.
ASSUME ReaderAssumption ==
  /\ ReaderBytes \subseteq Nat /\ Draws \subseteq 0..31
  /\ FactorCodes \subseteq 0..511 /\ FactorOffsets \subseteq 0..7

VARIABLES
  reading,   \* what is read: "draws", "side" or "factors"
  bsi,       \* the reader, BitStreamInfo
  drawn,     \* bits asked for so far
  length,    \* bytes of the buffer
  toRead,    \* lengths of the fields to come
  block,     \* whose scale factors are read
  fields     \* the bits that were read: for "draws" those of the last field, else of all
readerVars == <<reading, bsi, drawn, length, toRead, block, fields>>

NoBlock == [version |-> "none"]

----------------------------------------------------------------------------
(* bitstream.c: a cache of 32 bits, filled four bytes at a time.           *)

NoBit == 0
Clash == -1   \* two bits of the buffer in one place
EmptyCache == [k \in 1..32 |-> NoBit]
BitIn(iCache, k) == IF k \in 1..32 THEN iCache[k] ELSE NoBit
ShiftLeft(iCache, n) == SubSeq(iCache, n + 1, 32) \o [k \in 1..n |-> NoBit]
Or(a, b) == IF NoBit \in {a, b} THEN a + b ELSE Clash

SetBitstreamPointer(nBytes, buf) ==
  [bytePtr |-> buf, iCache |-> EmptyCache, cachedBits |-> 0, nBytes |-> nBytes]

\* Seeded fault: the tail of the buffer is not moved to the top of the cache.
RefillTailLow(r) ==
  LET n == IF r.nBytes >= 4 THEN 4 ELSE r.nBytes
  IN [bytePtr |-> r.bytePtr + n,
      iCache |-> [k \in 1..32 |-> IF k > 32 - 8 * n THEN 8 * r.bytePtr + k - (32 - 8 * n) ELSE NoBit],
      cachedBits |-> 8 * n,
      nBytes |-> r.nBytes - n]

RefillBitstreamCache(r) ==
  LET n == IF r.nBytes >= 4 THEN 4 ELSE r.nBytes
  IN [bytePtr |-> r.bytePtr + n,
      iCache |-> [k \in 1..32 |-> IF k <= 8 * n THEN 8 * r.bytePtr + k ELSE NoBit],
      cachedBits |-> 8 * n,
      nBytes |-> r.nBytes - n]

Discard(r, n) ==
  [bytePtr |-> r.bytePtr, iCache |-> ShiftLeft(r.iCache, n), cachedBits |-> r.cachedBits - n, nBytes |-> r.nBytes]

\* The field and the reader after it.
GetBits(r, nBits) ==
  LET n == nBits % 32
      lowBits == n - r.cachedBits
      next == RefillBitstreamCache(r)
  IN IF lowBits <= 0
     THEN [data |-> SubSeq(r.iCache, 1, n), bsi |-> Discard(r, n)]
     ELSE [data |-> [k \in 1..n |-> Or(r.iCache[k], BitIn(next.iCache, lowBits - n + k))],
           bsi |-> Discard(next, lowBits)]

CalcBitsUsed(r, startBuf, startOffset) ==
  (r.bytePtr - startBuf) * 8 - r.cachedBits - startOffset

----------------------------------------------------------------------------
(* UnpackSideInfo: the lengths of the fields in the order they are read.   *)

SideFields(mpeg1, winSwitchFlag) ==
  <<12, 9, 8, IF mpeg1 THEN 4 ELSE 9, 1>>
    \o (IF winSwitchFlag THEN <<2, 1, 5, 5, 3, 3, 3>> ELSE <<5, 5, 5, 4, 3>>)
    \o (IF mpeg1 THEN <<1, 1, 1>> ELSE <<1, 1>>)

\* switches: winSwitchFlag of each granule and channel, granule by granule.
UnpackSideInfo(mpeg1, mono, switches) ==
  LET sis(i) == SideFields(mpeg1, switches[i])
      granule(gr) == IF mono THEN sis(gr) ELSE sis(2 * gr - 1) \o sis(2 * gr)
  IN (IF mpeg1 THEN <<9, IF mono THEN 5 ELSE 3>> \o [i \in 1..(IF mono THEN 4 ELSE 8) |-> 1]
      ELSE <<8, IF mono THEN 1 ELSE 2>>)
       \o granule(1) \o (IF mpeg1 THEN granule(2) ELSE <<>>)

Subblocks(mpeg1, mono) == (IF mpeg1 THEN 2 ELSE 1) * (IF mono THEN 1 ELSE 2)

----------------------------------------------------------------------------
(* scalfact.c.  An entry is <<"l", band>> or <<"s", band, window>>; a step *)
(* of the functions reads an entry from some bits, or copies it from       *)
(* granule 0, or clears it.                                                *)

SFLenTab == << <<0, 0>>, <<0, 1>>, <<0, 2>>, <<0, 3>>, <<3, 0>>, <<1, 1>>, <<1, 2>>, <<1, 3>>,
               <<2, 1>>, <<2, 2>>, <<2, 3>>, <<3, 1>>, <<3, 2>>, <<3, 3>>, <<4, 2>>, <<4, 3>> >>

NRTab == << << <<6, 5, 5, 5>>, <<3, 3, 3, 3>>, <<6, 3, 3, 3>> >>,
            << <<6, 5, 7, 3>>, <<3, 3, 4, 2>>, <<6, 3, 4, 2>> >>,
            << <<11, 10, 0, 0>>, <<6, 6, 0, 0>>, <<6, 3, 6, 0>> >>,
            << <<7, 7, 7, 0>>, <<4, 4, 4, 0>>, <<6, 5, 4, 0>> >>,
            << <<6, 6, 6, 3>>, <<4, 3, 3, 2>>, <<6, 4, 3, 2>> >>,
            << <<8, 8, 5, 0>>, <<5, 4, 3, 0>>, <<6, 6, 3, 0>> >> >>

\* Bands from to upto - 1, read with slen bits each.
Long(from, upto, slen) == [i \in 1..(upto - from) |-> [entry |-> <<"l", from + i - 1>>, bits |-> slen]]
Short(from, upto, slen) ==
  [i \in 1..(3 * (upto - from)) |->
     [entry |-> <<"s", from + (i - 1) \div 3, (i - 1) % 3>>, bits |-> slen]]
Copied == -1
Cleared == -2
LastLong == Long(21, 23, Cleared)
LastShort == Short(12, 13, Cleared)

\* sfCompress, blockType 2 or not, mixedBlock, the granule and its scfsi.
UnpackSFMPEG1(sis, gr, scfsi) ==
  LET slen0 == SFLenTab[sis.sfCompress + 1][1]
      slen1 == SFLenTab[sis.sfCompress + 1][2]
      Band(i, from, upto, slen) == Long(from, upto, IF scfsi[i] THEN Copied ELSE slen)
  IN IF sis.short
     THEN (IF sis.mixedBlock THEN Long(0, 8, slen0) \o Short(3, 6, slen0) ELSE Short(0, 6, slen0))
            \o Short(6, 12, slen1) \o LastShort
     ELSE IF gr = 0
     THEN Long(0, 11, slen0) \o Long(11, 21, slen1)
     ELSE Band(1, 0, 6, slen0) \o Band(2, 6, 11, slen0) \o Band(3, 11, 16, slen1)
            \o Band(4, 16, 21, slen1) \o LastLong

\* slen[] and the row of NRTab, from 0, of a code for scale factor lengths.
SlenMPEG2(sis) ==
  LET c == sis.sfCompress
  IN IF c < 400 THEN [slen |-> <<(c \div 16) \div 5, (c \div 16) % 5, (c % 16) \div 4, c % 4>>, row |-> 0]
     ELSE IF c < 500
     THEN [slen |-> <<((c - 400) \div 4) \div 5, ((c - 400) \div 4) % 5, c % 4, 0>>, row |-> 1]
     ELSE LET a == (c - 500) \div 3  b == (c - 500) % 3
          IN [slen |-> IF sis.mixedBlock THEN <<a, a, b, 0>> ELSE <<a, b, 0, 0>>, row |-> 2]

\* The same of the right channel with intensity stereo.
SlenIntensity(sis) ==
  LET c == sis.sfCompress \div 2
  IN IF c < 180 THEN [slen |-> <<c \div 36, (c % 36) \div 6, (c % 36) % 6, 0>>, row |-> 3]
     ELSE IF c < 244
     THEN [slen |-> <<((c - 180) % 64) \div 16, ((c - 180) % 16) \div 4, (c - 180) % 4, 0>>, row |-> 4]
     ELSE [slen |-> <<(c - 244) \div 3, (c - 244) % 3, 0, 0>>, row |-> 5]

\* The four groups, each of nr[i] bands of slen[i] bits; in a mixed block the first is long.
UnpackSFMPEG2(sis, intensityRight) ==
  LET lens == IF intensityRight THEN SlenIntensity(sis) ELSE SlenMPEG2(sis)
      slen == lens.slen
      nr == NRTab[lens.row + 1][IF ~sis.short THEN 1 ELSE IF sis.mixedBlock THEN 3 ELSE 2]
      behind == <<0, nr[1], nr[1] + nr[2], nr[1] + nr[2] + nr[3], nr[1] + nr[2] + nr[3] + nr[4]>>
      sfb(i) == IF sis.mixedBlock THEN 3 + behind[i] - nr[1] ELSE behind[i]
      longs(i) == Long(sfb(i), sfb(i + 1), slen[i])
      shorts(i) == Short(sfb(i), sfb(i + 1), slen[i])
  IN IF ~sis.short THEN longs(1) \o longs(2) \o longs(3) \o longs(4) \o LastLong
     ELSE (IF sis.mixedBlock THEN Long(0, 6, slen[1]) ELSE shorts(1))
            \o shorts(2) \o shorts(3) \o shorts(4) \o LastShort

\* The bits a step reads.
BitsRead(step) == IF step.bits >= 0 THEN step.bits ELSE 0

\* UnpackScaleFactors: from bit bitOffset of byte buf on, bitsAvail bits are left.
ReaderAt(buf, bitOffset, bitsAvail) ==
  LET start == SetBitstreamPointer((bitsAvail + bitOffset + 7) \div 8, buf)
  IN IF bitOffset > 0 THEN GetBits(start, bitOffset).bsi ELSE start

\* And where the caller goes on: a byte and a bit of it.
PositionAfter(r, buf, bitOffset) ==
  LET bitsUsed == CalcBitsUsed(r, buf, bitOffset)
  IN <<buf + (bitsUsed + bitOffset) \div 8, (bitsUsed + bitOffset) % 8>>

----------------------------------------------------------------------------
(* Any fields of a buffer, the side information of any frame, and the      *)
(* scale factors of any block, which start at any bit.                     *)

ReaderInit ==
  /\ drawn = 0 /\ fields = <<>> /\ toRead = <<>> /\ block = NoBlock
  /\ \/ /\ reading = "draws"
        /\ length \in ReaderBytes
     \/ /\ reading \in {"side", "factors"}
        /\ length = 0
  /\ bsi = SetBitstreamPointer(length, 0)

\* Reads may run past the end of the buffer.
Draw ==
  /\ reading = "draws" /\ drawn < 8 * length + 16
  /\ \E n \in Draws :
       LET g == GetBits(bsi, n)
       IN /\ bsi' = g.bsi
          /\ drawn' = drawn + n
          /\ fields' = g.data
  /\ UNCHANGED <<reading, length, toRead, block>>

Side ==
  /\ reading = "side" /\ length = 0
  /\ \E mpeg1, mono \in BOOLEAN : \E switches \in [1..Subblocks(mpeg1, mono) -> BOOLEAN] :
       /\ length' = SideBytes(mpeg1, mono)
       /\ toRead' = UnpackSideInfo(mpeg1, mono, switches)
       /\ bsi' = SetBitstreamPointer(SideBytes(mpeg1, mono), 0)
  /\ UNCHANGED <<reading, drawn, fields, block>>

Blocks(codes) ==
  {b \in [sfCompress : codes, short : BOOLEAN, mixedBlock : BOOLEAN] : b.mixedBlock => b.short}
Steps ==
  {[version |-> "mpeg1", of |-> b, steps |-> UnpackSFMPEG1(b, gr, scfsi)] :
      b \in Blocks(FactorCodes \cap 0..15), gr \in 0..1, scfsi \in [1..4 -> BOOLEAN]}
    \cup {[version |-> "mpeg2", of |-> b, steps |-> UnpackSFMPEG2(b, right)] :
             b \in Blocks(FactorCodes), right \in BOOLEAN}

\* A block has 40 bytes left.
Factors ==
  /\ reading = "factors" /\ length = 0
  /\ \E s \in Steps, bitOffset \in FactorOffsets :
       /\ block' = s
       /\ toRead' = [i \in DOMAIN s.steps |-> BitsRead(s.steps[i])]
       /\ bsi' = ReaderAt(0, bitOffset, 8 * 40)
       /\ drawn' = bitOffset
  /\ length' = 40
  /\ UNCHANGED <<reading, fields>>

ReadField ==
  /\ toRead # <<>>
  /\ LET g == GetBits(bsi, Head(toRead))
     IN /\ bsi' = g.bsi
        /\ fields' = fields \o g.data
        /\ drawn' = drawn + Head(toRead)
  /\ toRead' = Tail(toRead)
  /\ UNCHANGED <<reading, length, block>>

ReaderNext == Draw \/ Side \/ Factors \/ ReadField
ReaderSpec == ReaderInit /\ [][ReaderNext]_readerVars

----------------------------------------------------------------------------
(* Properties.                                                             *)

Following(at, n) == [k \in 1..n |-> at + k]

\* A field is the bits of the buffer that follow those read before, whatever
\* the lengths asked for and wherever the cache is refilled (GetBits()); past
\* the end it is zeros, and CalcBitsUsed() counts them.
DrawnInOrder ==
  reading = "draws" =>
    LET before == drawn - Len(fields)
    IN /\ \A k \in DOMAIN fields : fields[k] = IF before + k <= 8 * length THEN before + k ELSE NoBit
       /\ CalcBitsUsed(bsi, 0, 0) = drawn

\* The side information is read in order and is as long as the table says, so
\* that the main data start behind it: the ASSERT of UnpackSideInfo().
SideWhole ==
  reading = "side" /\ length > 0 /\ toRead = <<>> =>
    /\ fields = Following(0, 8 * length)
    /\ CalcBitsUsed(bsi, 0, 0) = 8 * length

\* What DequantChannel() multiplies by: every band of the block once.
BandsOf(version, b) ==
  LET windows(from) == {<<"s", cb, w>> : cb \in from..11, w \in 0..2}
  IN IF ~b.short THEN {<<"l", cb>> : cb \in 0..20}
     ELSE IF ~b.mixedBlock THEN windows(0)
     ELSE {<<"l", cb>> : cb \in 0..(IF version = "mpeg1" THEN 7 ELSE 5)} \cup windows(3)

FactorsFilled ==
  reading = "factors" /\ length > 0 /\ toRead = <<>> =>
    LET filled == {i \in DOMAIN block.steps : block.steps[i].bits # Cleared}
        entry(i) == block.steps[i].entry
        bitOffset == drawn - Len(fields)
    IN /\ {entry(i) : i \in filled} = BandsOf(block.version, block.of)
       /\ \A i, j \in filled : entry(i) = entry(j) => i = j
       /\ fields = Following(bitOffset, Len(fields))
       /\ PositionAfter(bsi, 0, bitOffset) = <<drawn \div 8, drawn % 8>>

\* The bits of the stream reach the decoder's fields in order, each once: any
\* sequence of reads, the side information of every kind of frame, and the
\* scale factors of every kind of block (bitstream.c, scalfact.c).
FieldsInOrder == DrawnInOrder /\ SideWhole /\ FactorsFilled
=============================================================================
