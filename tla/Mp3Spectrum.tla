---------------------------- MODULE Mp3Spectrum -----------------------------
(***************************************************************************)
(* helix/dequant.c, dqchan.c, stproc.c and imdct.c: the coefficients of a  *)
(* granule from the Huffman decoder to the blocks of the filter bank.      *)
(*                                                                         *)
(* Of a coefficient only counts whether it can be other than zero: a       *)
(* spectrum is the set of the indices where it can.  Each stage works up   *)
(* to a bound it is given and gives a new one, for speed, and from one     *)
(* granule to the next stay the overlap of each block and how many blocks  *)
(* have one.                                                               *)
(***************************************************************************)
EXTENDS Integers, FiniteSets, FiniteSetsExt, Mp3Tables

CONSTANTS
  Bands,        \* the sample rates played: rows of sfBandTable
  Spectra,      \* what the Huffman decoder leaves of both channels: [x, bound]
  MaxGranules   \* bound on the granules of a stream

NBANDS == 32
Channels == 0..1

\* DecodeHuffman() says below which index of the granule it has put anything.
ASSUME SpectraAssumption ==
  /\ Bands \subseteq DOMAIN sfBandTable
  /\ \A huffman \in Spectra : \A ch \in Channels :
       huffman[ch].bound \in 0..MAX_NSAMP /\ huffman[ch].x \subseteq 0..(huffman[ch].bound - 1)

Both(F(_)) == [ch \in Channels |-> F(ch)]

VARIABLES
  band,         \* the row of sfBandTable of this stream
  overlap,      \* overBuf: for each block the window its overlap was made with
  numPrevIMDCT, prevType, prevWinSwitch,
  spectrum,     \* the last granule: its coefficients before the transform
  nonZeroBound,
  sides,        \* the block types of its channels
  next,         \* the channel to transform next, 2 when both are
  blocks,       \* the blocks the last transform made: [long, total, short]
  overlapped,   \* the overlaps the last transform took: <<window made with, used>>
  granules      \* granules so far
spectrumVars == <<band, overlap, numPrevIMDCT, prevType, prevWinSwitch, spectrum, nonZeroBound,
                  sides, next, blocks, overlapped, granules>>

----------------------------------------------------------------------------
(* The bands of the stream.                                                *)

bandL(cb) == sfBandTable[band].l[cb + 1]
bandS(cb) == sfBandTable[band].s[cb + 1]
mpeg1 == sfBandTable[band].mpeg1

\* The highest of a set, or low when there is none.
Highest(S, low) == Max(S \cup {low})

----------------------------------------------------------------------------
(* DequantChannel: x are the coefficients below bound, faint those that    *)
(* become zero.  The last band of a pass is the first that reaches bound.  *)

LastBand(reaching, upto) == Min(reaching \cup {upto - 1})

DequantChannel(sis, x, bound, faint) ==
  LET loud == x \ faint
      cbEndL == IF sis.blockType # 2 THEN 22 ELSE IF ~sis.mixedBlock THEN 0 ELSE IF mpeg1 THEN 8 ELSE 6
      lastL == LastBand({cb \in 0..(cbEndL - 1) : bandL(cb + 1) >= bound}, cbEndL)
      start == bandL(lastL + 1)
      long == [x |-> loud, bound |-> bound, cbType |-> 0,
               cbEndL |-> Highest({cb \in 0..lastL : \E i \in loud : bandL(cb) <= i /\ i < bandL(cb + 1)}, 0),
               cbEndS |-> <<0, 0, 0>>, cbEndSMax |-> 0]
      cbStartS == IF sis.mixedBlock THEN 3 ELSE 0
      First(cb) == start + 3 * (bandS(cb) - bandS(cbStartS))
      lastS == LastBand({cb \in cbStartS..12 : First(cb + 1) >= bound}, 13)
      bandOf(i) == CHOOSE cb \in 0..12 : First(cb) <= i /\ i < First(cb + 1)
      width(i) == bandS(bandOf(i) + 1) - bandS(bandOf(i))
      place(i) == i - First(bandOf(i))
      shorts == {i \in loud : i >= start}
      cbMax(w) == Highest({bandOf(i) : i \in {i \in shorts : place(i) \div width(i) = w - 1}}, cbStartS)
  IN IF sis.blockType # 2 THEN long
     ELSE [long EXCEPT
             !.x = (loud \ shorts) \cup
                   {First(bandOf(i)) + 3 * (place(i) % width(i)) + place(i) \div width(i) : i \in shorts},
             !.bound = First(lastS + 1),
             !.cbType = IF sis.mixedBlock THEN 2 ELSE 1,
             !.cbEndS = <<cbMax(1), cbMax(2), cbMax(3)>>,
             !.cbEndSMax = Max({cbMax(w) : w \in 1..3})]

----------------------------------------------------------------------------
(* Joint stereo.  cbi is what DequantChannel left of each channel.         *)

Below(x, n) == {i \in x : i < n}
From(x, n) == {i \in x : i >= n}

MidSideProc(x, nSamps) ==
  Both(LAMBDA ch : Below(x[0] \cup x[1], nSamps) \cup From(x[ch], nSamps))

\* The coefficients of the right channel that are copies of the left: from
\* the end of the right to the end of the left, nSamps long.
IntensityMPEG1(cbi, nSamps) ==
  LET start == IF cbi[1].cbType = 0 THEN bandL(cbi[1].cbEndL + 1) ELSE 3 * bandS(cbi[1].cbEndSMax + 1)
      left == nSamps - start
      end == IF cbi[1].cbType = 0 THEN Min({bandL(cbi[0].cbEndL + 1), nSamps})
             ELSE Min({3 * bandS(cbi[0].cbEndSMax + 1), start + 3 * (left \div 3)})
  IN start..(end - 1)

IntensityMPEG2(cbi, nSamps) ==
  IF cbi[1].cbType = 0
  THEN bandL(cbi[1].cbEndL + 1)..(Min({bandL(cbi[0].cbEndL + 1), nSamps}) - 1)
  ELSE UNION {{3 * j + w - 1 : j \in bandS(cbi[1].cbEndS[w] + 1)..(bandS(cbi[0].cbEndS[w] + 1) - 1)} : w \in 1..3}

IntensityProc(x, copied) == [x EXCEPT ![1] = (@ \ copied) \cup (x[0] \cap copied)]

\* The spectra of both channels after the stereo stage.
StereoProcess(cbi, modeExt) ==
  LET whole == Max({cbi[0].bound, cbi[1].bound})
      midSide == modeExt \in {"midSide", "both"}
      intensity == modeExt \in {"intensity", "both"}
      end == IF ~intensity THEN whole
             ELSE IF cbi[1].cbType = 0 THEN bandL(cbi[1].cbEndL + 1) ELSE 3 * bandS(cbi[1].cbEndSMax + 1)
      x == Both(LAMBDA ch : cbi[ch].x)
      mixed == IF midSide THEN MidSideProc(x, end) ELSE x
      copied == IF ~intensity THEN {}
                ELSE IF mpeg1 THEN IntensityMPEG1(cbi, cbi[0].bound) ELSE IntensityMPEG2(cbi, cbi[0].bound)
  IN IntensityProc(mixed, copied)

\* Seeded fault: each channel keeps its own bound.
OwnBounds(cbi, modeExt) == Both(LAMBDA ch : cbi[ch].bound)

\* With joint stereo both channels reach as far as the longer.
StereoBounds(cbi, modeExt) ==
  Both(LAMBDA ch : IF modeExt = "none" THEN cbi[ch].bound ELSE Max({cbi[0].bound, cbi[1].bound}))

----------------------------------------------------------------------------
(* IMDCT: alias reduction across the borders of long blocks, then a        *)
(* transform of each block of 18 coefficients, overlapped with the last.   *)

blockCutoff == bandL(IF mpeg1 THEN 8 ELSE 6) \div 18

nBlocksLong(sis, bound) ==
  IF sis.blockType # 2 THEN Min({(bound + 7) \div 18 + 1, 32})
  ELSE IF sis.mixedBlock THEN blockCutoff ELSE 0
nBfly(sis, bound) == IF nBlocksLong(sis, bound) = 0 THEN 0 ELSE nBlocksLong(sis, bound) - 1

\* A butterfly mixes the coefficients at the same distance from a border.
AntiAlias(x, n) ==
  x \cup {36 * t[2] - 1 - t[1] :
            t \in {t \in x \X (1..n) : 18 * t[2] - 8 <= t[1] /\ t[1] <= 18 * t[2] + 7}}

\* The window of a block: long blocks of a mixed granule have type 0.
WindowOf(type, switch, b) == IF b < switch THEN 0 ELSE type
NoOverlap == -1

\* Seeded fault: the switch point of a mixed granule is forgotten with the granule.
prevWindowOfType(ch, b) == prevType[ch]

prevWindow(ch, b) == WindowOf(prevType[ch], prevWinSwitch[ch], b)
switchPoint(sis) == IF sis.mixedBlock THEN blockCutoff ELSE 0

\* total blocks are transformed, the overlap of those behind them is added and
\* cleared.  The count kept is the index of the last of these that was not zero.
HybridTransform(ch, x, sis, total) ==
  LET drained == total..(numPrevIMDCT[ch] - 1)
      live == {b \in 0..(NBANDS - 1) : overlap[ch][b] # NoOverlap}
      used(b) == IF b < total \/ b \in drained THEN prevWindow(ch, b) ELSE NoOverlap
      sounding == {i \div 18 : i \in x}
      New(b) == IF b \in drained \/ (b < total /\ b \notin sounding) THEN NoOverlap
                ELSE IF b < total THEN WindowOf(sis.blockType, switchPoint(sis), b)
                ELSE overlap[ch][b]
  IN /\ overlap' = [overlap EXCEPT ![ch] = [b \in 0..(NBANDS - 1) |-> New(b)]]
     /\ overlapped' = {<<overlap[ch][b], used(b)>> : b \in live}
     /\ numPrevIMDCT' = [numPrevIMDCT EXCEPT ![ch] = Highest(live \cap drained, total)]

----------------------------------------------------------------------------
(* One granule after the other.                                            *)

SpectrumSides == [blockType : {0, 1, 2}, mixedBlock : {FALSE}] \cup [blockType : {1, 2}, mixedBlock : {TRUE}]

\* The block types of the two channels: alike, or one of them short.
ShortBlock == [blockType |-> 2, mixedBlock |-> FALSE]
BlockTypes == {sis \in [Channels -> SpectrumSides] : sis[0] = sis[1] \/ ShortBlock \in {sis[0], sis[1]}}

SpectrumInit ==
  /\ band \in Bands
  /\ overlap = [ch \in Channels |-> [b \in 0..(NBANDS - 1) |-> NoOverlap]]
  /\ numPrevIMDCT = [ch \in Channels |-> 0]
  /\ prevType = [ch \in Channels |-> 0]
  /\ prevWinSwitch = [ch \in Channels |-> 0]
  /\ spectrum = [ch \in Channels |-> {}]
  /\ nonZeroBound = [ch \in Channels |-> 0]
  /\ sides = [ch \in Channels |-> [blockType |-> 0, mixedBlock |-> FALSE]]
  /\ blocks = [long |-> 0, total |-> 0, short |-> FALSE]
  /\ overlapped = {}
  /\ next = 2
  /\ granules = 0

Dequantize ==
  /\ next = 2 /\ granules < MaxGranules
  /\ \E sis \in BlockTypes, huffman \in Spectra, isFaint \in BOOLEAN :
       LET faint == IF isFaint THEN {Highest(huffman[1].x, 0)} ELSE {}
       IN \E cbi \in {Both(LAMBDA ch : DequantChannel(sis[ch], huffman[ch].x, huffman[ch].bound, faint))},
             modeExt \in {"none", "midSide", "intensity", "both"} :
            /\ spectrum' = StereoProcess(cbi, modeExt)
            /\ nonZeroBound' = StereoBounds(cbi, modeExt)
            /\ sides' = sis
  /\ next' = 0
  /\ granules' = granules + 1
  /\ UNCHANGED <<band, overlap, numPrevIMDCT, prevType, prevWinSwitch, blocks, overlapped>>

IMDCT(ch) ==
  /\ next = ch
  /\ LET sis == sides[ch]
         fly == nBfly(sis, nonZeroBound[ch])
         bound == Max({nonZeroBound[ch], 18 * fly + 8})
         total == (bound + 17) \div 18
     IN \E x \in {AntiAlias(spectrum[ch], fly)} :
          /\ spectrum' = [spectrum EXCEPT ![ch] = x]
          /\ nonZeroBound' = [nonZeroBound EXCEPT ![ch] = bound]
          /\ blocks' = [long |-> nBlocksLong(sis, nonZeroBound[ch]), total |-> total, short |-> sis.blockType = 2]
          /\ HybridTransform(ch, x, sis, total)
          /\ prevType' = [prevType EXCEPT ![ch] = sis.blockType]
          /\ prevWinSwitch' = [prevWinSwitch EXCEPT ![ch] = switchPoint(sis)]
  /\ next' = ch + 1
  /\ UNCHANGED <<band, sides, granules>>

SpectrumNext == Dequantize \/ \E ch \in Channels : IMDCT(ch)
SpectrumSpec == SpectrumInit /\ [][SpectrumNext]_spectrumVars

----------------------------------------------------------------------------
(* Properties.                                                             *)

\* No stage leaves a coefficient behind that can be other than zero: it lies
\* below the bound the stage passes on, and the bound within the granule and
\* within the blocks transformed, of which only short ones follow the long.
BoundCovers ==
  /\ \A ch \in Channels : nonZeroBound[ch] <= MAX_NSAMP /\ \A i \in spectrum[ch] : i < nonZeroBound[ch]
  /\ blocks.total <= NBANDS
  /\ blocks.total > blocks.long => blocks.short

\* The second half of a block is added once, to the next granule, under the
\* window its own block type asks for, also where that granule has fewer blocks,
\* other types, or another switch point (HybridTransform(), IMDCT()).
OverlapAdded ==
  /\ \A pair \in overlapped : pair[1] = pair[2]
  /\ \A ch \in Channels, b \in 0..(NBANDS - 1) : overlap[ch][b] # NoOverlap => b < numPrevIMDCT[ch]

\* Both: a granule passes on every coefficient, and the half of its blocks that is the next one's.
SpectrumKept == BoundCovers /\ OverlapAdded
=============================================================================
