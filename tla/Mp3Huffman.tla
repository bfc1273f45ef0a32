----------------------------- MODULE Mp3Huffman -----------------------------
(***************************************************************************)
(* helix/huffman.c: the Huffman codes of one granule and channel, pairs of *)
(* coefficients in up to three regions and quadruples behind them, decoded *)
(* through a cache of 32 bits that is filled two bytes at a time and ends  *)
(* in zeros.  Against it a reader that takes one bit after the other.      *)
(*                                                                         *)
(* A buffer is a sequence of bits, the cache too.  A coefficient is a pair *)
(* of its magnitude and its sign bit.                                      *)
(***************************************************************************)
EXTENDS Integers, Sequences, SequencesExt, Mp3Tables

CONSTANTS
  PairTables,   \* index -> [type, linBits, words], words as in hufftabs.c
  CodeBits,     \* the bits of the blocks decoded
  Offsets,      \* the bit of its first byte a block starts at
  RegionTables, \* the tables of the three regions of a granule
  PairCounts    \* values of a run of pairs

VARIABLES
  codeCase,   \* the block decoded: [what, table, bits, offset, count, ...]
  decoded     \* what the decoder made of it
huffmanVars == <<codeCase, decoded>>

----------------------------------------------------------------------------
(* hufftabs.c                                                              *)

GetMaxbits(w) == w % 16
GetHLen(w) == w \div 4096
GetCWY(w) == (w \div 256) % 16
GetCWX(w) == (w \div 16) % 16

Times(n, w) == [i \in 1..n |-> w]
huffTable01 == <<\hf003, \h3112, \h3101>> \o Times(2, \h2011) \o Times(4, \h1000)
huffTable07 ==
  <<\hf006, \h41, \h52, \h5b, \h60, \h63, \h68, \h6b, \h6212>> \o Times(2, \h5122)
    \o <<\h6201, \h6021>> \o Times(4, \h4112) \o Times(8, \h3101) \o Times(8, \h3011)
    \o Times(32, \h1000)
    \o <<\hf004, \h4552, \h4542, \h4452, \h4352>> \o Times(2, \h3532) \o Times(2, \h3442)
    \o Times(2, \h3522) \o Times(2, \h3252) \o Times(4, \h2512)
    \o <<\hf003, \h2152, \h2152, \h3501, \h3432, \h2051, \h2051, \h3342, \h3332>>
    \o <<\hf002, \h2422, \h2242, \h1412, \h1412>> \o <<\hf001, \h1142, \h1041>>
    \o <<\hf002, \h2401, \h2322, \h2232, \h2301>> \o <<\hf001, \h1312, \h1132>>
    \o <<\hf001, \h1031, \h1222>>

\* Table A and table B: a length and four bits v, w, x, y.
quadTableA ==
  <<\h6b, \h6f, \h6d, \h6e, \h67, \h65>> \o Times(2, \h59) \o Times(2, \h56) \o Times(2, \h53)
    \o Times(2, \h5a) \o Times(2, \h5c) \o Times(4, \h42) \o Times(4, \h41) \o Times(4, \h44)
    \o Times(4, \h48) \o Times(32, \h10)
quadTableB ==
  <<\h4f, \h4e, \h4d, \h4c, \h4b, \h4a, \h49, \h48, \h47, \h46, \h45, \h44, \h43, \h42, \h41, \h40>>
quadTable(i) == IF i = 0 THEN quadTableA ELSE quadTableB
quadTabMaxBits(i) == IF i = 0 THEN 6 ELSE 4
QuadBit(w, k) == (w \div 2 ^ (4 - k)) % 2   \* v, w, x, y are bits 1 to 4

----------------------------------------------------------------------------
(* The cache.                                                              *)

ValueOf(bits) == FoldLeft(LAMBDA v, b : 2 * v + b, 0, bits)
BufferBit(buf, i) == IF i \in DOMAIN buf THEN buf[i] ELSE 1
NoBits == [k \in 1..32 |-> 0]

\* The bits cached, and behind them n bytes of the buffer.
Filled(d, n) ==
  [d EXCEPT !.cache = [k \in 1..32 |->
                         IF k <= d.cachedBits THEN d.cache[k]
                         ELSE IF k <= d.cachedBits + 8 * n
                         THEN BufferBit(d.buf, 8 * d.ptr + k - d.cachedBits) ELSE 0],
            !.ptr = @ + n]
Masked(d) == [d EXCEPT !.cache = [k \in 1..32 |-> IF k <= d.cachedBits THEN d.cache[k] ELSE 0]]
Shifted(d, n) ==
  [d EXCEPT !.cache = [k \in 1..32 |-> IF k + n <= 32 THEN d.cache[k + n] ELSE 0],
            !.cachedBits = @ - n]
Top(d, n) == ValueOf(SubSeq(d.cache, 1, n))

\* Before the first code: the rest of the byte that bitOffset is in.
Begin(buf, bitOffset, bitsLeft) ==
  LET partial == (8 - bitOffset) % 8
  IN [buf |-> buf, ptr |-> IF partial > 0 THEN 1 ELSE 0,
      cache |-> [k \in 1..32 |-> IF k <= partial THEN BufferBit(buf, bitOffset + k) ELSE 0],
      cachedBits |-> partial, bitsLeft |-> bitsLeft - partial,
      padBits |-> 0, at |-> 0, out |-> <<>>, short |-> FALSE]

\* n more bytes; those of the last that are behind the block are taken out again.
Taken(d, n) == [Filled(d, n) EXCEPT !.cachedBits = @ + 8 * n, !.bitsLeft = @ - 8 * n]
InBlock(d) ==
  IF d.bitsLeft >= 0 THEN d ELSE Masked([d EXCEPT !.cachedBits = @ + d.bitsLeft, !.bitsLeft = 0])

\* Two bytes, or what is left and then `pad` zeros.
Refill(d, pad) ==
  IF d.bitsLeft >= 16 THEN Taken(d, 2)
  ELSE IF d.cachedBits + d.bitsLeft <= 0 THEN [d EXCEPT !.short = TRUE]
  ELSE [InBlock(Taken(d, (d.bitsLeft + 7) \div 8)) EXCEPT !.padBits = pad, !.cachedBits = @ + pad]

----------------------------------------------------------------------------
(* Pairs.                                                                  *)

\* The cache holds minBits, for the linBits of a value of 15 and the signs.
LinBits(d, minBits) ==
  IF d.cachedBits + d.bitsLeft < minBits THEN [d EXCEPT !.short = TRUE]
  ELSE IF d.cachedBits >= minBits THEN InBlock(d)
  ELSE InBlock(Taken(d, (minBits - d.cachedBits + 7) \div 8))

\* A value goes out with its sign bit.
Signed(d, value) ==
  IF value = 0 THEN [d EXCEPT !.out = Append(@, <<0, 0>>)]
  ELSE [Shifted(d, 1) EXCEPT !.out = Append(@, <<value, d.cache[1]>>)]
Escaped(d, value, linBits) ==
  IF d.short THEN d ELSE Signed(Shifted(d, linBits), value + Top(d, linBits))

\* A value of a code; after is whether a sign of the other value follows.
Coefficient(t, d, value, after) ==
  IF value = 15 /\ t.type = "loopLinbits"
  THEN Escaped(LinBits(d, t.linBits + 1 + after), value, t.linBits)
  ELSE Signed(d, value)

\* The second value, and the end of a code: it has not used any padding.
Second(t, d, value) == IF d.short THEN d ELSE Coefficient(t, d, value, 0)
Ended(d) == IF d.short \/ d.cachedBits < d.padBits THEN [d EXCEPT !.short = TRUE] ELSE [d EXCEPT !.at = 0]

\* One lookup: a longer code goes on in another part of the table.
Code(t, d) ==
  LET maxBits == GetMaxbits(t.words[d.at + 1])
      cw == t.words[d.at + Top(d, maxBits) + 2]
  IN IF GetHLen(cw) = 0 THEN [Shifted(d, maxBits) EXCEPT !.at = @ + cw]
     ELSE LET first == Coefficient(t, Shifted(d, GetHLen(cw)), GetCWX(cw), IF GetCWY(cw) > 0 THEN 1 ELSE 0)
          IN Ended(Second(t, first, GetCWY(cw)))

\* Seeded fault: the tail is refilled while fewer than 9 bits are cached.
RECURSIVE CodesShortCache(_, _, _)
CodesShortCache(t, d, nVals) ==
  IF Len(d.out) >= nVals \/ d.short THEN d
  ELSE CodesShortCache(t, IF d.cachedBits >= 2 THEN Code(t, d) ELSE Refill(d, 11), nVals)

RECURSIVE Codes(_, _, _)
Codes(t, d, nVals) ==
  IF Len(d.out) >= nVals \/ d.short THEN d
  ELSE Codes(t, IF d.cachedBits >= 11 THEN Code(t, d) ELSE Refill(d, 11), nVals)

Failed == [used |-> -1, values |-> <<>>]

\* The bits used, or -1 out of bits, and the values.
Decoded(d, bitsLeft) ==
  IF d.short THEN Failed
  ELSE [used |-> bitsLeft - (d.bitsLeft + d.cachedBits - d.padBits), values |-> d.out]

DecodeHuffmanPairs(t, nVals, bitsLeft, buf, bitOffset) ==
  IF nVals <= 0 THEN [used |-> 0, values |-> <<>>]
  ELSE IF bitsLeft < 0 \/ t.type = "invalidTab" THEN Failed
  ELSE IF t.type = "noBits" THEN [used |-> 0, values |-> Times(nVals, <<0, 0>>)]
  ELSE Decoded(Codes(t, Begin(buf, bitOffset, bitsLeft), nVals), bitsLeft)

----------------------------------------------------------------------------
(* Quadruples: as many as the bits hold, at most to the last sample.       *)

\* A quadruple that would use padding is not kept.
KeptQuad(d, e) == IF e.cachedBits < e.padBits THEN [d EXCEPT !.short = TRUE] ELSE e
Quad(tab, d) ==
  LET cw == quadTable(tab)[Top(d, quadTabMaxBits(tab)) + 1]
      Sample(e, k) == Signed(e, QuadBit(cw, k))
  IN KeptQuad(d, FoldLeft(Sample, Shifted(d, cw \div 16), <<1, 2, 3, 4>>))

RECURSIVE Quads(_, _, _)
Quads(tab, d, nVals) ==
  IF Len(d.out) >= nVals - 3 \/ d.short THEN d
  ELSE Quads(tab, IF d.cachedBits >= 10 THEN Quad(tab, d) ELSE Refill(d, 10), nVals)

DecodeHuffmanQuads(nVals, tab, bitsLeft, buf, bitOffset) ==
  IF bitsLeft <= 0 THEN <<>> ELSE Quads(tab, Begin(buf, bitOffset, bitsLeft), nVals).out

----------------------------------------------------------------------------
(* DecodeHuffman.  bound is rEnd[]: rEnd[1] to rEnd[3] of the code.        *)

Least(a, b) == IF a < b THEN a ELSE b

\* An index past l[] reads s[] behind it.
SfBandLong(sfBand, i) == IF i <= 22 THEN sfBand.l[i + 1] ELSE sfBand.s[i - 22]

RegionEnds(sis, sfBand, mpeg1) ==
  LET r1Start ==
        IF ~sis.short THEN SfBandLong(sfBand, sis.region0Count + 1)
        ELSE IF ~sis.mixedBlock THEN 3 * sfBand.s[(sis.region0Count + 1) \div 3 + 1]
        ELSE IF mpeg1 THEN sfBand.l[sis.region0Count + 2]
        ELSE sfBand.l[7] + 2 * (sfBand.s[5] - sfBand.s[4])
      r2Start ==
        IF sis.short THEN MAX_NSAMP
        ELSE SfBandLong(sfBand, sis.region0Count + 1 + sis.region1Count + 1)
      end == Least(MAX_NSAMP, 2 * sis.nBigvals)
  IN <<Least(r1Start, end), Least(r2Start, end), end>>

\* The buffer from the byte on that bit `at` is in.
BufferFrom(buf, at) == SubSeq(buf, 8 * (at \div 8) + 1, Len(buf))

\* The quadruples follow; the position moves over the whole block, stuffing bits included.
WithQuads(pairs, end, quads, huffBlockBits, buf, at) ==
  IF huffBlockBits < 0 \/ pairs.used < 0 THEN Failed
  ELSE [used |-> huffBlockBits,
        values |-> pairs.values \o
          DecodeHuffmanQuads(MAX_NSAMP - end, quads, huffBlockBits - pairs.used, BufferFrom(buf, at), at % 8)]

\* The values of one more region, unless it has used more than there is.
Joined(acc, p, left) ==
  IF p.used < 0 \/ p.used > left THEN Failed
  ELSE [used |-> acc.used + p.used, values |-> acc.values \o p.values]

DecodeHuffman(ends, tables, quads, huffBlockBits, buf, bitOffset) ==
  LET from(i) == IF i = 1 THEN 0 ELSE ends[i - 1]
      Region(acc, i) ==
        IF acc.used < 0 THEN acc
        ELSE LET left == huffBlockBits - acc.used
                 at == bitOffset + acc.used
             IN Joined(acc, DecodeHuffmanPairs(tables[i], ends[i] - from(i), left, BufferFrom(buf, at), at % 8),
                       left)
      pairs == FoldLeft(Region, [used |-> 0, values |-> <<>>], <<1, 2, 3>>)
  IN WithQuads(pairs, ends[3], quads, huffBlockBits, buf, bitOffset + pairs.used)

----------------------------------------------------------------------------
(* The reader to compare with: one code after the other from position pos, *)
(* zeros behind the end.                                                   *)

Ahead(bits, pos, n) == ValueOf([k \in 1..n |-> IF pos + k <= Len(bits) THEN bits[pos + k] ELSE 0])

RECURSIVE Lookup(_, _, _, _)
Lookup(t, bits, pos, at) ==
  LET maxBits == GetMaxbits(t.words[at + 1])
      cw == t.words[at + Ahead(bits, pos, maxBits) + 2]
  IN IF GetHLen(cw) = 0 THEN Lookup(t, bits, pos + maxBits, at + cw)
     ELSE [pos |-> pos + GetHLen(cw), x |-> GetCWX(cw), y |-> GetCWY(cw)]

Plain(t, bits, acc, value) ==
  LET lin == IF value = 15 /\ t.type = "loopLinbits" THEN t.linBits ELSE 0
      v == value + Ahead(bits, acc.pos, lin)
  IN IF v = 0 THEN [acc EXCEPT !.out = Append(@, <<0, 0>>)]
     ELSE [pos |-> acc.pos + lin + 1,
           out |-> Append(acc.out, <<v, Ahead(bits, acc.pos + lin, 1)>>)]

RECURSIVE PlainPairs(_, _, _, _)
PlainPairs(t, bits, acc, nVals) ==
  IF Len(acc.out) >= nVals \/ acc.pos > Len(bits) THEN acc
  ELSE LET c == Lookup(t, bits, acc.pos, 0)
       IN PlainPairs(t, bits, Plain(t, bits, Plain(t, bits, [acc EXCEPT !.pos = c.pos], c.x), c.y), nVals)

RECURSIVE PlainQuads(_, _, _, _)
PlainQuads(tab, bits, acc, nVals) ==
  LET cw == quadTable(tab)[Ahead(bits, acc.pos, quadTabMaxBits(tab)) + 1]
      Sample(a, k) == IF QuadBit(cw, k) = 0 THEN [a EXCEPT !.out = Append(@, <<0, 0>>)]
                      ELSE [pos |-> a.pos + 1, out |-> Append(a.out, <<1, Ahead(bits, a.pos, 1)>>)]
      next == FoldLeft(Sample, [acc EXCEPT !.pos = @ + cw \div 16], <<1, 2, 3, 4>>)
  IN IF Len(acc.out) >= nVals - 3 \/ next.pos > Len(bits) THEN acc
     ELSE PlainQuads(tab, bits, next, nVals)

PlainRegion(t, bits, acc, nVals) ==
  IF t.type = "noBits" THEN [acc EXCEPT !.out = @ \o Times(nVals - Len(@), <<0, 0>>)]
  ELSE PlainPairs(t, bits, acc, nVals)

PlainBlock(ends, tables, quads, bits) ==
  LET Region(acc, i) == PlainRegion(tables[i], bits, acc, ends[i])
      pairs == FoldLeft(Region, [pos |-> 0, out |-> <<>>], <<1, 2, 3>>)
  IN IF pairs.pos > Len(bits) THEN pairs
     ELSE PlainQuads(quads, bits, pairs, MAX_NSAMP)

----------------------------------------------------------------------------
(* Every block of bits, alone or as the three regions of a granule.        *)

NoCase == [what |-> "none"]
HuffmanInit == codeCase = NoCase /\ decoded = Failed

\* The block in the main data: other bits before and behind it.
InMainData(bits, bitOffset) == Times(bitOffset, 1) \o bits

Pairs ==
  \E i \in DOMAIN PairTables, bits \in CodeBits, bitOffset \in Offsets, n \in PairCounts :
    /\ codeCase' = [what |-> "pairs", table |-> i, bits |-> bits, count |-> n]
    /\ decoded' = DecodeHuffmanPairs(PairTables[i], n, Len(bits), InMainData(bits, bitOffset), bitOffset)

QuadRun ==
  \E tab \in 0..1, bits \in CodeBits, bitOffset \in Offsets :
    /\ codeCase' = [what |-> "quads", table |-> tab, bits |-> bits, count |-> 8]
    /\ decoded' = [used |-> 0, values |->
                     DecodeHuffmanQuads(8, tab, Len(bits), InMainData(bits, bitOffset), bitOffset)]

SideInfos ==
  [short : BOOLEAN, mixedBlock : {FALSE}, region0Count : {0}, region1Count : {0}, nBigvals : {0, 1, 5}]

Block ==
  \E sis \in SideInfos, bits \in CodeBits, is \in RegionTables, bitOffset \in Offsets :
    LET ends == RegionEnds(sis, sfBandTable["mpeg1_44"], TRUE)
        tables == [k \in 1..3 |-> PairTables[is[k]]]
    IN /\ codeCase' = [what |-> "block", ends |-> ends, tables |-> is, bits |-> bits]
       /\ decoded' = DecodeHuffman(ends, tables, 0, Len(bits), InMainData(bits, bitOffset), bitOffset)

HuffmanNext == codeCase = NoCase /\ (Pairs \/ QuadRun \/ Block)

----------------------------------------------------------------------------
(* Property.                                                               *)

\* A block whose codes lie within its bits gives the values those codes have,
\* from any bit of a byte on, across the refills of the cache and past the
\* padded tail (DecodeHuffmanPairs(), DecodeHuffmanQuads()).  One that is cut
\* off is refused by tables of a single lookup; the others may take padding
\* for a second part of the code.
CodesExact ==
  LET bits == codeCase.bits
      table(i) == PairTables[i]
  IN CASE codeCase.what = "none" -> TRUE
       [] codeCase.what = "pairs" ->
            LET plain == PlainRegion(table(codeCase.table), bits, [pos |-> 0, out |-> <<>>], codeCase.count)
            IN IF plain.pos <= Len(bits)
               THEN decoded = [used |-> plain.pos, values |-> plain.out]
               ELSE table(codeCase.table).type = "oneShot" => decoded = Failed
       [] codeCase.what = "quads" ->
            decoded.values = PlainQuads(codeCase.table, bits, [pos |-> 0, out |-> <<>>], codeCase.count).out
       [] OTHER ->
            LET plain == PlainBlock(codeCase.ends, [k \in 1..3 |-> table(codeCase.tables[k])], 0, bits)
            IN plain.pos <= Len(bits) => decoded = [used |-> Len(bits), values |-> plain.out]
=============================================================================
