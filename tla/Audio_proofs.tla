---------------------------- MODULE Audio_proofs -----------------------------
(***************************************************************************)
(* Proofs about the MP3 stream, for any streams, whatever they claim, any  *)
(* buffer the slots of a frame fit into and any ring that holds the        *)
(* buffer: mainBuf is not written past its end, unless a stream of free    *)
(* bitrate has come; each frame has its own main data; and a sound stream  *)
(* is played whole.  Then about three stages of the decoder: what the      *)
(* filter bank reads, that no coefficient and no overlap is lost, and that *)
(* the reader of bits reads each field, and no more.                       *)
(***************************************************************************)
EXTENDS Mp3Stream, Mp3Bits, Mp3Filterbank, Mp3Spectrum,
        SequenceTheorems, WellFoundedInduction, TLAPS

----------------------------------------------------------------------------
(* The size of mainBuf.                                                    *)

\* While the bitrate has always been in the table, the reservoir of any later frame and
\* the slots of the frame before leave mainBuf as it should be.
MainBufInv ==
  /\ stream \in DOMAIN Streams
  /\ freeBitrateFlag \in BOOLEAN
  /\ ~freeBitrateFlag =>
       /\ nSlots \in Int /\ MaxBegin + nSlots <= MAINBUF_SIZE
       /\ mainBuf \in Seq(Int) /\ Len(mainBuf) <= MAINBUF_SIZE

\* The smallest and the largest of some numbers, all between two limits.
LEMMA SmallestIs ==
  ASSUME NEW low \in Int, NEW S, S \subseteq Int, S # {}, \A y \in S : low <= y
  PROVE  Min(S) \in S /\ \A y \in S : Min(S) <= y
<1> DEFINE R == OpToRel(<, Nat)
           D == {y - low : y \in S}
<1>1. IsWellFoundedOn(R, Nat)
  BY NatLessThanWellFounded
<1>2. \A x, y \in Nat : ~(<<y, x>> \in R) => x <= y
  BY DEF OpToRel
<1>3. D \subseteq Nat /\ D # {}
  <2>1. \A y \in S : y - low \in Nat
    OBVIOUS
  <2> QED BY <2>1
<1> HIDE DEF R
<1>4. PICK d \in D : \A y \in D : ~(<<y, d>> \in R)
  <2> HIDE DEF D
  <2> QED BY <1>1, <1>3, WFMin
<1>5. \A y \in D : d <= y
  BY <1>2, <1>3, <1>4
<1>6. PICK x \in S : d = x - low
  OBVIOUS
<1>7. \A y \in S : x <= y
  BY <1>5, <1>6
<1> QED BY <1>7 DEF Min

LEMMA LargestIs ==
  ASSUME NEW high \in Int, NEW S, S \subseteq Int, S # {}, \A y \in S : y <= high
  PROVE  Max(S) \in S /\ \A y \in S : y <= Max(S)
<1> DEFINE D == {-y : y \in S}
<1>1. D \subseteq Int /\ D # {} /\ -high \in Int /\ \A d \in D : -high <= d
  <2>1. \A y \in S : -y \in Int /\ -high <= -y
    OBVIOUS
  <2>2. \A d \in D : \E y \in S : d = -y
    OBVIOUS
  <2>3. D # {}
    OBVIOUS
  <2> HIDE DEF D
  <2> QED BY <2>1, <2>2, <2>3
<1>2. Min(D) \in D /\ \A d \in D : Min(D) <= d
  <2> HIDE DEF D
  <2> QED BY <1>1, SmallestIs
<1>3. PICK x \in S : Min(D) = -x
  BY <1>2
<1>4. \A y \in S : y <= x
  BY <1>2, <1>3
<1> QED BY <1>4 DEF Max

\* So of any numbers there is a smallest.
LEMMA SmallestIsMember ==
  ASSUME NEW S, S \subseteq Nat, S # {}
  PROVE  Min(S) \in S /\ \A y \in S : Min(S) <= y
<1>1. 0 \in Int /\ S \subseteq Int /\ \A y \in S : 0 <= y
  OBVIOUS
<1> QED BY <1>1, SmallestIs

\* The main data of a frame with a bitrate of the table have a size.
LEMMA SlotsAreNumbers ==
  ASSUME NEW h \in Headers
  PROVE  TableSlots(h) \in Int /\ HeadBytes(h) \in Nat
<1>1. h.ver \in Versions /\ h.srIdx + 1 \in 1..3 /\ h.brIdx + 1 \in 1..15
  BY DEF Headers
<1>2. \A j \in 1..15 : Slots44[j] \in Nat /\ Slots48[j] \in Nat /\ Slots32[j] \in Nat
  BY DEF Slots44, Slots48, Slots32
<1>3. \A j \in 1..15 : Slots22[j] \in Nat /\ Slots24[j] \in Nat /\ Slots16[j] \in Nat
  BY DEF Slots22, Slots24, Slots16
<1>4. \A j \in 1..15 : Slots11[j] \in Nat /\ Slots12[j] \in Nat /\ Slots8[j] \in Nat
  BY DEF Slots11, Slots12, Slots8
<1>5. \A v \in Versions, i \in 1..3, j \in 1..15 : slotTab[v][i][j] \in Nat
  BY <1>2, <1>3, <1>4 DEF slotTab, Versions
<1>6. HeadBytes(h) \in Nat /\ CheckPadBit(h) \in Nat
  BY DEF HeadBytes, fhBytes, siBytes, SideBytes, CheckPadBit
<1> QED BY <1>1, <1>5, <1>6 DEF TableSlots

\* A reservoir and the frame's own bytes are as long as both.
LEMMA JoinedLength ==
  ASSUME NEW buf \in Seq(Int), NEW begin \in 0..Len(buf), NEW from \in Int, NEW n \in Nat
  PROVE  /\ Reservoir(buf, begin) \o Bytes(from, n) \in Seq(Int)
         /\ Len(Reservoir(buf, begin) \o Bytes(from, n)) = begin + n
<1>1. Bytes(from, n) \in [1..n -> Int]
  BY DEF Bytes
<1>2. Bytes(from, n) \in Seq(Int) /\ Len(Bytes(from, n)) = n
  BY <1>1, LenProperties
<1>3. Reservoir(buf, begin) \in Seq(Int) /\ Len(Reservoir(buf, begin)) = begin
  BY SubSeqProperties, LenProperties DEF Reservoir
<1> QED BY <1>2, <1>3, ConcatProperties

\* What is joined fits into mainBuf: at most the reservoir of the longest back pointer, and
\* the longest frame.
LEMMA JoinedFits ==
  ASSUME NEW buf \in Seq(Int), NEW begin \in 0..MaxBegin, NEW from \in Int, NEW n \in Nat,
         MaxBegin + n <= MAINBUF_SIZE, NEW joined,
         \/ Len(buf) < begin /\ joined = buf \o Bytes(from, n)
         \/ Len(buf) >= begin /\ joined = Reservoir(buf, begin) \o Bytes(from, n)
  PROVE  joined \in Seq(Int) /\ Len(joined) <= MAINBUF_SIZE
<1>1. Len(buf) \in Nat /\ begin \in Nat /\ begin <= MaxBegin /\ MaxBegin = 511 /\ MAINBUF_SIZE \in Nat
  BY LenProperties, StreamsAssumption DEF MaxBegin
<1>2. CASE Len(buf) < begin /\ joined = buf \o Bytes(from, n)
  <2>1. Reservoir(buf, Len(buf)) = buf /\ Len(buf) \in 0..Len(buf)
    BY <1>1, SubSeqFull DEF Reservoir
  <2>2. /\ Reservoir(buf, Len(buf)) \o Bytes(from, n) \in Seq(Int)
        /\ Len(Reservoir(buf, Len(buf)) \o Bytes(from, n)) = Len(buf) + n
    BY <2>1, JoinedLength
  <2> QED BY <1>1, <1>2, <2>1, <2>2
<1>3. CASE Len(buf) >= begin /\ joined = Reservoir(buf, begin) \o Bytes(from, n)
  <2>1. begin \in 0..Len(buf)
    BY <1>1, <1>3
  <2>2. joined \in Seq(Int) /\ Len(joined) = begin + n
    BY <1>3, <2>1, JoinedLength
  <2> QED BY <1>1, <2>2
<1> QED BY <1>2, <1>3

\* Every step keeps it: the buffer is filled by the one step that joins.
LEMMA MainBufInvStep ==
  ASSUME MainBufInv, StreamNext
  PROVE  MainBufInv'
<1> USE DEF MainBufInv, MaxBegin
<1>1. CASE input_helix
  BY <1>1 DEF input_helix
<1>2. CASE NoSync
  BY <1>2 DEF NoSync
<1>3. CASE Decode
  <2>1. PICK k \in {Min(MP3FindSyncWord(ptr, left))} :
          BadHeader(k, received - Frames[k].start) \/ MP3Decode(k, received - Frames[k].start)
    BY <1>3 DEF Decode
  <2>2. k \in DOMAIN Frames /\ Frames[k] \in FrameOf
    <3>1. Frames \in Seq(FrameOf)
      BY StreamsAssumption DEF Frames, song, Songs
    <3>2. DOMAIN Frames \subseteq Nat /\ MP3FindSyncWord(ptr, left) \subseteq DOMAIN Frames
      BY <3>1, LenProperties DEF MP3FindSyncWord
    <3>3. k \in MP3FindSyncWord(ptr, left)
      BY <1>3, <2>1, <3>2, SmallestIsMember DEF Decode
    <3> QED BY <3>1, <3>2, <3>3, LenProperties, ElementOfSeq
  <2> DEFINE f == Frames[k]
             atFrame == received - f.start
  <2>3. CASE BadHeader(k, atFrame)
    BY <2>3 DEF BadHeader, Fail
  <2>4. CASE MP3Decode(k, atFrame)
    <3> DEFINE bytesLeft == atFrame - HeadBytes(f.header)
               s == SlotsOf(f, atFrame)
    <3>1. /\ SetRate(f, s)
          /\ Underflow(k, s, bytesLeft) \/ CopyNegative(s, bytesLeft) \/ MainData(k, s, bytesLeft)
      BY <2>4 DEF MP3Decode
    <3>2. stream' = stream
      BY <3>1 DEF Underflow, CopyNegative, MainData, Fail
    <3>3. freeBitrateFlag' \in BOOLEAN /\ (~freeBitrateFlag' => ~freeBitrateFlag /\ ~s.fails)
      BY <3>1 DEF SetRate, SlotsOf
    <3> SUFFICES ASSUME ~freeBitrateFlag'
                 PROVE  /\ nSlots' \in Int /\ MaxBegin + nSlots' <= MAINBUF_SIZE
                        /\ mainBuf' \in Seq(Int) /\ Len(mainBuf') <= MAINBUF_SIZE
      BY <3>2, <3>3
    <3>4. s.n \in Int /\ MaxBegin + s.n <= MAINBUF_SIZE
      <4>1. s.n \in {TableSlots(f.header), nSlots}
        BY <3>1, <3>3 DEF SetRate, SlotsOf
      <4> QED BY <2>2, <3>3, <4>1, SlotsAreNumbers, SlotsFit DEF FrameOf
    <3>5. nSlots' = s.n
      BY <3>1, <3>3 DEF SetRate
    <3>6. CASE Underflow(k, s, bytesLeft) \/ CopyNegative(s, bytesLeft)
      BY <3>3, <3>4, <3>5, <3>6 DEF Underflow, CopyNegative
    <3>7. CASE MainData(k, s, bytesLeft)
      <4> DEFINE from == f.start + HeadBytes(f.header)
      <4>1. f.begin \in 0..MaxBegin /\ from \in Int
        <5>1. f \in FrameOf
          BY <2>2
        <5> HIDE DEF f
        <5>2. f.start \in Nat /\ f.header \in Headers /\ f.begin \in 0..MaxBegin
          BY <5>1 DEF FrameOf
        <5>3. HeadBytes(f.header) \in Nat
          BY <5>2, SlotsAreNumbers
        <5>4. from \in Nat
          BY <5>2, <5>3
        <5> QED BY <5>2, <5>4
      <4>2. s.n \in Nat
        <5>1. 0 <= s.n
          BY <3>7 DEF MainData
        <5> QED BY <3>4, <5>1
      <4>3. \/ Len(mainBuf) < f.begin /\ mainBuf' = mainBuf \o Bytes(from, s.n)
            \/ Len(mainBuf) >= f.begin /\ mainBuf' = Reservoir(mainBuf, f.begin) \o Bytes(from, s.n)
        BY <3>7 DEF MainData
      <4>4. mainBuf \in Seq(Int)
        BY <3>3
      <4>5. mainBuf' \in Seq(Int) /\ Len(mainBuf') <= MAINBUF_SIZE
        BY <3>4, <4>1, <4>2, <4>3, <4>4, JoinedFits, ZenonT(30)
      <4> QED BY <3>4, <3>5, <4>5
    <3> QED BY <3>1, <3>6, <3>7
  <2> QED BY <2>1, <2>3, <2>4
<1> QED BY <1>1, <1>2, <1>3 DEF StreamNext

\* mainBuf is long enough for the reservoir and the main data of every frame, broken,
\* cut off and skipped ones included, while no frame of free bitrate has come
\* (mp3dec.c: MP3Decode(); mp3dec.h: MAINBUF_SIZE).
THEOREM MainBufHoldsAlways == StreamSpec => []MainBufHolds
<1>1. StreamInit => MainBufInv
  <2>1. <<>> \in Seq(Int) /\ Len(<<>>) = 0
    BY EmptySeq
  <2>2. MaxBegin <= MAINBUF_SIZE
    <3> DEFINE h == [ver |-> "mpeg1", srIdx |-> 0, brIdx |-> 14, crc |-> FALSE, pad |-> FALSE, mono |-> FALSE]
    <3>1. h \in Headers
      BY DEF Headers, Versions
    <3>2. TableSlots(h) = 1008
      BY DEF TableSlots, slotTab, Slots44, HeadBytes, fhBytes, siBytes, SideBytes, CheckPadBit
    <3> QED BY <3>1, <3>2, SlotsFit, StreamsAssumption DEF MaxBegin
  <2>3. MAINBUF_SIZE \in Nat
    BY StreamsAssumption
  <2>4. ASSUME StreamInit PROVE stream \in DOMAIN Streams /\ freeBitrateFlag \in BOOLEAN
    BY <2>4 DEF StreamInit
  <2>5. ASSUME StreamInit PROVE nSlots = 0 /\ mainBuf = <<>>
    BY <2>5 DEF StreamInit
  <2> QED BY <2>1, <2>2, <2>3, <2>4, <2>5 DEF MainBufInv, MaxBegin
<1>2. MainBufInv /\ [StreamNext]_streamVars => MainBufInv'
  BY MainBufInvStep DEF MainBufInv, streamVars
<1>3. MainBufInv => MainBufHolds
  BY DEF MainBufInv, MainBufHolds
<1> QED BY <1>1, <1>2, <1>3, PTL DEF StreamSpec

----------------------------------------------------------------------------
(* The parts of a frame.                                                   *)

\* A set with 0 in it, and with each of the first numbers the next, holds them all.
LEMMA UpTo ==
  ASSUME NEW N \in Nat, NEW T, 0 \in T, \A n \in 0..N - 1 : n \in T => n + 1 \in T
  PROVE  0..N \subseteq T
<1> DEFINE R == OpToRel(<, Nat)
           S == 0..N \ T
<1>1. IsWellFoundedOn(R, Nat)
  BY NatLessThanWellFounded
<1>2. \A x, y \in Nat : ~(<<y, x>> \in R) => x <= y
  BY DEF OpToRel
<1>3. SUFFICES ASSUME S # {} PROVE FALSE
  OBVIOUS
<1>4. S \subseteq Nat
  OBVIOUS
<1> HIDE DEF R, S
<1>5. PICK x \in S : \A y \in S : ~(<<y, x>> \in R)
  BY <1>1, <1>3, <1>4, WFMin
<1>6. x \in 0..N /\ x \notin T
  BY <1>5 DEF S
<1>7. x - 1 \in 0..N - 1 /\ x - 1 \in Nat
  BY <1>6
<1>8. x - 1 \notin S
  <2> SUFFICES ASSUME NEW y \in S, y = x - 1 PROVE FALSE
    OBVIOUS
  <2>1. x \in Nat /\ y \in Nat /\ ~(<<y, x>> \in R)
    BY <1>4, <1>5
  <2>2. x <= y
    BY <1>2, <2>1
  <2> QED BY <2>1, <2>2
<1>9. x - 1 \in T
  BY <1>7, <1>8 DEF S
<1>10. x - 1 + 1 \in T
  BY <1>7, <1>9
<1> QED BY <1>6, <1>10

\* A function of the first numbers may be given by its first value and a step.
Follows(f, N, base, step) == f[0] = base /\ \A n \in 1..N : f[n] = step[n][f[n - 1]]

\* Such a function exists, for any first value and any steps.
LEMMA ByRecursion ==
  ASSUME NEW S, NEW N \in Nat, NEW base \in S, NEW step \in [1..N -> [S -> S]]
  PROVE  \E f \in [0..N -> S] : Follows(f, N, base, step)
<1> DEFINE Fits(n, f) == f \in [0..n -> S] /\ f[0] = base /\ \A i \in 1..n : f[i] = step[i][f[i - 1]]
           T == {n \in 0..N : \E f : Fits(n, f)}
<1>1. 0 \in T
  <2>1. Fits(0, [i \in 0..0 |-> base])
    OBVIOUS
  <2> HIDE DEF Fits
  <2> QED BY <2>1
<1>2. ASSUME NEW n \in 0..N - 1, n \in T PROVE n + 1 \in T
  <2>1. PICK f : Fits(n, f)
    BY <1>2
  <2> DEFINE g == [i \in 0..n + 1 |-> IF i = n + 1 THEN step[n + 1][f[n]] ELSE f[i]]
  <2>2. n + 1 \in 1..N /\ n \in 0..n
    BY <1>2
  <2>3. f[n] \in S /\ step[n + 1][f[n]] \in S
    BY <2>1, <2>2
  <2>4. \A i \in 0..n + 1 : i = n + 1 \/ i \in 0..n
    BY <1>2
  <2>5. g \in [0..n + 1 -> S]
    BY <2>1, <2>3, <2>4
  <2>6. g[0] = base /\ g[n + 1] = step[n + 1][f[n]] /\ \A i \in 0..n : g[i] = f[i]
    BY <1>2, <2>1
  <2> HIDE DEF g
  <2>7. \A i \in 1..n + 1 : g[i] = step[i][g[i - 1]]
    <3> SUFFICES ASSUME NEW i \in 1..n + 1 PROVE g[i] = step[i][g[i - 1]]
      OBVIOUS
    <3>1. CASE i = n + 1
      BY <2>2, <2>6, <3>1
    <3>2. CASE i # n + 1
      <4>1. i \in 1..n /\ i \in 0..n /\ i - 1 \in 0..n
        BY <1>2, <3>2
      <4> QED BY <2>1, <2>6, <4>1
    <3> QED BY <3>1, <3>2
  <2>8. Fits(n + 1, g)
    BY <2>5, <2>6, <2>7
  <2> QED BY <2>2, <2>8, SMTT(20)
<1> HIDE DEF T
<1>3. \A n \in 0..N - 1 : n \in T => n + 1 \in T
  BY <1>2
<1>4. 0..N \subseteq T
  BY <1>1, <1>3, UpTo
<1>5. N \in T
  BY <1>4
<1> QED BY <1>5 DEF T, Follows

\* The lengths of the parts of a frame, summed up.
LEMMA LengthsSum ==
  ASSUME NEW f, f.parts \in Seq([sf : Nat, p23 : Nat])
  PROVE  /\ Lengths(f) \in [0..Len(f.parts) -> Nat] /\ Lengths(f)[0] = 0
         /\ \A n \in 1..Len(f.parts) : Lengths(f)[n] = Lengths(f)[n - 1] + f.parts[n].p23
<1> DEFINE p == f.parts
           N == Len(p)
           step == [n \in 1..N |-> [m \in Nat |-> m + p[n].p23]]
           Def(sum) == sum = [n \in 0..N |-> IF n = 0 THEN 0 ELSE sum[n - 1] + p[n].p23]
           L == Lengths(f)
<1>1. N \in Nat /\ \A n \in 1..N : p[n].p23 \in Nat
  <2>1. p \in Seq([sf : Nat, p23 : Nat])
    OBVIOUS
  <2> HIDE DEF p
  <2>2. N \in Nat /\ \A n \in 1..N : p[n] \in [sf : Nat, p23 : Nat]
    BY <2>1, LenProperties, ElementOfSeq
  <2> QED BY <2>2
<1>2. L = CHOOSE g : Def(g)
  BY DEF Lengths
<1> HIDE DEF p, N, L
<1>3. step \in [1..N -> [Nat -> Nat]] /\ N \in Nat /\ 0 \in Nat
  BY <1>1
<1>s. \A n \in 1..N, m \in Nat : step[n][m] = m + p[n].p23
  OBVIOUS
<1> HIDE DEF step
<1>4. PICK sum \in [0..N -> Nat] : Follows(sum, N, 0, step)
  BY <1>3, ByRecursion
<1>5. \A n \in 1..N : sum[n] = sum[n - 1] + p[n].p23
  <2> SUFFICES ASSUME NEW n \in 1..N PROVE sum[n] = sum[n - 1] + p[n].p23
    OBVIOUS
  <2>1. n - 1 \in 0..N
    BY <1>1
  <2>2. sum[n - 1] \in Nat
    BY <1>4, <2>1
  <2> QED BY <1>4, <1>s, <2>2 DEF Follows
<1>6. Def(sum)
  BY <1>1, <1>4, <1>5 DEF Follows
<1> HIDE DEF Def
<1>7. Def(L)
  BY <1>2, <1>6
<1>8. L = [n \in 0..N |-> IF n = 0 THEN 0 ELSE L[n - 1] + p[n].p23]
  BY <1>7 DEF Def
<1>9. L[0] = 0 /\ \A n \in 1..N : L[n] = L[n - 1] + p[n].p23
  BY <1>1, <1>8
<1> DEFINE T == {n \in 0..N : L[n] \in Nat}
<1>10. 0 \in T
  BY <1>1, <1>9
<1>11. \A n \in 0..N - 1 : n \in T => n + 1 \in T
  <2> SUFFICES ASSUME NEW n \in 0..N - 1, n \in T PROVE n + 1 \in T
    OBVIOUS
  <2>1. n + 1 \in 1..N /\ n + 1 - 1 = n /\ L[n] \in Nat
    BY <1>1
  <2>2. L[n + 1] = L[n] + p[n + 1].p23
    BY <1>9, <2>1
  <2> QED BY <1>1, <2>1, <2>2, SMTT(20)
<1> HIDE DEF T
<1>12. 0..N \subseteq T
  BY <1>1, <1>10, <1>11, UpTo
<1>13. \A n \in 0..N : L[n] \in Nat
  BY <1>12 DEF T
<1>14. L \in [0..N -> Nat]
  BY <1>8, <1>13
<1> QED BY <1>9, <1>14 DEF L, N, p

PartSet == [sf : Nat, p23 : Nat]
AccSet == [mainPtr : Int, bitOffset : Int, mainBits : Int, starts : Seq(Int),
           err : {"", "scalefact", "huffcodes"}]
PartsBegin(bytes) ==
  [mainPtr |-> 0, bitOffset |-> 0, mainBits |-> 8 * bytes, starts |-> <<>>, err |-> ""]

\* A part that decodes ends as many bits on as it is long.
LEMMA PartDecoded ==
  ASSUME NEW acc \in AccSet, NEW pt \in PartSet
  PROVE  /\ AfterPart(acc, pt) \in AccSet
         /\ AfterPart(acc, pt).err = "" =>
              /\ acc.err = ""
              /\ AfterPart(acc, pt).mainBits = acc.mainBits - pt.p23
              /\ AfterPart(acc, pt).starts = Append(acc.starts, 8 * acc.mainPtr + acc.bitOffset)
              /\ AfterPart(acc, pt).bitOffset \in 0..7
              /\ 8 * AfterPart(acc, pt).mainPtr + AfterPart(acc, pt).bitOffset
                 = 8 * acc.mainPtr + acc.bitOffset + pt.p23
         /\ acc.err = "" /\ pt.sf <= pt.p23 /\ pt.p23 <= acc.mainBits =>
              AfterPart(acc, pt).err = ""
<1> DEFINE mp == acc.mainPtr
           bo == acc.bitOffset
           mb == acc.mainBits
           st == acc.starts
           sf == pt.sf
           p23 == pt.p23
<1>a. mp \in Int /\ bo \in Int /\ mb \in Int
  BY DEF AccSet
<1>b. sf \in Int /\ p23 \in Int
  BY DEF PartSet
<1>s. st \in Seq(Int)
  BY DEF AccSet
<1> DEFINE sfEnd == bo + sf
           p23Bits == p23 - sf
           end == (sfEnd % 8) + p23Bits
           at == 8 * mp + bo
           here == Append(st, at)
           ptrAfter == mp + sfEnd \div 8 + end \div 8
           bitAfter == end % 8
           bitsAfter == mb - p23
           low == mb - sf < p23Bits
           result == [mainPtr |-> ptrAfter, bitOffset |-> bitAfter, mainBits |-> bitsAfter,
                      starts |-> here, err |-> ""]
           r == AfterPart(acc, pt)
<1>2. r = IF acc.err # "" THEN acc
          ELSE IF low THEN [acc EXCEPT !.err = "scalefact"]
          ELSE IF p23Bits < 0 THEN [acc EXCEPT !.err = "huffcodes"]
          ELSE result
  BY DEF AfterPart
<1> HIDE DEF mp, bo, mb, st, sf, p23, r
<1>3. at \in Int
  BY <1>a, <1>b
<1>4. here \in Seq(Int)
  <2> HIDE DEF at
  <2> QED BY <1>s, <1>3, AppendProperties
<1>5. sfEnd \in Int /\ p23Bits \in Int /\ bitsAfter \in Int
  BY <1>a, <1>b
<1>6. end \in Int
  BY <1>5
<1>7. ptrAfter \in Int /\ bitAfter \in 0..7
  <2> HIDE DEF end, sfEnd
  <2> QED BY <1>a, <1>5, <1>6
<1>8. 8 * ptrAfter + bitAfter = at + p23
  <2>1. sfEnd = 8 * (sfEnd \div 8) + (sfEnd % 8)
    <3> HIDE DEF sfEnd
    <3> QED BY <1>5
  <2>2. end = 8 * (end \div 8) + (end % 8)
    <3> HIDE DEF end
    <3> QED BY <1>6
  <2> DEFINE a == sfEnd \div 8
             b == sfEnd % 8
             c == end \div 8
             d == end % 8
  <2>3. a \in Int /\ b \in Int /\ c \in Int /\ d \in Int
    <3> HIDE DEF end, sfEnd
    <3> QED BY <1>5, <1>6
  <2>4. bo + sf = 8 * a + b /\ b + (p23 - sf) = 8 * c + d
    BY <2>1, <2>2
  <2> HIDE DEF a, b, c, d
  <2>5. 8 * (mp + a + c) + d = 8 * mp + bo + p23
    BY <1>a, <1>b, <2>3, <2>4
  <2> QED BY <2>5 DEF a, b, c, d
<1>9. sf <= p23 /\ p23 <= mb => ~low /\ ~(p23Bits < 0)
  BY <1>a, <1>b
<1>10. /\ result.mainPtr = ptrAfter /\ result.bitOffset = bitAfter /\ result.mainBits = bitsAfter
       /\ result.starts = here /\ result.err = ""
  <2> HIDE DEF ptrAfter, bitAfter, bitsAfter, here
  <2> QED OBVIOUS
<1>11. result \in AccSet
  <2> HIDE DEF ptrAfter, bitAfter, bitsAfter, here
  <2>1. bitAfter \in Int /\ ptrAfter \in Int /\ bitsAfter \in Int
    BY <1>5, <1>7
  <2> QED BY <1>4, <2>1 DEF AccSet
<1>12. /\ [acc EXCEPT !.err = "scalefact"] \in AccSet /\ [acc EXCEPT !.err = "huffcodes"] \in AccSet
       /\ [acc EXCEPT !.err = "scalefact"].err = "scalefact" /\ [acc EXCEPT !.err = "huffcodes"].err = "huffcodes"
  BY DEF AccSet
<1> HIDE DEF result, low, p23Bits
<1>13. r \in AccSet /\ (r.err = "" => acc.err = "" /\ r = result)
  BY <1>2, <1>11, <1>12
<1>14. acc.err = "" /\ ~low /\ ~(p23Bits < 0) => r.err = ""
  BY <1>2, <1>10
<1>15. r.err = "" => /\ acc.err = "" /\ r.mainBits = mb - p23 /\ r.starts = Append(st, at)
                     /\ r.bitOffset \in 0..7 /\ 8 * r.mainPtr + r.bitOffset = at + p23
  <2> HIDE DEF ptrAfter, bitAfter, at
  <2>1. ASSUME r.err = "" PROVE r.mainPtr = ptrAfter /\ r.bitOffset = bitAfter /\ r.mainBits = bitsAfter
                                /\ r.starts = here
    BY <1>10, <1>13, <2>1
  <2> QED BY <1>7, <1>8, <1>13, <2>1
<1> QED BY <1>9, <1>13, <1>14, <1>15 DEF r, mp, bo, mb, st, sf, p23

\* DecodeParts() is a run over the parts.
LEMMA PartsRun ==
  ASSUME NEW parts \in Seq(PartSet), NEW bytes \in Nat
  PROVE  \E after \in [0..Len(parts) -> AccSet] :
           /\ DecodeParts(parts, bytes) = after[Len(parts)] /\ after[0] = PartsBegin(bytes)
           /\ \A n \in 1..Len(parts) : after[n] = AfterPart(after[n - 1], parts[n])
<1> DEFINE N == Len(parts)
           begin == PartsBegin(bytes)
           Def(g) == g = [n \in 0..N |-> IF n = 0 THEN begin ELSE AfterPart(g[n - 1], parts[n])]
           step == [n \in 1..N |-> [acc \in AccSet |-> AfterPart(acc, parts[n])]]
           run == CHOOSE g : Def(g)
<1>1. N \in Nat /\ \A n \in 1..N : parts[n] \in PartSet
  BY LenProperties, ElementOfSeq
<1>2. begin \in AccSet
  <2>1. 8 * bytes \in Int /\ <<>> \in Seq(Int)
    OBVIOUS
  <2> QED BY <2>1 DEF PartsBegin, AccSet
<1>3. DecodeParts(parts, bytes) = run[N]
  BY DEF DecodeParts, PartsBegin
<1> HIDE DEF N, begin
<1>4. step \in [1..N -> [AccSet -> AccSet]]
  BY <1>1, PartDecoded
<1>5. \A n \in 1..N, acc \in AccSet : step[n][acc] = AfterPart(acc, parts[n])
  OBVIOUS
<1> HIDE DEF step
<1>6. PICK f \in [0..N -> AccSet] : Follows(f, N, begin, step)
  BY <1>1, <1>2, <1>4, ByRecursion
<1>7. \A n \in 1..N : f[n] = AfterPart(f[n - 1], parts[n])
  <2> SUFFICES ASSUME NEW n \in 1..N PROVE f[n] = AfterPart(f[n - 1], parts[n])
    OBVIOUS
  <2>1. n - 1 \in 0..N
    BY <1>1
  <2>2. f[n - 1] \in AccSet
    BY <1>6, <2>1
  <2> QED BY <1>5, <1>6, <2>2 DEF Follows
<1>8. Def(f)
  BY <1>1, <1>6, <1>7 DEF Follows
<1> HIDE DEF Def
<1>9. Def(run)
  BY <1>8
<1> HIDE DEF run
<1>10. run = [n \in 0..N |-> IF n = 0 THEN begin ELSE AfterPart(run[n - 1], parts[n])]
  BY <1>9 DEF Def
<1>11. run[0] = begin /\ \A n \in 1..N : run[n] = AfterPart(run[n - 1], parts[n])
  BY <1>1, <1>10
<1> DEFINE T == {n \in 0..N : run[n] \in AccSet}
<1>12. 0 \in T
  BY <1>1, <1>2, <1>11
<1>13. \A n \in 0..N - 1 : n \in T => n + 1 \in T
  <2> SUFFICES ASSUME NEW n \in 0..N - 1, n \in T PROVE n + 1 \in T
    OBVIOUS
  <2>1. n + 1 \in 1..N /\ n + 1 - 1 = n /\ run[n] \in AccSet /\ n + 1 \in 0..N
    BY <1>1
  <2>2. run[n + 1] = AfterPart(run[n], parts[n + 1]) /\ parts[n + 1] \in PartSet
    BY <1>1, <1>11, <2>1
  <2>3. run[n + 1] \in AccSet
    BY <2>1, <2>2, PartDecoded
  <2> QED BY <2>1, <2>3
<1> HIDE DEF T
<1>14. 0..N \subseteq T
  BY <1>1, <1>12, <1>13, UpTo
<1>15. \A n \in 0..N : run[n] \in AccSet
  BY <1>14 DEF T
<1>16. run \in [0..N -> AccSet]
  BY <1>10, <1>15
<1> QED BY <1>3, <1>11, <1>16 DEF N, begin

\* Each part of a frame that decodes begins where the lengths of those before it end, and a
\* frame decodes when its parts are as long as their scale factors and not longer than the data.
LEMMA PartsFound ==
  ASSUME NEW f, f.parts \in Seq(PartSet), NEW bytes \in Nat
  PROVE  /\ DecodeParts(f.parts, bytes).err = "" =>
              DecodeParts(f.parts, bytes).starts = [n \in DOMAIN f.parts |-> Lengths(f)[n - 1]]
         /\ (\A n \in DOMAIN f.parts : f.parts[n].sf <= f.parts[n].p23)
            /\ Lengths(f)[Len(f.parts)] <= 8 * bytes => DecodeParts(f.parts, bytes).err = ""
<1> DEFINE p == f.parts
           N == Len(p)
           L == Lengths(f)
           d == DecodeParts(p, bytes)
<1>1. p \in Seq(PartSet)
  OBVIOUS
<1>2. PICK after \in [0..N -> AccSet] :
        /\ d = after[N] /\ after[0] = PartsBegin(bytes)
        /\ \A n \in 1..N : after[n] = AfterPart(after[n - 1], p[n])
  BY PartsRun
<1>3. /\ L \in [0..N -> Nat] /\ L[0] = 0 /\ \A n \in 1..N : L[n] = L[n - 1] + p[n].p23
  BY LengthsSum DEF PartSet
<1> HIDE DEF p, d, L
<1>4. (\A n \in 1..N : p[n] \in PartSet) /\ DOMAIN p = 1..N
  BY <1>1, LenProperties, ElementOfSeq
<1>N. N \in Nat
  BY <1>1, LenProperties
<1> HIDE DEF N
<1>L. \A n \in 0..N : L[n] \in Nat
  BY <1>3
<1>P. \A n \in 1..N : p[n].p23 \in Nat
  BY <1>4 DEF PartSet
<1>A. \A n \in 0..N : after[n] \in AccSet
  BY <1>2
<1> DEFINE At(n) == 8 * after[n].mainPtr + after[n].bitOffset
           Good(n) == after[n].err = "" =>
                        /\ At(n) = L[n] /\ after[n].mainBits = 8 * bytes - L[n]
                        /\ Len(after[n].starts) = n /\ \A i \in 1..n : after[n].starts[i] = L[i - 1]
           T == {n \in 0..N : Good(n)}
<1>5. Good(0)
  <2> DEFINE b == PartsBegin(bytes)
  <2>1. b.mainPtr = 0 /\ b.bitOffset = 0 /\ b.mainBits = 8 * bytes /\ b.starts = <<>> /\ b.err = ""
    BY DEF PartsBegin
  <2>2. Len(<<>>) = 0
    OBVIOUS
  <2> HIDE DEF b
  <2>3. after[0] = b
    BY <1>2 DEF b
  <2>4. L[0] = 0
    BY <1>3
  <2>5. At(0) = 0
    <3>1. b.mainPtr = 0 /\ b.bitOffset = 0
      BY <2>1
    <3> QED BY <2>3, <3>1
  <2>6. after[0].mainBits = 8 * bytes - L[0]
    <3>1. b.mainBits = 8 * bytes
      BY <2>1
    <3> QED BY <2>3, <2>4, <3>1
  <2>7. after[0].starts = <<>>
    BY <2>1, <2>3
  <2> HIDE DEF At
  <2>8. after[0].err = "" => Len(after[0].starts) = 0
    BY <2>2, <2>7
  <2>9. At(0) = L[0]
    BY <2>4, <2>5
  <2>10. \A i \in 1..0 : after[0].starts[i] = L[i - 1]
    OBVIOUS
  <2> QED BY <2>6, <2>8, <2>9, <2>10
<1>6. ASSUME NEW n \in 0..N - 1, Good(n) PROVE Good(n + 1)
  <2>s. SUFFICES ASSUME after[n + 1].err = ""
                 PROVE  /\ At(n + 1) = L[n + 1] /\ after[n + 1].mainBits = 8 * bytes - L[n + 1]
                      /\ Len(after[n + 1].starts) = n + 1
                      /\ \A i \in 1..n + 1 : after[n + 1].starts[i] = L[i - 1]
    OBVIOUS
  <2> DEFINE acc == after[n]
             later == after[n + 1]
             pt == p[n + 1]
             a == At(n)
             a2 == At(n + 1)
             m == L[n]
             m2 == L[n + 1]
             st == acc.starts
             st2 == later.starts
             q == pt.p23
  <2>1. n + 1 \in 1..N /\ n \in 0..N /\ n + 1 - 1 = n /\ n \in Nat
    BY <1>N
  <2>2. acc \in AccSet /\ pt \in PartSet
    BY <1>4, <1>A, <2>1
  <2>3. later = AfterPart(acc, pt)
    BY <1>2, <2>1
  <2>4. m2 = m + q
    BY <1>3, <2>1
  <2>5. m \in Nat
    BY <1>L, <2>1
  <2>6. q \in Nat
    BY <1>P, <2>1
  <2>7. /\ acc.err = "" /\ later.mainBits = acc.mainBits - pt.p23
        /\ later.starts = Append(acc.starts, 8 * acc.mainPtr + acc.bitOffset)
        /\ 8 * later.mainPtr + later.bitOffset = 8 * acc.mainPtr + acc.bitOffset + pt.p23
    <3> HIDE DEF acc, pt
    <3>1. later.err = ""
      BY <2>s
    <3> HIDE DEF later
    <3> QED BY <2>2, <2>3, <3>1, PartDecoded
  <2>8. st2 = Append(st, a) /\ a2 = a + q
    BY <2>7
  <2>9. a = m /\ acc.mainBits = 8 * bytes - m /\ Len(st) = n /\ \A i \in 1..n : st[i] = L[i - 1]
    BY <1>6, <2>7
  <2>10. st \in Seq(Int)
    BY <2>2 DEF AccSet
  <2>11. later.mainBits = acc.mainBits - q
    BY <2>7
  <2> HIDE DEF a, a2, m, m2, st, st2, q, acc, later, pt, At, Good
  <2>12. a2 = m2
    BY <2>4, <2>5, <2>6, <2>8, <2>9
  <2>13. later.mainBits = 8 * bytes - m2
    BY <2>4, <2>5, <2>6, <2>9, <2>11
  <2>14. st2 = Append(st, m)
    BY <2>8, <2>9
  <2>15. m \in Int
    BY <2>5
  <2>16. Append(st, m) \in Seq(Int) /\ Len(Append(st, m)) = Len(st) + 1
         /\ (\A i \in 1..Len(st) : Append(st, m)[i] = st[i]) /\ Append(st, m)[Len(st) + 1] = m
    BY <2>10, <2>15, AppendProperties
  <2>17. Len(st2) = n + 1 /\ st2[n + 1] = m /\ \A i \in 1..n : st2[i] = L[i - 1]
    BY <2>9, <2>14, <2>16
  <2>18. ASSUME NEW i \in 1..n + 1 PROVE st2[i] = L[i - 1]
    <3>1. i = n + 1 \/ i \in 1..n
      BY <1>N, <2>1
    <3>2. i = n + 1 => i - 1 = n
      BY <1>N, <2>1
    <3> QED BY <2>17, <3>1, <3>2 DEF m
  <2> QED BY <2>12, <2>13, <2>17, <2>18 DEF a2, m2, st2, later
<1> HIDE DEF Good
<1>7. 0..N \subseteq T
  <2>1. 0 \in T
    BY <1>5, <1>N
  <2>2. \A n \in 0..N - 1 : n \in T => n + 1 \in T
    <3> SUFFICES ASSUME NEW n \in 0..N - 1, n \in T PROVE n + 1 \in T
      OBVIOUS
    <3>1. n + 1 \in 0..N
      BY <1>N
    <3>2. Good(n)
      OBVIOUS
    <3>3. Good(n + 1)
      BY <1>6, <3>2
    <3> QED BY <3>1, <3>3
  <2> HIDE DEF T
  <2> QED BY <1>N, <2>1, <2>2, UpTo
<1>8. \A n \in 0..N : Good(n)
  BY <1>7
<1>9. ASSUME d.err = "" PROVE d.starts = [n \in DOMAIN p |-> L[n - 1]]
  <2> DEFINE st == after[N].starts
  <2>0. N \in 0..N
    BY <1>N
  <2>1. after[N].err = "" /\ d.starts = st
    BY <1>2, <1>9
  <2>2. st \in Seq(Int)
    BY <1>A, <2>0 DEF AccSet
  <2>3. Len(st) = N /\ \A i \in 1..N : st[i] = L[i - 1]
    BY <1>8, <2>0, <2>1 DEF Good
  <2> HIDE DEF st
  <2>4. st = [i \in 1..N |-> st[i]]
    BY <2>2, <2>3
  <2>5. st = [i \in 1..N |-> L[i - 1]]
    BY <2>3, <2>4
  <2> QED BY <1>4, <2>1, <2>5
<1>10. ASSUME \A n \in DOMAIN p : p[n].sf <= p[n].p23, L[N] <= 8 * bytes PROVE d.err = ""
  <2> DEFINE U == {n \in 0..N : L[N - n] <= 8 * bytes}
             V == {n \in 0..N : after[n].err = ""}
  <2>0. \A n \in 1..N : p[n].sf <= p[n].p23
    BY <1>4, <1>10
  <2>1. 0 \in U
    <3>1. N - 0 = N /\ 0 \in 0..N
      BY <1>N
    <3> QED BY <1>10, <3>1
  <2>2. \A n \in 0..N - 1 : n \in U => n + 1 \in U
    <3> SUFFICES ASSUME NEW n \in 0..N - 1, n \in U PROVE n + 1 \in U
      OBVIOUS
    <3> DEFINE k == N - n
               x == L[k]
               y == L[k - 1]
               z == p[k].p23
    <3>1. k \in 1..N /\ k - 1 \in 0..N /\ k \in 0..N /\ N - (n + 1) = k - 1 /\ n + 1 \in 0..N
      BY <1>N
    <3>2. x <= 8 * bytes
      OBVIOUS
    <3> HIDE DEF k
    <3>3. x = y + z
      BY <1>3, <3>1
    <3>4. z \in Nat
      BY <1>P, <3>1
    <3>5. y \in Nat
      BY <1>L, <3>1
    <3> HIDE DEF x, y, z
    <3>6. y <= 8 * bytes
      BY <3>2, <3>3, <3>4, <3>5
    <3> QED BY <3>1, <3>6 DEF y
  <2>3. 0..N \subseteq U
    <3> HIDE DEF U
    <3> QED BY <1>N, <2>1, <2>2, UpTo
  <2>4. \A n \in 0..N : L[n] <= 8 * bytes
    <3> SUFFICES ASSUME NEW n \in 0..N PROVE L[n] <= 8 * bytes
      OBVIOUS
    <3>1. N - n \in 0..N /\ N - (N - n) = n
      BY <1>N
    <3>2. N - n \in U
      BY <2>3, <3>1
    <3>3. L[N - (N - n)] <= 8 * bytes
      BY <3>2
    <3> QED BY <3>1, <3>3
  <2> HIDE DEF U
  <2>5. 0 \in V
    <3>1. after[0].err = ""
      <4>1. after[0] = PartsBegin(bytes)
        BY <1>2
      <4>2. PartsBegin(bytes).err = ""
        BY DEF PartsBegin
      <4> QED BY <4>1, <4>2
    <3>2. 0 \in 0..N
      BY <1>N
    <3> QED BY <3>1, <3>2
  <2>6. ASSUME NEW n \in 0..N - 1, after[n].err = "" PROVE after[n + 1].err = ""
    <3> DEFINE acc == after[n]
               pt == p[n + 1]
               m == L[n]
               m2 == L[n + 1]
               q == pt.p23
               mb == acc.mainBits
    <3>1. n + 1 \in 1..N /\ n \in 0..N /\ n + 1 \in 0..N /\ n + 1 - 1 = n
      BY <1>N
    <3>2. acc \in AccSet
      BY <1>A, <3>1
    <3>3. pt \in PartSet
      BY <1>4, <3>1
    <3>4. after[n + 1] = AfterPart(acc, pt)
      BY <1>2, <3>1
    <3>5. pt.sf <= pt.p23
      BY <2>0, <3>1
    <3>6. acc.err = ""
      BY <2>6
    <3>7. mb = 8 * bytes - m
      BY <1>8, <3>1, <3>6 DEF Good
    <3>8. m2 = m + q
      BY <1>3, <3>1
    <3>9. m2 <= 8 * bytes
      BY <2>4, <3>1
    <3>10. q \in Nat
      BY <1>P, <3>1
    <3>11. m \in Nat
      BY <1>L, <3>1
    <3> HIDE DEF m, m2, q, mb
    <3>12. q <= mb
      BY <3>7, <3>8, <3>9, <3>10, <3>11
    <3>13. pt.p23 <= acc.mainBits
      BY <3>12 DEF q, mb
    <3> HIDE DEF acc, pt
    <3> QED BY <3>2, <3>3, <3>4, <3>5, <3>6, <3>13, PartDecoded, ZenonT(30)
  <2>7. 0..N \subseteq V
    <3>1. \A n \in 0..N - 1 : n + 1 \in 0..N
      BY <1>N
    <3>2. \A n \in 0..N - 1 : n \in V => n + 1 \in V
      BY <2>6, <3>1
    <3> HIDE DEF V
    <3> QED BY <1>N, <2>5, <3>2, UpTo
  <2>8. N \in V
    <3>1. N \in 0..N
      BY <1>N
    <3> HIDE DEF V
    <3> QED BY <2>7, <3>1
  <2>9. after[N].err = ""
    BY <2>8
  <2> QED BY <1>2, <2>9
<1> QED BY <1>9, <1>10 DEF p, N, L, d

----------------------------------------------------------------------------
(* The frames of a stream, one behind the other.                           *)

\* The frames follow each other, each as long as its header says.
InOrder ==
  \A k \in DOMAIN Frames :
    LET f == Frames[k]
    IN f.header.brIdx # 0 /\ f.slots = TableSlots(f.header) /\ f.start = EndOf(k - 1)

\* The song that is played, its frames and their number.
LEMMA SongKnown ==
  ASSUME stream \in DOMAIN Streams
  PROVE  /\ Frames \in Seq(FrameOf) /\ song.length \in Nat /\ Len(Frames) \in Nat
         /\ DOMAIN Frames = 1..Len(Frames) /\ \A k \in 1..Len(Frames) : Frames[k] \in FrameOf
<1>1. Frames \in Seq(FrameOf) /\ song.length \in Nat
  BY StreamsAssumption DEF Frames, song, Songs
<1> DEFINE fr == Frames
<1>2. fr \in Seq(FrameOf)
  BY <1>1
<1> HIDE DEF fr
<1>3. Len(fr) \in Nat /\ DOMAIN fr = 1..Len(fr) /\ \A k \in 1..Len(fr) : fr[k] \in FrameOf
  BY <1>2, LenProperties, ElementOfSeq
<1> QED BY <1>1, <1>3 DEF fr

\* The bytes of a frame.
LEMMA FrameKnown ==
  ASSUME NEW f \in FrameOf
  PROVE  /\ f.start \in Nat /\ f.slots \in Nat /\ f.begin \in 0..MaxBegin /\ f.header \in Headers
         /\ HeadBytes(f.header) \in Nat /\ HeadBytes(f.header) >= HeaderWord
         /\ Size(f) \in Nat /\ Size(f) = HeadBytes(f.header) + f.slots
         /\ f.parts \in Seq(PartSet) /\ TableSlots(f.header) \in Int /\ f.valid \in BOOLEAN
<1>1. /\ f.start \in Nat /\ f.slots \in Nat /\ f.begin \in 0..MaxBegin /\ f.header \in Headers
      /\ f.parts \in Seq(PartSet) /\ f.valid \in BOOLEAN
  BY DEF FrameOf, PartSet
<1> DEFINE h == f.header
           n == f.slots
<1>2. h \in Headers
  BY <1>1
<1>3. HeadBytes(h) \in Nat /\ TableSlots(h) \in Int
  BY <1>2, SlotsAreNumbers
<1>4. HeadBytes(h) >= HeaderWord
  <2>1. fhBytes(h) \in Nat /\ fhBytes(h) >= 4
    BY DEF fhBytes
  <2>2. siBytes(h) \in Nat
    BY DEF siBytes, SideBytes
  <2> QED BY <2>1, <2>2 DEF HeadBytes, HeaderWord
<1>5. n \in Nat
  BY <1>1
<1> HIDE DEF h, n
<1>6. HeadBytes(h) + n \in Nat
  BY <1>3, <1>5
<1> QED BY <1>1, <1>3, <1>4, <1>6 DEF h, n, Size

\* Each frame ends behind the one before it.
LEMMA EndsInOrder ==
  ASSUME stream \in DOMAIN Streams, InOrder
  PROVE  /\ \A k \in 0..Len(Frames) : EndOf(k) \in Nat
         /\ \A k \in 1..Len(Frames) : EndOf(k) = EndOf(k - 1) + Size(Frames[k])
                                      /\ Frames[k].start = EndOf(k - 1)
         /\ \A j, k \in 0..Len(Frames) : j < k => EndOf(j) < EndOf(k)
<1> DEFINE N == Len(Frames)
           E(k) == EndOf(k)
           size(k) == Size(Frames[k])
<1>N. N \in Nat
  BY SongKnown
<1>1. ASSUME NEW k \in 1..N
      PROVE  /\ E(k) = E(k - 1) + size(k) /\ Frames[k].start = E(k - 1) /\ E(k) \in Nat
             /\ size(k) \in Nat /\ size(k) >= 4
  <2> DEFINE f == Frames[k]
  <2>1. f \in FrameOf /\ k \in DOMAIN Frames
    BY SongKnown
  <2>2. f.start = E(k - 1)
    BY <2>1 DEF InOrder
  <2> HIDE DEF f
  <2>3. f.start \in Nat /\ Size(f) \in Nat /\ Size(f) >= 4
    <3>1. /\ f.start \in Nat /\ Size(f) \in Nat /\ Size(f) = HeadBytes(f.header) + f.slots
          /\ HeadBytes(f.header) \in Nat /\ HeadBytes(f.header) >= HeaderWord /\ f.slots \in Nat
      BY <2>1, FrameKnown
    <3> DEFINE a == HeadBytes(f.header)
               b == f.slots
    <3>2. Size(f) = a + b /\ a \in Nat /\ a >= 4 /\ b \in Nat
      BY <3>1 DEF HeaderWord
    <3> HIDE DEF a, b
    <3> QED BY <3>1, <3>2
  <2>4. E(k) = f.start + Size(f)
    <3>1. k # 0
      BY <1>N
    <3> QED BY <3>1 DEF EndOf, f
  <2>5. E(k) \in Nat
    BY <2>3, <2>4
  <2> QED BY <2>2, <2>3, <2>4, <2>5 DEF f
<1>2. E(0) = 0
  BY DEF EndOf
<1> HIDE DEF E, N, size
<1>3. ASSUME NEW k \in 0..N PROVE E(k) \in Nat
  <2>1. k = 0 \/ k \in 1..N
    BY <1>N
  <2> QED BY <1>1, <1>2, <2>1
<1>4. ASSUME NEW j \in 0..N, NEW k \in 0..N, j < k PROVE E(j) < E(k)
  <2> DEFINE M == k - j - 1
             T == {n \in 0..M : E(j) < E(j + 1 + n)}
  <2>1. M \in Nat
    BY <1>4, <1>N
  <2>2. \A n \in 0..M : j + 1 + n \in 1..N /\ j + n \in 0..N /\ j + 1 + n - 1 = j + n
    BY <1>4, <1>N
  <2> HIDE DEF M
  <2>3. \A n \in 0..M : E(j + 1 + n) = E(j + n) + size(j + 1 + n) /\ size(j + 1 + n) \in Nat
                        /\ size(j + 1 + n) >= 4 /\ E(j + n) \in Nat
    BY <1>1, <1>3, <2>2
  <2>4. \A n \in 0..M : E(j + n) < E(j + 1 + n)
    <3> SUFFICES ASSUME NEW n \in 0..M PROVE E(j + n) < E(j + 1 + n)
      OBVIOUS
    <3> DEFINE a == E(j + n)
               b == E(j + 1 + n)
               c == size(j + 1 + n)
    <3>1. b = a + c /\ c \in Nat /\ c >= 4 /\ a \in Nat
      BY <2>3
    <3> HIDE DEF a, b, c
    <3>2. a < b
      BY <3>1
    <3> QED BY <3>2 DEF a, b
  <2>5. 0 \in T
    <3>1. 0 \in 0..M /\ j + 0 = j
      BY <2>1
    <3> QED BY <2>4, <3>1
  <2>6. \A n \in 0..M - 1 : n \in T => n + 1 \in T
    <3> SUFFICES ASSUME NEW n \in 0..M - 1, n \in T PROVE n + 1 \in T
      OBVIOUS
    <3>1. n + 1 \in 0..M /\ n \in 0..M /\ j + (n + 1) = j + 1 + n
      BY <2>1
    <3> DEFINE a == E(j)
               b == E(j + 1 + n)
               c == E(j + 1 + (n + 1))
    <3>2. a < b
      OBVIOUS
    <3>3. b < c
      BY <2>4, <3>1
    <3>4. a \in Nat
      BY <1>3
    <3>5. b \in Nat
      BY <1>3, <2>2, <3>1
    <3>6. c \in Nat
      BY <1>3, <2>2, <3>1
    <3> HIDE DEF a, b, c
    <3>7. a < c
      BY <3>2, <3>3, <3>4, <3>5, <3>6
    <3> QED BY <3>1, <3>7 DEF a, c
  <2>7. M \in T
    <3>1. M \in 0..M
      BY <2>1
    <3> HIDE DEF T
    <3>2. 0..M \subseteq T
      BY <2>1, <2>5, <2>6, UpTo
    <3> QED BY <3>1, <3>2
  <2>8. j + 1 + M = k
    BY <1>4, <1>N DEF M
  <2>9. E(j) < E(j + 1 + M)
    BY <2>7
  <2> QED BY <2>8, <2>9
<1>5. \A k \in 1..N : E(k) = E(k - 1) + size(k) /\ Frames[k].start = E(k - 1)
  BY <1>1
<1>6. \A k \in 0..N : E(k) \in Nat
  BY <1>3
<1>7. \A j, k \in 0..N : j < k => E(j) < E(k)
  BY <1>4
<1> QED BY <1>5, <1>6, <1>7 DEF E, N, size

\* The first frame the search finds is a later one than those played, and the next if it is
\* where the search begins.
LEMMA NextFrame ==
  ASSUME stream \in DOMAIN Streams, InOrder, NEW p \in 0..Len(Frames), ptr = EndOf(p), left \in Nat,
         MP3FindSyncWord(ptr, left) # {}, NEW k, k = Min(MP3FindSyncWord(ptr, left))
  PROVE  /\ k \in p + 1..Len(Frames) /\ k \in MP3FindSyncWord(ptr, left)
         /\ Frames[k].start = ptr => k = p + 1
         /\ p < Len(Frames) /\ left >= Size(Frames[p + 1]) => k = p + 1
<1> DEFINE N == Len(Frames)
           E(i) == EndOf(i)
           S == MP3FindSyncWord(ptr, left)
<1>N. N \in Nat /\ DOMAIN Frames = 1..N
  BY SongKnown
<1>p. p \in 0..N
  OBVIOUS
<1>1. /\ \A i \in 0..N : E(i) \in Nat
      /\ \A i \in 1..N : E(i) = E(i - 1) + Size(Frames[i]) /\ Frames[i].start = E(i - 1)
      /\ \A i, j \in 0..N : i < j => E(i) < E(j)
  BY EndsInOrder
<1>2. \A i : i \in S <=> i \in 1..N /\ E(p) <= Frames[i].start /\ Frames[i].start < E(p) + left - 1
  BY <1>N DEF MP3FindSyncWord
<1> HIDE DEF N, E, S
<1>3. \A i \in 1..N : i - 1 \in 0..N /\ i \in Nat
  BY <1>N
<1>4. \A i \in S : i \in 1..N /\ E(p) <= E(i - 1) /\ E(i - 1) < E(p) + left - 1
  BY <1>1, <1>2
<1>5. \A i \in S : i \in p + 1..N
  <2> SUFFICES ASSUME NEW i \in S PROVE i \in p + 1..N
    OBVIOUS
  <2>1. i \in 1..N /\ i - 1 \in 0..N
    BY <1>3, <1>4
  <2> DEFINE a == E(p)
             b == E(i - 1)
  <2>2. a \in Nat /\ b \in Nat
    BY <1>1, <1>p, <2>1
  <2>3. a <= b
    BY <1>4
  <2>4. i - 1 < p => b < a
    BY <1>1, <1>p, <2>1
  <2> HIDE DEF a, b
  <2>5. ~(i - 1 < p)
    BY <2>2, <2>3, <2>4
  <2> QED BY <1>N, <2>1, <2>5
<1>6. S \subseteq Nat
  BY <1>3, <1>4
<1>7. k \in S /\ \A i \in S : k <= i
  <2>1. S # {} /\ k = Min(S)
    BY DEF S
  <2> QED BY <1>6, <2>1, SmallestIsMember
<1>8. k \in p + 1..N
  BY <1>5, <1>7
<1>9. ASSUME Frames[k].start = ptr PROVE k = p + 1
  <2>1. k \in 1..N /\ k - 1 \in 0..N /\ p \in 0..N
    BY <1>3, <1>4, <1>7, <1>p
  <2>2. E(k - 1) = E(p)
    BY <1>1, <1>9, <2>1 DEF E
  <2> DEFINE a == E(p)
             b == E(k - 1)
  <2>3. a \in Nat /\ b \in Nat /\ a = b
    BY <1>1, <2>1, <2>2
  <2>4. p < k - 1 => a < b
    BY <1>1, <2>1
  <2> HIDE DEF a, b
  <2>5. ~(p < k - 1)
    BY <2>3, <2>4
  <2> QED BY <1>8, <1>N, <2>1, <2>5
<1>10. ASSUME p < N, left >= Size(Frames[p + 1]) PROVE k = p + 1
  <2>1. p + 1 \in 1..N /\ p + 1 - 1 = p
    BY <1>10, <1>N
  <2> DEFINE f == Frames[p + 1]
             s == Size(f)
             a == E(p)
  <2>2. f \in FrameOf
    BY <2>1, SongKnown DEF N
  <2>3. s \in Nat /\ s >= 4
    <3> HIDE DEF f
    <3> DEFINE c == HeadBytes(f.header)
               d == f.slots
    <3>1. s = c + d /\ c \in Nat /\ c >= 4 /\ d \in Nat /\ s \in Nat
      BY <2>2, FrameKnown DEF HeaderWord
    <3> HIDE DEF c, d, s
    <3> QED BY <3>1
  <2>4. f.start = a /\ a \in Nat
    BY <1>1, <1>p, <2>1
  <2>5. left >= s
    BY <1>10
  <2> HIDE DEF s
  <2>6. a <= a /\ a < a + left - 1
    BY <2>3, <2>4, <2>5
  <2>7. p + 1 \in S
    BY <1>2, <2>1, <2>4, <2>6
  <2>8. k <= p + 1
    BY <1>7, <2>7
  <2> QED BY <1>8, <1>N, <2>8
<1> QED BY <1>7, <1>8, <1>9, <1>10 DEF N, S

\* How a frame of the table fares: refused, which throws the buffer away, or played.
Refused(k) ==
  LET f == Frames[k]
      atFrame == received - f.start
  IN /\ \/ ~f.valid \/ atFrame < HeaderWord \/ f.slots > atFrame - HeadBytes(f.header)
        \/ Len(mainBuf) < f.begin \/ DecodeParts(f.parts, f.begin + f.slots).err # ""
     /\ left' = 0 /\ skipped' = TRUE
Taken(k) ==
  LET f == Frames[k]
      d == DecodeParts(f.parts, f.begin + f.slots)
  IN /\ Len(mainBuf) >= f.begin /\ d.err = "" /\ f.slots <= received - f.start - HeadBytes(f.header)
     /\ mainBuf' = Reservoir(mainBuf, f.begin) \o MainBytes(k)
     /\ left' = received - f.start - HeadBytes(f.header) - f.slots
     /\ last' = k /\ starts' = d.starts /\ played' = Append(played, k) /\ errors' = errors
     /\ ~skipped' => ~skipped /\ ~(f.start > ptr)

\* What decoding the next frame found does, when its bitrate is in the table.
LEMMA DecodeInOrder ==
  ASSUME stream \in DOMAIN Streams, InOrder, freeBitrateFlag = FALSE, Decode
  PROVE  \E k \in DOMAIN Frames :
           /\ k = Min(MP3FindSyncWord(ptr, left)) /\ MP3FindSyncWord(ptr, left) # {}
           /\ stream' = stream /\ received' = received /\ freeBitrateFlag' = FALSE
           /\ pc' = "input" /\ (Refused(k) \/ Taken(k))
<1>1. PICK k \in {Min(MP3FindSyncWord(ptr, left))} :
        BadHeader(k, received - Frames[k].start) \/ MP3Decode(k, received - Frames[k].start)
  BY DEF Decode
<1>2. MP3FindSyncWord(ptr, left) # {}
  BY DEF Decode
<1>3. k \in DOMAIN Frames /\ Frames[k] \in FrameOf
  <2>1. MP3FindSyncWord(ptr, left) \subseteq DOMAIN Frames
    BY DEF MP3FindSyncWord
  <2>2. DOMAIN Frames \subseteq Nat
    BY SongKnown
  <2>3. k \in MP3FindSyncWord(ptr, left)
    BY <1>1, <1>2, <2>1, <2>2, SmallestIsMember
  <2> QED BY <2>1, <2>3, SongKnown
<1> DEFINE f == Frames[k]
           atFrame == received - f.start
           bytesLeft == atFrame - HeadBytes(f.header)
           s == SlotsOf(f, atFrame)
<1>4. f.header.brIdx # 0 /\ f.slots = TableSlots(f.header)
  BY <1>3 DEF InOrder
<1>5. f.slots \in Nat /\ f.header \in Headers
  BY <1>3, FrameKnown
<1>6. k = Min(MP3FindSyncWord(ptr, left))
  BY <1>1
<1>7. CASE BadHeader(k, atFrame)
  <2>1. /\ ~f.valid \/ atFrame < HeaderWord
        /\ left' = 0 /\ skipped' = TRUE /\ pc' = "input" /\ stream' = stream /\ received' = received
        /\ freeBitrateFlag' = FALSE
    BY <1>7 DEF BadHeader, Fail
  <2>2. Refused(k)
    BY <2>1 DEF Refused
  <2> QED BY <1>2, <1>3, <1>6, <2>1, <2>2
<1>8. CASE MP3Decode(k, atFrame)
  <2>1. /\ SetRate(f, s)
        /\ Underflow(k, s, bytesLeft) \/ CopyNegative(s, bytesLeft) \/ MainData(k, s, bytesLeft)
    BY <1>8 DEF MP3Decode
  <2>2. s.n = f.slots /\ s.fails = FALSE /\ s.free = FALSE
    BY <1>4 DEF SlotsOf
  <2>3. freeBitrateFlag' = FALSE
    BY <2>1, <2>2 DEF SetRate
  <2> HIDE DEF s
  <2>4. CASE Underflow(k, s, bytesLeft)
    <3>1. /\ f.slots > bytesLeft
          /\ left' = 0 /\ skipped' = TRUE /\ pc' = "input" /\ stream' = stream /\ received' = received
      BY <2>2, <2>4 DEF Underflow, Fail
    <3>2. Refused(k)
      BY <3>1 DEF Refused
    <3> QED BY <1>2, <1>3, <1>6, <2>3, <3>1, <3>2
  <2>5. CASE CopyNegative(s, bytesLeft)
    BY <1>5, <2>2, <2>5 DEF CopyNegative
  <2>6. CASE MainData(k, s, bytesLeft)
    <3> DEFINE d == DecodeParts(f.parts, f.begin + f.slots)
               mine == Bytes(f.start + HeadBytes(f.header), s.n)
    <3>1. mine = MainBytes(k)
      BY <2>2 DEF MainBytes
    <3>2. /\ s.n <= bytesLeft
          /\ \/ Len(mainBuf) < f.begin /\ Fail(k, "maindataUnderflow")
             \/ /\ Len(mainBuf) >= f.begin
                /\ mainBuf' = Reservoir(mainBuf, f.begin) \o mine
                /\ \/ d.err # "" /\ Fail(k, d.err)
                   \/ /\ d.err = ""
                      /\ left' = bytesLeft - s.n
                      /\ last' = k /\ starts' = d.starts
                      /\ played' = Append(played, k)
                      /\ skipped' = (skipped \/ f.start > ptr)
                      /\ pc' = "input"
                      /\ UNCHANGED <<stream, received, errors>>
      BY <2>2, <2>6 DEF MainData
    <3> HIDE DEF d, mine
    <3>3. CASE Len(mainBuf) < f.begin /\ Fail(k, "maindataUnderflow")
      <4>1. left' = 0 /\ skipped' = TRUE /\ pc' = "input" /\ stream' = stream /\ received' = received
        BY <3>3 DEF Fail
      <4>2. Refused(k)
        BY <3>3, <4>1 DEF Refused
      <4> QED BY <1>2, <1>3, <1>6, <2>3, <4>1, <4>2
    <3>4. CASE d.err # "" /\ Fail(k, d.err)
      <4>1. left' = 0 /\ skipped' = TRUE /\ pc' = "input" /\ stream' = stream /\ received' = received
        BY <3>4 DEF Fail
      <4>2. Refused(k)
        BY <3>4, <4>1 DEF Refused, d
      <4> QED BY <1>2, <1>3, <1>6, <2>3, <4>1, <4>2
    <3>5. CASE /\ Len(mainBuf) >= f.begin
               /\ mainBuf' = Reservoir(mainBuf, f.begin) \o mine
               /\ d.err = ""
               /\ left' = bytesLeft - s.n
               /\ last' = k /\ starts' = d.starts
               /\ played' = Append(played, k)
               /\ skipped' = (skipped \/ f.start > ptr)
               /\ pc' = "input"
               /\ UNCHANGED <<stream, received, errors>>
      <4>1. Taken(k)
        <5>1. ~skipped' => ~skipped /\ ~(f.start > ptr)
          BY <3>5
        <5>2. left' = received - f.start - HeadBytes(f.header) - f.slots
              /\ f.slots <= received - f.start - HeadBytes(f.header)
          BY <2>2, <3>2, <3>5
        <5>3. /\ Len(mainBuf) >= f.begin /\ d.err = "" /\ last' = k /\ starts' = d.starts
              /\ played' = Append(played, k) /\ errors' = errors
              /\ mainBuf' = Reservoir(mainBuf, f.begin) \o MainBytes(k)
          BY <3>1, <3>5
        <5> QED BY <5>1, <5>2, <5>3 DEF Taken, d
      <4> QED BY <1>2, <1>3, <1>6, <2>3, <3>5, <4>1
    <3> QED BY <3>2, <3>3, <3>4, <3>5
  <2> QED BY <2>1, <2>4, <2>5, <2>6
<1> QED BY <1>1, <1>7, <1>8

\* Where a sound stream is once p of its frames are played.
PlayedTo(p) ==
  /\ errors = <<>> /\ played = [k \in 1..p |-> k] /\ ptr = EndOf(p)
  /\ mainBuf \in Seq(Int) /\ Len(mainBuf) = (IF p = 0 THEN 0 ELSE Frames[p].begin + Frames[p].slots)

\* The buffer of a stream that comes in time: all there is, or at least half full, or the ring
\* has just wrapped, which is when it gives as much as is asked for.
Half == MAINBUF_SIZE \div 2
Fed ==
  /\ left <= MAINBUF_SIZE /\ received <= song.length
  /\ pc = "input" => received = song.length \/ received % RING_BUF_SIZE = 0 \/ left >= Half
  /\ pc = "decode" => \/ received = song.length \/ left = MAINBUF_SIZE
                      \/ received % RING_BUF_SIZE = 0 /\ left >= Half
  /\ pc \in {"input", "decode"}

PlayInv ==
  /\ stream \in DOMAIN Streams
  /\ song.prompt /\ Sound =>
       /\ received \in Nat /\ left \in Nat
       /\ freeBitrateFlag = FALSE /\ Fed /\ \E p \in 0..Len(Frames) : PlayedTo(p)

\* What a sound stream promises: frames in order, each with its data, and parts that decode.
LEMMA SoundFacts ==
  ASSUME stream \in DOMAIN Streams, Sound
  PROVE  /\ InOrder /\ song.length = EndOf(Len(Frames))
         /\ \A k \in 1..Len(Frames) :
              /\ Frames[k].valid /\ Size(Frames[k]) <= Half
              /\ Frames[k].begin <= (IF k = 1 THEN 0 ELSE Frames[k - 1].begin + Frames[k - 1].slots)
              /\ DecodeParts(Frames[k].parts, Frames[k].begin + Frames[k].slots).err = ""
<1>1. InOrder /\ song.length = EndOf(Len(Frames))
  BY DEF Sound, InOrder
<1>2. SUFFICES ASSUME NEW k \in 1..Len(Frames)
               PROVE  /\ Frames[k].valid /\ Size(Frames[k]) <= Half
                      /\ Frames[k].begin <= (IF k = 1 THEN 0 ELSE Frames[k - 1].begin + Frames[k - 1].slots)
                      /\ DecodeParts(Frames[k].parts, Frames[k].begin + Frames[k].slots).err = ""
  BY <1>1
<1> DEFINE f == Frames[k]
           n == f.begin + f.slots
<1>3. k \in DOMAIN Frames /\ f \in FrameOf
  BY SongKnown
<1>4. /\ f.valid /\ Size(f) <= Half
      /\ f.begin <= (IF k = 1 THEN 0 ELSE Frames[k - 1].begin + Frames[k - 1].slots)
      /\ \A i \in DOMAIN f.parts : f.parts[i].sf <= f.parts[i].p23
      /\ Lengths(f)[Len(f.parts)] <= 8 * n
  BY <1>3 DEF Sound, Half
<1>5. n \in Nat
  <2> DEFINE b == f.begin
             c == f.slots
  <2>1. b \in 0..511 /\ c \in Nat
    BY <1>3, FrameKnown DEF MaxBegin
  <2> HIDE DEF b, c
  <2>2. b + c \in Nat
    BY <2>1
  <2> QED BY <2>2 DEF b, c
<1>6. f.parts \in Seq(PartSet)
  BY <1>3, FrameKnown
<1> HIDE DEF f, n
<1>7. DecodeParts(f.parts, n).err = ""
  BY <1>4, <1>5, <1>6, PartsFound
<1> QED BY <1>4, <1>7 DEF f, n

\* A piece from the ring: the buffer is full, the song has ended or the ring has.
LEMMA SoundInput ==
  ASSUME PlayInv, input_helix, song.prompt, Sound
  PROVE  Fed' /\ received' \in Nat /\ left' \in Nat /\ received' - left' = ptr
<1>1. pc = "input" /\ pc' = "decode" /\ stream' = stream
  BY DEF input_helix
<1> DEFINE M == MAINBUF_SIZE
           R == RING_BUF_SIZE
           h == Half
           total == song.length
           most == Min({Request, total - received, InOnePiece})
           wrapped == received % R
           wrapped2 == received' % R
<1>2. received' = received + most /\ left' = left + most
  BY DEF input_helix
<1>3. M \in Nat /\ R \in Nat /\ R > 0 /\ M <= R
  BY StreamsAssumption, RingAssumption
<1>4. received \in Nat /\ left \in Nat
  BY DEF PlayInv
<1>5. left <= M /\ received <= total /\ (received = total \/ wrapped = 0 \/ left >= h)
  BY <1>1 DEF PlayInv, Fed
<1>6. total \in Nat
  BY SongKnown DEF PlayInv
<1>7. wrapped \in 0..R - 1
  <2> HIDE DEF R
  <2> QED BY <1>3, <1>4
<1> DEFINE S == {M - left, total - received, R - wrapped}
<1>8. most = Min(S)
  BY DEF Request, InOnePiece
<1>9. S \subseteq Nat
  <2> HIDE DEF M, total, R, wrapped
  <2> QED BY <1>3, <1>4, <1>5, <1>6, <1>7
<1> HIDE DEF most
<1>10. most \in S /\ most <= M - left /\ most <= total - received /\ most <= R - wrapped
  <2>1. S # {} /\ M - left \in S /\ total - received \in S /\ R - wrapped \in S
    OBVIOUS
  <2> HIDE DEF S
  <2>2. most \in S /\ \A y \in S : most <= y
    BY <1>8, <1>9, <2>1, SmallestIsMember
  <2> QED BY <2>1, <2>2
<1>11. most \in Nat
  BY <1>9, <1>10
<1>12. h \in Nat /\ h <= M
  <2>1. h = M \div 2
    BY DEF Half
  <2> HIDE DEF h, M
  <2> QED BY <1>3, <2>1
<1>13. most = R - wrapped => wrapped2 = 0
  <2> DEFINE q == received \div R
  <2>1. received = R * q + wrapped /\ q \in Int
    <3> HIDE DEF R
    <3> QED BY <1>3, <1>4
  <2>2. most = R - wrapped => received' = R * (q + 1)
    <3> HIDE DEF wrapped, R, q
    <3>1. R * (q + 1) = R * q + R
      BY <1>3, <2>1
    <3> QED BY <1>2, <1>3, <1>4, <1>7, <2>1, <3>1
  <2>3. (R * (q + 1)) % R = 0
    <3> HIDE DEF R, q
    <3> QED BY <1>3, <2>1
  <2> QED BY <2>2, <2>3
<1>14. /\ left' <= M /\ received' <= total
       /\ received' = total \/ left' = M \/ (wrapped2 = 0 /\ left' >= h)
  <2>1. most = M - left \/ most = total - received \/ most = R - wrapped
    BY <1>10
  <2> HIDE DEF M, R, h, total, wrapped, wrapped2, S
  <2>2. CASE most = M - left
    BY <1>2, <1>3, <1>4, <1>5, <1>6, <1>10, <1>11, <2>2
  <2>3. CASE most = total - received
    BY <1>2, <1>3, <1>4, <1>5, <1>6, <1>10, <1>11, <2>3
  <2>4. CASE most = R - wrapped
    <3>1. wrapped2 = 0
      BY <1>13, <2>4
    <3>2. CASE wrapped = 0
      <4>1. most = R /\ most <= M - left /\ M <= R
        BY <1>3, <1>10, <2>4, <3>2
      <4>2. most = M - left
        BY <1>3, <1>4, <1>11, <4>1
      <4> QED BY <2>2, <4>2
    <3>3. CASE received = total
      BY <1>2, <1>3, <1>4, <1>5, <1>6, <1>10, <1>11, <3>3
    <3>4. CASE left >= h
      BY <1>2, <1>3, <1>4, <1>5, <1>6, <1>10, <1>11, <1>12, <3>1, <3>4
    <3> QED BY <1>5, <3>2, <3>3, <3>4
  <2> QED BY <2>1, <2>2, <2>3, <2>4
<1>15. Fed'
  <2>1. (song.length)' = song.length
    BY <1>1 DEF song, Songs
  <2> QED BY <1>1, <1>14, <2>1 DEF Fed, Half
<1>16. received' \in Nat /\ left' \in Nat /\ received' - left' = ptr
  <2> HIDE DEF M, R, h, total, wrapped, wrapped2, S
  <2> QED BY <1>2, <1>4, <1>11 DEF ptr
<1> QED BY <1>15, <1>16

\* There is always a frame to play, and all of it, until the song ends.
LEMMA FrameReady ==
  ASSUME PlayInv, pc = "decode", song.prompt, Sound, NEW p \in 0..Len(Frames), PlayedTo(p)
  PROVE  /\ p = Len(Frames) => left = 0 /\ received = song.length
         /\ p < Len(Frames) =>
              /\ p + 1 \in MP3FindSyncWord(ptr, left)
              /\ Frames[p + 1].start = ptr /\ left >= Size(Frames[p + 1])
              /\ \/ received = song.length \/ received % RING_BUF_SIZE = 0
                 \/ left - Size(Frames[p + 1]) >= Half
<1> DEFINE N == Len(Frames)
           M == MAINBUF_SIZE
           h == Half
           total == song.length
           E(i) == EndOf(i)
           wrapped == received % RING_BUF_SIZE
<1>1. stream \in DOMAIN Streams /\ received \in Nat /\ left \in Nat /\ total \in Nat /\ N \in Nat
  BY SongKnown DEF PlayInv
<1>2. received - left = E(p)
  BY DEF PlayedTo, ptr
<1>3. total = E(N) /\ InOrder
  BY <1>1, SoundFacts
<1>4. /\ \A k \in 0..N : E(k) \in Nat
      /\ \A k \in 1..N : E(k) = E(k - 1) + Size(Frames[k]) /\ Frames[k].start = E(k - 1)
      /\ \A j, k \in 0..N : j < k => E(j) < E(k)
  BY <1>1, <1>3, EndsInOrder
<1>5. received <= total /\ left <= M /\ (received = total \/ left = M \/ (wrapped = 0 /\ left >= h))
  BY DEF PlayInv, Fed
<1>6. h \in Nat /\ M \in Nat /\ h <= M - h
  <2>1. h = M \div 2 /\ M \in Nat
    BY StreamsAssumption DEF Half
  <2> HIDE DEF h, M
  <2> QED BY <2>1
<1>p. p \in 0..N
  OBVIOUS
<1> HIDE DEF total, E, N, h, M, wrapped
<1>7. ASSUME p = N PROVE left = 0 /\ received = total
  <2> DEFINE e == E(N)
  <2>1. e \in Nat
    BY <1>1, <1>4
  <2>2. received - left = e /\ total = e
    BY <1>2, <1>3, <1>7
  <2> HIDE DEF e
  <2> QED BY <1>1, <1>5, <2>1, <2>2
<1>8. ASSUME p < N
      PROVE  /\ p + 1 \in MP3FindSyncWord(ptr, left)
             /\ Frames[p + 1].start = ptr /\ left >= Size(Frames[p + 1])
             /\ received = total \/ wrapped = 0 \/ left - Size(Frames[p + 1]) >= h
  <2> DEFINE f == Frames[p + 1]
             s == Size(f)
             a == E(p)
             b == E(p + 1)
             e == E(N)
  <2>1. p + 1 \in 1..N /\ p + 1 \in 0..N /\ p + 1 - 1 = p /\ N \in 0..N /\ (p + 1 = N \/ p + 1 < N)
    BY <1>1, <1>p, <1>8
  <2>2. f.start = a /\ b = a + s
    BY <1>4, <2>1
  <2>3. a \in Nat /\ b \in Nat /\ e \in Nat
    BY <1>4, <1>p, <2>1
  <2>4. b <= e
    <3>1. p + 1 = N => b = e
      OBVIOUS
    <3>2. p + 1 < N => b < e
      BY <1>4, <2>1
    <3> HIDE DEF b, e
    <3> QED BY <2>1, <2>3, <3>1, <3>2
  <2>5. f \in FrameOf /\ p + 1 \in DOMAIN Frames /\ s <= h
    BY <1>1, <2>1, SongKnown, SoundFacts DEF N, h
  <2>6. s \in Nat /\ s >= 4
    <3> HIDE DEF f
    <3> DEFINE c == HeadBytes(f.header)
               d == f.slots
    <3>1. s = c + d /\ c \in Nat /\ c >= 4 /\ d \in Nat /\ s \in Nat
      BY <2>5, FrameKnown DEF HeaderWord
    <3> HIDE DEF c, d, s
    <3> QED BY <3>1
  <2>7. received - left = a /\ total = e
    BY <1>2, <1>3
  <2> HIDE DEF s, a, b, e
  <2>8. left >= s
    BY <1>1, <1>5, <1>6, <2>2, <2>3, <2>4, <2>5, <2>6, <2>7, SMTT(30)
  <2>9. received = total \/ wrapped = 0 \/ left - s >= h
    BY <1>1, <1>5, <1>6, <2>5, <2>6
  <2>10. a <= a /\ a < a + left - 1
    BY <1>1, <2>3, <2>6, <2>8
  <2>11. f.start = ptr
    BY <2>2, <2>7 DEF ptr
  <2>12. p + 1 \in MP3FindSyncWord(ptr, left)
    BY <2>2, <2>5, <2>10, <2>11 DEF MP3FindSyncWord
  <2> QED BY <2>8, <2>9, <2>11, <2>12 DEF s
<1> QED BY <1>7, <1>8 DEF N, total, h, wrapped

\* The next frame is played.
LEMMA SoundDecode ==
  ASSUME PlayInv, Decode, song.prompt, Sound, NEW p \in 0..Len(Frames), PlayedTo(p)
  PROVE  /\ freeBitrateFlag' = FALSE /\ Fed' /\ received' \in Nat /\ left' \in Nat
         /\ p + 1 \in 0..Len(Frames) /\ PlayedTo(p + 1)'
<1>1. PICK k \in DOMAIN Frames :
        /\ k = Min(MP3FindSyncWord(ptr, left)) /\ MP3FindSyncWord(ptr, left) # {}
        /\ stream' = stream /\ received' = received /\ freeBitrateFlag' = FALSE
        /\ pc' = "input" /\ (Refused(k) \/ Taken(k))
  BY SoundFacts, DecodeInOrder DEF PlayInv
<1>2. stream \in DOMAIN Streams /\ received \in Nat /\ left \in Nat /\ pc = "decode" /\ ptr = EndOf(p)
  BY DEF PlayInv, Decode, PlayedTo
<1>3. Len(Frames) \in Nat /\ DOMAIN Frames = 1..Len(Frames)
  BY <1>2, SongKnown
<1>4. p < Len(Frames)
  <2> DEFINE N == Len(Frames)
  <2>1. k \in p + 1..N /\ p \in 0..N
    BY <1>1, <1>2, SoundFacts, NextFrame
  <2>2. N \in Nat
    BY <1>3
  <2> HIDE DEF N
  <2>3. p < N
    BY <2>1, <2>2
  <2> QED BY <2>3 DEF N
<1>5. /\ Frames[p + 1].start = ptr /\ left >= Size(Frames[p + 1])
      /\ \/ received = song.length \/ received % RING_BUF_SIZE = 0
         \/ left - Size(Frames[p + 1]) >= Half
  BY <1>2, <1>4, FrameReady
<1>6. k = p + 1
  BY <1>1, <1>2, <1>4, <1>5, SoundFacts, NextFrame
<1> DEFINE f == Frames[k]
           m == Len(mainBuf)
           head == HeadBytes(f.header)
           slots == f.slots
           begin == f.begin
           s == Size(f)
<1>7. f \in FrameOf /\ k \in 1..Len(Frames)
  BY <1>1, <1>2, SongKnown
<1>8. /\ f.valid /\ DecodeParts(f.parts, f.begin + f.slots).err = ""
      /\ begin <= (IF k = 1 THEN 0 ELSE Frames[k - 1].begin + Frames[k - 1].slots)
  BY <1>2, <1>7, SoundFacts
<1>9. m = (IF p = 0 THEN 0 ELSE Frames[p].begin + Frames[p].slots)
  BY DEF PlayedTo
<1>10. begin <= m
  <2>1. k - 1 = p /\ (k = 1 <=> p = 0)
    BY <1>3, <1>6
  <2> QED BY <1>8, <1>9, <2>1
<1>11. /\ head \in Nat /\ head >= 4 /\ slots \in Nat /\ s = head + slots /\ s \in Nat
       /\ begin \in Nat
  <2> HIDE DEF f
  <2>1. /\ head \in Nat /\ head >= HeaderWord /\ slots \in Nat /\ s = head + slots /\ s \in Nat
        /\ begin \in 0..MaxBegin
    BY <1>7, FrameKnown
  <2> HIDE DEF head, slots, s, begin
  <2> QED BY <2>1 DEF HeaderWord, MaxBegin
<1>12. mainBuf \in Seq(Int) /\ m \in Nat
  BY LenProperties DEF PlayedTo
<1>13. f.start = ptr /\ f.start = received - left /\ left >= s
  BY <1>5, <1>6 DEF ptr
<1> DEFINE from == f.start
           atFrame == received - from
<1>14. atFrame = left
  <2>1. from = received - left
    BY <1>13
  <2> HIDE DEF from
  <2> QED BY <1>2, <2>1
<1>15. ~Refused(k)
  <2>1. ~(Len(mainBuf) < f.begin)
    <3> HIDE DEF m, begin
    <3>1. ~(m < begin)
      BY <1>10, <1>11, <1>12
    <3> QED BY <3>1 DEF m, begin
  <2>2. ~(received - f.start < HeaderWord)
    <3> HIDE DEF from, head, slots, s, atFrame
    <3>1. ~(atFrame < 4)
      BY <1>2, <1>11, <1>13, <1>14
    <3> QED BY <3>1 DEF atFrame, from, HeaderWord
  <2>3. ~(f.slots > received - f.start - HeadBytes(f.header))
    <3> HIDE DEF from, head, slots, s, atFrame
    <3>1. ~(slots > atFrame - head)
      BY <1>2, <1>11, <1>13, <1>14
    <3> QED BY <3>1 DEF atFrame, from, slots, head
  <2> QED BY <1>8, <2>1, <2>2, <2>3 DEF Refused
<1>16. Taken(k)
  BY <1>1, <1>15
<1>17. left' = atFrame - head - slots
  BY <1>16 DEF Taken
<1>18. left' = left - s /\ left' \in Nat
  <2> HIDE DEF from, head, slots, s, atFrame
  <2> QED BY <1>2, <1>11, <1>13, <1>14, <1>17, SMTT(20)
<1>19. mainBuf' \in Seq(Int) /\ Len(mainBuf') = begin + slots
  <2>1. mainBuf' = Reservoir(mainBuf, begin) \o Bytes(from + head, slots)
    BY <1>16 DEF Taken, MainBytes
  <2>2. from + head \in Int
    <3>1. from \in Nat
      BY <1>7, FrameKnown
    <3> HIDE DEF from, head
    <3> QED BY <1>11, <3>1
  <2>3. begin \in 0..Len(mainBuf)
    <3> HIDE DEF begin, m
    <3>1. begin \in 0..m
      BY <1>10, <1>11, <1>12
    <3> QED BY <3>1 DEF m
  <2> HIDE DEF from, head, begin, slots
  <2> QED BY <1>11, <1>12, <2>1, <2>2, <2>3, JoinedLength
<1>20. Fed'
  <2>1. (song.length)' = song.length
    BY <1>1 DEF song, Songs
  <2>2. left' <= MAINBUF_SIZE
    <3>1. left <= MAINBUF_SIZE /\ MAINBUF_SIZE \in Nat
      BY StreamsAssumption DEF PlayInv, Fed
    <3> HIDE DEF s
    <3> QED BY <1>2, <1>11, <1>18, <3>1
  <2>3. received = song.length \/ received % RING_BUF_SIZE = 0 \/ left' >= Half
    BY <1>5, <1>6, <1>18
  <2>4. received <= song.length
    BY DEF PlayInv, Fed
  <2> QED BY <1>1, <2>1, <2>2, <2>3, <2>4 DEF Fed, Half
<1>21. ASSUME NEW q, q = p + 1 PROVE PlayedTo(q)'
  <2>1. Frames' = Frames
    BY <1>1 DEF Frames, song, Songs
  <2>2. EndOf(q)' = EndOf(q)
    BY <2>1 DEF EndOf
  <2>3. EndOf(q) = EndOf(p) + s
    <3>1. q \in 1..Len(Frames) /\ q - 1 = p /\ q = k
      BY <1>3, <1>6, <1>7, <1>21
    <3> QED BY <1>2, <3>1, EndsInOrder, SoundFacts
  <2>4. ptr' = EndOf(q)
    <3> DEFINE a == EndOf(p)
    <3>1. received' - left' = ptr'
      BY DEF ptr
    <3>2. received - left = a
      BY <1>2 DEF ptr
    <3> HIDE DEF s, a
    <3>3. received' - left' = a + s
      BY <1>1, <1>2, <1>11, <1>18, <3>2
    <3> QED BY <2>3, <3>1, <3>3 DEF a
  <2>5. errors' = <<>> /\ played' = Append(played, k) /\ played = [i \in 1..p |-> i]
    BY <1>16 DEF Taken, PlayedTo
  <2>6. played' = [i \in 1..q |-> i]
    <3>1. [i \in 1..p |-> i] \in Seq(Nat) /\ Len([i \in 1..p |-> i]) = p
      BY <1>3, LenProperties
    <3>2. q = k /\ q \in Nat /\ p \in Nat
      BY <1>3, <1>6, <1>21
    <3>3. q = p + 1
      BY <1>21
    <3> DEFINE u == [i \in 1..p |-> i]
               v == [i \in 1..q |-> i]
    <3>4. u \in Seq(Nat) /\ Len(u) = p /\ \A i \in 1..p : u[i] = i
      BY <3>1
    <3>5. v \in Seq(Nat) /\ Len(v) = q /\ \A i \in 1..q : v[i] = i
      BY <3>2, LenProperties
    <3> HIDE DEF u, v
    <3>6. /\ Append(u, q) \in Seq(Nat) /\ Len(Append(u, q)) = p + 1
          /\ (\A i \in 1..p : Append(u, q)[i] = u[i]) /\ Append(u, q)[p + 1] = q
      BY <3>2, <3>4, AppendProperties
    <3>7. \A i \in 1..q : Append(u, q)[i] = v[i]
      <4> SUFFICES ASSUME NEW i \in 1..q PROVE Append(u, q)[i] = v[i]
        OBVIOUS
      <4>1. i \in 1..p \/ i = p + 1
        BY <3>2, <3>3
      <4> QED BY <3>3, <3>4, <3>5, <3>6, <4>1
    <3>8. Append(u, q) = v
      BY <3>3, <3>5, <3>6, <3>7, SeqEqual
    <3> QED BY <2>5, <3>2, <3>8 DEF u, v
  <2>7. Len(mainBuf') = (IF q = 0 THEN 0 ELSE Frames[q].begin + Frames[q].slots)
    <3>1. q # 0 /\ q = k
      BY <1>3, <1>6, <1>21
    <3> QED BY <1>19, <3>1
  <2>8. (IF q = 0 THEN 0 ELSE Frames[q].begin + Frames[q].slots)'
        = (IF q = 0 THEN 0 ELSE Frames[q].begin + Frames[q].slots)
    BY <2>1
  <2> QED BY <1>19, <2>2, <2>4, <2>5, <2>6, <2>7, <2>8 DEF PlayedTo
<1>22. p + 1 \in 0..Len(Frames)
  BY <1>3, <1>4
<1> QED BY <1>1, <1>2, <1>18, <1>20, <1>21, <1>22

\* Nothing is left to search only when the song has ended.
LEMMA SoundNoSync ==
  ASSUME PlayInv, NoSync, song.prompt, Sound, NEW p \in 0..Len(Frames), PlayedTo(p)
  PROVE  /\ stream' = stream /\ freeBitrateFlag' = freeBitrateFlag /\ Fed'
         /\ received' \in Nat /\ left' \in Nat /\ PlayedTo(p)'
<1>1. /\ pc = "decode" /\ MP3FindSyncWord(ptr, left) = {} /\ left' = 0 /\ pc' = "input"
      /\ UNCHANGED <<stream, received, mainBuf, freeBitrateFlag, played, errors>>
  BY DEF NoSync
<1>2. Len(Frames) \in Nat /\ received \in Nat
  BY SongKnown DEF PlayInv
<1>3. ~(p < Len(Frames))
  BY <1>1, FrameReady
<1>4. p = Len(Frames)
  BY <1>2, <1>3
<1>5. left = 0 /\ received = song.length
  BY <1>1, <1>4, FrameReady
<1>6. Frames' = Frames /\ (song.length)' = song.length
  BY <1>1 DEF Frames, song, Songs
<1>7. Fed'
  BY <1>1, <1>5, <1>6 DEF Fed, PlayInv
<1>8. ptr' = ptr
  BY <1>1, <1>5 DEF ptr
<1>9. EndOf(p)' = EndOf(p)
  BY <1>6 DEF EndOf
<1>10. PlayedTo(p)'
  BY <1>1, <1>6, <1>8, <1>9 DEF PlayedTo
<1> QED BY <1>1, <1>2, <1>7, <1>10

\* The song is not changed.
LEMMA SongStays ==
  ASSUME StreamNext \/ UNCHANGED streamVars
  PROVE  /\ stream' = stream /\ song' = song /\ (Sound' <=> Sound) /\ (InOrder' <=> InOrder)
         /\ Frames' = Frames
<1>1. stream' = stream
  <2>1. CASE Decode
    <3>1. PICK k : BadHeader(k, received - Frames[k].start) \/ MP3Decode(k, received - Frames[k].start)
      BY <2>1 DEF Decode
    <3>2. \A err : Fail(k, err) => stream' = stream
      BY DEF Fail
    <3>3. CASE BadHeader(k, received - Frames[k].start)
      BY <3>2, <3>3 DEF BadHeader
    <3>4. CASE MP3Decode(k, received - Frames[k].start)
      <4>1. PICK s, n : Underflow(k, s, n) \/ CopyNegative(s, n) \/ MainData(k, s, n)
        BY <3>4 DEF MP3Decode
      <4> QED BY <3>2, <4>1 DEF Underflow, CopyNegative, MainData
    <3> QED BY <3>1, <3>3, <3>4
  <2>2. CASE input_helix \/ NoSync \/ UNCHANGED streamVars
    BY <2>2 DEF input_helix, NoSync, streamVars
  <2> QED BY <2>1, <2>2 DEF StreamNext
<1>2. song' = song /\ Frames' = Frames
  BY <1>1 DEF song, Songs, Frames
<1>3. \A k : EndOf(k)' = EndOf(k)
  BY <1>2 DEF EndOf
<1>4. Sound' <=> Sound
  BY <1>2, <1>3 DEF Sound
<1>5. InOrder' <=> InOrder
  BY <1>2, <1>3 DEF InOrder
<1> QED BY <1>1, <1>2, <1>4, <1>5

\* A sound stream that comes in time is played without an error, every frame once and in
\* order: however long it is, and however large the buffer and the ring are, as long as the
\* buffer holds two frames and the ring the buffer (mp3_decode.c: helix_decode_task(), input_helix()).
THEOREM EveryFramePlayedAlways == StreamSpec => []EveryFramePlayed
<1>1. StreamInit => PlayInv
  <2> SUFFICES ASSUME StreamInit, song.prompt, Sound
               PROVE  /\ received \in Nat /\ left \in Nat /\ freeBitrateFlag = FALSE /\ Fed
                      /\ 0 \in 0..Len(Frames) /\ PlayedTo(0)
    BY DEF PlayInv, StreamInit
  <2>1. stream \in DOMAIN Streams /\ received = 0 /\ left = 0 /\ freeBitrateFlag = FALSE /\ pc = "input"
    BY DEF StreamInit
  <2>2. song.length \in Nat /\ Len(Frames) \in Nat
    BY <2>1, SongKnown
  <2>3. 0 % RING_BUF_SIZE = 0 /\ MAINBUF_SIZE \in Nat
    BY StreamsAssumption, RingAssumption
  <2>4. Fed
    BY <2>1, <2>2, <2>3 DEF Fed
  <2>5. mainBuf = <<>> /\ played = <<>> /\ errors = <<>>
    BY DEF StreamInit
  <2>6. <<>> \in Seq(Int) /\ Len(<<>>) = 0 /\ <<>> = [k \in 1..0 |-> k]
    BY EmptySeq
  <2>7. ptr = EndOf(0)
    BY <2>1 DEF ptr, EndOf
  <2>8. PlayedTo(0)
    BY <2>5, <2>6, <2>7 DEF PlayedTo
  <2> QED BY <2>1, <2>2, <2>4, <2>8
<1>2. PlayInv /\ [StreamNext]_streamVars => PlayInv'
  <2> SUFFICES ASSUME PlayInv, StreamNext \/ UNCHANGED streamVars, song.prompt, Sound
               PROVE  (/\ received \in Nat /\ left \in Nat /\ freeBitrateFlag = FALSE /\ Fed
                       /\ \E p \in 0..Len(Frames) : PlayedTo(p))'
    BY SongStays DEF PlayInv
  <2>1. PICK p \in 0..Len(Frames) : PlayedTo(p)
    BY DEF PlayInv
  <2>2. Frames' = Frames
    BY SongStays
  <2>3. CASE input_helix
    <3>1. Fed' /\ received' \in Nat /\ left' \in Nat /\ received' - left' = ptr
      BY <2>3, SoundInput
    <3>2. UNCHANGED <<mainBuf, freeBitrateFlag, played, errors>>
      BY <2>3 DEF input_helix
    <3>3. EndOf(p)' = EndOf(p)
      BY <2>2 DEF EndOf
    <3>4. PlayedTo(p)'
      BY <2>1, <2>2, <3>1, <3>2, <3>3 DEF PlayedTo, ptr
    <3> QED BY <2>2, <3>1, <3>2, <3>4 DEF PlayInv
  <2>4. CASE NoSync
    BY <2>1, <2>2, <2>4, SoundNoSync DEF PlayInv
  <2>5. CASE Decode
    BY <2>1, <2>2, <2>5, SoundDecode
  <2>6. CASE UNCHANGED streamVars
    <3>1. UNCHANGED <<stream, received, left, mainBuf, freeBitrateFlag, pc, played, errors>>
      BY <2>6 DEF streamVars
    <3>2. EndOf(p)' = EndOf(p)
      BY <2>2 DEF EndOf
    <3>3. PlayedTo(p)'
      BY <2>1, <2>2, <3>1, <3>2 DEF PlayedTo, ptr
    <3>4. Fed'
      BY <3>1, SongStays DEF PlayInv, Fed, Half
    <3> QED BY <2>2, <3>1, <3>3, <3>4 DEF PlayInv
  <2> QED BY <2>3, <2>4, <2>5, <2>6 DEF StreamNext
<1>3. PlayInv => EveryFramePlayed
  <2> SUFFICES ASSUME PlayInv, song.prompt, Sound
               PROVE  errors = <<>> /\ played = [k \in 1..Len(played) |-> k] /\ ptr = EndOf(Len(played))
    BY DEF EveryFramePlayed
  <2>1. PICK p \in 0..Len(Frames) : PlayedTo(p)
    BY DEF PlayInv
  <2>2. Len(Frames) \in Nat
    BY SongKnown DEF PlayInv
  <2>3. played = [k \in 1..p |-> k] /\ p \in Nat
    BY <2>1, <2>2 DEF PlayedTo
  <2>4. Len(played) = p
    BY <2>3, LenProperties
  <2> QED BY <2>1, <2>3, <2>4 DEF PlayedTo
<1> QED BY <1>1, <1>2, <1>3, PTL DEF StreamSpec

----------------------------------------------------------------------------
(* The main data of a frame.                                               *)

\* The bytes of mainBuf are the last ones of the main data so far.
Kept ==
  /\ last \in 0..Len(Frames) /\ ptr = EndOf(last)
  /\ \E n \in 0..Len(DataOfFirst[last]) : mainBuf = Reservoir(DataOfFirst[last], n)
KeptInv ==
  /\ stream \in DOMAIN Streams
  /\ InOrder =>
       /\ received \in Nat /\ received <= song.length /\ left \in Nat /\ left <= MAINBUF_SIZE
       /\ freeBitrateFlag = FALSE
       /\ ~skipped => Kept /\ OwnMainData


\* The end of a sequence.
LEMMA ReservoirIsEnd ==
  ASSUME NEW s \in Seq(Int), NEW n \in 0..Len(s)
  PROVE  /\ Reservoir(s, n) \in Seq(Int) /\ Len(Reservoir(s, n)) = n
         /\ \A i \in 1..n : Reservoir(s, n)[i] = s[Len(s) - n + i]
<1> DEFINE L == Len(s)
<1>1. L \in Nat /\ n \in 0..L
  BY LenProperties
<1>2. \A i \in 1..L : s[i] \in Int
  BY ElementOfSeq
<1> DEFINE m == L - n + 1
           r == SubSeq(s, m, L)
<1> HIDE DEF L
<1>3. m \in Int /\ L \in Int /\ L - m + 1 = n /\ m \in 1..L + 1
  BY <1>1
<1>4. \A i \in m..L : s[i] \in Int
  <2>1. m..L \subseteq 1..L
    BY <1>3
  <2> QED BY <1>2, <2>1
<1>5. \A i \in 1..n : m + i - 1 = L - n + i
  BY <1>1
<1>6. (IF m <= L THEN L - m + 1 ELSE 0) = n
  BY <1>1
<1> HIDE DEF m
<1>7. /\ r \in Seq(Int) /\ Len(r) = (IF m <= L THEN L - m + 1 ELSE 0)
      /\ \A i \in 1..L - m + 1 : r[i] = s[m + i - 1]
  BY <1>3, <1>4, SubSeqProperties
<1> HIDE DEF r
<1>8. Len(r) = n /\ \A i \in 1..n : r[i] = s[m + i - 1]
  BY <1>3, <1>6, <1>7
<1>9. \A i \in 1..n : r[i] = s[L - n + i]
  BY <1>5, <1>8
<1> QED BY <1>7, <1>8, <1>9 DEF r, m, L, Reservoir

\* The end of an end is an end.
LEMMA EndOfEnd ==
  ASSUME NEW s \in Seq(Int), NEW m \in 0..Len(s), NEW b \in 0..m
  PROVE  Reservoir(Reservoir(s, m), b) = Reservoir(s, b)
<1> DEFINE L == Len(s)
           r == Reservoir(s, m)
           u == Reservoir(r, b)
           v == Reservoir(s, b)
<1>1. L \in Nat /\ m \in 0..L
  BY LenProperties
<1> HIDE DEF L
<1>2. b \in 0..L /\ b \in Nat
  BY <1>1
<1>3. r \in Seq(Int) /\ Len(r) = m /\ \A i \in 1..m : r[i] = s[L - m + i]
  BY <1>1, ReservoirIsEnd DEF L
<1>4. v \in Seq(Int) /\ Len(v) = b /\ \A i \in 1..b : v[i] = s[L - b + i]
  BY <1>2, ReservoirIsEnd DEF L
<1> HIDE DEF r, v
<1>5. u \in Seq(Int) /\ Len(u) = b /\ \A i \in 1..b : u[i] = r[m - b + i]
  BY <1>3, ReservoirIsEnd
<1>6. \A i \in 1..b : u[i] = v[i]
  <2> SUFFICES ASSUME NEW i \in 1..b PROVE u[i] = v[i]
    OBVIOUS
  <2>1. m - b + i \in 1..m /\ L - m + (m - b + i) = L - b + i
    BY <1>1, <1>2
  <2>2. r[m - b + i] = s[L - b + i]
    BY <1>3, <2>1
  <2> QED BY <1>4, <1>5, <2>2
<1> HIDE DEF u
<1>7. u = v
  BY <1>4, <1>5, <1>6, SeqEqual
<1> QED BY <1>7 DEF u, v, r

\* An end, and what follows the whole, are an end of both.
LEMMA EndJoins ==
  ASSUME NEW s \in Seq(Int), NEW b \in 0..Len(s), NEW t \in Seq(Int)
  PROVE  /\ Reservoir(s, b) \o t = Reservoir(s \o t, b + Len(t))
         /\ Len(Reservoir(s, b) \o t) = b + Len(t) /\ b + Len(t) <= Len(s \o t)
<1> DEFINE L == Len(s)
           n == Len(t)
           r == Reservoir(s, b)
           w == s \o t
           u == r \o t
           v == Reservoir(w, b + n)
<1>1. L \in Nat /\ n \in Nat /\ b \in 0..L
  BY LenProperties
<1>2. r \in Seq(Int) /\ Len(r) = b /\ \A i \in 1..b : r[i] = s[L - b + i]
  BY ReservoirIsEnd
<1>3. w \in Seq(Int) /\ Len(w) = L + n /\ \A i \in 1..L + n : w[i] = IF i <= L THEN s[i] ELSE t[i - L]
  BY ConcatProperties
<1> HIDE DEF r, w
<1>4. u \in Seq(Int) /\ Len(u) = Len(r) + n
      /\ \A i \in 1..Len(r) + n : u[i] = IF i <= Len(r) THEN r[i] ELSE t[i - Len(r)]
  BY <1>2, ConcatProperties
<1> HIDE DEF u, L, n
<1>5. b + n \in 0..L + n
  BY <1>1
<1>6. v \in Seq(Int) /\ Len(v) = b + n /\ \A i \in 1..b + n : v[i] = w[Len(w) - (b + n) + i]
  <2> DEFINE c == b + n
  <2>1. c \in 0..Len(w)
    BY <1>3, <1>5
  <2> HIDE DEF c
  <2>2. /\ Reservoir(w, c) \in Seq(Int) /\ Len(Reservoir(w, c)) = c
        /\ \A i \in 1..c : Reservoir(w, c)[i] = w[Len(w) - c + i]
    BY <1>3, <2>1, ReservoirIsEnd
  <2> QED BY <2>2 DEF c
<1> HIDE DEF v
<1>7. \A i \in 1..b + n : u[i] = v[i]
  <2> SUFFICES ASSUME NEW i \in 1..b + n PROVE u[i] = v[i]
    OBVIOUS
  <2> DEFINE j == Len(w) - (b + n) + i
  <2>0. Len(w) = L + n
    BY <1>3
  <2>1. j \in 1..L + n /\ j = L - b + i /\ (i <= b <=> j <= L) /\ j - L = i - b /\ i \in Nat
    BY <1>1, <2>0
  <2>2. v[i] = IF j <= L THEN s[j] ELSE t[j - L]
    BY <1>3, <1>6, <2>1
  <2> HIDE DEF j
  <2>3. u[i] = IF i <= b THEN r[i] ELSE t[i - b]
    BY <1>2, <1>4
  <2>4. CASE i <= b
    <3>1. i \in 1..b
      BY <1>1, <2>4
    <3> QED BY <1>2, <2>1, <2>2, <2>3, <2>4, <3>1
  <2>5. CASE ~(i <= b)
    BY <2>1, <2>2, <2>3, <2>5
  <2> QED BY <2>4, <2>5
<1>8. u = v
  BY <1>2, <1>4, <1>6, <1>7, SeqEqual
<1>9. Len(u) = b + n /\ b + n <= Len(w)
  BY <1>1, <1>2, <1>3, <1>4
<1> QED BY <1>8, <1>9 DEF u, v, w, r, n

\* The main data of a frame are as many bytes as its slots.
LEMMA MainBytesAre ==
  ASSUME stream \in DOMAIN Streams, NEW k \in 1..Len(Frames)
  PROVE  MainBytes(k) \in Seq(Int) /\ Len(MainBytes(k)) = Frames[k].slots
<1> DEFINE f == Frames[k]
           from == f.start + HeadBytes(f.header)
           n == f.slots
<1>1. f \in FrameOf
  BY SongKnown
<1>2. f.start \in Nat /\ HeadBytes(f.header) \in Nat /\ n \in Nat
  BY <1>1, FrameKnown
<1>3. from \in Int
  <2> DEFINE a == f.start
             b == HeadBytes(f.header)
  <2>1. a \in Nat /\ b \in Nat
    BY <1>2
  <2> HIDE DEF a, b
  <2>2. a + b \in Int
    BY <2>1
  <2> QED BY <2>2 DEF a, b
<1> HIDE DEF from, n
<1>4. Bytes(from, n) \in [1..n -> Int]
  BY <1>2, <1>3 DEF Bytes
<1>5. Bytes(from, n) \in Seq(Int) /\ Len(Bytes(from, n)) = n
  BY <1>2, <1>4, LenProperties
<1> QED BY <1>5 DEF MainBytes, from, n

\* The main data of the first frames are those of one less and its own.
LEMMA DataGrows ==
  ASSUME stream \in DOMAIN Streams
  PROVE  /\ DataOfFirst[0] = <<>> /\ \A k \in 0..Len(Frames) : DataOfFirst[k] \in Seq(Int)
         /\ \A k \in 1..Len(Frames) : DataOfFirst[k] = DataOfFirst[k - 1] \o MainBytes(k)
<1> DEFINE N == Len(Frames)
           mine(k) == MainBytes(k)
           Def(g) == g = [k \in 0..N |-> IF k = 0 THEN <<>> ELSE g[k - 1] \o mine(k)]
           step == [k \in 1..N |-> [d \in Seq(Int) |-> d \o mine(k)]]
           run == CHOOSE g : Def(g)
<1>1. DataOfFirst = run
  BY DEF DataOfFirst
<1>2. N \in Nat
  BY SongKnown
<1>3. \A k \in 1..N : mine(k) \in Seq(Int)
  BY MainBytesAre
<1>4. <<>> \in Seq(Int)
  BY EmptySeq
<1> HIDE DEF N, mine
<1>5. step \in [1..N -> [Seq(Int) -> Seq(Int)]]
  <2>1. \A k \in 1..N, d \in Seq(Int) : d \o mine(k) \in Seq(Int)
    BY <1>3, ConcatProperties
  <2> QED BY <2>1
<1>6. \A k \in 1..N, d \in Seq(Int) : step[k][d] = d \o mine(k)
  OBVIOUS
<1> HIDE DEF step
<1>7. PICK f \in [0..N -> Seq(Int)] : Follows(f, N, <<>>, step)
  BY <1>2, <1>4, <1>5, ByRecursion
<1>8. \A k \in 1..N : f[k] = f[k - 1] \o mine(k)
  <2> SUFFICES ASSUME NEW k \in 1..N PROVE f[k] = f[k - 1] \o mine(k)
    OBVIOUS
  <2>1. k - 1 \in 0..N
    BY <1>2
  <2>2. f[k - 1] \in Seq(Int)
    BY <1>7, <2>1
  <2> QED BY <1>6, <1>7, <2>2 DEF Follows
<1>9. Def(f)
  <2>1. \A k \in 0..N : k = 0 \/ k \in 1..N
    BY <1>2
  <2> QED BY <1>7, <1>8, <2>1 DEF Follows
<1> HIDE DEF Def
<1>10. Def(run)
  BY <1>9
<1> HIDE DEF run
<1>11. run = [k \in 0..N |-> IF k = 0 THEN <<>> ELSE run[k - 1] \o mine(k)]
  BY <1>10 DEF Def
<1>12. run[0] = <<>> /\ \A k \in 1..N : run[k] = run[k - 1] \o mine(k)
  <2>1. 0 \in 0..N /\ \A k \in 1..N : k \in 0..N /\ k # 0
    BY <1>2
  <2> QED BY <1>11, <2>1
<1>s. \A k \in 1..N : run[k] = run[k - 1] \o mine(k)
  BY <1>12
<1> DEFINE T == {k \in 0..N : run[k] \in Seq(Int)}
<1>13. 0 \in T
  <2>1. 0 \in 0..N
    BY <1>2
  <2> QED BY <1>4, <1>12, <2>1
<1>t. ASSUME NEW j \in 1..N, run[j - 1] \in Seq(Int) PROVE run[j] \in Seq(Int)
  <2>1. run[j - 1] \o mine(j) \in Seq(Int)
    BY <1>3, <1>t, ConcatProperties
  <2>2. run[j] = run[j - 1] \o mine(j)
    BY <1>s
  <2> QED BY <2>1, <2>2
<1>14. \A k \in 0..N - 1 : k \in T => k + 1 \in T
  <2>1. \A k \in 0..N - 1 : k + 1 \in 1..N /\ k + 1 - 1 = k /\ k + 1 \in 0..N
    BY <1>2
  <2>2. \A k \in 0..N - 1 : run[k] \in Seq(Int) => run[k + 1] \in Seq(Int)
    BY <1>t, <2>1
  <2> QED BY <2>1, <2>2
<1> HIDE DEF T
<1>15. 0..N \subseteq T
  BY <1>2, <1>13, <1>14, UpTo
<1>16. \A k \in 0..N : run[k] \in Seq(Int)
  BY <1>15 DEF T
<1> QED BY <1>1, <1>12, <1>16 DEF N, mine

\* The song is the same after a step, and so are the main data of its frames.
LEMMA DataStays ==
  ASSUME stream' = stream
  PROVE  /\ Frames' = Frames /\ (song.length)' = song.length /\ DataOfFirst' = DataOfFirst
         /\ \A k : EndOf(k)' = EndOf(k) /\ MainBytes(k)' = MainBytes(k)
<1>1. Frames' = Frames /\ (song.length)' = song.length
  BY DEF Frames, song, Songs
<1>2. \A k : EndOf(k)' = EndOf(k) /\ MainBytes(k)' = MainBytes(k)
  BY <1>1 DEF EndOf, MainBytes
<1>3. DataOfFirst' = DataOfFirst
  BY <1>1 DEF DataOfFirst, MainBytes
<1> QED BY <1>1, <1>2, <1>3

\* A frame that is played behind the last one has its own main data.
LEMMA KeptDecode ==
  ASSUME KeptInv, InOrder, Decode
  PROVE  /\ received' \in Nat /\ received' <= song.length /\ left' \in Nat /\ left' <= MAINBUF_SIZE
         /\ freeBitrateFlag' = FALSE
         /\ ~skipped' => Kept' /\ OwnMainData'
<1>1. PICK k \in DOMAIN Frames :
        /\ k = Min(MP3FindSyncWord(ptr, left)) /\ MP3FindSyncWord(ptr, left) # {}
        /\ stream' = stream /\ received' = received /\ freeBitrateFlag' = FALSE
        /\ pc' = "input" /\ (Refused(k) \/ Taken(k))
  BY DecodeInOrder DEF KeptInv
<1>2. /\ stream \in DOMAIN Streams /\ received \in Nat /\ left \in Nat
      /\ received <= song.length /\ left <= MAINBUF_SIZE
  BY DEF KeptInv
<1>3. MAINBUF_SIZE \in Nat
  BY StreamsAssumption
<1> DEFINE f == Frames[k]
           N == Len(Frames)
<1>4. f \in FrameOf /\ k \in 1..N /\ DOMAIN Frames = 1..N
  BY <1>1, <1>2, SongKnown
<1>N. N \in Nat
  BY <1>2, SongKnown
<1>5. /\ f.start \in Nat /\ f.slots \in Nat /\ f.begin \in Nat /\ HeadBytes(f.header) \in Nat
      /\ Size(f) = HeadBytes(f.header) + f.slots /\ f.parts \in Seq(PartSet)
  <2> HIDE DEF f
  <2>1. f.begin \in Nat
    <3> DEFINE b == f.begin
    <3>1. b \in 0..MaxBegin
      BY <1>4, FrameKnown
    <3> HIDE DEF b
    <3>2. b \in Nat
      BY <3>1 DEF MaxBegin
    <3> QED BY <3>2 DEF b
  <2> QED BY <1>4, <2>1, FrameKnown
<1>6. CASE Refused(k)
  <2>1. left' = 0 /\ skipped' = TRUE
    BY <1>6 DEF Refused
  <2>2. left' \in Nat /\ left' <= MAINBUF_SIZE
    BY <1>3, <2>1
  <2> QED BY <1>1, <1>2, <2>1, <2>2
<1>7. CASE Taken(k)
  <2> DEFINE head == HeadBytes(f.header)
             slots == f.slots
             begin == f.begin
             from == f.start
             atFrame == received - from
  <2>1. /\ left' = atFrame - head - slots /\ slots <= atFrame - head
        /\ begin <= Len(mainBuf)
        /\ mainBuf' = Reservoir(mainBuf, begin) \o MainBytes(k)
        /\ last' = k /\ starts' = DecodeParts(f.parts, begin + slots).starts
        /\ DecodeParts(f.parts, begin + slots).err = ""
    BY <1>7 DEF Taken
  <2>2. k \in MP3FindSyncWord(ptr, left)
    <3>1. MP3FindSyncWord(ptr, left) \subseteq Nat
      <4>1. MP3FindSyncWord(ptr, left) \subseteq DOMAIN Frames
        BY DEF MP3FindSyncWord
      <4> QED BY <1>4, <4>1
    <3> QED BY <1>1, <3>1, SmallestIsMember
  <2>3. ptr <= from
    BY <2>2 DEF MP3FindSyncWord
  <2>4. from \in Nat /\ head \in Nat /\ slots \in Nat /\ begin \in Nat
    BY <1>5
  <2>5. left' \in Nat /\ left' <= MAINBUF_SIZE
    <3>1. received - left <= from
      BY <2>3 DEF ptr
    <3>2. left' = atFrame - head - slots /\ slots <= atFrame - head
      BY <2>1
    <3> HIDE DEF from, head, slots
    <3> QED BY <1>2, <1>3, <2>4, <3>1, <3>2
  <2>6. ASSUME ~skipped' PROVE Kept' /\ OwnMainData'
    <3>1. ~skipped /\ ~(from > ptr)
      BY <1>7, <2>6 DEF Taken
    <3>2. Kept
      BY <3>1 DEF KeptInv
    <3>3. from = ptr
      <4>1. ptr \in Int
        BY <1>2 DEF ptr
      <4>2. ~(from > ptr)
        BY <3>1
      <4> HIDE DEF from, ptr
      <4> QED BY <2>3, <2>4, <4>1, <4>2
    <3>4. PICK p \in 0..N : p = last
      BY <3>2 DEF Kept
    <3>5. ptr = EndOf(p)
      BY <3>2, <3>4 DEF Kept
    <3>6. k = p + 1
      BY <1>1, <1>2, <3>3, <3>5, NextFrame
    <3>7. k \in 1..N /\ k - 1 = p /\ k # 0 /\ k \in 0..N /\ p \in 0..N
      BY <1>4, <1>N, <3>6
    <3> DEFINE D == DataOfFirst
               mine == MainBytes(k)
               before == D[p]
    <3>8. D[p] \in Seq(Int) /\ D[k] = D[p] \o mine
      BY <1>2, <3>7, DataGrows
    <3>9. mine \in Seq(Int) /\ Len(mine) = slots
      BY <1>2, <1>4, MainBytesAre
    <3>10. PICK n \in 0..Len(before) : mainBuf = Reservoir(before, n)
      BY <3>2, <3>4 DEF Kept
    <3> HIDE DEF D, mine
    <3> HIDE DEF before
    <3>11. before \in Seq(Int)
      BY <3>8 DEF before
    <3>12. Len(before) \in Nat
      BY <3>11, LenProperties
    <3>13. Len(mainBuf) = n
      BY <3>10, <3>11, ReservoirIsEnd
    <3>14. begin \in 0..n /\ begin \in 0..Len(before)
      <4>1. begin <= n
        BY <2>1, <3>13
      <4> HIDE DEF begin
      <4> QED BY <2>4, <3>12, <4>1
    <3>15. Reservoir(mainBuf, begin) = Reservoir(before, begin)
      <4> HIDE DEF begin
      <4> QED BY <3>10, <3>11, <3>14, EndOfEnd
    <3>16. mainBuf' = Reservoir(before, begin) \o mine
      BY <2>1, <3>15 DEF mine
    <3>17. mainBuf' = Reservoir(D[k], begin + slots) /\ begin + slots \in 0..Len(D[k])
      <4>1. D[k] = before \o mine
        BY <3>8 DEF before
      <4> HIDE DEF begin, slots
      <4>2. /\ Reservoir(before, begin) \o mine = Reservoir(before \o mine, begin + Len(mine))
            /\ begin + Len(mine) <= Len(before \o mine)
        BY <3>9, <3>11, <3>14, EndJoins
      <4>3. before \o mine \in Seq(Int)
        BY <3>9, <3>11, ConcatProperties
      <4>4. Len(before \o mine) \in Nat
        BY <4>3, LenProperties
      <4> DEFINE w == Len(before \o mine)
                 c == Len(mine)
      <4>5. c = slots /\ begin + c <= w /\ w \in Nat
        BY <3>9, <4>2, <4>4
      <4> HIDE DEF w, c
      <4>6. begin + slots \in 0..w
        BY <2>4, <4>5
      <4>7. mainBuf' = Reservoir(before \o mine, begin + slots)
        BY <3>16, <4>2, <4>5 DEF c
      <4> QED BY <4>1, <4>6, <4>7 DEF w
    <3>18. starts' = [i \in DOMAIN f.parts |-> Lengths(f)[i - 1]]
      <4> DEFINE b == begin + slots
      <4>1. b \in Nat
        <5> HIDE DEF begin, slots
        <5> QED BY <2>4
      <4>2. DecodeParts(f.parts, b).err = "" /\ starts' = DecodeParts(f.parts, b).starts
        BY <2>1
      <4> HIDE DEF b, f
      <4> QED BY <1>5, <4>1, <4>2, PartsFound
    <3>19. /\ Frames' = Frames /\ DataOfFirst' = D /\ EndOf(k)' = EndOf(k) /\ MainBytes(k)' = mine
      BY <1>1, DataStays DEF D, mine
    <3>20. ptr' = EndOf(k)
      <4>1. EndOf(k) = from + head + slots
        <5>1. EndOf(k) = from + Size(f)
          BY <3>7 DEF EndOf
        <5>2. Size(f) = head + slots
          BY <1>5
        <5> HIDE DEF from, head, slots
        <5> QED BY <2>4, <5>1, <5>2
      <4>2. left' = atFrame - head - slots
        BY <2>1
      <4> HIDE DEF from, head, slots
      <4>3. received - left' = from + head + slots
        BY <1>2, <2>4, <4>2
      <4> QED BY <1>1, <4>1, <4>3 DEF ptr
    <3>21. Kept'
      <4>1. last' \in 0..Len(Frames)' /\ ptr' = EndOf(last)'
        <5>1. EndOf(last)' = EndOf(k)'
          BY <2>1 DEF EndOf
        <5> QED BY <2>1, <3>7, <3>19, <3>20, <5>1
      <4>2. DataOfFirst'[last'] = D[k]
        BY <2>1, <3>19
      <4>3. \E i \in 0..Len(DataOfFirst'[last']) : mainBuf' = Reservoir(DataOfFirst'[last'], i)
        <5> HIDE DEF begin, slots
        <5> QED BY <3>17, <4>2
      <4> QED BY <4>1, <4>3 DEF Kept
    <3>22. OwnMainData'
      <4>1. MainBytes(last)' = mine
        <5>1. MainBytes(last)' = MainBytes(k)'
          BY <2>1 DEF MainBytes
        <5> QED BY <3>19, <5>1
      <4>2. DataOfFirst'[last' - 1] = before
        BY <2>1, <3>7, <3>19 DEF before
      <4>3. (Frames[last])' = f
        BY <2>1, <3>19
      <4>4. mainBuf' = SubSeq(before, Len(before) - begin + 1, Len(before)) \o mine
        BY <3>16 DEF Reservoir
      <4> HIDE DEF f
      <4> QED BY <3>18, <4>1, <4>2, <4>3, <4>4 DEF OwnMainData, f
    <3> QED BY <3>21, <3>22
  <2> QED BY <1>1, <1>2, <2>5, <2>6
<1> QED BY <1>1, <1>6, <1>7

\* What comes in does not touch the main data.
LEMMA KeptInput ==
  ASSUME KeptInv, InOrder, input_helix
  PROVE  /\ received' \in Nat /\ received' <= song.length /\ left' \in Nat /\ left' <= MAINBUF_SIZE
         /\ received' - left' = ptr
<1> DEFINE M == MAINBUF_SIZE
           R == RING_BUF_SIZE
           total == song.length
           wrapped == received % R
           S == {M - left, total - received, R - wrapped}
           most == Min(S)
<1>1. /\ M \in Nat /\ R \in Nat /\ R > 0 /\ total \in Nat /\ received \in Nat /\ left \in Nat
      /\ left <= M /\ received <= total
  BY StreamsAssumption, RingAssumption, SongKnown DEF KeptInv
<1>2. wrapped \in 0..R - 1
  <2> HIDE DEF R
  <2> QED BY <1>1
<1>3. S \subseteq Nat
  <2> HIDE DEF M, R, total, wrapped
  <2> QED BY <1>1, <1>2
<1>4. most \in S /\ most <= M - left /\ most <= total - received
  <2>1. S # {} /\ M - left \in S /\ total - received \in S
    OBVIOUS
  <2> HIDE DEF S
  <2> QED BY <1>3, <2>1, SmallestIsMember
<1>5. most \in Nat
  BY <1>3, <1>4
<1>6. PICK len \in IF song.prompt THEN {most} ELSE {Min({n, most}) : n \in Portions} :
        received' = received + len /\ left' = left + len
  BY DEF input_helix, Request, InOnePiece
<1> HIDE DEF most
<1>7. len \in Nat /\ len <= most
  <2>1. CASE len = most
    BY <1>5, <2>1
  <2>2. CASE \E n \in Portions : len = Min({n, most})
    <3>1. PICK n \in Portions : len = Min({n, most})
      BY <2>2
    <3>2. {n, most} \subseteq Nat /\ {n, most} # {} /\ most \in {n, most}
      BY <1>5, RingAssumption
    <3>3. Min({n, most}) \in Nat /\ Min({n, most}) <= most
      BY <3>2, SmallestIsMember
    <3> QED BY <3>1, <3>3
  <2> QED BY <1>6, <2>1, <2>2
<1> HIDE DEF M, total, S
<1>8. /\ received' \in Nat /\ received' <= total /\ left' \in Nat /\ left' <= M
      /\ received' - left' = received - left
  BY <1>1, <1>4, <1>5, <1>6, <1>7
<1> QED BY <1>8 DEF M, total, ptr

\* When frames with a bitrate of the table follow each other, each frame that is decoded while no byte
\* was thrown away has its own main data, and every part of it begins where the lengths of
\* those before it end; whatever is cut off, spoilt or late, and whatever the parts claim
\* (mp3dec.c: MP3Decode()).
THEOREM MainDataKeptAlways == StreamSpec => [](InOrder => MainDataKept)
<1>1. StreamInit => KeptInv
  <2> SUFFICES ASSUME StreamInit
               PROVE  /\ received \in Nat /\ received <= song.length /\ left \in Nat /\ left <= MAINBUF_SIZE
                      /\ freeBitrateFlag = FALSE /\ Kept /\ OwnMainData
    BY DEF KeptInv, StreamInit
  <2>1. stream \in DOMAIN Streams /\ received = 0 /\ left = 0 /\ freeBitrateFlag = FALSE /\ last = 0
        /\ mainBuf = <<>>
    BY DEF StreamInit
  <2>2. song.length \in Nat /\ Len(Frames) \in Nat
    BY <2>1, SongKnown
  <2>3. MAINBUF_SIZE \in Nat
    BY StreamsAssumption
  <2>4. DataOfFirst[0] = <<>>
    BY <2>1, DataGrows
  <2>5. Reservoir(<<>>, 0) = <<>> /\ Len(<<>>) = 0
    BY SubSeqEmpty, EmptySeq DEF Reservoir
  <2>6. ptr = EndOf(last) /\ last \in 0..Len(Frames)
    BY <2>1, <2>2 DEF ptr, EndOf
  <2>7. Kept
    BY <2>1, <2>4, <2>5, <2>6 DEF Kept
  <2>8. OwnMainData
    BY <2>1 DEF OwnMainData
  <2> QED BY <2>1, <2>2, <2>3, <2>7, <2>8
<1>2. KeptInv /\ [StreamNext]_streamVars => KeptInv'
  <2> SUFFICES ASSUME KeptInv, StreamNext \/ UNCHANGED streamVars, InOrder
               PROVE  /\ received' \in Nat /\ received' <= song.length /\ left' \in Nat /\ left' <= MAINBUF_SIZE
                      /\ freeBitrateFlag' = FALSE
                      /\ ~skipped' => Kept' /\ OwnMainData'
    BY SongStays DEF KeptInv
  <2>1. stream' = stream
    BY SongStays
  <2>2. ASSUME UNCHANGED <<mainBuf, last, starts>>, ptr' = ptr, skipped' => skipped
        PROVE  ~skipped /\ Kept /\ OwnMainData => Kept' /\ OwnMainData'
    <3>1. Frames' = Frames /\ DataOfFirst' = DataOfFirst
      BY <2>1, DataStays
    <3>2. EndOf(last)' = EndOf(last) /\ MainBytes(last)' = MainBytes(last)
      BY <2>2, <3>1 DEF EndOf, MainBytes
    <3>3. Kept => Kept'
      BY <2>2, <3>1, <3>2 DEF Kept
    <3>4. ~skipped /\ OwnMainData => OwnMainData'
      BY <2>2, <3>1, <3>2 DEF OwnMainData
    <3> QED BY <3>3, <3>4
  <2>3. CASE input_helix
    <3>1. UNCHANGED <<mainBuf, last, starts, skipped, freeBitrateFlag>>
      BY <2>3 DEF input_helix
    <3>2. ptr' = ptr
      BY <2>3, KeptInput DEF ptr
    <3> QED BY <2>2, <2>3, <3>1, <3>2, KeptInput DEF KeptInv
  <2>4. CASE NoSync
    <3>1. /\ left' = 0 /\ (skipped' <=> skipped \/ left > 0)
          /\ UNCHANGED <<mainBuf, last, starts, freeBitrateFlag, received>>
      BY <2>4 DEF NoSync
    <3>2. received \in Nat /\ left \in Nat /\ MAINBUF_SIZE \in Nat
      BY StreamsAssumption DEF KeptInv
    <3>3. left' \in Nat /\ left' <= MAINBUF_SIZE
      BY <3>1, <3>2
    <3>4. ASSUME ~skipped' PROVE left = 0 /\ ptr' = ptr /\ ~skipped
      <4>1. ~(left > 0) /\ ~skipped
        BY <3>1, <3>4
      <4>2. left = 0
        BY <3>2, <4>1
      <4> QED BY <3>1, <4>1, <4>2 DEF ptr
    <3>5. ~skipped' => Kept' /\ OwnMainData'
      BY <2>2, <3>1, <3>4 DEF KeptInv
    <3> QED BY <3>1, <3>3, <3>5 DEF KeptInv
  <2>5. CASE Decode
    BY <2>5, KeptDecode
  <2>6. CASE UNCHANGED streamVars
    <3>1. UNCHANGED <<stream, received, left, mainBuf, freeBitrateFlag, last, starts, skipped>>
      BY <2>6 DEF streamVars
    <3>2. ptr' = ptr
      BY <3>1 DEF ptr
    <3> QED BY <2>2, <3>1, <3>2 DEF KeptInv
  <2> QED BY <2>3, <2>4, <2>5, <2>6 DEF StreamNext
<1>3. KeptInv => (InOrder => OwnMainData)
  BY DEF KeptInv, OwnMainData
<1>4. StreamSpec => [](InOrder => OwnMainData)
  BY <1>1, <1>2, <1>3, PTL DEF StreamSpec
<1>5. (InOrder => OwnMainData) /\ MainBufHolds => (InOrder => MainDataKept)
  BY DEF MainDataKept
<1> QED BY <1>4, <1>5, MainBufHoldsAlways, PTL


----------------------------------------------------------------------------
(* The FIFO of the synthesis filter.                                       *)

\* Block m is written from At(m) on, its late part from AtLate(m) on.
At(m) == (-(m \div 2)) % 8
AtLate(m) == (-((m + 1) \div 2)) % 8

\* The writes of block m of a channel, each a place and what is put there.
Writes(m, ch) ==
  {<<<<m % 2, row, 32 * ch + At(m) + d>>, <<ch, m, "lo">>>> : row \in {0, 1}, d \in {0, 8}}
    \cup {<<<<1 - (m % 2), row, 32 * ch + 16 + AtLate(m) + d>>, <<ch, m, "hi">>>> :
            row \in {0, 1}, d \in {0, 8}}
    \cup {<<<<1 - (m % 2), 16, 32 * ch + AtLate(m) + d>>, <<ch, m, "zero">>>> : d \in {0, 8}}

\* The part that a place holds, and the blocks that are written there: one of 16.
PartAt(p) == IF p[2] = 16 THEN "zero" ELSE IF p[3] % 32 < 16 THEN "lo" ELSE "hi"
InPhase(p, m) ==
  IF PartAt(p) = "lo" THEN m % 2 = p[1] /\ At(m) = p[3] % 8
  ELSE 1 - (m % 2) = p[1] /\ AtLate(m) = p[3] % 8

\* Offsets step back every other block.
LEMMA AtSteps ==
  \A m \in Int : /\ At(m) \in 0..7 /\ AtLate(m) \in 0..7
                 /\ (At(m) - (m % 2)) % 8 = AtLate(m)
                 /\ At(m + 1) = AtLate(m)
<1> SUFFICES ASSUME NEW m \in Int
             PROVE  /\ At(m) \in 0..7 /\ AtLate(m) \in 0..7
                    /\ (At(m) - (m % 2)) % 8 = AtLate(m)
                    /\ At(m + 1) = AtLate(m)
  OBVIOUS
<1> PICK q, e : q = m \div 2 /\ e = m % 2
  OBVIOUS
<1>1. q \in Int /\ e \in 0..1 /\ (m + 1) \div 2 = q + e
  OBVIOUS
<1>2. At(m) = (-q) % 8 /\ AtLate(m) = (-(q + e)) % 8 /\ At(m + 1) = AtLate(m)
  BY <1>1 DEF At, AtLate
<1>3. \A a, b \in Int : ((a % 8) - b) % 8 = (a - b) % 8 /\ a % 8 \in 0..7
  OBVIOUS
<1>4. -(q + e) = -q - e /\ -q \in Int /\ -(q + e) \in Int /\ e \in Int
  BY <1>1
<1>5. (((-q) % 8) - e) % 8 = (-(q + e)) % 8
  BY <1>3, <1>4
<1> QED BY <1>2, <1>3, <1>4, <1>5

LEMMA SixteenBlocks ==
  \A m, n \in Int : m - n < 16 /\ n - m < 16 /\ m % 2 = n % 2
                      /\ (At(m) = At(n) \/ AtLate(m) = AtLate(n)) => m = n
BY DEF At, AtLate

LEMMA OnePhase ==
  \A p : \A m, n \in Int : m - n < 16 /\ n - m < 16 /\ InPhase(p, m) /\ InPhase(p, n) => m = n
<1> SUFFICES ASSUME NEW p, NEW m \in Int, NEW n \in Int, m - n < 16, n - m < 16,
                    InPhase(p, m), InPhase(p, n)
             PROVE  m = n
  OBVIOUS
<1>1. m % 2 = n % 2 /\ (At(m) = At(n) \/ AtLate(m) = AtLate(n))
  <2>1. m % 2 \in Int /\ n % 2 \in Int
    OBVIOUS
  <2> QED BY <2>1 DEF InPhase
<1> QED BY <1>1, SixteenBlocks

\* What is written tells the place's channel and part, and its block the phase.
LEMMA WriteFits ==
  \A m \in Int, ch \in 0..1 : \A w \in Writes(m, ch) :
    /\ w[2] = <<ch, m, PartAt(w[1])>> /\ InPhase(w[1], m)
    /\ w[1][3] \in 32 * ch..32 * ch + 31
<1> SUFFICES ASSUME NEW m \in Int, NEW ch \in 0..1, NEW w \in Writes(m, ch)
             PROVE  /\ w[2] = <<ch, m, PartAt(w[1])>> /\ InPhase(w[1], m)
                    /\ w[1][3] \in 32 * ch..32 * ch + 31
  OBVIOUS
<1>1. PICK a, b : a = At(m) /\ b = AtLate(m) /\ a \in 0..7 /\ b \in 0..7
  BY AtSteps
<1>2. CASE \E row \in {0, 1}, d \in {0, 8} : w = <<<<m % 2, row, 32 * ch + a + d>>, <<ch, m, "lo">>>>
  <2>1. PICK row \in {0, 1}, d \in {0, 8} : w = <<<<m % 2, row, 32 * ch + a + d>>, <<ch, m, "lo">>>>
    BY <1>2
  <2>2. PICK c : c = 32 * ch + a + d
    OBVIOUS
  <2>3. c \in 32 * ch..32 * ch + 31 /\ c % 32 < 16 /\ c % 8 = a
    BY <1>1, <2>2
  <2>4. w[1][1] = m % 2 /\ w[1][2] = row /\ w[1][3] = c /\ w[2] = <<ch, m, "lo">>
    BY <2>1, <2>2
  <2> QED BY <1>1, <2>3, <2>4 DEF PartAt, InPhase
<1>3. CASE \E row \in {0, 1}, d \in {0, 8} :
             w = <<<<1 - (m % 2), row, 32 * ch + 16 + b + d>>, <<ch, m, "hi">>>>
  <2>1. PICK row \in {0, 1}, d \in {0, 8} :
          w = <<<<1 - (m % 2), row, 32 * ch + 16 + b + d>>, <<ch, m, "hi">>>>
    BY <1>3
  <2>2. PICK c : c = 32 * ch + 16 + b + d
    OBVIOUS
  <2>3. c \in 32 * ch..32 * ch + 31 /\ ~(c % 32 < 16) /\ c % 8 = b
    <3>1. CASE ch = 0
      BY <1>1, <2>2, <3>1
    <3>2. CASE ch = 1
      BY <1>1, <2>2, <3>2
    <3> QED BY <3>1, <3>2
  <2>4. w[1][1] = 1 - (m % 2) /\ w[1][2] = row /\ w[1][3] = c /\ w[2] = <<ch, m, "hi">>
    BY <2>1, <2>2
  <2> QED BY <1>1, <2>3, <2>4 DEF PartAt, InPhase
<1>4. CASE \E d \in {0, 8} : w = <<<<1 - (m % 2), 16, 32 * ch + b + d>>, <<ch, m, "zero">>>>
  <2>1. PICK d \in {0, 8} : w = <<<<1 - (m % 2), 16, 32 * ch + b + d>>, <<ch, m, "zero">>>>
    BY <1>4
  <2>2. PICK c : c = 32 * ch + b + d
    OBVIOUS
  <2>3. c \in 32 * ch..32 * ch + 31 /\ c % 8 = b
    <3>1. CASE ch = 0
      BY <1>1, <2>2, <3>1
    <3>2. CASE ch = 1
      BY <1>1, <2>2, <3>2
    <3> QED BY <3>1, <3>2
  <2>4. w[1][1] = 1 - (m % 2) /\ w[1][2] = 16 /\ w[1][3] = c /\ w[2] = <<ch, m, "zero">>
    BY <2>1, <2>2
  <2> QED BY <1>1, <2>3, <2>4 DEF PartAt, InPhase
<1> QED BY <1>1, <1>2, <1>3, <1>4 DEF Writes

\* The writes of FDCT32().
LEMMA WrittenWrites ==
  ASSUME blockCount \in Nat, NEW ch \in 0..1, NEW offset, NEW odd, offset = At(blockCount), odd = oddBlock
  PROVE  Written(ch, offset, odd) = Writes(blockCount, ch)
<1> PICK m, b : m = blockCount /\ b = AtLate(m)
  OBVIOUS
<1>1. odd = m % 2 /\ m \in Int /\ offset = At(m) /\ Late(offset, odd) = b
  <2>1. odd = m % 2 /\ m \in Int /\ offset = At(m)
    BY DEF oddBlock
  <2> QED BY <2>1, AtSteps DEF Late
<1>2. Rows \ {16} = {0, 1}
  BY DEF Rows
<1> DEFINE twice(half, row, at, part) ==
             {<<half, row, 32 * ch + at + d>> : d \in {0, 8}} \X {<<ch, m, part>>}
<1>3. Written(ch, offset, odd) =
        twice(1 - odd, 16, b, "zero")
          \cup UNION {twice(odd, row, offset, "lo") \cup twice(1 - odd, row, 16 + b, "hi") : row \in {0, 1}}
  BY <1>1, <1>2 DEF Written
<1>4. \A half, row, at, part :
        twice(half, row, at, part) = {<<<<half, row, 32 * ch + at + d>>, <<ch, m, part>>>> : d \in {0, 8}}
  OBVIOUS
<1> HIDE DEF twice
<1>5. \A d \in {0, 8} : 32 * ch + (16 + b) + d = 32 * ch + 16 + b + d
  <2>1. b \in Int /\ ch \in Int
    BY <1>1, AtSteps
  <2> QED BY <2>1
<1> QED BY <1>1, <1>3, <1>4, <1>5 DEF Writes

\* A place is written with one value by a block of a channel.
LEMMA PlaceOnce ==
  \A m \in Int, ch \in 0..1 : \A v, w \in Writes(m, ch) : v[1] = w[1] => v[2] = w[2]
BY WriteFits

\* A block is put where it belongs, and the other places are left.
Put(buffer, after, n, ch) ==
  /\ \A w \in Writes(n, ch) : w[1] \in DOMAIN after /\ after[w[1]] = w[2]
  /\ \A p \in DOMAIN buffer : (\A w \in Writes(n, ch) : w[1] # p)
       => p \in DOMAIN after /\ after[p] = buffer[p]
  /\ \A p \in DOMAIN after : p \in DOMAIN buffer \/ \E w \in Writes(n, ch) : w[1] = p

\* FDCT32() does it.
LEMMA FDCT32Writes ==
  ASSUME NEW buffer, blockCount \in Nat, NEW ch \in 0..1, NEW offset, NEW odd,
         offset = At(blockCount), odd = oddBlock,
         NEW after, after = FDCT32(buffer, ch, offset, odd)
  PROVE  Put(buffer, after, blockCount, ch)
<1> PICK W : W = Writes(blockCount, ch)
  OBVIOUS
<1> DEFINE places == {w[1] : w \in W}
<1>1. Written(ch, offset, odd) = W
  BY WrittenWrites
<1>2. after = [p \in places \cup DOMAIN buffer |->
                 IF p \in places THEN (CHOOSE w \in W : w[1] = p)[2] ELSE buffer[p]]
  BY <1>1 DEF FDCT32
<1>3. \A v, w \in W : v[1] = w[1] => v[2] = w[2]
  BY PlaceOnce
<1>4. ASSUME NEW w \in W PROVE w[1] \in DOMAIN after /\ after[w[1]] = w[2]
  <2>1. w[1] \in places
    OBVIOUS
  <2>2. PICK v : v = CHOOSE u \in W : u[1] = w[1]
    OBVIOUS
  <2>3. v \in W /\ v[1] = w[1]
    BY <2>2
  <2>4. v[2] = w[2]
    BY <1>3, <2>3
  <2> QED BY <1>2, <2>1, <2>2, <2>4
<1> QED BY <1>2, <1>4 DEF Put

----------------------------------------------------------------------------
(* The last 16 blocks are where they were written, and nothing is where no *)
(* block was.                                                              *)

Unspoilt(buffer, m, ch) == \A w \in Writes(m, ch) : w[1] \in DOMAIN buffer /\ buffer[w[1]] = w[2]
FilterInv ==
  /\ blockCount \in Nat /\ nChans \in 1..2
  /\ vindex = At(blockCount)
  /\ \A ch \in 0..(nChans - 1) : \A m \in Nat :
       m < blockCount /\ blockCount <= m + 16 => Unspoilt(vbuf, m, ch)
  /\ \A p \in DOMAIN vbuf : \E m \in Nat : m < blockCount /\ InPhase(p, m)
  /\ TapsInOrder

\* The blocks kept, once block n of the channel was written: those of the channels before it too.
LEMMA UnspoiltAfter ==
  \A buffer, after : \A n \in Nat, ch \in 0..1 :
    Put(buffer, after, n, ch) =>
      /\ Unspoilt(after, n, ch)
      /\ \A m \in Nat, c \in 0..1 : m <= n /\ n < m + 16 /\ (m # n \/ c # ch) /\ Unspoilt(buffer, m, c)
           => Unspoilt(after, m, c)
<1> SUFFICES ASSUME NEW buffer, NEW after, NEW n \in Nat, NEW ch \in 0..1, Put(buffer, after, n, ch)
             PROVE  /\ Unspoilt(after, n, ch)
                    /\ \A m \in Nat, c \in 0..1 :
                         m <= n /\ n < m + 16 /\ (m # n \/ c # ch) /\ Unspoilt(buffer, m, c)
                           => Unspoilt(after, m, c)
  OBVIOUS
<1>1. Unspoilt(after, n, ch)
  BY DEF Unspoilt, Put
<1>2. ASSUME NEW m \in Nat, NEW c \in 0..1, m <= n, n < m + 16, m # n \/ c # ch, Unspoilt(buffer, m, c)
      PROVE  Unspoilt(after, m, c)
  <2> SUFFICES ASSUME NEW w \in Writes(m, c) PROVE w[1] \in DOMAIN after /\ after[w[1]] = w[2]
    BY DEF Unspoilt
  <2>1. w[1] \in DOMAIN buffer /\ buffer[w[1]] = w[2]
    BY <1>2 DEF Unspoilt
  <2>2. ASSUME NEW v \in Writes(n, ch), v[1] = w[1] PROVE FALSE
    <3>1. InPhase(w[1], m) /\ InPhase(w[1], n)
      BY <2>2, WriteFits
    <3>2. m = n
      BY <1>2, <3>1, OnePhase
    <3>3. w[1][3] \in 32 * c..32 * c + 31 /\ w[1][3] \in 32 * ch..32 * ch + 31
      <4>1. m \in Int /\ n \in Int
        OBVIOUS
      <4>2. w[1][3] \in 32 * c..32 * c + 31
        BY <4>1, WriteFits, Zenon
      <4>3. v[1][3] \in 32 * ch..32 * ch + 31
        BY <4>1, WriteFits, Zenon
      <4> QED BY <2>2, <4>2, <4>3
    <3>4. \A x : x \in 32 * c..32 * c + 31 /\ x \in 32 * ch..32 * ch + 31 => c = ch
      OBVIOUS
    <3> QED BY <1>2, <3>2, <3>3, <3>4
  <2>3. w[1] \in DOMAIN after /\ after[w[1]] = buffer[w[1]]
    BY <2>1, <2>2 DEF Put
  <2> QED BY <2>1, <2>3
<1> QED BY <1>1, <1>2

\* So many offsets on, modulo 8.
LEMMA StepOn ==
  \A x \in Int, k \in 0..7 :
    -x \in Int /\ (((-x) % 8) + k = (-x + k) % 8 \/ ((-x) % 8) + k = ((-x + k) % 8) + 8)
OBVIOUS

\* The place of a tap is one of block n - age, of its part, within the last 16.
Age(row, k, side) == IF row = 16 THEN 2 * k + 1 ELSE IF side = "lo" THEN 2 * k ELSE 15 - 2 * k
TapPart(row, side) == IF row = 16 THEN "zero" ELSE side
TapPlace(n, c, row, k, side) ==
  <<n % 2, row, 32 * c + At(n) + (IF side = "lo" THEN k ELSE 23 - k)>>
LEMMA TapWritten ==
  ASSUME NEW n \in Nat, NEW c \in 0..1, NEW row \in Rows, NEW k \in 0..7, NEW side \in {"lo", "hi"},
         row = 16 => side = "lo", NEW m, m = n - Age(row, k, side)
  PROVE  /\ m \in Int /\ n - m \in 0..15
         /\ <<TapPlace(n, c, row, k, side), <<c, m, TapPart(row, side)>>>> \in Writes(m, c)
<1>1. m \in Int /\ n - m \in 0..15
  BY DEF Age
<1> PICK a, b, e : a = At(n) /\ b = AtLate(m) /\ e = At(m)
  OBVIOUS
<1>2. a \in 0..7 /\ b \in 0..7 /\ e \in 0..7
  BY <1>1, AtSteps
<1> DEFINE p == TapPlace(n, c, row, k, side)
<1>3. CASE row = 16
  <2>1. m = n - (2 * k + 1) /\ side = "lo"
    BY <1>3 DEF Age
  <2>2. 1 - (m % 2) = n % 2
    BY <2>1
  <2>3. a + k = b \/ a + k = b + 8
    <3>1. (m + 1) \div 2 = (n \div 2) - k /\ n \div 2 \in Int
      BY <2>1
    <3>2. b = (-(n \div 2) + k) % 8
      BY <3>1 DEF AtLate
    <3> QED BY <3>1, <3>2, StepOn DEF At
  <2>4. PICK d \in {0, 8} : a + k = b + d
    BY <1>2, <2>3
  <2>5. 32 * c + a + k = 32 * c + b + d
    BY <1>2, <2>4
  <2>6. p = <<1 - (m % 2), 16, 32 * c + b + d>>
    BY <1>3, <2>1, <2>2, <2>5 DEF TapPlace
  <2> QED BY <1>1, <1>3, <2>6 DEF Writes, TapPart
<1>4. CASE row # 16 /\ side = "lo"
  <2>1. m = n - 2 * k /\ row \in {0, 1}
    BY <1>4 DEF Age, Rows
  <2>2. m % 2 = n % 2
    BY <2>1
  <2>3. a + k = e \/ a + k = e + 8
    <3>1. m \div 2 = (n \div 2) - k /\ n \div 2 \in Int
      BY <2>1
    <3>2. e = (-(n \div 2) + k) % 8
      BY <3>1 DEF At
    <3> QED BY <3>1, <3>2, StepOn DEF At
  <2>4. PICK d \in {0, 8} : a + k = e + d
    BY <1>2, <2>3
  <2>5. 32 * c + a + k = 32 * c + e + d
    BY <1>2, <2>4
  <2>6. p = <<m % 2, row, 32 * c + e + d>>
    BY <1>4, <2>2, <2>5 DEF TapPlace
  <2>7. TapPart(row, side) = "lo"
    BY <1>4 DEF TapPart
  <2> HIDE DEF p
  <2>8. <<p, <<c, m, "lo">>>> \in Writes(m, c)
    BY <2>1, <2>6 DEF Writes
  <2> QED BY <1>1, <2>7, <2>8 DEF p
<1>5. CASE row # 16 /\ side = "hi"
  <2>1. m = n - (15 - 2 * k) /\ row \in {0, 1}
    BY <1>5 DEF Age, Rows
  <2>2. 1 - (m % 2) = n % 2
    BY <2>1
  <2>3. a + (7 - k) = b \/ a + (7 - k) = b + 8
    <3>1. (m + 1) \div 2 = (n \div 2) - (7 - k) /\ n \div 2 \in Int
      BY <2>1
    <3>2. b = (-(n \div 2) + (7 - k)) % 8 /\ 7 - k \in 0..7
      BY <3>1 DEF AtLate
    <3> QED BY <3>1, <3>2, StepOn DEF At
  <2>4. PICK d \in {0, 8} : a + (7 - k) = b + d
    BY <1>2, <2>3
  <2>5. 32 * c + a + (23 - k) = 32 * c + 16 + b + d
    BY <1>2, <2>4
  <2>6. p = <<1 - (m % 2), row, 32 * c + 16 + b + d>>
    BY <1>5, <2>2, <2>5 DEF TapPlace
  <2> QED BY <1>1, <1>5, <2>1, <2>6 DEF Writes, TapPart
<1> QED BY <1>1, <1>3, <1>4, <1>5


\* The first block finds nothing written.
LEMMA FilterStart == FilterInit => FilterInv
BY DEF FilterInit, FilterInv, TapsInOrder, At

\* One block: it is kept, with the 15 before it, and the taps read the last 16.
LEMMA SubbandKeeps == ASSUME FilterInv, Subband PROVE FilterInv'
<1> PICK n : n = blockCount
  OBVIOUS
<1>1. /\ n \in Nat /\ nChans \in 1..2 /\ nChans' = nChans /\ blockCount' = n + 1
      /\ vindex = At(n) /\ oddBlock = n % 2
  BY DEF FilterInv, Subband, oddBlock
<1>2. PICK first, filled :
        /\ first = FDCT32(vbuf, 0, vindex, oddBlock)
        /\ filled = IF nChans = 2 THEN FDCT32(first, 1, vindex, oddBlock) ELSE first
        /\ vbuf' = filled /\ taps' = Polyphase(filled, nChans, vindex, oddBlock)
  BY DEF Subband
<1>3. vindex' = At(n + 1)
  <2>1. vindex' = (At(n) - (n % 2)) % 8
    BY <1>1 DEF Subband
  <2> QED BY <1>1, <2>1, AtSteps
<1>4. Put(vbuf, first, n, 0)
  <2>1. 0 \in 0..1
    OBVIOUS
  <2> QED BY <1>1, <1>2, <2>1, FDCT32Writes
<1>5. nChans = 2 => Put(first, filled, n, 1)
  <2> HAVE nChans = 2
  <2>1. 1 \in 0..1 /\ filled = FDCT32(first, 1, vindex, oddBlock)
    BY <1>2
  <2> QED BY <1>1, <2>1, FDCT32Writes
<1>6. \A ch \in 0..(nChans - 1) : \A m \in Nat : m < n + 1 /\ n + 1 <= m + 16 => Unspoilt(filled, m, ch)
  <2> SUFFICES ASSUME NEW ch \in 0..(nChans - 1), NEW m \in Nat, m < n + 1, n + 1 <= m + 16
               PROVE  Unspoilt(filled, m, ch)
    OBVIOUS
  <2>1. m <= n /\ n < m + 16 /\ ch \in 0..1 /\ (m # n => m < n /\ n <= m + 16)
    BY <1>1
  <2>2. m # n => Unspoilt(vbuf, m, ch)
    BY <1>1, <2>1 DEF FilterInv
  <2>3. m # n \/ ch = 0 => Unspoilt(first, m, ch)
    <3>1. 0 \in 0..1
      OBVIOUS
    <3> QED BY <1>1, <1>4, <2>1, <2>2, <3>1, UnspoiltAfter
  <2>4. CASE nChans = 1
    BY <1>2, <2>1, <2>3, <2>4
  <2>5. CASE nChans = 2
    <3>1. 1 \in 0..1 /\ (ch = 0 \/ ch = 1)
      BY <2>1
    <3>2. Unspoilt(filled, n, 1)
      BY <1>1, <1>5, <2>5, <3>1, UnspoiltAfter
    <3>3. \A b \in Nat, c \in 0..1 :
            b <= n /\ n < b + 16 /\ (b # n \/ c # 1) /\ Unspoilt(first, b, c) => Unspoilt(filled, b, c)
      BY <1>1, <1>5, <2>5, <3>1, UnspoiltAfter
    <3>4. ASSUME m # n \/ ch # 1 PROVE Unspoilt(filled, m, ch)
      BY <2>1, <2>3, <3>1, <3>3, <3>4
    <3> QED BY <3>2, <3>4
  <2> QED BY <1>1, <2>4, <2>5
<1>7. \A p \in DOMAIN filled : \E m \in Nat : m < n + 1 /\ InPhase(p, m)
  <2> SUFFICES ASSUME NEW p \in DOMAIN filled PROVE \E m \in Nat : m < n + 1 /\ InPhase(p, m)
    OBVIOUS
  <2>1. \A ch \in 0..1 : \A w \in Writes(n, ch) : w[1] = p => InPhase(p, n)
    BY <1>1, WriteFits
  <2>2. p \in DOMAIN vbuf \/ InPhase(p, n)
    <3>1. p \in DOMAIN first \/ InPhase(p, n)
      BY <1>1, <1>2, <1>5, <2>1 DEF Put
    <3> QED BY <1>4, <2>1, <3>1 DEF Put
  <2>3. CASE InPhase(p, n)
    BY <1>1, <2>3
  <2>4. CASE p \in DOMAIN vbuf
    <3>1. PICK m \in Nat : m < blockCount /\ InPhase(p, m)
      BY <2>4 DEF FilterInv
    <3> QED BY <1>1, <3>1
  <2> QED BY <2>2, <2>3, <2>4
<1>8. TapsInOrder'
  <2>1. \A t \in DOMAIN taps' :
          /\ t = <<t[1], t[2], t[3], t[4]>>
          /\ t[1] \in 0..(nChans - 1) /\ t[2] \in Rows /\ t[3] \in 0..7 /\ t[4] \in {"lo", "hi"}
          /\ t[2] = 16 => t[4] = "lo"
          /\ taps'[t] = LET place == TapPlace(n, t[1], t[2], t[3], t[4])
                        IN IF place \in DOMAIN filled THEN filled[place] ELSE Zero
    BY <1>1, <1>2 DEF Polyphase, TapPlace
  <2> SUFFICES ASSUME NEW t \in DOMAIN taps'
               PROVE  LET written == n - Age(t[2], t[3], t[4])
                      IN taps'[t] = IF written < 0 THEN Zero
                                    ELSE <<t[1], written, TapPart(t[2], t[4])>>
    BY <1>1 DEF TapsInOrder, Age, TapPart
  <2>2. PICK c, row, k, side, m, place :
          /\ c = t[1] /\ row = t[2] /\ k = t[3] /\ side = t[4]
          /\ m = n - Age(row, k, side) /\ place = TapPlace(n, c, row, k, side)
    OBVIOUS
  <2>3. /\ c \in 0..(nChans - 1) /\ c \in 0..1 /\ row \in Rows /\ k \in 0..7 /\ side \in {"lo", "hi"}
        /\ row = 16 => side = "lo"
        /\ taps'[t] = IF place \in DOMAIN filled THEN filled[place] ELSE Zero
    BY <1>1, <2>1, <2>2, SMTT(20)
  <2>4. /\ m \in Int /\ n - m \in 0..15
        /\ <<place, <<c, m, TapPart(row, side)>>>> \in Writes(m, c)
    <3>1. m = n - Age(row, k, side)
      BY <2>2
    <3>2. /\ m \in Int /\ n - m \in 0..15
          /\ <<TapPlace(n, c, row, k, side), <<c, m, TapPart(row, side)>>>> \in Writes(m, c)
      BY <1>1, <2>3, <3>1, TapWritten
    <3> QED BY <2>2, <3>2
  <2>5. CASE m >= 0
    <3>1. m \in Nat /\ m < n + 1 /\ n + 1 <= m + 16
      BY <1>1, <2>4, <2>5
    <3>2. place \in DOMAIN filled /\ filled[place] = <<c, m, TapPart(row, side)>>
      BY <1>6, <2>3, <2>4, <3>1 DEF Unspoilt
    <3> QED BY <2>2, <2>3, <2>4, <2>5, <3>2
  <2>6. CASE m < 0
    <3>1. InPhase(place, m)
      BY <2>3, <2>4, WriteFits
    <3>2. ASSUME place \in DOMAIN filled PROVE FALSE
      <4>1. PICK b \in Nat : b < n + 1 /\ InPhase(place, b)
        BY <1>7, <3>2
      <4>2. b - m < 16 /\ m - b < 16 /\ b # m
        BY <1>1, <2>4, <2>6, <4>1
      <4> QED BY <2>4, <3>1, <4>1, <4>2, OnePhase
    <3> QED BY <2>2, <2>3, <2>6, <3>2
  <2> QED BY <2>4, <2>5, <2>6
<1> QED BY <1>1, <1>2, <1>3, <1>6, <1>7, <1>8 DEF FilterInv

\* The synthesis filter gets the last 16 blocks, each at its own tap and each of its own channel,
\* for any number of blocks: they are kept where they were written, a place is written again
\* only 16 blocks later, and what is not yet written is zero (Subband(), FDCT32(),
\* PolyphaseMono(), PolyphaseStereo()).
THEOREM TapsInOrderAlways == FilterSpec => []TapsInOrder
<1>1. FilterInv /\ [FilterNext]_filterVars => FilterInv'
  <2> SUFFICES ASSUME FilterInv, [FilterNext]_filterVars PROVE FilterInv'
    OBVIOUS
  <2>1. CASE Subband
    BY <2>1, SubbandKeeps
  <2>2. CASE UNCHANGED filterVars
    BY <2>2 DEF filterVars, FilterInv, TapsInOrder
  <2> QED BY <2>1, <2>2 DEF FilterNext
<1>2. FilterInv => TapsInOrder
  BY DEF FilterInv
<1> QED BY <1>1, <1>2, FilterStart, PTL DEF FilterSpec

----------------------------------------------------------------------------
(* The coefficients of a granule.                                          *)

LEMMA OfTwo ==
  \A a, b \in Int : /\ Max({a, b}) = IF a >= b THEN a ELSE b
                    /\ Min({a, b}) = IF a <= b THEN a ELSE b
BY DEF Max, Min

\* What a band table says: where the bands of 576 coefficients begin, three times as far for short
\* blocks, and that a mixed granule changes over where a short band begins.
cbMixed(row) == IF sfBandTable[row].mpeg1 THEN 8 ELSE 6
LEMMA BandsGrow ==
  ASSUME NEW row \in DOMAIN sfBandTable
  PROVE  /\ sfBandTable[row].l \in [1..23 -> 0..MAX_NSAMP] /\ sfBandTable[row].l[1] = 0
         /\ sfBandTable[row].s \in [1..14 -> Nat]
         /\ \A b \in 1..13 : sfBandTable[row].s[b] < sfBandTable[row].s[b + 1]
         /\ sfBandTable[row].s[1] = 0 /\ 3 * sfBandTable[row].s[14] = MAX_NSAMP
         /\ sfBandTable[row].l[cbMixed(row) + 1] = 3 * sfBandTable[row].s[4]
         /\ \A b \in 1..(cbMixed(row) + 1) : sfBandTable[row].l[b] <= 3 * sfBandTable[row].s[4]
         /\ 3 * sfBandTable[row].s[4] \in {36, 72}
<1>1. row \in {"mpeg1_44", "mpeg2_22", "mpeg25_8"}
  BY DEF sfBandTable
<1>2. CASE row = "mpeg1_44"
  <2>1. /\ sfBandTable[row].mpeg1 = TRUE
        /\ sfBandTable[row].l =
             <<0, 4, 8, 12, 16, 20, 24, 30, 36, 44, 52, 62, 74, 90, 110, 134,
               162, 196, 238, 288, 342, 418, 576>>
        /\ sfBandTable[row].s = <<0, 4, 8, 12, 16, 22, 30, 40, 52, 66, 84, 106, 136, 192>>
    BY <1>2 DEF sfBandTable
  <2>2. sfBandTable[row].l \in [1..23 -> 0..MAX_NSAMP]
    <3>1. sfBandTable[row].l \in [1..23 -> Nat]
      BY <2>1
    <3>2. \A b \in 1..23 : sfBandTable[row].l[b] <= MAX_NSAMP
      BY <2>1 DEF MAX_NSAMP
    <3>3. MAX_NSAMP \in Nat
      BY DEF MAX_NSAMP
    <3> QED BY <3>1, <3>2, <3>3
  <2>3. sfBandTable[row].s \in [1..14 -> Nat]
    BY <2>1
  <2>4. \A b \in 1..13 : sfBandTable[row].s[b] < sfBandTable[row].s[b + 1]
    BY <2>1
  <2>5. \A b \in 1..(cbMixed(row) + 1) : sfBandTable[row].l[b] <= 3 * sfBandTable[row].s[4]
    BY <2>1 DEF cbMixed
  <2>6. sfBandTable[row].l[cbMixed(row) + 1] = 3 * sfBandTable[row].s[4]
    BY <2>1 DEF cbMixed
  <2>7. sfBandTable[row].l[1] = 0 /\ sfBandTable[row].s[1] = 0
    BY <2>1
  <2>8. 3 * sfBandTable[row].s[14] = 576 /\ 3 * sfBandTable[row].s[4] \in {36, 72}
    BY <2>1
  <2> QED BY <2>2, <2>3, <2>4, <2>5, <2>6, <2>7, <2>8 DEF MAX_NSAMP
<1>3. CASE row = "mpeg2_22"
  <2>1. /\ sfBandTable[row].mpeg1 = FALSE
        /\ sfBandTable[row].l =
             <<0, 6, 12, 18, 24, 30, 36, 44, 54, 66, 80, 96, 116, 140, 168,
               200, 238, 284, 336, 396, 464, 522, 576>>
        /\ sfBandTable[row].s = <<0, 4, 8, 12, 18, 24, 32, 42, 56, 74, 100, 132, 174, 192>>
    BY <1>3 DEF sfBandTable
  <2>2. sfBandTable[row].l \in [1..23 -> 0..MAX_NSAMP]
    <3>1. sfBandTable[row].l \in [1..23 -> Nat]
      BY <2>1
    <3>2. \A b \in 1..23 : sfBandTable[row].l[b] <= MAX_NSAMP
      BY <2>1 DEF MAX_NSAMP
    <3>3. MAX_NSAMP \in Nat
      BY DEF MAX_NSAMP
    <3> QED BY <3>1, <3>2, <3>3
  <2>3. sfBandTable[row].s \in [1..14 -> Nat]
    BY <2>1
  <2>4. \A b \in 1..13 : sfBandTable[row].s[b] < sfBandTable[row].s[b + 1]
    BY <2>1
  <2>5. \A b \in 1..(cbMixed(row) + 1) : sfBandTable[row].l[b] <= 3 * sfBandTable[row].s[4]
    BY <2>1 DEF cbMixed
  <2>6. sfBandTable[row].l[cbMixed(row) + 1] = 3 * sfBandTable[row].s[4]
    BY <2>1 DEF cbMixed
  <2>7. sfBandTable[row].l[1] = 0 /\ sfBandTable[row].s[1] = 0
    BY <2>1
  <2>8. 3 * sfBandTable[row].s[14] = 576 /\ 3 * sfBandTable[row].s[4] \in {36, 72}
    BY <2>1
  <2> QED BY <2>2, <2>3, <2>4, <2>5, <2>6, <2>7, <2>8 DEF MAX_NSAMP
<1>4. CASE row = "mpeg25_8"
  <2>1. /\ sfBandTable[row].mpeg1 = FALSE
        /\ sfBandTable[row].l =
             <<0, 12, 24, 36, 48, 60, 72, 88, 108, 132, 160, 192, 232, 280,
               336, 400, 476, 566, 568, 570, 572, 574, 576>>
        /\ sfBandTable[row].s = <<0, 8, 16, 24, 36, 52, 72, 96, 124, 160, 162, 164, 166, 192>>
    BY <1>4 DEF sfBandTable
  <2>2. sfBandTable[row].l \in [1..23 -> 0..MAX_NSAMP]
    <3>1. sfBandTable[row].l \in [1..23 -> Nat]
      BY <2>1
    <3>2. \A b \in 1..23 : sfBandTable[row].l[b] <= MAX_NSAMP
      BY <2>1 DEF MAX_NSAMP
    <3>3. MAX_NSAMP \in Nat
      BY DEF MAX_NSAMP
    <3> QED BY <3>1, <3>2, <3>3
  <2>3. sfBandTable[row].s \in [1..14 -> Nat]
    BY <2>1
  <2>4. \A b \in 1..13 : sfBandTable[row].s[b] < sfBandTable[row].s[b + 1]
    BY <2>1
  <2>5. \A b \in 1..(cbMixed(row) + 1) : sfBandTable[row].l[b] <= 3 * sfBandTable[row].s[4]
    BY <2>1 DEF cbMixed
  <2>6. sfBandTable[row].l[cbMixed(row) + 1] = 3 * sfBandTable[row].s[4]
    BY <2>1 DEF cbMixed
  <2>7. sfBandTable[row].l[1] = 0 /\ sfBandTable[row].s[1] = 0
    BY <2>1
  <2>8. 3 * sfBandTable[row].s[14] = 576 /\ 3 * sfBandTable[row].s[4] \in {36, 72}
    BY <2>1
  <2> QED BY <2>2, <2>3, <2>4, <2>5, <2>6, <2>7, <2>8 DEF MAX_NSAMP
<1> QED BY <1>1, <1>2, <1>3, <1>4

LEMMA BandsOrdered ==
  ASSUME NEW f \in [1..14 -> Nat], \A b \in 1..13 : f[b] < f[b + 1]
  PROVE  \A a, b \in 1..14 : a < b => f[a] < f[b]
<1>1. /\ f[1] < f[2] /\ f[2] < f[3] /\ f[3] < f[4] /\ f[4] < f[5] /\ f[5] < f[6] /\ f[6] < f[7]
      /\ f[7] < f[8] /\ f[8] < f[9] /\ f[9] < f[10] /\ f[10] < f[11] /\ f[11] < f[12]
      /\ f[12] < f[13] /\ f[13] < f[14]
  OBVIOUS
<1>2. \A b \in 1..14 : f[b] \in Nat
  OBVIOUS
<1>3. \A b \in 1..14 : b \in {1, 2, 3, 4, 5, 6, 7, 8, 9, 10, 11, 12, 13, 14}
  OBVIOUS
<1> SUFFICES ASSUME NEW a \in 1..14, NEW b \in 1..14, a < b PROVE f[a] < f[b]
  OBVIOUS
<1> QED BY <1>1, <1>2, <1>3

\* The bands of the stream, as DequantChannel() and IMDCT() use them.
ShortOf == IF mpeg1 THEN 8 ELSE 6
LEMMA BandFacts ==
  ASSUME band \in DOMAIN sfBandTable
  PROVE  /\ \A cb \in 0..22 : bandL(cb) \in 0..MAX_NSAMP
         /\ bandL(0) = 0
         /\ \A cb \in 0..13 : bandS(cb) \in Nat
         /\ \A a, b \in 0..13 : a < b => bandS(a) < bandS(b)
         /\ bandS(0) = 0 /\ 3 * bandS(13) = MAX_NSAMP
         /\ bandL(ShortOf) = 3 * bandS(3)
         /\ \A cb \in 0..ShortOf : bandL(cb) <= 3 * bandS(3)
         /\ 3 * bandS(3) \in {36, 72}
<1> DEFINE l == sfBandTable[band].l
           t == sfBandTable[band].s
<1>1. /\ l \in [1..23 -> 0..MAX_NSAMP] /\ l[1] = 0
      /\ t \in [1..14 -> Nat]
      /\ \A b \in 1..13 : t[b] < t[b + 1]
      /\ t[1] = 0 /\ 3 * t[14] = MAX_NSAMP
      /\ l[ShortOf + 1] = 3 * t[4]
      /\ \A b \in 1..(ShortOf + 1) : l[b] <= 3 * t[4]
      /\ 3 * t[4] \in {36, 72}
  BY BandsGrow DEF cbMixed, ShortOf, mpeg1
<1>2. \A a, b \in 1..14 : a < b => t[a] < t[b]
  <2> HIDE DEF t, l
  <2> QED BY <1>1, BandsOrdered
<1>3. \A cb : bandL(cb) = l[cb + 1] /\ bandS(cb) = t[cb + 1]
  BY DEF bandL, bandS
<1>4. ShortOf \in {6, 8}
  BY DEF ShortOf
<1> HIDE DEF l, t
<1>5. \A cb \in 0..13 : cb + 1 \in 1..14
  OBVIOUS
<1>6. \A a, b \in 0..13 : a < b => a + 1 < b + 1
  OBVIOUS
<1>7. \A cb \in 0..ShortOf : cb + 1 \in 1..(ShortOf + 1)
  BY <1>4
<1>8. \A cb \in 0..22 : cb + 1 \in 1..23
  OBVIOUS
<1>9. 0 + 1 = 1 /\ 13 + 1 = 14 /\ 3 + 1 = 4
  OBVIOUS
<1>10. \A a, b \in 0..13 : a < b => bandS(a) < bandS(b)
  BY <1>2, <1>3, <1>5, <1>6
<1>11. \A cb \in 0..ShortOf : bandL(cb) <= 3 * bandS(3)
  BY <1>1, <1>3, <1>7, <1>9
<1>12. /\ \A cb \in 0..22 : bandL(cb) \in 0..MAX_NSAMP
       /\ \A cb \in 0..13 : bandS(cb) \in Nat
  BY <1>1, <1>3, <1>5, <1>8
<1> QED BY <1>1, <1>3, <1>9, <1>10, <1>11, <1>12

\* A coefficient of a short band of three windows keeps its band when it is sorted by window.
LEMMA ReorderedWithin ==
  ASSUME NEW first \in Int, NEW width \in Nat, NEW i \in first..(first + 3 * width - 1)
  PROVE  LET place == i - first
         IN first + 3 * (place % width) + place \div width \in first..(first + 3 * width - 1)
<1> DEFINE p == i - first
<1>1. p \in Int /\ width > 0 /\ 0 <= p /\ p < 3 * width
  OBVIOUS
<1> HIDE DEF p
<1>2. p % width \in 0..(width - 1)
  BY <1>1
<1>3. p \div width \in 0..2
  BY <1>1
<1> QED BY <1>2, <1>3 DEF p

LEMMA LastBandIs ==
  ASSUME NEW low \in Int, NEW upto \in Int, low < upto, NEW S \in SUBSET (low..(upto - 1))
  PROVE  /\ LastBand(S, upto) \in low..(upto - 1)
         /\ LastBand(S, upto) \in S \/ LastBand(S, upto) = upto - 1
<1>1. S \cup {upto - 1} \subseteq Int /\ S \cup {upto - 1} # {} /\ \A y \in S \cup {upto - 1} : low <= y
  OBVIOUS
<1>2. Min(S \cup {upto - 1}) \in S \cup {upto - 1}
  BY <1>1, SmallestIs
<1>3. upto - 1 \in low..(upto - 1)
  OBVIOUS
<1>4. LastBand(S, upto) \in S \cup {upto - 1}
  BY <1>2 DEF LastBand
<1> QED BY <1>3, <1>4

\* DequantChannel() leaves nothing at or above the bound it passes on, which is within the granule.
LEMMA DequantKeeps ==
  ASSUME band \in DOMAIN sfBandTable, NEW sis \in SpectrumSides,
         NEW bound \in 0..MAX_NSAMP, NEW x, x \subseteq 0..(bound - 1), NEW faint
  PROVE  LET q == DequantChannel(sis, x, bound, faint)
         IN q.bound \in 0..MAX_NSAMP /\ q.x \subseteq 0..(q.bound - 1)
<1> DEFINE
      loud == x \ faint
      cbEndL == IF sis.blockType # 2 THEN 22 ELSE IF ~sis.mixedBlock THEN 0 ELSE IF mpeg1 THEN 8 ELSE 6
      lastL == LastBand({cb \in 0..(cbEndL - 1) : bandL(cb + 1) >= bound}, cbEndL)
      start == bandL(lastL + 1)
      cbStartS == IF sis.mixedBlock THEN 3 ELSE 0
      First(cb) == start + 3 * (bandS(cb) - bandS(cbStartS))
      lastS == LastBand({cb \in cbStartS..12 : First(cb + 1) >= bound}, 13)
      bandOf(i) == CHOOSE cb \in 0..12 : First(cb) <= i /\ i < First(cb + 1)
      width(i) == bandS(bandOf(i) + 1) - bandS(bandOf(i))
      place(i) == i - First(bandOf(i))
      shorts == {i \in loud : i >= start}
      sorted == {First(bandOf(i)) + 3 * (place(i) % width(i)) + place(i) \div width(i) : i \in shorts}
      q == DequantChannel(sis, x, bound, faint)
<1>1. sis.blockType # 2 => q.x = loud /\ q.bound = bound
  BY DEF DequantChannel
<1>2. sis.blockType = 2 => q.x = (loud \ shorts) \cup sorted /\ q.bound = First(lastS + 1)
  BY DEF DequantChannel
<1>3. CASE sis.blockType # 2
  BY <1>1, <1>3
<1>4. CASE sis.blockType = 2
  <2>1. MAX_NSAMP = 576 /\ bound \in Int /\ bound <= MAX_NSAMP
    BY DEF MAX_NSAMP
  <2>2. /\ cbStartS \in {0, 3} /\ start \in Nat /\ start <= 3 * bandS(cbStartS)
        /\ start = 3 * bandS(cbStartS) \/ bound <= start
    <3>1. CASE ~sis.mixedBlock
      <4>1. cbEndL = 0 /\ cbStartS = 0
        BY <1>4, <3>1
      <4>2. {cb \in 0..(0 - 1) : bandL(cb + 1) >= bound} \cup {0 - 1} = {-1}
        OBVIOUS
      <4>3. Min({-1}) = -1
        BY DEF Min
      <4>4. lastL = -1
        BY <4>1, <4>2, <4>3 DEF LastBand
      <4>5. start = 0
        BY <4>4, BandFacts
      <4> QED BY <4>1, <4>5, BandFacts
    <3>2. CASE sis.mixedBlock
      <4>1. cbEndL = ShortOf /\ cbStartS = 3 /\ ShortOf \in {6, 8}
        BY <1>4, <3>2 DEF ShortOf
      <4>2. {cb \in 0..(cbEndL - 1) : bandL(cb + 1) >= bound} \in SUBSET (0..(cbEndL - 1))
        OBVIOUS
      <4>3. /\ lastL \in 0..(ShortOf - 1)
            /\ bandL(lastL + 1) >= bound \/ lastL = ShortOf - 1
        <5> DEFINE S == {cb \in 0..(cbEndL - 1) : bandL(cb + 1) >= bound}
        <5>1. S \in SUBSET (0..(cbEndL - 1)) /\ cbEndL \in Int /\ 0 < cbEndL /\ 0 \in Int
          BY <4>1
        <5>2. \A cb \in S : bandL(cb + 1) >= bound
          OBVIOUS
        <5>3. lastL = LastBand(S, cbEndL)
          OBVIOUS
        <5> HIDE DEF S, lastL, cbEndL
        <5>4. lastL \in 0..(cbEndL - 1) /\ (lastL \in S \/ lastL = cbEndL - 1)
          BY <5>1, <5>3, LastBandIs
        <5> QED BY <4>1, <5>2, <5>4
      <4> HIDE DEF lastL, cbEndL
      <4>4. lastL + 1 \in 0..ShortOf /\ lastL + 1 \in 0..22 /\ (lastL = ShortOf - 1 => lastL + 1 = ShortOf)
        BY <4>1, <4>3
      <4>5. start \in 0..MAX_NSAMP /\ start <= 3 * bandS(3)
        BY <4>4, BandFacts
      <4>6. lastL = ShortOf - 1 => start = 3 * bandS(3)
        BY <4>4, BandFacts
      <4> QED BY <2>1, <4>1, <4>3, <4>5, <4>6
    <3> QED BY <3>1, <3>2
  <2> HIDE DEF start, cbStartS
  <2>3. /\ bandS(cbStartS) \in Nat
        /\ \A cb \in 0..13 : First(cb) \in Int
        /\ \A a, b \in 0..13 : a < b => First(a) < First(b)
        /\ First(cbStartS) = start
        /\ bound <= First(13) /\ First(13) <= 576
    <3>1. cbStartS \in 0..13
      BY <2>2
    <3>2. bandS(cbStartS) \in Nat /\ \A cb \in 0..13 : bandS(cb) \in Nat
      BY <3>1, BandFacts
    <3>3. \A a, b \in 0..13 : a < b => bandS(a) < bandS(b)
      BY BandFacts
    <3>4. 3 * bandS(13) = 576 /\ bandS(13) \in Nat
      BY <2>1, <3>2, BandFacts
    <3>5. cbStartS < 13 /\ 13 \in 0..13
      BY <2>2
    <3>6. bandS(cbStartS) < bandS(13)
      BY <3>1, <3>3, <3>5
    <3>7. \A cb \in 0..13 : First(cb) \in Int
      BY <2>2, <3>2
    <3>8. \A a, b \in 0..13 : a < b => First(a) < First(b)
      BY <2>2, <3>2, <3>3
    <3>9. First(cbStartS) = start
      BY <2>2, <3>2
    <3>10. First(13) <= 576 /\ bound <= First(13)
      BY <2>1, <2>2, <3>2, <3>4, <3>6
    <3> QED BY <3>2, <3>7, <3>8, <3>9, <3>10
  <2>4. \A b \in 0..12 : First(b + 1) = First(b) + 3 * (bandS(b + 1) - bandS(b))
    <3>1. \A b \in 0..12 : bandS(b) \in Int /\ bandS(b + 1) \in Int
      <4>1. \A b \in 0..12 : b \in 0..13 /\ b + 1 \in 0..13
        OBVIOUS
      <4> QED BY <4>1, BandFacts
    <3> QED BY <2>2, <2>3, <3>1
  <2> HIDE DEF First
  <2>5. lastS \in cbStartS..12 /\ bound <= First(lastS + 1)
    <3> DEFINE S == {cb \in cbStartS..12 : First(cb + 1) >= bound}
    <3>1. S \in SUBSET (cbStartS..(13 - 1)) /\ cbStartS \in Int /\ 13 \in Int /\ cbStartS < 13 /\ 13 - 1 = 12
      BY <2>2
    <3>2. \A cb \in S : First(cb + 1) >= bound /\ cb + 1 \in 0..13
      BY <2>2
    <3>3. lastS = LastBand(S, 13)
      OBVIOUS
    <3> HIDE DEF S, lastS
    <3>4. lastS \in cbStartS..(13 - 1) /\ (lastS \in S \/ lastS = 13 - 1)
      BY <3>1, <3>3, LastBandIs
    <3>5. CASE lastS \in S
      BY <2>1, <2>3, <3>1, <3>2, <3>4, <3>5
    <3>6. CASE lastS = 12
      <4>1. lastS + 1 = 13
        BY <3>6
      <4> QED BY <2>3, <3>4, <4>1, <3>1
    <3> QED BY <3>1, <3>4, <3>5, <3>6
  <2> HIDE DEF lastS
  <2>6. lastS + 1 \in 0..13 /\ cbStartS < lastS + 1 /\ cbStartS \in 0..13
    BY <2>2, <2>5
  <2>7. First(lastS + 1) \in Int /\ start < First(lastS + 1) /\ First(lastS + 1) <= First(13)
    <3>1. lastS + 1 = 13 \/ lastS + 1 < 13
      BY <2>6
    <3> QED BY <2>3, <2>6, <3>1
  <2>8. \A i \in loud : i \in 0..(bound - 1)
    OBVIOUS
  <2>9. ASSUME NEW i \in shorts
        PROVE  First(bandOf(i)) + 3 * (place(i) % width(i)) + place(i) \div width(i)
                 \in 0..(First(lastS + 1) - 1)
    <3>1. i \in Int /\ start <= i /\ i < bound
      BY <2>8
    <3>2. \E cb \in 0..12 : First(cb) <= i /\ i < First(cb + 1)
      <4> DEFINE T == {cb \in 0..12 : i < First(cb + 1)}
      <4>1. 12 \in T
        <5>1. 12 + 1 = 13 /\ 12 \in 0..12
          OBVIOUS
        <5>2. i < First(12 + 1)
          BY <2>1, <2>3, <3>1, <5>1
        <5> QED BY <5>1, <5>2
      <4>2. \A cb \in T : cb \in 0..12 /\ i < First(cb + 1)
        OBVIOUS
      <4>3. \A cb \in 0..12 : i < First(cb + 1) => cb \in T
        OBVIOUS
      <4> HIDE DEF T
      <4>4. T \subseteq Int /\ T # {} /\ \A y \in T : 0 <= y
        BY <4>1, <4>2
      <4>5. PICK m \in T : \A y \in T : m <= y
        <5>1. 0 \in Int
          OBVIOUS
        <5> QED BY <4>4, <5>1, SmallestIs
      <4>6. First(m) <= i
        <5>1. CASE m = 0
          <6>1. 0 = cbStartS \/ 0 < cbStartS
            BY <2>2
          <6>2. First(0) <= start
            BY <2>3, <2>6, <6>1
          <6> QED BY <2>2, <2>3, <3>1, <5>1, <6>2
        <5>2. CASE m # 0
          <6>1. m \in 0..12 /\ m - 1 \in 0..12 /\ (m - 1) + 1 = m /\ m \in 0..13 /\ ~(m <= m - 1)
            BY <4>2, <5>2
          <6>2. ~(i < First((m - 1) + 1))
            BY <4>3, <4>5, <6>1
          <6> QED BY <2>3, <3>1, <6>1, <6>2
        <5> QED BY <5>1, <5>2
      <4> QED BY <4>2, <4>6
    <3>3. bandOf(i) \in 0..12 /\ First(bandOf(i)) <= i /\ i < First(bandOf(i) + 1)
      BY <3>2
    <3> HIDE DEF bandOf
    <3>4. PICK b : b = bandOf(i)
      OBVIOUS
    <3>5. /\ b \in 0..12 /\ b \in 0..13 /\ b + 1 \in 0..13 /\ First(b) <= i /\ i < First(b + 1)
          /\ First(b) \in Int /\ First(b + 1) \in Int
      BY <2>3, <3>3, <3>4
    <3>6. cbStartS <= b
      <4>1. ~(b + 1 < cbStartS) /\ b + 1 # cbStartS
        BY <2>2, <2>3, <2>6, <3>1, <3>5
      <4> QED BY <2>2, <3>5, <4>1
    <3>7. start <= First(b)
      <4>1. cbStartS = b \/ cbStartS < b
        BY <2>2, <3>5, <3>6
      <4> QED BY <2>2, <2>3, <2>6, <3>5, <4>1
    <3>8. First(b + 1) <= First(lastS + 1)
      <4>1. ~(lastS + 1 < b) /\ lastS + 1 # b
        BY <2>1, <2>3, <2>5, <2>6, <2>7, <3>1, <3>5
      <4>2. b + 1 = lastS + 1 \/ b + 1 < lastS + 1
        BY <2>6, <3>5, <4>1
      <4> QED BY <2>3, <2>6, <2>7, <3>5, <4>2
    <3>9. /\ width(i) = bandS(b + 1) - bandS(b) /\ width(i) \in Nat
          /\ First(b + 1) = First(b) + 3 * width(i)
      <4>1. bandS(b) \in Nat /\ bandS(b + 1) \in Nat /\ bandS(b) < bandS(b + 1)
        <5>1. b < b + 1
          BY <3>5
        <5> QED BY <3>5, <5>1, BandFacts
      <4>2. width(i) = bandS(b + 1) - bandS(b)
        BY <3>4
      <4>3. First(b + 1) = First(b) + 3 * (bandS(b + 1) - bandS(b))
        BY <2>4, <3>5
      <4> QED BY <4>1, <4>2, <4>3
    <3> HIDE DEF width
    <3>10. i \in First(b)..(First(b) + 3 * width(i) - 1)
      BY <3>1, <3>5, <3>9
    <3>11. First(b) + 3 * ((i - First(b)) % width(i)) + (i - First(b)) \div width(i)
             \in First(b)..(First(b) + 3 * width(i) - 1)
      BY <3>5, <3>9, <3>10, ReorderedWithin
    <3>12. First(b)..(First(b) + 3 * width(i) - 1) \subseteq 0..(First(lastS + 1) - 1)
      BY <2>2, <2>7, <3>5, <3>7, <3>8, <3>9
    <3>13. place(i) = i - First(b)
      BY <3>4
    <3> QED BY <3>4, <3>11, <3>12, <3>13
  <2>10. q.bound = First(lastS + 1) /\ First(lastS + 1) \in 0..576 /\ bound <= First(lastS + 1)
    <3>1. q.bound = First(lastS + 1)
      BY <1>2, <1>4
    <3>2. First(13) \in Int
      <4>1. 13 \in 0..13
        OBVIOUS
      <4> QED BY <2>3, <4>1
    <3>3. 0 <= First(lastS + 1) /\ First(lastS + 1) <= 576
      BY <2>2, <2>3, <2>7, <3>2
    <3>4. First(lastS + 1) \in 0..576
      BY <2>7, <3>3
    <3> QED BY <2>5, <3>1, <3>4
  <2>11. \A i \in loud : i \in 0..(First(lastS + 1) - 1)
    BY <2>1, <2>8, <2>10
  <2>12. \A j \in sorted : j \in 0..(First(lastS + 1) - 1)
    BY <2>9
  <2>13. q.x \subseteq 0..(First(lastS + 1) - 1)
    BY <1>2, <1>4, <2>11, <2>12
  <2> QED BY <2>1, <2>10, <2>13
<1> QED BY <1>3, <1>4

LEMMA StereoIsFunction ==
  \A cbi, modeExt : StereoProcess(cbi, modeExt) = [ch \in Channels |-> StereoProcess(cbi, modeExt)[ch]]
<1>1. \A x, copied :
        IntensityProc([ch \in Channels |-> x[ch]], copied) =
          [ch \in Channels |-> IntensityProc([c \in Channels |-> x[c]], copied)[ch]]
  BY DEF IntensityProc
<1>2. \A x, n : MidSideProc(x, n) = [ch \in Channels |-> MidSideProc(x, n)[ch]]
  BY DEF MidSideProc, Both
<1> SUFFICES ASSUME NEW cbi, NEW modeExt
             PROVE  StereoProcess(cbi, modeExt) = [ch \in Channels |-> StereoProcess(cbi, modeExt)[ch]]
  OBVIOUS
<1> PICK mixed, copied :
      /\ mixed = [ch \in Channels |-> mixed[ch]]
      /\ StereoProcess(cbi, modeExt) = IntensityProc(mixed, copied)
  BY <1>2 DEF StereoProcess, Both
<1> QED BY <1>1

\* Joint stereo only mixes the channels: a coefficient can be other than zero only where one was.
LEMMA StereoKeeps ==
  ASSUME NEW cbi, NEW modeExt,
         \A ch \in Channels : cbi[ch].bound \in 0..MAX_NSAMP /\ cbi[ch].x \subseteq 0..(cbi[ch].bound - 1)
  PROVE  LET x == StereoProcess(cbi, modeExt)
             bounds == StereoBounds(cbi, modeExt)
         IN /\ bounds \in [Channels -> 0..MAX_NSAMP]
            /\ x \in [Channels -> SUBSET Int]
            /\ \A ch \in Channels : \A i \in x[ch] : i < bounds[ch]
<1> DEFINE x == StereoProcess(cbi, modeExt)
           bounds == StereoBounds(cbi, modeExt)
           either == cbi[0].x \cup cbi[1].x
           longer == Max({cbi[0].bound, cbi[1].bound})
<1>1. Channels = {0, 1}
  BY DEF Channels
<1>2. /\ longer \in 0..MAX_NSAMP
      /\ \A i \in either : i \in Int /\ i < longer
  <2>1. cbi[0].bound \in 0..MAX_NSAMP /\ cbi[1].bound \in 0..MAX_NSAMP /\ MAX_NSAMP \in Nat
    <3>1. cbi[0].bound \in 0..MAX_NSAMP /\ cbi[1].bound \in 0..MAX_NSAMP
      BY <1>1
    <3>2. MAX_NSAMP \in Nat
      BY DEF MAX_NSAMP
    <3> QED BY <3>1, <3>2
  <2>2. longer = IF cbi[0].bound >= cbi[1].bound THEN cbi[0].bound ELSE cbi[1].bound
    BY <2>1, OfTwo
  <2>3. \A i \in cbi[0].x : i \in 0..(cbi[0].bound - 1)
    BY <1>1
  <2>4. \A i \in cbi[1].x : i \in 0..(cbi[1].bound - 1)
    BY <1>1
  <2> HIDE DEF longer
  <2> QED BY <2>1, <2>2, <2>3, <2>4
<1>3. DOMAIN x = Channels
  BY <1>1 DEF StereoProcess, IntensityProc, MidSideProc, Both
<1>4. x[0] \subseteq either /\ x[1] \subseteq either
  BY <1>1 DEF StereoProcess, IntensityProc, MidSideProc, Both, Below, From
<1>5. CASE modeExt = "none"
  <2>1. x[0] \subseteq cbi[0].x /\ x[1] \subseteq cbi[1].x
    BY <1>1, <1>5 DEF StereoProcess, IntensityProc, MidSideProc, Both, Below, From
  <2>2. bounds = [ch \in Channels |-> cbi[ch].bound]
    BY <1>5 DEF StereoBounds, Both
  <2>3. \A ch \in Channels : bounds[ch] = cbi[ch].bound /\ x[ch] \subseteq cbi[ch].x
    BY <1>1, <2>1, <2>2
  <2>4. \A ch \in Channels : bounds[ch] \in 0..MAX_NSAMP /\ x[ch] \subseteq 0..(bounds[ch] - 1)
    BY <2>3
  <2>5. bounds \in [Channels -> 0..MAX_NSAMP]
    BY <2>2, <2>4
  <2>6. x[0] \in SUBSET Int /\ x[1] \in SUBSET Int
    BY <1>2, <1>4
  <2>7. x \in [Channels -> SUBSET Int]
    BY <1>1, <1>3, <2>6, StereoIsFunction
  <2>8. \A ch \in Channels : \A i \in x[ch] : i < bounds[ch]
    <3> HIDE DEF x, bounds
    <3>1. MAX_NSAMP \in Int
      BY DEF MAX_NSAMP
    <3> QED BY <2>4, <3>1
  <2> QED BY <2>5, <2>7, <2>8
<1>6. CASE modeExt # "none"
  <2>1. bounds = [ch \in Channels |-> longer]
    BY <1>6 DEF StereoBounds, Both
  <2>2. \A ch \in Channels : bounds[ch] = longer
    BY <2>1
  <2>3. bounds \in [Channels -> 0..MAX_NSAMP]
    BY <1>2, <2>1
  <2>6. x[0] \in SUBSET Int /\ x[1] \in SUBSET Int
    BY <1>2, <1>4
  <2>7. x \in [Channels -> SUBSET Int]
    BY <1>1, <1>3, <2>6, StereoIsFunction
  <2>8. \A ch \in Channels : \A i \in x[ch] : i < bounds[ch]
    BY <1>1, <1>2, <1>4, <2>2
  <2> QED BY <2>3, <2>7, <2>8
<1> QED BY <1>5, <1>6

----------------------------------------------------------------------------
(* From one granule to the next.                                           *)

\* A block whose second half is still to be added has the window that the transform of the next
\* granule takes it for, and is counted.
OverlapDue(ch, b) ==
  overlap[ch][b] # NoOverlap => b < numPrevIMDCT[ch] /\ overlap[ch][b] = prevWindow(ch, b)
SpectrumInv ==
  /\ band \in Bands
  /\ next \in 0..2
  /\ sides \in [Channels -> SpectrumSides]
  /\ nonZeroBound \in [Channels -> 0..MAX_NSAMP]
  /\ spectrum \in [Channels -> SUBSET Int]
  /\ numPrevIMDCT \in [Channels -> Nat]
  /\ DOMAIN overlap = Channels /\ DOMAIN prevType = Channels /\ DOMAIN prevWinSwitch = Channels
  /\ \A ch \in Channels, b \in 0..(NBANDS - 1) : OverlapDue(ch, b)
  /\ SpectrumKept

LEMMA SpectrumStart == SpectrumInit => SpectrumInv
<1> HAVE SpectrumInit
<1>1. sides \in [Channels -> SpectrumSides]
  BY DEF SpectrumInit, SpectrumSides
<1>2. 0 \in 0..MAX_NSAMP /\ NBANDS = 32
  BY DEF MAX_NSAMP, NBANDS
<1>3. \A ch \in Channels, b \in 0..(NBANDS - 1) : OverlapDue(ch, b)
  BY DEF SpectrumInit, OverlapDue
<1>4. SpectrumKept
  BY <1>2, <1>3 DEF SpectrumInit, SpectrumKept, BoundCovers, OverlapAdded, OverlapDue
<1> QED BY <1>1, <1>2, <1>3, <1>4 DEF SpectrumInit, SpectrumInv

\* A granule from the Huffman decoder: below its bounds.
LEMMA DequantizeKeeps == ASSUME SpectrumInv, Dequantize PROVE SpectrumInv'
<1>1. PICK sis, huffman, faint, cbi, modeExt :
        /\ sis \in BlockTypes /\ huffman \in Spectra
        /\ cbi = [ch \in Channels |-> DequantChannel(sis[ch], huffman[ch].x, huffman[ch].bound, faint)]
        /\ spectrum' = StereoProcess(cbi, modeExt)
        /\ nonZeroBound' = StereoBounds(cbi, modeExt)
        /\ sides' = sis
  <2>1. PICK sis \in BlockTypes, huffman \in Spectra, isFaint \in BOOLEAN :
          LET faint == IF isFaint THEN {Highest(huffman[1].x, 0)} ELSE {}
          IN \E cbi \in {Both(LAMBDA ch : DequantChannel(sis[ch], huffman[ch].x, huffman[ch].bound, faint))},
                modeExt \in {"none", "midSide", "intensity", "both"} :
               /\ spectrum' = StereoProcess(cbi, modeExt)
               /\ nonZeroBound' = StereoBounds(cbi, modeExt)
               /\ sides' = sis
    BY DEF Dequantize
  <2> QED BY <2>1 DEF Both
<1>2. sis \in [Channels -> SpectrumSides]
  BY <1>1 DEF BlockTypes
<1>3. \A ch \in Channels : cbi[ch].bound \in 0..MAX_NSAMP /\ cbi[ch].x \subseteq 0..(cbi[ch].bound - 1)
  <2> SUFFICES ASSUME NEW ch \in Channels
               PROVE  cbi[ch].bound \in 0..MAX_NSAMP /\ cbi[ch].x \subseteq 0..(cbi[ch].bound - 1)
    OBVIOUS
  <2>1. cbi[ch] = DequantChannel(sis[ch], huffman[ch].x, huffman[ch].bound, faint)
    BY <1>1
  <2>2. /\ band \in DOMAIN sfBandTable /\ sis[ch] \in SpectrumSides
        /\ huffman[ch].bound \in 0..MAX_NSAMP /\ huffman[ch].x \subseteq 0..(huffman[ch].bound - 1)
    BY <1>1, <1>2, SpectraAssumption DEF SpectrumInv
  <2> QED BY <2>1, <2>2, DequantKeeps
<1>4. /\ nonZeroBound' \in [Channels -> 0..MAX_NSAMP]
      /\ spectrum' \in [Channels -> SUBSET Int]
      /\ \A ch \in Channels : \A i \in spectrum'[ch] : i < nonZeroBound'[ch]
  BY <1>1, <1>3, StereoKeeps
<1>5. /\ next' = 0
      /\ UNCHANGED <<band, overlap, numPrevIMDCT, prevType, prevWinSwitch, blocks, overlapped>>
  BY DEF Dequantize
<1>6. \A ch \in Channels, b \in 0..(NBANDS - 1) : OverlapDue(ch, b)'
  BY <1>5 DEF SpectrumInv, OverlapDue, prevWindow
<1>7. \A ch \in Channels : nonZeroBound'[ch] <= MAX_NSAMP
  <2>1. MAX_NSAMP \in Int
    BY DEF MAX_NSAMP
  <2>2. \A ch \in Channels : nonZeroBound'[ch] \in 0..MAX_NSAMP
    BY <1>4
  <2> QED BY <2>1, <2>2
<1>8. SpectrumKept'
  BY <1>4, <1>5, <1>7 DEF SpectrumInv, SpectrumKept, BoundCovers, OverlapAdded
<1>9. next' \in 0..2 /\ sides' \in [Channels -> SpectrumSides]
  BY <1>1, <1>2, <1>5
<1>10. /\ band' \in Bands /\ numPrevIMDCT' \in [Channels -> Nat]
       /\ DOMAIN overlap' = Channels /\ DOMAIN prevType' = Channels /\ DOMAIN prevWinSwitch' = Channels
  BY <1>5 DEF SpectrumInv
<1> QED BY <1>4, <1>6, <1>8, <1>9, <1>10 DEF SpectrumInv

\* The blocks IMDCT() makes hold the bound that the alias reduction passes on, which is within
\* the granule; behind the long blocks are only short ones.
LEMMA TransformBounds ==
  ASSUME band \in DOMAIN sfBandTable, NEW sis \in SpectrumSides, NEW bound \in 0..MAX_NSAMP
  PROVE  LET long == nBlocksLong(sis, bound)
             fly == nBfly(sis, bound)
             after == Max({bound, 18 * fly + 8})
             total == (after + 17) \div 18
         IN /\ fly \in Nat /\ after \in 0..MAX_NSAMP
            /\ bound <= after /\ 18 * fly + 8 <= after
            /\ total \in 0..NBANDS
            /\ total > long => sis.blockType = 2
<1> DEFINE long == nBlocksLong(sis, bound)
           fly == nBfly(sis, bound)
           after == Max({bound, 18 * fly + 8})
           total == (after + 17) \div 18
<1>1. MAX_NSAMP = 576 /\ NBANDS = 32 /\ bound \in Int /\ 0 <= bound /\ bound <= 576
  BY DEF MAX_NSAMP, NBANDS
<1>2. blockCutoff \in {2, 4}
  BY BandFacts DEF blockCutoff, ShortOf
<1>3. sis.blockType # 2 => long = IF (bound + 7) \div 18 + 1 <= 32 THEN (bound + 7) \div 18 + 1 ELSE 32
  <2>1. (bound + 7) \div 18 + 1 \in Int /\ 32 \in Int
    BY <1>1
  <2>2. Min({(bound + 7) \div 18 + 1, 32}) =
          IF (bound + 7) \div 18 + 1 <= 32 THEN (bound + 7) \div 18 + 1 ELSE 32
    BY <2>1, OfTwo
  <2> QED BY <2>2 DEF nBlocksLong
<1>4. sis.blockType = 2 => long \in {0, 2, 4}
  BY <1>2 DEF nBlocksLong
<1>5. long \in 0..32
  BY <1>1, <1>3, <1>4
<1>6. fly = IF long = 0 THEN 0 ELSE long - 1
  BY DEF nBfly
<1> HIDE DEF long, fly
<1>7. fly \in 0..31
  BY <1>5, <1>6
<1>8. after = IF bound >= 18 * fly + 8 THEN bound ELSE 18 * fly + 8
  BY <1>1, <1>7, OfTwo
<1> HIDE DEF after
<1>9. after \in 0..576 /\ bound <= after /\ 18 * fly + 8 <= after
  BY <1>1, <1>7, <1>8
<1>10. total \in 0..32
  BY <1>9
<1>11. ASSUME sis.blockType # 2 PROVE total <= long
  BY <1>1, <1>3, <1>5, <1>6, <1>8, <1>11
<1>12. total > long => sis.blockType = 2
  BY <1>5, <1>10, <1>11
<1> QED BY <1>1, <1>7, <1>9, <1>10, <1>12 DEF long, fly, after

\* A butterfly reaches 8 coefficients beyond its border.
LEMMA AliasBelow ==
  ASSUME NEW n \in Nat, NEW bound \in Int, NEW x, x \subseteq Int, \A i \in x : i < bound,
         NEW after \in Int, bound <= after, 18 * n + 8 <= after
  PROVE  AntiAlias(x, n) \subseteq Int /\ \A i \in AntiAlias(x, n) : i < after
<1> SUFFICES ASSUME NEW i \in AntiAlias(x, n) PROVE i \in Int /\ i < after
  OBVIOUS
<1>1. CASE i \in x
  BY <1>1
<1>2. CASE i \notin x
  <2>1. PICK t \in x \X (1..n) :
          18 * t[2] - 8 <= t[1] /\ t[1] <= 18 * t[2] + 7 /\ i = 36 * t[2] - 1 - t[1]
    BY <1>2 DEF AntiAlias
  <2>2. t[1] \in Int /\ t[2] \in 1..n
    BY <2>1
  <2> QED BY <2>1, <2>2
<1> QED BY <1>1, <1>2

\* Each block gets the overlap of the one before under the window it was made with, once.
LEMMA IMDCTKeeps == ASSUME SpectrumInv, NEW ch \in Channels, IMDCT(ch) PROVE SpectrumInv'
<1> DEFINE sis == sides[ch]
           bound == nonZeroBound[ch]
           fly == nBfly(sis, bound)
           after == Max({bound, 18 * fly + 8})
           total == (after + 17) \div 18
           x == AntiAlias(spectrum[ch], fly)
           live == {b \in 0..(NBANDS - 1) : overlap[ch][b] # NoOverlap}
           drained == total..(numPrevIMDCT[ch] - 1)
<1>1. /\ spectrum' = [spectrum EXCEPT ![ch] = x]
      /\ nonZeroBound' = [nonZeroBound EXCEPT ![ch] = after]
      /\ blocks' = [long |-> nBlocksLong(sis, bound), total |-> total, short |-> sis.blockType = 2]
      /\ HybridTransform(ch, x, sis, total)
      /\ prevType' = [prevType EXCEPT ![ch] = sis.blockType]
      /\ prevWinSwitch' = [prevWinSwitch EXCEPT ![ch] = switchPoint(sis)]
      /\ next' = ch + 1 /\ UNCHANGED <<band, sides>>
  BY DEF IMDCT
<1>2. band \in DOMAIN sfBandTable /\ sis \in SpectrumSides /\ bound \in 0..MAX_NSAMP
  BY SpectraAssumption DEF SpectrumInv
<1>3. /\ fly \in Nat /\ after \in 0..MAX_NSAMP
      /\ bound <= after /\ 18 * fly + 8 <= after
      /\ total \in 0..NBANDS
      /\ total > nBlocksLong(sis, bound) => sis.blockType = 2
  BY <1>2, TransformBounds
<1>4. MAX_NSAMP = 576 /\ NBANDS = 32
  BY DEF MAX_NSAMP, NBANDS
<1>5. x \subseteq Int /\ \A i \in x : i < after
  <2>1. spectrum[ch] \subseteq Int /\ \A i \in spectrum[ch] : i < bound
    BY DEF SpectrumInv, SpectrumKept, BoundCovers
  <2>2. bound \in Int /\ after \in Int
    BY <1>2, <1>3, <1>4
  <2> HIDE DEF bound, after, fly
  <2> QED BY <1>3, <2>1, <2>2, AliasBelow
<1> HIDE DEF fly, after, bound, x
<1>6. /\ nonZeroBound' \in [Channels -> 0..MAX_NSAMP]
      /\ spectrum' \in [Channels -> SUBSET Int]
  BY <1>1, <1>3, <1>5 DEF SpectrumInv
<1>7. BoundCovers'
  <2>1. ASSUME NEW c \in Channels
        PROVE  nonZeroBound'[c] <= MAX_NSAMP /\ \A i \in spectrum'[c] : i < nonZeroBound'[c]
    <3>1. CASE c = ch
      BY <1>1, <1>3, <1>4, <1>5, <3>1 DEF SpectrumInv
    <3>2. CASE c # ch
      BY <1>1, <3>2 DEF SpectrumInv, SpectrumKept, BoundCovers
    <3> QED BY <3>1, <3>2
  <2>2. blocks'.total = total /\ blocks'.long = nBlocksLong(sis, bound) /\ blocks'.short = (sis.blockType = 2)
    BY <1>1
  <2> HIDE DEF total
  <2>3. blocks'.total <= NBANDS
    BY <1>3, <1>4, <2>2
  <2>4. blocks'.total > blocks'.long => blocks'.short
    <3> HIDE DEF sis
    <3> QED BY <1>3, <2>2, Zenon
  <2> QED BY <2>1, <2>3, <2>4 DEF BoundCovers
<1> HIDE DEF total
<1>8. \A b \in live : b < numPrevIMDCT[ch] /\ overlap[ch][b] = prevWindow(ch, b) /\ (b < total \/ b \in drained)
  <2> SUFFICES ASSUME NEW b \in live
               PROVE b < numPrevIMDCT[ch] /\ overlap[ch][b] = prevWindow(ch, b) /\ (b < total \/ b \in drained)
    OBVIOUS
  <2>1. b < numPrevIMDCT[ch] /\ overlap[ch][b] = prevWindow(ch, b)
    BY DEF SpectrumInv, OverlapDue
  <2>2. b \in Int /\ numPrevIMDCT[ch] \in Nat /\ total \in Int
    BY <1>3, <1>4 DEF SpectrumInv
  <2> QED BY <2>1, <2>2
<1>9. \A pair \in overlapped' : pair[1] = pair[2]
  BY <1>1, <1>8 DEF HybridTransform
<1>10. /\ numPrevIMDCT' = [numPrevIMDCT EXCEPT ![ch] = Highest(live \cap drained, total)]
       /\ Highest(live \cap drained, total) \in Nat /\ total <= Highest(live \cap drained, total)
  <2> DEFINE S == (live \cap drained) \cup {total}
  <2>1. S \subseteq Int /\ S # {} /\ (\A y \in S : y <= NBANDS) /\ total \in S
    BY <1>3, <1>4
  <2> HIDE DEF S, live, drained
  <2>2. Max(S) \in S /\ \A y \in S : y <= Max(S)
    <3>1. NBANDS \in Int
      BY <1>4
    <3> QED BY <2>1, <3>1, LargestIs
  <2>3. Highest(live \cap drained, total) = Max(S)
    BY DEF Highest, S
  <2>4. numPrevIMDCT' = [numPrevIMDCT EXCEPT ![ch] = Highest(live \cap drained, total)]
    BY <1>1 DEF HybridTransform, live, drained
  <2>5. total \in Nat /\ Max(S) \in Int /\ total <= Max(S)
    <3>1. total \in Nat
      BY <1>3, <1>4
    <3>2. Max(S) \in Int
      BY <2>1, <2>2
    <3>3. total <= Max(S)
      BY <2>1, <2>2
    <3> QED BY <3>1, <3>2, <3>3
  <2>6. Max(S) \in Nat
    BY <2>5
  <2> QED BY <2>3, <2>4, <2>5, <2>6
<1>11. numPrevIMDCT' \in [Channels -> Nat] /\ numPrevIMDCT'[ch] \in Nat /\ total <= numPrevIMDCT'[ch]
  BY <1>10 DEF SpectrumInv
<1>12. /\ DOMAIN overlap' = Channels /\ DOMAIN prevType' = Channels /\ DOMAIN prevWinSwitch' = Channels
       /\ \A c \in Channels \ {ch} : /\ overlap'[c] = overlap[c] /\ numPrevIMDCT'[c] = numPrevIMDCT[c]
                                     /\ prevType'[c] = prevType[c] /\ prevWinSwitch'[c] = prevWinSwitch[c]
       /\ prevType'[ch] = sis.blockType /\ prevWinSwitch'[ch] = switchPoint(sis)
       /\ \A b \in 0..(NBANDS - 1) :
            overlap'[ch][b] # NoOverlap =>
              \/ b < total /\ overlap'[ch][b] = WindowOf(sis.blockType, switchPoint(sis), b)
              \/ ~(b < total) /\ b \notin drained /\ overlap'[ch][b] = overlap[ch][b]
  <2>1. DOMAIN overlap = Channels /\ DOMAIN prevType = Channels /\ DOMAIN prevWinSwitch = Channels
    BY DEF SpectrumInv
  <2>2. numPrevIMDCT \in [Channels -> Nat]
    BY DEF SpectrumInv
  <2> DEFINE
        New == [b \in 0..(NBANDS - 1) |->
                  IF b \in drained \/ (b < total /\ b \notin {i \div 18 : i \in x}) THEN NoOverlap
                  ELSE IF b < total THEN WindowOf(sis.blockType, switchPoint(sis), b)
                  ELSE overlap[ch][b]]
  <2>3. overlap' = [overlap EXCEPT ![ch] = New]
    BY <1>1 DEF HybridTransform
  <2>4. \A b \in 0..(NBANDS - 1) :
          New[b] # NoOverlap =>
            \/ b < total /\ New[b] = WindowOf(sis.blockType, switchPoint(sis), b)
            \/ ~(b < total) /\ b \notin drained /\ New[b] = overlap[ch][b]
    <3> HIDE DEF sis, drained
    <3> QED OBVIOUS
  <2> HIDE DEF sis, drained, New
  <2> QED BY <1>1, <1>10, <2>1, <2>2, <2>3, <2>4
<1>13. ASSUME NEW c \in Channels, NEW b \in 0..(NBANDS - 1), overlap'[c][b] # NoOverlap
       PROVE  b < numPrevIMDCT'[c] /\ overlap'[c][b] = prevWindow(c, b)'
  <2>1. CASE c # ch
    BY <1>12, <1>13, <2>1 DEF SpectrumInv, OverlapDue, prevWindow
  <2>2. CASE c = ch
    <3>1. CASE b < total /\ overlap'[ch][b] = WindowOf(sis.blockType, switchPoint(sis), b)
      <4>1. b < numPrevIMDCT'[ch]
        BY <1>3, <1>4, <1>11, <3>1
      <4> QED BY <1>12, <2>2, <3>1, <4>1 DEF prevWindow
    <3>2. CASE ~(b < total) /\ b \notin drained /\ overlap'[ch][b] = overlap[ch][b]
      <4>1. b \in live
        BY <1>13, <2>2, <3>2
      <4> QED BY <1>8, <3>2, <4>1
    <3> QED BY <1>12, <1>13, <2>2, <3>1, <3>2
  <2> QED BY <2>1, <2>2
<1>14. SpectrumKept'
  BY <1>7, <1>9, <1>13 DEF SpectrumKept, OverlapAdded
<1>15. next' \in 0..2
  BY <1>1 DEF Channels
<1>16. band' \in Bands /\ sides' \in [Channels -> SpectrumSides]
  BY <1>1 DEF SpectrumInv
<1>17. \A c \in Channels, b \in 0..(NBANDS - 1) : OverlapDue(c, b)'
  BY <1>13 DEF OverlapDue
<1> QED BY <1>6, <1>11, <1>12, <1>14, <1>15, <1>16, <1>17 DEF SpectrumInv

\* Of every granule both channels pass on each coefficient that can be other than zero, and the
\* second half of each block, for any spectra below their bounds and any run of block types:
\* DequantChannel(), MidSideProc(), IntensityProcMPEG1() and IMDCT() bound them alike, and a block
\* that is still to be added has the window of the granule that made it (HybridTransform()).
THEOREM SpectrumKeptAlways == SpectrumSpec => []SpectrumKept
<1>1. SpectrumInv /\ [SpectrumNext]_spectrumVars => SpectrumInv'
  <2> SUFFICES ASSUME SpectrumInv, [SpectrumNext]_spectrumVars PROVE SpectrumInv'
    OBVIOUS
  <2>1. CASE Dequantize
    BY <2>1, DequantizeKeeps
  <2>2. ASSUME NEW ch \in Channels, IMDCT(ch) PROVE SpectrumInv'
    BY <2>2, IMDCTKeeps
  <2>3. CASE UNCHANGED spectrumVars
    <3>1. \A ch \in Channels, b \in 0..(NBANDS - 1) : OverlapDue(ch, b)'
      BY <2>3 DEF spectrumVars, SpectrumInv, OverlapDue, prevWindow
    <3>2. SpectrumKept'
      BY <2>3 DEF spectrumVars, SpectrumInv, SpectrumKept, BoundCovers, OverlapAdded
    <3> QED BY <2>3, <3>1, <3>2 DEF spectrumVars, SpectrumInv
  <2> QED BY <2>1, <2>2, <2>3 DEF SpectrumNext
<1>2. SpectrumInv => SpectrumKept
  BY DEF SpectrumInv
<1> QED BY <1>1, <1>2, SpectrumStart, PTL DEF SpectrumSpec
----------------------------------------------------------------------------
(* The reader of bits.                                                     *)

\* A reader of a buffer of size bytes that stands behind the first at bits: the cache holds the bits
\* that follow, down to a whole byte, and past the end of the buffer nothing.
Standing(p, c, b, m, at, size) ==
  /\ p \in Nat /\ m \in Nat /\ p + m = size
  /\ b \in Int /\ b <= 32 /\ 8 * p = at + b
  /\ b < 0 => m = 0
  /\ \A k \in 1..32 : c[k] = IF k <= b THEN at + k ELSE NoBit
Reads(r, at, size) == Standing(r.bytePtr, r.iCache, r.cachedBits, r.nBytes, at, size)

\* A sum by name, so that facts about it are not rewritten.
Makes(x, y, sum) == x + y = sum

\* The bits of the buffer that follow the first at.
Bits(at, n, size) == [k \in 1..n |-> IF at + k <= 8 * size THEN at + k ELSE NoBit]

LEMMA ShiftedLeft ==
  ASSUME NEW c, \A k \in 1..32 : c[k] \in Int, NEW n \in Nat
  PROVE  \A k \in 1..32 : ShiftLeft(c, n)[k] = IF n + k <= 32 THEN c[n + k] ELSE NoBit
<1> DEFINE s == SubSeq(c, n + 1, 32)
           t == [k \in 1..n |-> NoBit]
<1>1. \A i \in (n + 1)..32 : c[i] \in Int
  OBVIOUS
<1>2. /\ s \in Seq(Int) /\ Len(s) = IF n + 1 <= 32 THEN 32 - n ELSE 0
      /\ \A i \in 1..(32 - n) : s[i] = c[n + i]
  <2>1. n + 1 \in Int /\ 32 \in Int
    OBVIOUS
  <2>2. /\ s \in Seq(Int) /\ Len(s) = IF n + 1 <= 32 THEN 32 - (n + 1) + 1 ELSE 0
        /\ \A i \in 1..(32 - (n + 1) + 1) : s[i] = c[(n + 1) + i - 1]
    BY <1>1, <2>1, SubSeqProperties
  <2>3. 32 - (n + 1) + 1 = 32 - n /\ \A i \in Int : (n + 1) + i - 1 = n + i
    OBVIOUS
  <2> HIDE DEF s
  <2> QED BY <2>2, <2>3
<1>3. t \in Seq(Int) /\ Len(t) = n /\ \A i \in 1..n : t[i] = NoBit
  BY DEF NoBit
<1> HIDE DEF s, t
<1>4. /\ s \o t \in Seq(Int) /\ Len(s \o t) = Len(s) + Len(t)
      /\ \A i \in 1..(Len(s) + Len(t)) : (s \o t)[i] = IF i <= Len(s) THEN s[i] ELSE t[i - Len(s)]
  BY <1>2, <1>3, ConcatProperties
<1>5. ASSUME NEW k \in 1..32 PROVE (s \o t)[k] = IF n + k <= 32 THEN c[n + k] ELSE NoBit
  <2>1. k \in 1..(Len(s) + Len(t))
    BY <1>2, <1>3
  <2>2. CASE n + k <= 32
    BY <1>2, <1>4, <2>1, <2>2
  <2>3. CASE ~(n + k <= 32)
    <3>1. ~(k <= Len(s)) /\ k - Len(s) \in 1..n
      BY <1>2, <2>3
    <3> QED BY <1>3, <1>4, <2>1, <2>3, <3>1
  <2> QED BY <2>2, <2>3
<1> QED BY <1>5 DEF ShiftLeft, s, t

\* After a refill the cache holds the next four bytes, or those that are left.
LEMMA RefillStands ==
  ASSUME NEW p \in Nat, NEW m \in Nat, NEW b \in Int, NEW at \in Nat, 8 * p = at + b,
         NEW n \in 0..4, n <= m, n < 4 => m - n = 0,
         NEW c, \A k \in 1..32 : c[k] = IF k <= 8 * n THEN 8 * p + k ELSE NoBit
  PROVE  Standing(p + n, c, 8 * n, m - n, at + b, p + m) /\ 8 * n \in 0..32 /\ (8 * n < 32 => m - n = 0)
<1>1. /\ p + n \in Nat /\ m - n \in Nat /\ (p + n) + (m - n) = p + m /\ 8 * n \in Int /\ 8 * n <= 32
      /\ 8 * (p + n) = (at + b) + 8 * n /\ ~(8 * n < 0)
  OBVIOUS
<1>2. \A k \in 1..32 : c[k] = IF k <= 8 * n THEN (at + b) + k ELSE NoBit
  OBVIOUS
<1> QED BY <1>1, <1>2 DEF Standing

LEMMA RefillReads ==
  ASSUME NEW r, NEW at \in Nat, NEW size \in Nat, Reads(r, at, size)
  PROVE  LET filled == RefillBitstreamCache(r)
         IN /\ Reads(filled, at + r.cachedBits, size)
            /\ filled.cachedBits \in 0..32
            /\ filled.cachedBits < 32 => filled.nBytes = 0
<1> DEFINE n == IF r.nBytes >= 4 THEN 4 ELSE r.nBytes
           after == RefillBitstreamCache(r)
<1>1. /\ r.bytePtr \in Nat /\ r.nBytes \in Nat /\ r.bytePtr + r.nBytes = size
      /\ r.cachedBits \in Int /\ 8 * r.bytePtr = at + r.cachedBits
  BY DEF Reads, Standing
<1>2. n \in 0..4 /\ n <= r.nBytes /\ (n < 4 => r.nBytes - n = 0)
  BY <1>1
<1>3. /\ after.bytePtr = r.bytePtr + n /\ after.cachedBits = 8 * n /\ after.nBytes = r.nBytes - n
      /\ after.iCache = [k \in 1..32 |-> IF k <= 8 * n THEN 8 * r.bytePtr + k ELSE NoBit]
  BY DEF RefillBitstreamCache
<1> HIDE DEF n, after
<1> DEFINE p == r.bytePtr
           m == r.nBytes
           b == r.cachedBits
           c == after.iCache
<1>4. p \in Nat /\ m \in Nat /\ b \in Int /\ 8 * p = at + b
      /\ \A k \in 1..32 : c[k] = IF k <= 8 * n THEN 8 * p + k ELSE NoBit
  BY <1>1, <1>3
<1> HIDE DEF p, m, b, c
<1>5. n \in 0..4 /\ n <= m /\ (n < 4 => m - n = 0)
  BY <1>2 DEF m
<1>6. Standing(p + n, c, 8 * n, m - n, at + b, p + m) /\ 8 * n \in 0..32 /\ (8 * n < 32 => m - n = 0)
  BY <1>4, <1>5, RefillStands
<1> QED BY <1>1, <1>3, <1>6 DEF Reads, after, p, m, b, c

\* Bits that are taken out of the cache, or that it never held once the buffer is at its end.
LEMMA DiscardStands ==
  ASSUME NEW p, NEW c, NEW b, NEW m, NEW at \in Nat, NEW size \in Nat, Standing(p, c, b, m, at, size),
         NEW n \in Nat, n > b => m = 0
  PROVE  Standing(p, ShiftLeft(c, n), b - n, m, at + n, size)
<1>1. /\ p \in Nat /\ m \in Nat /\ p + m = size /\ b \in Int /\ b <= 32 /\ 8 * p = at + b
      /\ \A k \in 1..32 : c[k] = IF k <= b THEN at + k ELSE NoBit
  BY DEF Standing
<1>2. \A k \in 1..32 : c[k] \in Int
  BY <1>1 DEF NoBit
<1>3. \A k \in 1..32 : ShiftLeft(c, n)[k] = IF n + k <= 32 THEN c[n + k] ELSE NoBit
  BY <1>2, ShiftedLeft
<1>4. ASSUME NEW k \in 1..32
      PROVE  ShiftLeft(c, n)[k] = IF k <= b - n THEN (at + n) + k ELSE NoBit
  <2>1. CASE n + k <= 32
    <3>1. n + k \in 1..32 /\ ShiftLeft(c, n)[k] = c[n + k]
      BY <1>3, <2>1
    <3>2. c[n + k] = IF n + k <= b THEN at + (n + k) ELSE NoBit
      BY <1>1, <3>1
    <3>3. (n + k <= b <=> k <= b - n) /\ at + (n + k) = (at + n) + k
      BY <1>1
    <3> QED BY <3>1, <3>2, <3>3
  <2>2. CASE ~(n + k <= 32)
    <3>1. ~(k <= b - n)
      BY <1>1, <2>2
    <3> QED BY <1>3, <2>2, <3>1
  <2> QED BY <2>1, <2>2
<1>5. b - n \in Int /\ b - n <= 32 /\ 8 * p = (at + n) + (b - n) /\ (b - n < 0 => m = 0)
  BY <1>1
<1> QED BY <1>1, <1>4, <1>5 DEF Standing

LEMMA DiscardReads ==
  ASSUME NEW r, NEW at \in Nat, NEW size \in Nat, Reads(r, at, size), NEW n \in Nat,
         n > r.cachedBits => r.nBytes = 0
  PROVE  Reads(Discard(r, n), at + n, size)
<1>1. Standing(r.bytePtr, ShiftLeft(r.iCache, n), r.cachedBits - n, r.nBytes, at + n, size)
  BY DiscardStands DEF Reads
<1> QED BY <1>1 DEF Discard, Reads

\* The two ways to put a field together: from the cache, or from the cache and the next one.
FromCache(c, n) == SubSeq(c, 1, n)
Across(c, c2, n, lowBits) == [k \in 1..n |-> Or(c[k], BitIn(c2, lowBits - n + k))]

LEMMA FieldInCache ==
  ASSUME NEW p, NEW c, NEW b, NEW m, NEW at \in Nat, NEW size \in Nat, Standing(p, c, b, m, at, size),
         NEW n \in Nat, n <= 31, n <= b
  PROVE  FromCache(c, n) = Bits(at, n, size)
<1>1. /\ p \in Nat /\ m \in Nat /\ p + m = size /\ b \in Int /\ b <= 32 /\ 8 * p = at + b
      /\ \A k \in 1..32 : c[k] = IF k <= b THEN at + k ELSE NoBit
  BY DEF Standing
<1> DEFINE s == SubSeq(c, 1, n)
<1>2. \A i \in 1..n : c[i] = at + i /\ at + i <= 8 * size
  BY <1>1
<1>3. \A i \in 1..n : c[i] \in Int
  BY <1>2
<1>4. n \in Int /\ 1 \in Int
  OBVIOUS
<1>5. s \in Seq(Int) /\ Len(s) = (IF 1 <= n THEN n - 1 + 1 ELSE 0)
        /\ \A i \in 1..(n - 1 + 1) : s[i] = c[1 + i - 1]
  BY <1>3, <1>4, SubSeqProperties
<1> HIDE DEF s
<1>6. Len(s) = n /\ \A i \in 1..n : s[i] = c[i]
  BY <1>5
<1>7. s = [i \in 1..n |-> s[i]]
  BY <1>5, <1>6
<1> QED BY <1>2, <1>6, <1>7 DEF Bits, s, FromCache

\* A field of n bits that the cache of r does not hold: its last lowBits are in r2's, after a refill.
SplitField(r, r2, at, here, n, lowBits, size) ==
  /\ Reads(r, at, size) /\ here = at + r.cachedBits
  /\ Reads(r2, here, size) /\ r2.cachedBits \in 0..32 /\ (r2.cachedBits < 32 => r2.nBytes = 0)
  /\ lowBits = n - r.cachedBits /\ lowBits > 0

LEMMA FieldAcross ==
  ASSUME NEW r, NEW r2, NEW at \in Nat, NEW here, NEW n \in Nat, n <= 31, NEW lowBits, NEW size \in Nat,
         SplitField(r, r2, at, here, n, lowBits, size)
  PROVE  Across(r.iCache, r2.iCache, n, lowBits) = Bits(at, n, size)
<1> DEFINE p == r.bytePtr    p2 == r2.bytePtr
           c == r.iCache     c2 == r2.iCache
           b == r.cachedBits b2 == r2.cachedBits
           m == r.nBytes     m2 == r2.nBytes
<1>1. /\ p \in Nat /\ m \in Nat /\ p + m = size /\ b \in Int /\ b <= 32 /\ 8 * p = at + b /\ (b < 0 => m = 0)
      /\ \A k \in 1..32 : c[k] = IF k <= b THEN at + k ELSE NoBit
  BY DEF Reads, Standing, SplitField
<1>2. here = at + b
  BY DEF SplitField
<1>3. /\ p2 \in Nat /\ m2 \in Nat /\ p2 + m2 = size /\ 8 * p2 = (at + b) + b2
      /\ \A k \in 1..32 : c2[k] = IF k <= b2 THEN (at + b) + k ELSE NoBit
  BY <1>2 DEF Reads, Standing, SplitField
<1>4. b < n /\ b2 \in 0..32 /\ (b2 < 32 => m2 = 0) /\ lowBits = n - b
  BY <1>1 DEF SplitField
<1> HIDE DEF p, c, b, m, p2, c2, b2, m2
<1>5. ASSUME NEW k \in 1..n
      PROVE  Or(c[k], BitIn(c2, lowBits - n + k)) = IF at + k <= 8 * size THEN at + k ELSE NoBit
  <2>1. lowBits - n + k = k - b /\ k \in 1..32 /\ k \in Int /\ k - b \in Int
    BY <1>1, <1>4
  <2>2. CASE k <= b
    <3>1. c[k] = at + k /\ at + k <= 8 * size
      BY <1>1, <2>1, <2>2
    <3>2. BitIn(c2, k - b) = NoBit
      BY <1>1, <2>1, <2>2 DEF BitIn
    <3> QED BY <2>1, <3>1, <3>2 DEF Or, NoBit
  <2>3. CASE ~(k <= b)
    <3>1. c[k] = NoBit
      BY <1>1, <2>1, <2>3
    <3>2. BitIn(c2, k - b) = IF at + k <= 8 * size THEN at + k ELSE NoBit
      <4>1. CASE k - b \in 1..32
        <5>1. c2[k - b] = IF k - b <= b2 THEN (at + b) + (k - b) ELSE NoBit
          BY <1>3, <4>1
        <5>2. (at + b) + (k - b) = at + k
          BY <1>1
        <5>3. k - b <= b2 <=> at + k <= 8 * size
          <6>1. CASE b2 < 32
            BY <1>1, <1>3, <1>4, <6>1
          <6>2. CASE ~(b2 < 32)
            BY <1>1, <1>3, <1>4, <4>1, <6>2
          <6> QED BY <6>1, <6>2
        <5> QED BY <4>1, <5>1, <5>2, <5>3 DEF BitIn
      <4>2. CASE ~(k - b \in 1..32)
        <5>1. k - b > 32 /\ b < 0 /\ m = 0
          BY <1>1, <2>1, <2>3, <4>2
        <5>2. ~(at + k <= 8 * size)
          BY <1>1, <5>1
        <5> QED BY <4>2, <5>2 DEF BitIn
      <4> QED BY <4>1, <4>2
    <3> QED BY <1>1, <2>1, <3>1, <3>2 DEF Or, NoBit
  <2> QED BY <2>2, <2>3
<1> QED BY <1>5 DEF Bits, Across, c, c2

\* A field is the bits that follow, and the reader then stands behind it.
LEMMA GetBitsReads ==
  ASSUME NEW r, NEW at \in Nat, NEW size \in Nat, Reads(r, at, size), NEW n \in Nat, n <= 31
  PROVE  GetBits(r, n).data = Bits(at, n, size) /\ Reads(GetBits(r, n).bsi, at + n, size)
<1> DEFINE b == r.cachedBits
           lowBits == n - b
           after == RefillBitstreamCache(r)
<1>1. n % 32 = n
  OBVIOUS
<1>2. b \in Int /\ Standing(r.bytePtr, r.iCache, b, r.nBytes, at, size)
  BY DEF Reads, Standing
<1>3. n - r.cachedBits = n - b /\ r.cachedBits = b
  OBVIOUS
<1> HIDE DEF b
<1>4. CASE n <= b
  <2>1. GetBits(r, n) = [data |-> FromCache(r.iCache, n), bsi |-> Discard(r, n)]
    <3>1. n - r.cachedBits <= 0
      BY <1>2, <1>4, <1>3
    <3> QED BY <1>1, <3>1 DEF GetBits, FromCache, Across
  <2>2. FromCache(r.iCache, n) = Bits(at, n, size)
    BY <1>2, <1>4, FieldInCache
  <2>3. Reads(Discard(r, n), at + n, size)
    <3>1. n \in Nat /\ ~(n > r.cachedBits)
      BY <1>2, <1>4, <1>3
    <3> QED BY <3>1, DiscardReads
  <2> QED BY <2>1, <2>2, <2>3
<1>5. CASE b < n
  <2>1. GetBits(r, n) = [data |-> Across(r.iCache, after.iCache, n, lowBits),
                         bsi |-> Discard(after, lowBits)]
    <3>1. ~(n - r.cachedBits <= 0)
      BY <1>2, <1>5, <1>3
    <3> QED BY <1>1, <1>3, <3>1 DEF GetBits, FromCache, Across
  <2>2. /\ Reads(after, at + b, size)
        /\ after.cachedBits \in 0..32 /\ (after.cachedBits < 32 => after.nBytes = 0)
    BY <1>3, RefillReads
  <2>3. lowBits \in Nat /\ at + b \in Nat /\ (at + b) + lowBits = at + n
    BY <1>2, <1>5 DEF Standing
  <2> HIDE DEF after
  <2>4. /\ Standing(after.bytePtr, after.iCache, after.cachedBits, after.nBytes, at + b, size)
        /\ after.cachedBits \in 0..32 /\ (after.cachedBits < 32 => after.nBytes = 0)
    BY <2>2 DEF Reads
  <2> DEFINE here == at + b
  <2>5. here \in Nat /\ lowBits \in Nat /\ here + lowBits = at + n
    BY <1>2, <2>3
  <2>6. Reads(after, here, size)
    BY <2>2
  <2>7. lowBits > after.cachedBits => after.nBytes = 0
    BY <1>2, <1>5, <2>4 DEF Standing
  <2> HIDE DEF here, lowBits
  <2>8. Across(r.iCache, after.iCache, n, lowBits) = Bits(at, n, size)
    <3>1. SplitField(r, after, at, here, n, lowBits, size)
      BY <1>2, <1>5, <1>3, <2>4, <2>6 DEF SplitField, here, lowBits
    <3> QED BY <3>1, FieldAcross
  <2>9. Reads(Discard(after, lowBits), here + lowBits, size)
    BY <2>7, <2>5, <2>6, DiscardReads
  <2> QED BY <2>1, <2>8, <2>9, <2>5
<1> QED BY <1>2, <1>4, <1>5

----------------------------------------------------------------------------
(* The bits read so far, and the lengths of the fields to come.            *)

LEMMA FollowingSeq ==
  ASSUME NEW at \in Nat, NEW n \in Nat
  PROVE  /\ Following(at, n) \in Seq(Int) /\ Len(Following(at, n)) = n
         /\ \A k \in 1..n : Following(at, n)[k] = at + k
BY DEF Following

LEMMA BitsSeq ==
  ASSUME NEW at \in Nat, NEW n \in Nat, NEW size \in Nat
  PROVE  /\ Bits(at, n, size) \in Seq(Int) /\ Len(Bits(at, n, size)) = n
         /\ \A k \in 1..n : Bits(at, n, size)[k] = IF at + k <= 8 * size THEN at + k ELSE NoBit
BY DEF Bits, NoBit

Joined(s, t) == s \o t

\* Fields that lie one behind the other, all of them in the buffer.
LEMMA FollowingOn ==
  ASSUME NEW at \in Nat, NEW m \in Nat, NEW n \in Nat, NEW size \in Nat,
         NEW here \in Nat, Makes(at, m, here), here + n <= 8 * size, NEW total \in Nat, Makes(m, n, total)
  PROVE  Joined(Following(at, m), Bits(here, n, size)) = Following(at, total)
<1> DEFINE s == Following(at, m)
           t == Bits(here, n, size)
           st == s \o t
<1>1. at + m = here /\ m + n = total
  BY DEF Makes
<1>2. s \in Seq(Int) /\ Len(s) = m /\ \A k \in 1..m : s[k] = at + k
  BY FollowingSeq
<1>3. t \in Seq(Int) /\ Len(t) = n /\ \A k \in 1..n : t[k] = IF here + k <= 8 * size THEN here + k ELSE NoBit
  BY BitsSeq
<1> HIDE DEF s, t
<1>4. /\ st \in Seq(Int) /\ Len(st) = Len(s) + Len(t)
      /\ \A i \in 1..(Len(s) + Len(t)) : st[i] = IF i <= Len(s) THEN s[i] ELSE t[i - Len(s)]
  BY <1>2, <1>3, ConcatProperties
<1> HIDE DEF st
<1>5. ASSUME NEW k \in 1..total PROVE st[k] = at + k
  <2>1. CASE k <= m
    BY <1>2, <1>3, <1>4, <1>1, <2>1
  <2>2. CASE ~(k <= m)
    <3>1. k - m \in 1..n /\ here + (k - m) = at + k /\ at + k <= 8 * size
      BY <1>1, <2>2
    <3>2. st[k] = t[k - m]
      BY <1>2, <1>3, <1>4, <1>1, <2>2
    <3> QED BY <1>3, <3>1, <3>2
  <2> QED BY <2>1, <2>2
<1>6. st = [k \in 1..total |-> st[k]]
  BY <1>2, <1>3, <1>4, <1>1
<1> QED BY <1>5, <1>6 DEF Following, st, s, t, Joined

\* A sequence of lengths whose sum is total: f[i] is the sum of those behind i.
Behind(s, f) == /\ f \in [0..Len(s) -> Nat] /\ f[Len(s)] = 0
                /\ \A i \in 1..Len(s) : f[i - 1] = s[i] + f[i]
Sums(s, total) == s \in Seq(0..31) /\ \E f : Behind(s, f) /\ f[0] = total

LEMMA SumsEmpty == Sums(<<>>, 0)
<1> DEFINE f == [i \in 0..0 |-> 0]
<1>1. Behind(<<>>, f) /\ f[0] = 0
  BY DEF Behind
<1> QED BY <1>1 DEF Sums

LEMMA SumsTotal ==
  ASSUME NEW s, NEW total, Sums(s, total)
  PROVE  total \in Nat /\ (s = <<>> => total = 0)
<1>1. PICK f : Behind(s, f) /\ f[0] = total
  BY DEF Sums
<1>2. s \in Seq(0..31) /\ Len(s) \in Nat
  BY DEF Sums
<1> QED BY <1>1, <1>2 DEF Behind

\* The first length is part of the sum, and the rest is the sum of the others.
LEMMA SumsTail ==
  ASSUME NEW s, NEW total, Sums(s, total), s # <<>>
  PROVE  Head(s) \in 0..31 /\ Head(s) <= total /\ Sums(Tail(s), total - Head(s))
<1>1. s \in Seq(0..31) /\ Len(s) \in Nat /\ Len(s) >= 1
  <2>1. s \in Seq(0..31)
    BY DEF Sums
  <2> QED BY <2>1, EmptySeq
<1>2. PICK f : Behind(s, f) /\ f[0] = total
  BY DEF Sums
<1> DEFINE t == Tail(s)
           g == [i \in 0..(Len(s) - 1) |-> f[i + 1]]
<1>3. /\ t \in Seq(0..31) /\ Len(t) = Len(s) - 1 /\ Head(s) = s[1]
      /\ \A i \in 1..(Len(s) - 1) : t[i] = s[i + 1]
  BY <1>1
<1>4. s[1] \in 0..31
  <2>1. 1 \in 1..Len(s)
    BY <1>1
  <2> QED BY <1>1, <2>1, ElementOfSeq
<1>5. f \in [0..Len(s) -> Nat] /\ f[Len(s)] = 0 /\ \A i \in 1..Len(s) : f[i - 1] = s[i] + f[i]
  BY <1>2 DEF Behind
<1>6. f[0] = s[1] + f[1] /\ f[1] \in Nat
  <2>1. 1 \in 1..Len(s) /\ 1 \in 0..Len(s) /\ 1 - 1 = 0
    BY <1>1
  <2> QED BY <1>5, <2>1
<1>7. Behind(t, g)
  <2>1. g \in [0..Len(t) -> Nat] /\ g[Len(t)] = 0
    BY <1>1, <1>3, <1>5
  <2>2. ASSUME NEW i \in 1..Len(t) PROVE g[i - 1] = t[i] + g[i]
    <3>1. g[i - 1] = f[(i - 1) + 1] /\ g[i] = f[i + 1] /\ t[i] = s[i + 1]
      BY <1>1, <1>3
    <3>2. (i - 1) + 1 = (i + 1) - 1 /\ i + 1 \in 1..Len(s)
      BY <1>1, <1>3
    <3> HIDE DEF g, t
    <3> QED BY <1>5, <3>1, <3>2
  <2> QED BY <2>1, <2>2 DEF Behind
<1>8. g[0] = total - Head(s) /\ Head(s) <= total
  <2>1. g[0] = f[1]
    BY <1>1
  <2> DEFINE a == s[1]  f1 == f[1]
  <2>2. a \in 0..31 /\ f1 \in Nat /\ total = a + f1
    BY <1>2, <1>4, <1>6
  <2>3. g[0] = f1 /\ Head(s) = a
    BY <1>3, <2>1
  <2> HIDE DEF g, a, f1
  <2>4. f1 = total - a /\ a <= total
    BY <2>2
  <2> QED BY <2>3, <2>4
<1> HIDE DEF g, t
<1>9. Sums(t, total - Head(s))
  BY <1>3, <1>7, <1>8 DEF Sums
<1> QED BY <1>3, <1>4, <1>8, <1>9 DEF t

LEMMA SumsConcat ==
  ASSUME NEW s, NEW a, Sums(s, a), NEW t, NEW b, Sums(t, b)
  PROVE  Sums(s \o t, a + b)
<1>1. s \in Seq(0..31) /\ t \in Seq(0..31) /\ Len(s) \in Nat /\ Len(t) \in Nat
  BY DEF Sums
<1>2. PICK f : Behind(s, f) /\ f[0] = a
  BY DEF Sums
<1>3. PICK g : Behind(t, g) /\ g[0] = b
  BY DEF Sums
<1> DEFINE st == s \o t
           h == [i \in 0..(Len(s) + Len(t)) |-> IF i <= Len(s) THEN f[i] + b ELSE g[i - Len(s)]]
<1>4. /\ f \in [0..Len(s) -> Nat] /\ f[Len(s)] = 0 /\ \A i \in 1..Len(s) : f[i - 1] = s[i] + f[i]
      /\ g \in [0..Len(t) -> Nat] /\ g[Len(t)] = 0 /\ \A i \in 1..Len(t) : g[i - 1] = t[i] + g[i]
  BY <1>2, <1>3 DEF Behind
<1>5. a \in Nat /\ b \in Nat
  BY SumsTotal
<1>6. /\ st \in Seq(0..31) /\ Len(st) = Len(s) + Len(t)
      /\ \A i \in 1..(Len(s) + Len(t)) : st[i] = IF i <= Len(s) THEN s[i] ELSE t[i - Len(s)]
  BY <1>1, ConcatProperties
<1> HIDE DEF st
<1>7. h \in [0..Len(st) -> Nat]
  <2>1. ASSUME NEW i \in 0..(Len(s) + Len(t)) PROVE (IF i <= Len(s) THEN f[i] + b ELSE g[i - Len(s)]) \in Nat
    <3>1. CASE i <= Len(s)
      <4>1. i \in 0..Len(s)
        BY <1>1, <3>1
      <4>2. f[i] \in Nat
        BY <1>4, <4>1
      <4> QED BY <1>5, <3>1, <4>2
    <3>2. CASE ~(i <= Len(s))
      <4>1. i - Len(s) \in 0..Len(t)
        BY <1>1, <3>2
      <4> QED BY <1>4, <3>2, <4>1
    <3> QED BY <3>1, <3>2
  <2> QED BY <1>6, <2>1
<1>8. h[Len(st)] = 0
  <2>1. CASE Len(t) = 0
    BY <1>1, <1>3, <1>4, <1>5, <1>6, <2>1
  <2>2. CASE Len(t) # 0
    <3>1. ~(Len(st) <= Len(s)) /\ Len(st) - Len(s) = Len(t) /\ Len(st) \in 0..(Len(s) + Len(t))
      BY <1>1, <1>6, <2>2
    <3>2. h[Len(st)] = g[Len(st) - Len(s)]
      BY <3>1
    <3> HIDE DEF h
    <3> QED BY <1>4, <3>1, <3>2
  <2> QED BY <2>1, <2>2
<1>9. ASSUME NEW i \in 1..Len(st) PROVE h[i - 1] = st[i] + h[i]
  <2>1. i \in 0..(Len(s) + Len(t)) /\ i - 1 \in 0..(Len(s) + Len(t)) /\ i \in 1..(Len(s) + Len(t))
    BY <1>1, <1>6
  <2>2. CASE i <= Len(s)
    <3>1. h[i - 1] = f[i - 1] + b /\ h[i] = f[i] + b /\ st[i] = s[i] /\ i \in 1..Len(s)
      BY <1>1, <1>6, <2>1, <2>2
    <3> DEFINE x == f[i - 1]  y == s[i]  z == f[i]
    <3>2. y \in 0..31
      BY <1>1, <3>1, ElementOfSeq
    <3>3. i \in 0..Len(s)
      BY <1>1, <3>1
    <3>4. z \in Nat /\ x = y + z
      BY <1>4, <3>1, <3>3
    <3>5. h[i - 1] = x + b /\ h[i] = z + b /\ st[i] = y
      BY <3>1
    <3> HIDE DEF h, x, y, z
    <3>6. x + b = y + (z + b)
      BY <1>5, <3>2, <3>4
    <3> QED BY <3>5, <3>6
  <2>3. CASE ~(i <= Len(s))
    <3> DEFINE j == i - Len(s)
    <3>1. j \in 1..Len(t) /\ j - 1 \in 0..Len(t) /\ st[i] = t[j]
      BY <1>1, <1>6, <2>1, <2>3
    <3>2. h[i] = g[j]
      BY <2>1, <2>3
    <3>3. h[i - 1] = g[j - 1]
      <4>1. CASE j = 1
        <5>1. i - 1 = Len(s) /\ i - 1 <= Len(s) /\ j - 1 = 0
          BY <1>1, <2>1, <4>1
        <5>2. h[i - 1] = f[Len(s)] + b
          BY <2>1, <5>1
        <5> QED BY <1>3, <1>4, <1>5, <5>1, <5>2
      <4>2. CASE j # 1
        <5>1. ~(i - 1 <= Len(s)) /\ (i - 1) - Len(s) = j - 1
          BY <1>1, <2>1, <2>3, <4>2
        <5>2. h[i - 1] = g[(i - 1) - Len(s)]
          BY <2>1, <5>1
        <5> QED BY <5>1, <5>2
      <4> QED BY <4>1, <4>2
    <3> HIDE DEF h, j
    <3> QED BY <1>4, <3>1, <3>2, <3>3
  <2> QED BY <2>2, <2>3
<1>10. h[0] = a + b
  BY <1>1, <1>2, <1>5
<1>11. Behind(st, h)
  BY <1>6, <1>7, <1>8, <1>9 DEF Behind
<1> QED BY <1>6, <1>10, <1>11 DEF Sums, st

----------------------------------------------------------------------------
(* The lengths of the side information.                                    *)

\* A few lengths one after the other.
LEMMA SumsOf1 == ASSUME NEW a \in 0..31 PROVE Sums(<<a>>, a)
<1> DEFINE f == [i \in 0..1 |-> IF i = 0 THEN a ELSE 0]
<1>1. Behind(<<a>>, f) /\ f[0] = a
  BY DEF Behind
<1> QED BY <1>1 DEF Sums

LEMMA SumsOf2 ==
  ASSUME NEW a \in 0..31, NEW b \in 0..31, NEW total, total = a + b
  PROVE  Sums(<<a, b>>, total)
<1> DEFINE s == <<a, b>>
           f == [i \in 0..2 |-> IF i = 0 THEN a + b ELSE IF i = 1 THEN b ELSE 0]
<1>1. s \in Seq(0..31) /\ Len(s) = 2
  OBVIOUS
<1>2. f \in [0..2 -> Nat] /\ f[2] = 0 /\ f[0] = total
  OBVIOUS
<1>3. ASSUME NEW i \in 1..2 PROVE f[i - 1] = s[i] + f[i]
  <2>1. CASE i = 1
    BY <2>1
  <2>2. CASE i = 2
    BY <2>2
  <2> QED BY <2>1, <2>2
<1> HIDE DEF s, f
<1>4. Behind(s, f)
  BY <1>1, <1>2, <1>3 DEF Behind
<1> QED BY <1>1, <1>2, <1>4 DEF Sums, s

LEMMA SumsOf3 ==
  ASSUME NEW a \in 0..31, NEW b \in 0..31, NEW c \in 0..31, NEW total, total = a + b + c
  PROVE  Sums(<<a, b, c>>, total)
<1> DEFINE s == <<a, b, c>>
           f == [i \in 0..3 |-> IF i = 0 THEN a + b + c ELSE IF i = 1 THEN b + c ELSE IF i = 2 THEN c ELSE 0]
<1>1. s \in Seq(0..31) /\ Len(s) = 3
  OBVIOUS
<1>2. f \in [0..3 -> Nat] /\ f[3] = 0 /\ f[0] = total
  OBVIOUS
<1>3. ASSUME NEW i \in 1..3 PROVE f[i - 1] = s[i] + f[i]
  <2>1. CASE i = 1
    BY <2>1
  <2>2. CASE i = 2
    BY <2>2
  <2>3. CASE i = 3
    BY <2>3
  <2> QED BY <2>1, <2>2, <2>3
<1> HIDE DEF s, f
<1>4. Behind(s, f)
  BY <1>1, <1>2, <1>3 DEF Behind
<1> QED BY <1>1, <1>2, <1>4 DEF Sums, s

LEMMA SumsOf5 ==
  ASSUME NEW a \in 0..31, NEW b \in 0..31, NEW c \in 0..31, NEW d \in 0..31,
         NEW e \in 0..31, NEW total, total = a + b + c + d + e
  PROVE  Sums(<<a, b, c, d, e>>, total)
<1> DEFINE s == <<a, b, c, d, e>>
           f == [i \in 0..5 |-> IF i = 0 THEN a + b + c + d + e ELSE IF i = 1 THEN b + c + d + e
                            ELSE IF i = 2 THEN c + d + e ELSE IF i = 3 THEN d + e ELSE IF i = 4 THEN e ELSE 0]
<1>1. s \in Seq(0..31) /\ Len(s) = 5
  OBVIOUS
<1>2. f \in [0..5 -> Nat] /\ f[5] = 0 /\ f[0] = total
  OBVIOUS
<1>3. ASSUME NEW i \in 1..5 PROVE f[i - 1] = s[i] + f[i]
  <2>1. CASE i = 1
    BY <2>1
  <2>2. CASE i = 2
    BY <2>2
  <2>3. CASE i = 3
    BY <2>3
  <2>4. CASE i = 4
    BY <2>4
  <2>5. CASE i = 5
    BY <2>5
  <2> QED BY <2>1, <2>2, <2>3, <2>4, <2>5
<1> HIDE DEF s, f
<1>4. Behind(s, f)
  BY <1>1, <1>2, <1>3 DEF Behind
<1> QED BY <1>1, <1>2, <1>4 DEF Sums, s

LEMMA SumsOf7 ==
  ASSUME NEW a \in 0..31, NEW b \in 0..31, NEW c \in 0..31, NEW d \in 0..31,
         NEW e \in 0..31, NEW u \in 0..31, NEW v \in 0..31, NEW total, total = a + b + c + d + e + u + v
  PROVE  Sums(<<a, b, c, d, e, u, v>>, total)
<1> DEFINE s == <<a, b, c, d, e, u, v>>
           f == [i \in 0..7 |-> IF i = 0 THEN a + b + c + d + e + u + v ELSE IF i = 1 THEN b + c + d + e + u + v
                            ELSE IF i = 2 THEN c + d + e + u + v ELSE IF i = 3 THEN d + e + u + v
                            ELSE IF i = 4 THEN e + u + v ELSE IF i = 5 THEN u + v ELSE IF i = 6 THEN v ELSE 0]
<1>1. s \in Seq(0..31) /\ Len(s) = 7
  OBVIOUS
<1>2. f \in [0..7 -> Nat] /\ f[7] = 0 /\ f[0] = total
  OBVIOUS
<1>3. ASSUME NEW i \in 1..7 PROVE f[i - 1] = s[i] + f[i]
  <2>1. CASE i = 1
    BY <2>1
  <2>2. CASE i = 2
    BY <2>2
  <2>3. CASE i = 3
    BY <2>3
  <2>4. CASE i = 4
    BY <2>4
  <2>5. CASE i = 5
    BY <2>5
  <2>6. CASE i = 6
    BY <2>6
  <2>7. CASE i = 7
    BY <2>7
  <2> QED BY <2>1, <2>2, <2>3, <2>4, <2>5, <2>6, <2>7
<1> HIDE DEF s, f
<1>4. Behind(s, f)
  BY <1>1, <1>2, <1>3 DEF Behind
<1> QED BY <1>1, <1>2, <1>4 DEF Sums, s

LEMMA SumsOfOnes == ASSUME NEW n \in Nat PROVE Sums([i \in 1..n |-> 1], n)
<1> DEFINE s == [i \in 1..n |-> 1]
           f == [i \in 0..n |-> n - i]
<1>1. s \in Seq(0..31) /\ Len(s) = n /\ \A i \in 1..n : s[i] = 1
  OBVIOUS
<1>2. f \in [0..n -> Nat] /\ f[n] = 0 /\ f[0] = n /\ \A i \in 1..n : f[i - 1] = 1 + f[i]
  OBVIOUS
<1> HIDE DEF s, f
<1>3. Behind(s, f)
  BY <1>1, <1>2 DEF Behind
<1> QED BY <1>1, <1>2, <1>3 DEF Sums, s

\* A granule of a channel has 59 bits, or 63 in MPEG-2, with window switching or without.
LEMMA SideFieldsSum ==
  ASSUME NEW isMpeg1 \in BOOLEAN, NEW winSwitchFlag \in BOOLEAN
  PROVE  Sums(SideFields(isMpeg1, winSwitchFlag), IF isMpeg1 THEN 59 ELSE 63)
<1> DEFINE first == <<12, 9, 8, IF isMpeg1 THEN 4 ELSE 9, 1>>
           second == IF winSwitchFlag THEN <<2, 1, 5, 5, 3, 3, 3>> ELSE <<5, 5, 5, 4, 3>>
           third == IF isMpeg1 THEN <<1, 1, 1>> ELSE <<1, 1>>
<1>1. Sums(first, IF isMpeg1 THEN 34 ELSE 39)
  <2>1. CASE isMpeg1
    <3>1. Sums(<<12, 9, 8, 4, 1>>, 34)
      <4>1. 1 \in 0..31 /\ 4 \in 0..31 /\ 8 \in 0..31 /\ 9 \in 0..31 /\ 12 \in 0..31
        OBVIOUS
      <4>2. 34 = 12 + 9 + 8 + 4 + 1
        OBVIOUS
      <4> QED BY <4>1, <4>2, SumsOf5, Zenon
    <3> QED BY <2>1, <3>1
  <2>2. CASE ~isMpeg1
    <3>1. Sums(<<12, 9, 8, 9, 1>>, 39)
      <4>1. 1 \in 0..31 /\ 8 \in 0..31 /\ 9 \in 0..31 /\ 12 \in 0..31
        OBVIOUS
      <4>2. 39 = 12 + 9 + 8 + 9 + 1
        OBVIOUS
      <4> QED BY <4>1, <4>2, SumsOf5, Zenon
    <3> QED BY <2>2, <3>1
  <2> QED BY <2>1, <2>2
<1>2. Sums(second, 22)
  <2>1. Sums(<<2, 1, 5, 5, 3, 3, 3>>, 22)
    <3>1. 1 \in 0..31 /\ 2 \in 0..31 /\ 3 \in 0..31 /\ 5 \in 0..31
      OBVIOUS
    <3>2. 22 = 2 + 1 + 5 + 5 + 3 + 3 + 3
      OBVIOUS
    <3> QED BY <3>1, <3>2, SumsOf7, Zenon
  <2>2. Sums(<<5, 5, 5, 4, 3>>, 22)
    <3>1. 3 \in 0..31 /\ 4 \in 0..31 /\ 5 \in 0..31
      OBVIOUS
    <3>2. 22 = 5 + 5 + 5 + 4 + 3
      OBVIOUS
    <3> QED BY <3>1, <3>2, SumsOf5, Zenon
  <2> QED BY <2>1, <2>2
<1>3. Sums(third, IF isMpeg1 THEN 3 ELSE 2)
  <2>1. Sums(<<1, 1, 1>>, 3)
    <3>1. 1 \in 0..31
      OBVIOUS
    <3>2. 3 = 1 + 1 + 1
      OBVIOUS
    <3> QED BY <3>1, <3>2, SumsOf3, Zenon
  <2>2. Sums(<<1, 1>>, 2)
    <3>1. 1 \in 0..31
      OBVIOUS
    <3>2. 2 = 1 + 1
      OBVIOUS
    <3> QED BY <3>1, <3>2, SumsOf2, Zenon
  <2> QED BY <2>1, <2>2
<1> HIDE DEF first, second, third
<1>4. Sums((first \o second) \o third, ((IF isMpeg1 THEN 34 ELSE 39) + 22) + (IF isMpeg1 THEN 3 ELSE 2))
  BY <1>1, <1>2, <1>3, SumsConcat
<1>5. ((IF isMpeg1 THEN 34 ELSE 39) + 22) + (IF isMpeg1 THEN 3 ELSE 2) = IF isMpeg1 THEN 59 ELSE 63
  OBVIOUS
<1> QED BY <1>4, <1>5 DEF SideFields, first, second, third

LEMMA SideInfoSums ==
  ASSUME NEW isMpeg1 \in BOOLEAN, NEW mono \in BOOLEAN, NEW switches \in [1..Subblocks(isMpeg1, mono) -> BOOLEAN]
  PROVE  Sums(UnpackSideInfo(isMpeg1, mono, switches), 8 * SideBytes(isMpeg1, mono))
<1> DEFINE sis(i) == SideFields(isMpeg1, switches[i])
           granule(gr) == IF mono THEN sis(gr) ELSE sis(2 * gr - 1) \o sis(2 * gr)
           each == IF isMpeg1 THEN 59 ELSE 63
           ones == [i \in 1..(IF mono THEN 4 ELSE 8) |-> 1]
           head == IF isMpeg1 THEN <<9, IF mono THEN 5 ELSE 3>> \o ones ELSE <<8, IF mono THEN 1 ELSE 2>>
           headBits == IF isMpeg1 THEN IF mono THEN 18 ELSE 20 ELSE IF mono THEN 9 ELSE 10
           behind == IF isMpeg1 THEN granule(2) ELSE <<>>
<1>1. ASSUME NEW i \in 1..Subblocks(isMpeg1, mono) PROVE Sums(sis(i), each)
  BY SideFieldsSum
<1>2. Subblocks(isMpeg1, mono) = IF isMpeg1 THEN IF mono THEN 2 ELSE 4 ELSE IF mono THEN 1 ELSE 2
  BY DEF Subblocks
<1>3. ASSUME NEW gr \in 1..(IF isMpeg1 THEN 2 ELSE 1)
      PROVE  Sums(granule(gr), IF mono THEN each ELSE each + each)
  <2>1. CASE mono
    <3>1. gr \in 1..Subblocks(isMpeg1, mono)
      BY <1>2, <2>1
    <3> QED BY <1>1, <2>1, <3>1
  <2>2. CASE ~mono
    <3>1. 2 * gr - 1 \in 1..Subblocks(isMpeg1, mono) /\ 2 * gr \in 1..Subblocks(isMpeg1, mono)
      BY <1>2, <2>2
    <3> HIDE DEF sis, each
    <3>2. Sums(sis(2 * gr - 1), each) /\ Sums(sis(2 * gr), each)
      BY <1>1, <3>1
    <3>3. Sums(sis(2 * gr - 1) \o sis(2 * gr), each + each)
      BY <3>2, SumsConcat
    <3> QED BY <2>2, <3>3
  <2> QED BY <2>1, <2>2
<1>4. Sums(head, headBits)
  <2>1. /\ 8 \in 0..31 /\ 9 \in 0..31 /\ 5 \in 0..31 /\ 3 \in 0..31 /\ 2 \in 0..31 /\ 1 \in 0..31
        /\ 4 \in Nat /\ 8 \in Nat
    OBVIOUS
  <2>2. 14 = 9 + 5 /\ 12 = 9 + 3 /\ 9 = 8 + 1 /\ 10 = 8 + 2
    OBVIOUS
  <2>3. Sums(<<9, 5>>, 14) /\ Sums(<<9, 3>>, 12) /\ Sums(<<8, 1>>, 9) /\ Sums(<<8, 2>>, 10)
    BY <2>1, <2>2, SumsOf2, Zenon
  <2>4. Sums([i \in 1..4 |-> 1], 4) /\ Sums([i \in 1..8 |-> 1], 8)
    BY <2>1, SumsOfOnes, Zenon
  <2>5. Sums(<<9, 5>> \o [i \in 1..4 |-> 1], 14 + 4) /\ Sums(<<9, 3>> \o [i \in 1..8 |-> 1], 12 + 8)
    BY <2>3, <2>4, SumsConcat, Zenon
  <2>6. 14 + 4 = 18 /\ 12 + 8 = 20
    OBVIOUS
  <2>7. CASE isMpeg1 /\ mono
    BY <2>5, <2>6, <2>7, Zenon
  <2>8. CASE isMpeg1 /\ ~mono
    BY <2>5, <2>6, <2>8, Zenon
  <2>9. CASE ~isMpeg1 /\ mono
    BY <2>3, <2>9, Zenon
  <2>10. CASE ~isMpeg1 /\ ~mono
    BY <2>3, <2>10, Zenon
  <2> QED BY <2>7, <2>8, <2>9, <2>10
<1>5. Sums(granule(1), IF mono THEN each ELSE each + each)
  <2>1. 1 \in 1..(IF isMpeg1 THEN 2 ELSE 1)
    OBVIOUS
  <2> HIDE DEF granule, each
  <2> QED BY <1>3, <2>1
<1>6. Sums(behind, IF isMpeg1 THEN IF mono THEN each ELSE each + each ELSE 0)
  <2> HIDE DEF granule, each
  <2>1. CASE isMpeg1
    <3>1. 2 \in 1..(IF isMpeg1 THEN 2 ELSE 1)
      BY <2>1
    <3>2. Sums(granule(2), IF mono THEN each ELSE each + each)
      BY <1>3, <3>1
    <3> QED BY <2>1, <3>2
  <2>2. CASE ~isMpeg1
    BY <2>2, SumsEmpty
  <2> QED BY <2>1, <2>2
<1> DEFINE second == granule(1)
<1>7. Sums((head \o second) \o behind, (headBits + (IF mono THEN each ELSE each + each))
                                       + (IF isMpeg1 THEN IF mono THEN each ELSE each + each ELSE 0))
  <2> HIDE DEF head, second, behind, headBits, each
  <2>1. Sums(second, IF mono THEN each ELSE each + each)
    BY <1>5 DEF second
  <2> DEFINE a == IF mono THEN each ELSE each + each
             b == IF isMpeg1 THEN IF mono THEN each ELSE each + each ELSE 0
  <2>2. Sums(second, a) /\ Sums(behind, b)
    BY <1>6, <2>1
  <2> HIDE DEF a, b
  <2>3. Sums((head \o second) \o behind, (headBits + a) + b)
    BY <1>4, <2>2, SumsConcat
  <2> QED BY <2>3 DEF a, b
<1>8. (headBits + (IF mono THEN each ELSE each + each))
        + (IF isMpeg1 THEN IF mono THEN each ELSE each + each ELSE 0) = 8 * SideBytes(isMpeg1, mono)
  BY DEF SideBytes
<1>9. UnpackSideInfo(isMpeg1, mono, switches) = (head \o second) \o behind
  BY DEF UnpackSideInfo
<1> HIDE DEF head, second, behind, headBits, each
<1> QED BY <1>7, <1>8, <1>9

----------------------------------------------------------------------------
(* The scale factors of a block: which bands, and each once.               *)

LongBands(from, upto) == {<<"l", cb>> : cb \in from..(upto - 1)}
Windows(from, upto) == {<<"s", cb, w>> : cb \in from..(upto - 1), w \in 0..2}
FactorSteps == [entry : LongBands(0, 23) \cup Windows(0, 13), bits : -2..5]

\* The lengths of a factor, with Copied.
Slens == -1..5

\* The n steps of s fill the entries E, each of them once.
Filled(s) == {i \in 1..Len(s) : s[i].bits # Cleared}
Once(s) == \A i, j \in Filled(s) : s[i].entry = s[j].entry => i = j
Lists(s, E, n) == s \in Seq(FactorSteps) /\ Len(s) = n /\ {s[i].entry : i \in Filled(s)} = E /\ Once(s)

LEMMA ListsConcat ==
  ASSUME NEW s, NEW E, NEW m \in Nat, Lists(s, E, m),
         NEW t, NEW F, NEW n \in Nat, Lists(t, F, n), E \cap F = {}
  PROVE  Lists(s \o t, E \cup F, m + n)
<1> DEFINE st == s \o t
<1>1. /\ s \in Seq(FactorSteps) /\ Len(s) = m /\ {s[i].entry : i \in Filled(s)} = E /\ Once(s)
      /\ t \in Seq(FactorSteps) /\ Len(t) = n /\ {t[i].entry : i \in Filled(t)} = F /\ Once(t)
  BY DEF Lists
<1>2. /\ st \in Seq(FactorSteps) /\ Len(st) = m + n
      /\ \A i \in 1..(m + n) : st[i] = IF i <= m THEN s[i] ELSE t[i - m]
  <2>1. /\ st \in Seq(FactorSteps) /\ Len(st) = Len(s) + Len(t)
        /\ \A i \in 1..(Len(s) + Len(t)) : st[i] = IF i <= Len(s) THEN s[i] ELSE t[i - Len(s)]
    <3>1. s \in Seq(FactorSteps) /\ t \in Seq(FactorSteps)
      BY <1>1
    <3> QED BY <3>1, ConcatProperties
  <2> HIDE DEF st
  <2>2. Len(s) = m /\ Len(t) = n
    BY <1>1
  <2> QED BY <2>1, <2>2
<1> HIDE DEF st
<1>3. ASSUME NEW i \in Filled(s) PROVE i \in Filled(st) /\ st[i] = s[i]
  BY <1>1, <1>2 DEF Filled
<1>4. ASSUME NEW i \in Filled(t) PROVE i + m \in Filled(st) /\ st[i + m] = t[i]
  <2>1. i \in 1..n /\ t[i].bits # Cleared
    BY <1>1 DEF Filled
  <2>2. i + m \in 1..(m + n) /\ ~(i + m <= m) /\ (i + m) - m = i
    BY <2>1
  <2>3. st[i + m] = t[i]
    BY <1>2, <2>2
  <2> QED BY <1>2, <2>1, <2>2, <2>3 DEF Filled
<1>5. ASSUME NEW i \in Filled(st)
      PROVE  \/ i <= m /\ i \in Filled(s) /\ st[i] = s[i]
             \/ i > m /\ i - m \in Filled(t) /\ st[i] = t[i - m]
  <2>1. i \in 1..(m + n) /\ st[i].bits # Cleared
    BY <1>2 DEF Filled
  <2>2. CASE i <= m
    BY <1>1, <1>2, <2>1, <2>2 DEF Filled
  <2>3. CASE ~(i <= m)
    <3>1. i - m \in 1..n /\ i > m
      BY <2>1, <2>3
    <3> QED BY <1>1, <1>2, <2>1, <2>3, <3>1 DEF Filled
  <2> QED BY <2>2, <2>3
<1>6. {st[i].entry : i \in Filled(st)} = E \cup F
  <2>1. ASSUME NEW i \in Filled(st) PROVE st[i].entry \in E \cup F
    <3>1. CASE i \in Filled(s) /\ st[i] = s[i]
      BY <1>1, <3>1
    <3>2. CASE i - m \in Filled(t) /\ st[i] = t[i - m]
      BY <1>1, <3>2
    <3> QED BY <1>5, <3>1, <3>2
  <2>2. ASSUME NEW e \in E PROVE \E i \in Filled(st) : st[i].entry = e
    <3>1. PICK i \in Filled(s) : s[i].entry = e
      BY <1>1
    <3> QED BY <1>3, <3>1
  <2>3. ASSUME NEW e \in F PROVE \E i \in Filled(st) : st[i].entry = e
    <3>1. PICK i \in Filled(t) : t[i].entry = e
      BY <1>1
    <3> QED BY <1>4, <3>1
  <2> QED BY <2>1, <2>2, <2>3
<1>7. ASSUME NEW i \in Filled(st), NEW j \in Filled(st), st[i].entry = st[j].entry
      PROVE  i = j
  <2>1. CASE i \in Filled(s) /\ st[i] = s[i] /\ j \in Filled(s) /\ st[j] = s[j]
    BY <1>1, <1>7, <2>1 DEF Once
  <2>2. CASE i \in Filled(s) /\ st[i] = s[i] /\ j - m \in Filled(t) /\ st[j] = t[j - m]
    <3>1. s[i].entry \in E /\ t[j - m].entry \in F
      BY <1>1, <2>2
    <3> QED BY <1>7, <2>2, <3>1
  <2>3. CASE i - m \in Filled(t) /\ st[i] = t[i - m] /\ j \in Filled(s) /\ st[j] = s[j]
    <3>1. s[j].entry \in E /\ t[i - m].entry \in F
      BY <1>1, <2>3
    <3> QED BY <1>7, <2>3, <3>1
  <2>4. CASE i - m \in Filled(t) /\ st[i] = t[i - m] /\ j - m \in Filled(t) /\ st[j] = t[j - m]
    <3>1. i - m = j - m
      BY <1>1, <1>7, <2>4 DEF Once
    <3>2. i \in Int /\ j \in Int
      BY <1>2 DEF Filled
    <3> QED BY <3>1, <3>2
  <2> QED BY <1>5, <2>1, <2>2, <2>3, <2>4
<1>8. Once(st)
  BY <1>7 DEF Once
<1> QED BY <1>2, <1>6, <1>8 DEF Lists, st

LEMMA LongLists ==
  ASSUME NEW from \in 0..23, NEW upto \in 0..23, from <= upto, NEW slen \in Slens
  PROVE  Lists(Long(from, upto, slen), LongBands(from, upto), upto - from)
<1> DEFINE n == upto - from
           s == [i \in 1..n |-> [entry |-> <<"l", from + i - 1>>, bits |-> slen]]
<1>1. n \in Nat /\ from + n = upto
  OBVIOUS
<1> HIDE DEF n
<1>2. ASSUME NEW i \in 1..n PROVE [entry |-> <<"l", from + i - 1>>, bits |-> slen] \in FactorSteps
  <2>1. from + i - 1 \in 0..(23 - 1)
    BY <1>1
  <2>2. <<"l", from + i - 1>> \in LongBands(0, 23)
    BY <2>1 DEF LongBands
  <2> QED BY <2>2 DEF FactorSteps, Slens
<1>3. s \in Seq(FactorSteps) /\ Len(s) = n
  BY <1>1, <1>2
<1>4. ASSUME NEW i \in 1..n PROVE s[i].bits = slen /\ s[i].entry = <<"l", from + i - 1>>
  OBVIOUS
<1> HIDE DEF s
<1>5. Filled(s) = 1..n
  BY <1>3, <1>4 DEF Filled, Cleared, Slens
<1>6. {s[i].entry : i \in 1..n} = LongBands(from, upto)
  <2>1. ASSUME NEW i \in 1..n PROVE s[i].entry \in LongBands(from, upto)
    <3>1. from + i - 1 \in from..(upto - 1)
      BY <1>1
    <3> QED BY <1>4, <3>1 DEF LongBands
  <2>2. ASSUME NEW cb \in from..(upto - 1) PROVE \E i \in 1..n : s[i].entry = <<"l", cb>>
    <3> DEFINE i == cb - from + 1
    <3>1. i \in 1..n /\ from + i - 1 = cb
      BY <1>1
    <3> HIDE DEF i
    <3> QED BY <1>4, <3>1
  <2>3. ASSUME NEW e \in LongBands(from, upto) PROVE e \in {s[i].entry : i \in 1..n}
    <3>1. PICK cb \in from..(upto - 1) : e = <<"l", cb>>
      BY DEF LongBands
    <3> QED BY <2>2, <3>1
  <2> QED BY <2>1, <2>3
<1>7. Once(s)
  <2>1. ASSUME NEW i \in 1..n, NEW j \in 1..n, s[i].entry = s[j].entry PROVE i = j
    <3>1. <<"l", from + i - 1>> = <<"l", from + j - 1>>
      BY <1>4, <2>1
    <3>2. from + i - 1 = from + j - 1
      BY <3>1
    <3> QED BY <1>1, <3>2
  <2> QED BY <1>5, <2>1 DEF Once
<1>8. Lists(s, LongBands(from, upto), n)
  BY <1>3, <1>5, <1>6, <1>7 DEF Lists
<1> QED BY <1>8 DEF Long, s, n

LEMMA ShortLists ==
  ASSUME NEW from \in 0..13, NEW upto \in 0..13, from <= upto, NEW slen \in Slens
  PROVE  Lists(Short(from, upto, slen), Windows(from, upto), 3 * (upto - from))
<1> DEFINE n == 3 * (upto - from)
           cbOf(i) == from + ((i - 1) \div 3)
           s == [i \in 1..n |-> [entry |-> <<"s", cbOf(i), (i - 1) % 3>>, bits |-> slen]]
<1>1. n \in Nat
  OBVIOUS
<1>2. ASSUME NEW i \in 1..n
      PROVE  cbOf(i) \in from..(upto - 1) /\ (i - 1) % 3 \in 0..2 /\ i = 3 * (cbOf(i) - from) + ((i - 1) % 3) + 1
  OBVIOUS
<1>3. ASSUME NEW cb \in from..(upto - 1), NEW w \in 0..2
      PROVE  \E i \in 1..n : cbOf(i) = cb /\ (i - 1) % 3 = w
  <2> DEFINE i == 3 * (cb - from) + w + 1
  <2>1. i \in 1..n /\ i - 1 = 3 * (cb - from) + w
    OBVIOUS
  <2>2. (3 * (cb - from) + w) \div 3 = cb - from /\ (3 * (cb - from) + w) % 3 = w
    OBVIOUS
  <2>3. cbOf(i) = cb /\ (i - 1) % 3 = w
    BY <2>1, <2>2
  <2> HIDE DEF i
  <2> QED BY <2>1, <2>3
<1> HIDE DEF n, cbOf
<1>4. ASSUME NEW i \in 1..n PROVE [entry |-> <<"s", cbOf(i), (i - 1) % 3>>, bits |-> slen] \in FactorSteps
  <2>1. cbOf(i) \in 0..(13 - 1) /\ (i - 1) % 3 \in 0..2
    <3>1. cbOf(i) \in from..(upto - 1) /\ (i - 1) % 3 \in 0..2
      BY <1>2
    <3>2. from..(upto - 1) \subseteq 0..(13 - 1)
      OBVIOUS
    <3> QED BY <3>1, <3>2
  <2>2. <<"s", cbOf(i), (i - 1) % 3>> \in Windows(0, 13)
    BY <2>1 DEF Windows
  <2> QED BY <2>2 DEF FactorSteps, Slens
<1>5. s \in Seq(FactorSteps) /\ Len(s) = n
  BY <1>1, <1>4
<1>6. ASSUME NEW i \in 1..n PROVE s[i].bits = slen /\ s[i].entry = <<"s", cbOf(i), (i - 1) % 3>>
  OBVIOUS
<1> HIDE DEF s
<1>7. Filled(s) = 1..n
  BY <1>5, <1>6 DEF Filled, Cleared, Slens
<1>8. {s[i].entry : i \in 1..n} = Windows(from, upto)
  <2>1. ASSUME NEW i \in 1..n PROVE s[i].entry \in Windows(from, upto)
    <3>1. <<"s", cbOf(i), (i - 1) % 3>> \in Windows(from, upto)
      BY <1>2 DEF Windows
    <3> QED BY <1>6, <3>1
  <2>2. ASSUME NEW cb \in from..(upto - 1), NEW w \in 0..2 PROVE \E i \in 1..n : s[i].entry = <<"s", cb, w>>
    BY <1>3, <1>6
  <2>3. ASSUME NEW e \in Windows(from, upto) PROVE e \in {s[i].entry : i \in 1..n}
    <3>1. PICK cb \in from..(upto - 1), w \in 0..2 : e = <<"s", cb, w>>
      BY DEF Windows
    <3> QED BY <2>2, <3>1
  <2> QED BY <2>1, <2>3
<1>9. Once(s)
  <2>1. ASSUME NEW i \in 1..n, NEW j \in 1..n, s[i].entry = s[j].entry PROVE i = j
    <3>1. <<"s", cbOf(i), (i - 1) % 3>> = <<"s", cbOf(j), (j - 1) % 3>>
      BY <1>6, <2>1
    <3>2. cbOf(i) = cbOf(j) /\ (i - 1) % 3 = (j - 1) % 3
      BY <3>1
    <3> QED BY <1>2, <3>2
  <2> QED BY <1>7, <2>1 DEF Once
<1>10. Lists(s, Windows(from, upto), n)
  BY <1>5, <1>7, <1>8, <1>9 DEF Lists
<1>11. Short(from, upto, slen) = s
  BY DEF Short, s, n, cbOf
<1> QED BY <1>10, <1>11 DEF n

\* Bands that nothing is read for are cleared, and fill no entry.
LEMMA LastLists == Lists(LastLong, {}, 2) /\ Lists(LastShort, {}, 3)
<1> DEFINE l == [i \in 1..2 |-> [entry |-> <<"l", 21 + i - 1>>, bits |-> Cleared]]
           s == [i \in 1..3 |-> [entry |-> <<"s", 12 + ((i - 1) \div 3), (i - 1) % 3>>, bits |-> Cleared]]
<1>1. LastLong = l /\ LastShort = s
  <2>1. 23 - 21 = 2 /\ 3 * (13 - 12) = 3
    OBVIOUS
  <2> QED BY <2>1 DEF LastLong, LastShort, Long, Short
<1>2. Cleared \in -2..5
  BY DEF Cleared
<1>3. l \in Seq(FactorSteps) /\ Len(l) = 2
  <2>1. ASSUME NEW i \in 1..2 PROVE [entry |-> <<"l", 21 + i - 1>>, bits |-> Cleared] \in FactorSteps
    <3>1. 21 + i - 1 \in 0..(23 - 1)
      OBVIOUS
    <3> QED BY <1>2, <3>1 DEF FactorSteps, LongBands
  <2> QED BY <2>1
<1>4. s \in Seq(FactorSteps) /\ Len(s) = 3
  <2>1. ASSUME NEW i \in 1..3
        PROVE  [entry |-> <<"s", 12 + ((i - 1) \div 3), (i - 1) % 3>>, bits |-> Cleared] \in FactorSteps
    <3>1. 12 + ((i - 1) \div 3) \in 0..(13 - 1) /\ (i - 1) % 3 \in 0..2
      OBVIOUS
    <3>2. <<"s", 12 + ((i - 1) \div 3), (i - 1) % 3>> \in Windows(0, 13)
      BY <3>1 DEF Windows
    <3> QED BY <1>2, <3>2 DEF FactorSteps
  <2> QED BY <2>1
<1>5. Filled(l) = {} /\ Filled(s) = {}
  <2>1. \A i \in 1..2 : l[i].bits = Cleared
    OBVIOUS
  <2>2. \A i \in 1..3 : s[i].bits = Cleared
    OBVIOUS
  <2> HIDE DEF l, s
  <2> QED BY <1>3, <1>4, <2>1, <2>2 DEF Filled
<1> HIDE DEF l, s
<1> QED BY <1>1, <1>3, <1>4, <1>5 DEF Lists, Once

LEMMA LongBandsJoin ==
  ASSUME NEW a \in Int, NEW b \in Int, NEW c \in Int, a <= b, b <= c
  PROVE  LongBands(a, b) \cap LongBands(b, c) = {} /\ LongBands(a, b) \cup LongBands(b, c) = LongBands(a, c)
<1>1. ASSUME NEW x \in a..(b - 1), NEW y \in b..(c - 1) PROVE <<"l", x>> # <<"l", y>>
  OBVIOUS
<1>2. a..(c - 1) = (a..(b - 1)) \cup (b..(c - 1))
  OBVIOUS
<1> QED BY <1>1, <1>2, Zenon DEF LongBands

LEMMA WindowsJoin ==
  ASSUME NEW a \in Int, NEW b \in Int, NEW c \in Int, a <= b, b <= c
  PROVE  Windows(a, b) \cap Windows(b, c) = {} /\ Windows(a, b) \cup Windows(b, c) = Windows(a, c)
<1>1. a..(c - 1) = (a..(b - 1)) \cup (b..(c - 1))
  OBVIOUS
<1>2. Windows(a, b) \cap Windows(b, c) = {}
  <2>1. ASSUME NEW e \in Windows(a, b), e \in Windows(b, c) PROVE FALSE
    <3>1. PICK x \in a..(b - 1), v \in 0..2 : e = <<"s", x, v>>
      BY DEF Windows
    <3>2. PICK y \in b..(c - 1), w \in 0..2 : e = <<"s", y, w>>
      BY <2>1 DEF Windows
    <3>3. x = y
      BY <3>1, <3>2
    <3> QED BY <3>3
  <2> QED BY <2>1
<1>3. Windows(a, b) \cup Windows(b, c) = Windows(a, c)
  <2>1. ASSUME NEW e \in Windows(a, c) PROVE e \in Windows(a, b) \cup Windows(b, c)
    <3>1. PICK x \in a..(c - 1), w \in 0..2 : e = <<"s", x, w>>
      BY DEF Windows
    <3> QED BY <1>1, <3>1 DEF Windows
  <2>2. ASSUME NEW e \in Windows(a, b) \cup Windows(b, c) PROVE e \in Windows(a, c)
    <3>1. PICK x \in (a..(b - 1)) \cup (b..(c - 1)), w \in 0..2 : e = <<"s", x, w>>
      BY DEF Windows
    <3> QED BY <1>1, <3>1 DEF Windows
  <2> QED BY <2>1, <2>2
<1> QED BY <1>2, <1>3

LEMMA LongNotShort ==
  ASSUME NEW a, NEW b, NEW c, NEW d
  PROVE  LongBands(a, b) \cap Windows(c, d) = {}
<1>1. ASSUME NEW e \in LongBands(a, b), e \in Windows(c, d) PROVE FALSE
  <2>1. PICK x \in a..(b - 1) : e = <<"l", x>>
    BY DEF LongBands
  <2>2. PICK y \in c..(d - 1), w \in 0..2 : e = <<"s", y, w>>
    BY <1>1 DEF Windows
  <2> QED BY <2>1, <2>2
<1> QED BY <1>1

\* One group of bands after another.
Grown(n, b, c, m) == n \in Nat /\ m \in Nat /\ m = n + 3 * (c - b)
Up(a, b, top) == a \in 0..top /\ b \in 0..top /\ a <= b

LEMMA LongFirst ==
  ASSUME NEW n, Up(0, n, 23), NEW slen \in Slens
  PROVE  Lists(Long(0, n, slen), LongBands(0, n), n)
<1>1. 0 \in 0..23 /\ n \in 0..23 /\ 0 <= n /\ n - 0 = n
  BY DEF Up
<1>2. Lists(Long(0, n, slen), LongBands(0, n), n - 0)
  BY <1>1, LongLists, Zenon
<1> QED BY <1>1, <1>2, Zenon

LEMMA LongOn ==
  ASSUME NEW b, NEW c, Up(b, c, 23), NEW slen \in Slens, NEW s, Lists(s, LongBands(0, b), b)
  PROVE  Lists(s \o Long(b, c, slen), LongBands(0, c), c)
<1>1. b \in 0..23 /\ c \in 0..23 /\ b <= c /\ b \in Nat /\ c - b \in Nat /\ b + (c - b) = c
  BY DEF Up
<1>2. Lists(Long(b, c, slen), LongBands(b, c), c - b)
  BY <1>1, LongLists, Zenon
<1>3. LongBands(0, b) \cap LongBands(b, c) = {} /\ LongBands(0, b) \cup LongBands(b, c) = LongBands(0, c)
  <2>1. 0 \in Int /\ b \in Int /\ c \in Int /\ 0 <= b /\ b <= c
    BY <1>1
  <2> QED BY <2>1, LongBandsJoin, Zenon
<1>4. Lists(s \o Long(b, c, slen), LongBands(0, b) \cup LongBands(b, c), b + (c - b))
  BY <1>1, <1>2, <1>3, ListsConcat, Zenon
<1> QED BY <1>1, <1>3, <1>4, Zenon

LEMMA ShortFirst ==
  ASSUME NEW a, NEW b, Up(a, b, 13), NEW slen \in Slens, NEW n, Grown(0, a, b, n)
  PROVE  Lists(Short(a, b, slen), Windows(a, b), n)
<1>1. a \in 0..13 /\ b \in 0..13 /\ a <= b /\ n = 3 * (b - a)
  BY DEF Up, Grown
<1> QED BY <1>1, ShortLists

\* Behind long bands too, in a mixed block.
LEMMA ShortOn ==
  ASSUME NEW a, NEW b, NEW c, Up(a, b, 13), Up(b, c, 13), NEW slen \in Slens,
         NEW s, NEW E, \A x, y : E \cap Windows(x, y) = {}, NEW n, Lists(s, E \cup Windows(a, b), n),
         NEW m, Grown(n, b, c, m)
  PROVE  Lists(s \o Short(b, c, slen), E \cup Windows(a, c), m)
<1> DEFINE d == 3 * (c - b)
<1>1. b \in 0..13 /\ c \in 0..13 /\ b <= c /\ d \in Nat /\ n \in Nat /\ n + d = m
  BY DEF Up, Grown
<1>2. Lists(Short(b, c, slen), Windows(b, c), d)
  BY <1>1, ShortLists, Zenon
<1>3. Windows(a, b) \cap Windows(b, c) = {} /\ Windows(a, b) \cup Windows(b, c) = Windows(a, c)
  <2>1. a \in Int /\ b \in Int /\ c \in Int /\ a <= b /\ b <= c
    BY DEF Up
  <2> QED BY <2>1, WindowsJoin, Zenon
<1>4. /\ (E \cup Windows(a, b)) \cap Windows(b, c) = {}
      /\ (E \cup Windows(a, b)) \cup Windows(b, c) = E \cup Windows(a, c)
  BY <1>3
<1> HIDE DEF d
<1>5. Lists(s \o Short(b, c, slen), (E \cup Windows(a, b)) \cup Windows(b, c), n + d)
  BY <1>1, <1>2, <1>4, ListsConcat, Zenon
<1> QED BY <1>1, <1>4, <1>5, Zenon

LEMMA LastOn ==
  ASSUME NEW s, NEW E, NEW n \in Nat, Lists(s, E, n)
  PROVE  Lists(s \o LastLong, E, n + 2) /\ Lists(s \o LastShort, E, n + 3)
<1>1. 2 \in Nat /\ 3 \in Nat /\ E \cap {} = {} /\ E \cup {} = E
  OBVIOUS
<1>2. Lists(s \o LastLong, E \cup {}, n + 2) /\ Lists(s \o LastShort, E \cup {}, n + 3)
  BY <1>1, LastLists, ListsConcat, Zenon
<1> QED BY <1>1, <1>2, Zenon

LEMMA BandsAre ==
  ASSUME NEW version, NEW b
  PROVE  /\ ~b.short => BandsOf(version, b) = LongBands(0, 21)
         /\ b.short /\ ~b.mixedBlock => BandsOf(version, b) = Windows(0, 12)
         /\ b.short /\ b.mixedBlock /\ version = "mpeg1" => BandsOf(version, b) = LongBands(0, 8) \cup Windows(3, 12)
         /\ b.short /\ b.mixedBlock /\ version # "mpeg1" => BandsOf(version, b) = LongBands(0, 6) \cup Windows(3, 12)
<1>1. 21 - 1 = 20 /\ 12 - 1 = 11 /\ 8 - 1 = 7 /\ 6 - 1 = 5
  OBVIOUS
<1>2. LongBands(0, 21) = {<<"l", cb>> : cb \in 0..20}
  BY <1>1 DEF LongBands
<1>3. \A from : Windows(from, 12) = {<<"s", cb, w>> : cb \in from..11, w \in 0..2}
  BY <1>1 DEF Windows
<1>4. LongBands(0, 8) = {<<"l", cb>> : cb \in 0..7} /\ LongBands(0, 6) = {<<"l", cb>> : cb \in 0..5}
  BY <1>1 DEF LongBands
<1>5. CASE ~b.short
  BY <1>2, <1>5 DEF BandsOf
<1>6. CASE b.short /\ ~b.mixedBlock
  BY <1>3, <1>6 DEF BandsOf
<1>7. CASE b.short /\ b.mixedBlock
  <2>1. CASE version = "mpeg1"
    BY <1>3, <1>4, <1>7, <2>1 DEF BandsOf
  <2>2. CASE version # "mpeg1"
    BY <1>3, <1>4, <1>7, <2>2 DEF BandsOf
  <2> QED BY <2>1, <2>2
<1> QED BY <1>5, <1>6, <1>7

\* The bits of a block's scale factors fit into its first 40 bytes.
MaxFactors == 60
ListsBands(s, version, b) == \E n \in 0..MaxFactors : Lists(s, BandsOf(version, b), n)

LEMMA SFLenTabBound ==
  ASSUME NEW c \in 0..15
  PROVE  SFLenTab[c + 1][1] \in 0..5 /\ SFLenTab[c + 1][2] \in 0..5
BY DEF SFLenTab

\* What Blocks() says of each block.
Blk(b) == /\ b.short \in BOOLEAN /\ b.mixedBlock \in BOOLEAN /\ (b.mixedBlock => b.short)
          /\ b.sfCompress \in 0..511

LEMMA Factors1Lists ==
  ASSUME NEW sis, Blk(sis), sis.sfCompress \in 0..15, NEW gr \in 0..1, NEW scfsi \in [1..4 -> BOOLEAN]
  PROVE  ListsBands(UnpackSFMPEG1(sis, gr, scfsi), "mpeg1", sis)
<1> DEFINE slen0 == SFLenTab[sis.sfCompress + 1][1]
           slen1 == SFLenTab[sis.sfCompress + 1][2]
           len(i, slen) == IF scfsi[i] THEN Copied ELSE slen
<1>1. slen0 \in Slens /\ slen1 \in Slens
  <2>1. slen0 \in 0..5 /\ slen1 \in 0..5
    BY SFLenTabBound
  <2> HIDE DEF slen0, slen1
  <2> QED BY <2>1 DEF Slens
<1>2. /\ len(1, slen0) \in Slens /\ len(2, slen0) \in Slens
      /\ len(3, slen1) \in Slens /\ len(4, slen1) \in Slens
  <2> HIDE DEF slen0, slen1
  <2>1. Copied \in Slens
    BY DEF Copied, Slens
  <2> QED BY <1>1, <2>1
<1>3. /\ UnpackSFMPEG1(sis, gr, scfsi) =
           IF sis.short
           THEN ((IF sis.mixedBlock THEN Long(0, 8, slen0) \o Short(3, 6, slen0) ELSE Short(0, 6, slen0))
                  \o Short(6, 12, slen1)) \o LastShort
           ELSE IF gr = 0
           THEN Long(0, 11, slen0) \o Long(11, 21, slen1)
           ELSE (((Long(0, 6, len(1, slen0)) \o Long(6, 11, len(2, slen0))) \o Long(11, 16, len(3, slen1)))
                  \o Long(16, 21, len(4, slen1))) \o LastLong
  BY DEF UnpackSFMPEG1
<1> HIDE DEF slen0, slen1, len
<1>4. /\ Up(0, 6, 23) /\ Up(0, 8, 23) /\ Up(0, 11, 23) /\ Up(6, 11, 23) /\ Up(11, 16, 23) /\ Up(11, 21, 23)
      /\ Up(16, 21, 23)
  BY DEF Up
<1>5. Blk(sis) /\ sis.short \in BOOLEAN /\ sis.mixedBlock \in BOOLEAN
  BY DEF Blk
<1>6. /\ 21 \in 0..MaxFactors /\ 23 \in 0..MaxFactors /\ 39 \in 0..MaxFactors /\ 38 \in 0..MaxFactors
       /\ 21 \in Nat /\ 21 + 2 = 23 /\ 36 \in Nat /\ 36 + 3 = 39 /\ 35 \in Nat /\ 35 + 3 = 38
  BY DEF MaxFactors
<1>7. CASE ~sis.short /\ gr = 0
  <2>1. Lists(Long(0, 11, slen0), LongBands(0, 11), 11)
    BY <1>1, <1>4, LongFirst, Zenon
  <2>2. Lists(Long(0, 11, slen0) \o Long(11, 21, slen1), LongBands(0, 21), 21)
    BY <1>1, <2>1, <1>4, LongOn, Zenon
  <2>3. BandsOf("mpeg1", sis) = LongBands(0, 21)
    BY <1>7, <1>5, BandsAre
  <2>4. UnpackSFMPEG1(sis, gr, scfsi) = Long(0, 11, slen0) \o Long(11, 21, slen1)
    BY <1>3, <1>7
  <2>5. Lists(UnpackSFMPEG1(sis, gr, scfsi), BandsOf("mpeg1", sis), 21)
    BY <2>2, <2>3, <2>4
  <2> QED BY <1>6, <2>5 DEF ListsBands
<1>8. CASE ~sis.short /\ gr # 0
  <2> DEFINE s1 == Long(0, 6, len(1, slen0))
             s2 == s1 \o Long(6, 11, len(2, slen0))
             s3 == s2 \o Long(11, 16, len(3, slen1))
             s4 == s3 \o Long(16, 21, len(4, slen1))
  <2>1. Lists(s1, LongBands(0, 6), 6)
    BY <1>2, <1>4, LongFirst, Zenon
  <2> HIDE DEF s1
  <2>2. Lists(s2, LongBands(0, 11), 11)
    BY <1>2, <2>1, <1>4, LongOn, Zenon
  <2> HIDE DEF s2
  <2>3. Lists(s3, LongBands(0, 16), 16)
    BY <1>2, <2>2, <1>4, LongOn, Zenon
  <2> HIDE DEF s3
  <2>4. Lists(s4, LongBands(0, 21), 21)
    BY <1>2, <2>3, <1>4, LongOn, Zenon
  <2> HIDE DEF s4
  <2>5. Lists(s4 \o LastLong, LongBands(0, 21), 23)
    BY <1>6, <2>4, LastOn, Zenon
  <2>6. UnpackSFMPEG1(sis, gr, scfsi) = s4 \o LastLong
    BY <1>3, <1>8 DEF s4, s3, s2, s1
  <2>7. BandsOf("mpeg1", sis) = LongBands(0, 21)
    BY <1>8, <1>5, BandsAre
  <2>8. Lists(UnpackSFMPEG1(sis, gr, scfsi), BandsOf("mpeg1", sis), 23)
    BY <2>5, <2>6, <2>7
  <2> QED BY <1>6, <2>8 DEF ListsBands
<1>9. /\ Up(0, 6, 13) /\ Up(3, 6, 13) /\ Up(6, 12, 13)
       /\ Grown(0, 0, 6, 18) /\ Grown(0, 3, 6, 9) /\ Grown(18, 6, 12, 36) /\ Grown(17, 6, 12, 35)
       /\ 17 = 8 + 9 /\ 8 \in Nat /\ 9 \in Nat
  BY DEF Up, Grown
<1>10. CASE sis.short /\ ~sis.mixedBlock
  <2> DEFINE s1 == Short(0, 6, slen0)
             s2 == s1 \o Short(6, 12, slen1)
  <2>1. Lists(s1, Windows(0, 6), 18)
    BY <1>1, <1>9, ShortFirst
  <2>2. \A a, b : {} \cup Windows(a, b) = Windows(a, b) /\ {} \cap Windows(a, b) = {}
    OBVIOUS
  <2> HIDE DEF s1
  <2>3. Lists(s1, {} \cup Windows(0, 6), 18)
    BY <2>1, <2>2, Zenon
  <2>4. Lists(s2, {} \cup Windows(0, 12), 36)
    <3>1. Up(0, 6, 13) /\ Up(6, 12, 13) /\ Grown(18, 6, 12, 36) /\ slen1 \in Slens
      BY <1>1, <1>9
    <3> QED BY <2>2, <2>3, <3>1, ShortOn
  <2> HIDE DEF s2
  <2>5. Lists(s2, Windows(0, 12), 36)
    BY <2>2, <2>4, Zenon
  <2>6. Lists(s2 \o LastShort, Windows(0, 12), 39)
    BY <1>6, <2>5, LastOn, Zenon
  <2>7. UnpackSFMPEG1(sis, gr, scfsi) = s2 \o LastShort
    BY <1>3, <1>10 DEF s2, s1
  <2>8. BandsOf("mpeg1", sis) = Windows(0, 12)
    BY <1>10, BandsAre
  <2>9. Lists(UnpackSFMPEG1(sis, gr, scfsi), BandsOf("mpeg1", sis), 39)
    BY <2>6, <2>7, <2>8
  <2> QED BY <1>6, <2>9 DEF ListsBands
<1>11. CASE sis.short /\ sis.mixedBlock
  <2> DEFINE s0 == Long(0, 8, slen0)
             s1 == s0 \o Short(3, 6, slen0)
             s2 == s1 \o Short(6, 12, slen1)
  <2>1. Lists(s0, LongBands(0, 8), 8)
    BY <1>1, <1>4, LongFirst, Zenon
  <2> HIDE DEF s0
  <2>2. \A a, b : LongBands(0, 8) \cap Windows(a, b) = {}
    BY LongNotShort
  <2>3. Lists(s1, LongBands(0, 8) \cup Windows(3, 6), 17)
    <3>1. Lists(Short(3, 6, slen0), Windows(3, 6), 9)
      BY <1>1, <1>9, ShortFirst
    <3>2. Lists(s1, LongBands(0, 8) \cup Windows(3, 6), 8 + 9)
      BY <1>9, <2>1, <2>2, <3>1, ListsConcat, Zenon
    <3> HIDE DEF s1
    <3> QED BY <1>9, <3>2, Zenon
  <2> HIDE DEF s1
  <2>4. Lists(s2, LongBands(0, 8) \cup Windows(3, 12), 35)
    <3>1. Up(3, 6, 13) /\ Up(6, 12, 13) /\ Grown(17, 6, 12, 35) /\ slen1 \in Slens
      BY <1>1, <1>9
    <3> QED BY <2>2, <2>3, <3>1, ShortOn
  <2> HIDE DEF s2
  <2>5. Lists(s2 \o LastShort, LongBands(0, 8) \cup Windows(3, 12), 38)
    BY <1>6, <2>4, LastOn, Zenon
  <2>6. UnpackSFMPEG1(sis, gr, scfsi) = s2 \o LastShort
    BY <1>3, <1>11 DEF s2, s1, s0
  <2>7. BandsOf("mpeg1", sis) = LongBands(0, 8) \cup Windows(3, 12)
    BY <1>11, BandsAre, Zenon
  <2>8. Lists(UnpackSFMPEG1(sis, gr, scfsi), BandsOf("mpeg1", sis), 38)
    BY <2>5, <2>6, <2>7
  <2> QED BY <1>6, <2>8 DEF ListsBands
<1> QED BY <1>7, <1>8, <1>10, <1>11, <1>5

Lens(sis, right) == IF right THEN SlenIntensity(sis) ELSE SlenMPEG2(sis)

\* Lengths of up to five bits, and a row of the table.
LEMMA LensBound ==
  ASSUME NEW sis, sis.sfCompress \in 0..511, NEW right \in BOOLEAN
  PROVE  /\ Lens(sis, right).row \in 0..5
         /\ \A i \in 1..4 : Lens(sis, right).slen[i] \in Slens
<1> DEFINE c == sis.sfCompress
           d == sis.sfCompress \div 2
<1>1. c \in 0..511 /\ d \in 0..255
  OBVIOUS
<1> HIDE DEF c, d
<1>2. CASE ~right
  <2>1. CASE c < 400
    <3>1. (c \div 16) \div 5 \in 0..5 /\ (c \div 16) % 5 \in 0..5 /\ (c % 16) \div 4 \in 0..5 /\ c % 4 \in 0..5
      BY <1>1, <2>1
    <3>2. Lens(sis, right) = [slen |-> <<(c \div 16) \div 5, (c \div 16) % 5, (c % 16) \div 4, c % 4>>, row |-> 0]
      BY <1>2, <2>1 DEF Lens, SlenMPEG2, c
    <3> QED BY <3>1, <3>2 DEF Slens
  <2>2. CASE ~(c < 400) /\ c < 500
    <3>1. ((c - 400) \div 4) \div 5 \in 0..5 /\ ((c - 400) \div 4) % 5 \in 0..5 /\ c % 4 \in 0..5
      BY <1>1, <2>2
    <3>2. Lens(sis, right) = [slen |-> <<((c - 400) \div 4) \div 5, ((c - 400) \div 4) % 5, c % 4, 0>>, row |-> 1]
      BY <1>2, <2>2 DEF Lens, SlenMPEG2, c
    <3> QED BY <3>1, <3>2 DEF Slens
  <2>3. CASE ~(c < 500)
    <3> DEFINE a == (c - 500) \div 3
               b == (c - 500) % 3
    <3>1. a \in 0..5 /\ b \in 0..5
      BY <1>1, <2>3
    <3>2. Lens(sis, right) = [slen |-> IF sis.mixedBlock THEN <<a, a, b, 0>> ELSE <<a, b, 0, 0>>, row |-> 2]
      <4>1. ~(c < 400)
        BY <1>1, <2>3
      <4> QED BY <1>2, <2>3, <4>1 DEF Lens, SlenMPEG2, c
    <3> HIDE DEF a, b
    <3>3. CASE sis.mixedBlock
      BY <3>1, <3>2, <3>3 DEF Slens
    <3>4. CASE ~sis.mixedBlock
      BY <3>1, <3>2, <3>4 DEF Slens
    <3> QED BY <3>3, <3>4
  <2> QED BY <2>1, <2>2, <2>3
<1>3. CASE right
  <2>1. CASE d < 180
    <3>1. d \div 36 \in 0..5 /\ (d % 36) \div 6 \in 0..5 /\ (d % 36) % 6 \in 0..5
      BY <1>1, <2>1
    <3>2. Lens(sis, right) = [slen |-> <<d \div 36, (d % 36) \div 6, (d % 36) % 6, 0>>, row |-> 3]
      BY <1>3, <2>1 DEF Lens, SlenIntensity, d
    <3> QED BY <3>1, <3>2 DEF Slens
  <2>2. CASE ~(d < 180) /\ d < 244
    <3>1. ((d - 180) % 64) \div 16 \in 0..5 /\ ((d - 180) % 16) \div 4 \in 0..5 /\ (d - 180) % 4 \in 0..5
      BY <1>1, <2>2
    <3>2. Lens(sis, right) =
            [slen |-> <<((d - 180) % 64) \div 16, ((d - 180) % 16) \div 4, (d - 180) % 4, 0>>, row |-> 4]
      BY <1>3, <2>2 DEF Lens, SlenIntensity, d
    <3> QED BY <3>1, <3>2 DEF Slens
  <2>3. CASE ~(d < 244)
    <3>1. (d - 244) \div 3 \in 0..5 /\ (d - 244) % 3 \in 0..5 /\ ~(d < 180)
      BY <1>1, <2>3
    <3>2. Lens(sis, right) = [slen |-> <<(d - 244) \div 3, (d - 244) % 3, 0, 0>>, row |-> 5]
      BY <1>3, <2>3, <3>1 DEF Lens, SlenIntensity, d
    <3> QED BY <3>1, <3>2 DEF Slens
  <2> QED BY <2>1, <2>2, <2>3
<1> QED BY <1>2, <1>3

\* The groups of a row of the table hold every band.
Groups(nr) == nr[1] \in 0..21 /\ nr[2] \in 0..21 /\ nr[3] \in 0..21 /\ nr[4] \in 0..21

LEMMA NRTabRows ==
  ASSUME NEW row \in 0..5
  PROVE  /\ Groups(NRTab[row + 1][1]) /\ Groups(NRTab[row + 1][2]) /\ Groups(NRTab[row + 1][3])
         /\ LET nr == NRTab[row + 1][1] IN nr[1] + nr[2] + nr[3] + nr[4] = 21
         /\ LET nr == NRTab[row + 1][2] IN nr[1] + nr[2] + nr[3] + nr[4] = 12
         /\ LET nr == NRTab[row + 1][3] IN nr[2] + nr[3] + nr[4] = 9
<1>1. CASE row = 0
  BY <1>1 DEF NRTab, Groups
<1>2. CASE row = 1
  BY <1>2 DEF NRTab, Groups
<1>3. CASE row = 2
  BY <1>3 DEF NRTab, Groups
<1>4. CASE row = 3
  BY <1>4 DEF NRTab, Groups
<1>5. CASE row = 4
  BY <1>5 DEF NRTab, Groups
<1>6. CASE row = 5
  BY <1>6 DEF NRTab, Groups
<1> QED BY <1>1, <1>2, <1>3, <1>4, <1>5, <1>6

LEMMA Factors2Lists ==
  ASSUME NEW sis, Blk(sis), NEW right \in BOOLEAN
  PROVE  ListsBands(UnpackSFMPEG2(sis, right), "mpeg2", sis)
<1> DEFINE lens == Lens(sis, right)
           nr == NRTab[lens.row + 1][IF ~sis.short THEN 1 ELSE IF sis.mixedBlock THEN 3 ELSE 2]
           b1 == nr[1]
           b2 == nr[1] + nr[2]
           b3 == nr[1] + nr[2] + nr[3]
           b4 == nr[1] + nr[2] + nr[3] + nr[4]
           len(i) == lens.slen[i]
           sfb(i) == IF sis.mixedBlock THEN 3 + <<0, b1, b2, b3, b4>>[i] - b1 ELSE <<0, b1, b2, b3, b4>>[i]
           all == UnpackSFMPEG2(sis, right)
<1>1. len(1) \in Slens /\ len(2) \in Slens /\ len(3) \in Slens /\ len(4) \in Slens /\ lens.row \in 0..5
  BY LensBound DEF Blk
<1>2. sis.short \in BOOLEAN /\ sis.mixedBlock \in BOOLEAN /\ (sis.mixedBlock => sis.short)
  BY DEF Blk
<1>3. /\ Groups(nr)
      /\ ~sis.short => b4 = 21
      /\ sis.short /\ ~sis.mixedBlock => b4 = 12
      /\ sis.short /\ sis.mixedBlock => nr[2] + nr[3] + nr[4] = 9
  <2> HIDE DEF lens
  <2>1. /\ Groups(NRTab[lens.row + 1][1]) /\ Groups(NRTab[lens.row + 1][2]) /\ Groups(NRTab[lens.row + 1][3])
        /\ LET n == NRTab[lens.row + 1][1] IN n[1] + n[2] + n[3] + n[4] = 21
        /\ LET n == NRTab[lens.row + 1][2] IN n[1] + n[2] + n[3] + n[4] = 12
        /\ LET n == NRTab[lens.row + 1][3] IN n[2] + n[3] + n[4] = 9
    BY <1>1, NRTabRows
  <2>2. CASE ~sis.short
    BY <2>1, <2>2
  <2>3. CASE sis.short /\ ~sis.mixedBlock
    BY <2>1, <2>3
  <2>4. CASE sis.short /\ sis.mixedBlock
    BY <2>1, <2>4
  <2> QED BY <1>2, <2>2, <2>3, <2>4
<1>4. all = IF ~sis.short
            THEN (((Long(sfb(1), sfb(2), len(1)) \o Long(sfb(2), sfb(3), len(2))) \o Long(sfb(3), sfb(4), len(3)))
                   \o Long(sfb(4), sfb(5), len(4))) \o LastLong
            ELSE ((((IF sis.mixedBlock THEN Long(0, 6, len(1)) ELSE Short(sfb(1), sfb(2), len(1)))
                     \o Short(sfb(2), sfb(3), len(2))) \o Short(sfb(3), sfb(4), len(3)))
                   \o Short(sfb(4), sfb(5), len(4))) \o LastShort
  BY DEF UnpackSFMPEG2, Lens
<1> HIDE DEF lens, nr, len, all
<1>5. nr[1] \in 0..21 /\ nr[2] \in 0..21 /\ nr[3] \in 0..21 /\ nr[4] \in 0..21
  BY <1>3 DEF Groups
<1>6. CASE ~sis.short
  <2>1. /\ Up(0, b1, 23) /\ Up(b1, b2, 23) /\ Up(b2, b3, 23) /\ Up(b3, b4, 23) /\ b4 = 21
    <3>1. b4 = 21
      BY <1>3, <1>6
    <3> DEFINE n1 == nr[1]  n2 == nr[2]  n3 == nr[3]  n4 == nr[4]
    <3>2. n1 \in Nat /\ n2 \in Nat /\ n3 \in Nat /\ n4 \in Nat /\ n1 + n2 + n3 + n4 = 21
      BY <1>5, <3>1
    <3>3. b1 = n1 /\ b2 = n1 + n2 /\ b3 = n1 + n2 + n3
      OBVIOUS
    <3> HIDE DEF n1, n2, n3, n4, b1, b2, b3, b4
    <3> QED BY <3>1, <3>2, <3>3 DEF Up
  <2>2. sfb(1) = 0 /\ sfb(2) = b1 /\ sfb(3) = b2 /\ sfb(4) = b3 /\ sfb(5) = b4
    BY <1>2, <1>6
  <2> HIDE DEF b1, b2, b3, b4, sfb
  <2> DEFINE s1 == Long(0, b1, len(1))
             s2 == s1 \o Long(b1, b2, len(2))
             s3 == s2 \o Long(b2, b3, len(3))
             s4 == s3 \o Long(b3, b4, len(4))
  <2>3. Lists(s1, LongBands(0, b1), b1)
    BY <1>1, <2>1, LongFirst, Zenon
  <2> HIDE DEF s1
  <2>4. Lists(s2, LongBands(0, b2), b2)
    BY <1>1, <2>1, <2>3, LongOn, Zenon
  <2> HIDE DEF s2
  <2>5. Lists(s3, LongBands(0, b3), b3)
    BY <1>1, <2>1, <2>4, LongOn, Zenon
  <2> HIDE DEF s3
  <2>6. Lists(s4, LongBands(0, b4), b4)
    BY <1>1, <2>1, <2>5, LongOn, Zenon
  <2> HIDE DEF s4
  <2>7. 21 \in Nat /\ 21 + 2 = 23 /\ 23 \in 0..MaxFactors
    BY DEF MaxFactors
  <2>8. Lists(s4 \o LastLong, LongBands(0, 21), 23)
    BY <2>1, <2>6, <2>7, LastOn, Zenon
  <2>9. all = s4 \o LastLong
    BY <1>4, <1>6, <2>2 DEF s4, s3, s2, s1
  <2>10. BandsOf("mpeg2", sis) = LongBands(0, 21)
    BY <1>6, BandsAre
  <2>11. Lists(all, BandsOf("mpeg2", sis), 23)
    BY <2>8, <2>9, <2>10
  <2> QED BY <2>7, <2>11 DEF all, ListsBands
<1>7. CASE sis.short /\ ~sis.mixedBlock
  <2>1. /\ Up(0, b1, 13) /\ Up(b1, b2, 13) /\ Up(b2, b3, 13) /\ Up(b3, b4, 13) /\ b4 = 12
    <3>1. b4 = 12
      BY <1>3, <1>7
    <3> DEFINE n1 == nr[1]  n2 == nr[2]  n3 == nr[3]  n4 == nr[4]
    <3>2. n1 \in Nat /\ n2 \in Nat /\ n3 \in Nat /\ n4 \in Nat /\ n1 + n2 + n3 + n4 = 12
      BY <1>5, <3>1
    <3>3. b1 = n1 /\ b2 = n1 + n2 /\ b3 = n1 + n2 + n3
      OBVIOUS
    <3> HIDE DEF n1, n2, n3, n4, b1, b2, b3, b4
    <3> QED BY <3>1, <3>2, <3>3 DEF Up
  <2>2. sfb(1) = 0 /\ sfb(2) = b1 /\ sfb(3) = b2 /\ sfb(4) = b3 /\ sfb(5) = b4
    BY <1>7
  <2>3. /\ Grown(0, 0, b1, 3 * b1) /\ Grown(3 * b1, b1, b2, 3 * b2) /\ Grown(3 * b2, b2, b3, 3 * b3)
        /\ Grown(3 * b3, b3, b4, 3 * b4) /\ 3 * b4 = 36
    <3>1. b1 \in Nat /\ b2 \in Nat /\ b3 \in Nat /\ b4 = 12
      BY <1>5, <2>1
    <3> HIDE DEF b1, b2, b3, b4
    <3> QED BY <3>1 DEF Grown
  <2> HIDE DEF b1, b2, b3, b4, sfb
  <2> DEFINE s1 == Short(0, b1, len(1))
             s2 == s1 \o Short(b1, b2, len(2))
             s3 == s2 \o Short(b2, b3, len(3))
             s4 == s3 \o Short(b3, b4, len(4))
  <2>4. \A a, b : {} \cup Windows(a, b) = Windows(a, b) /\ {} \cap Windows(a, b) = {}
    OBVIOUS
  <2>5. Lists(s1, {} \cup Windows(0, b1), 3 * b1)
    <3>1. Lists(s1, Windows(0, b1), 3 * b1)
      BY <1>1, <2>1, <2>3, ShortFirst, Zenon
    <3> HIDE DEF s1
    <3> QED BY <2>4, <3>1, Zenon
  <2> HIDE DEF s1
  <2>6. Up(0, b2, 13) /\ Up(0, b3, 13)
    BY <2>1 DEF Up
  <2>7. Lists(s2, {} \cup Windows(0, b2), 3 * b2)
    BY <1>1, <2>1, <2>3, <2>4, <2>5, ShortOn
  <2> HIDE DEF s2
  <2>8. Lists(s3, {} \cup Windows(0, b3), 3 * b3)
    BY <1>1, <2>1, <2>3, <2>4, <2>7, <2>6, ShortOn
  <2> HIDE DEF s3
  <2>9. Lists(s4, {} \cup Windows(0, b4), 3 * b4)
    BY <1>1, <2>1, <2>3, <2>4, <2>8, <2>6, ShortOn
  <2> HIDE DEF s4
  <2>10. 36 \in Nat /\ 36 + 3 = 39 /\ 39 \in 0..MaxFactors
    BY DEF MaxFactors
  <2>11. Lists(s4, Windows(0, 12), 36)
    BY <2>1, <2>3, <2>4, <2>9, Zenon
  <2>12. Lists(s4 \o LastShort, Windows(0, 12), 39)
    BY <2>10, <2>11, LastOn, Zenon
  <2>13. all = s4 \o LastShort
    BY <1>4, <1>7, <2>2 DEF s4, s3, s2, s1
  <2>14. BandsOf("mpeg2", sis) = Windows(0, 12)
    BY <1>7, BandsAre
  <2>15. Lists(all, BandsOf("mpeg2", sis), 39)
    BY <2>12, <2>13, <2>14
  <2> QED BY <2>10, <2>15 DEF all, ListsBands
<1>8. CASE sis.short /\ sis.mixedBlock
  <2> DEFINE c2 == 3 + nr[2]
             c3 == 3 + nr[2] + nr[3]
  <2>1. /\ Up(3, 3, 13) /\ Up(3, c2, 13) /\ Up(c2, c3, 13) /\ Up(c3, 12, 13) /\ Up(3, c3, 13) /\ Up(0, 6, 23)
        /\ 3 + nr[2] + nr[3] + nr[4] = 12
    BY <1>3, <1>5, <1>8 DEF Up
  <2>2. sfb(2) = 3 /\ sfb(3) = c2 /\ sfb(4) = c3 /\ sfb(5) = 12
    <3>1. sfb(2) = 3 + b1 - b1 /\ sfb(3) = 3 + b2 - b1 /\ sfb(4) = 3 + b3 - b1 /\ sfb(5) = 3 + b4 - b1
      BY <1>8
    <3> DEFINE n1 == nr[1]  n2 == nr[2]  n3 == nr[3]  n4 == nr[4]
    <3>2. n1 \in Nat /\ n2 \in Nat /\ n3 \in Nat /\ n4 \in Nat /\ 3 + n2 + n3 + n4 = 12
      BY <1>5, <2>1
    <3>3. /\ b1 = n1 /\ b2 = n1 + n2 /\ b3 = n1 + n2 + n3 /\ b4 = n1 + n2 + n3 + n4
          /\ c2 = 3 + n2 /\ c3 = 3 + n2 + n3
      OBVIOUS
    <3> HIDE DEF sfb, n1, n2, n3, n4, b1, b2, b3, b4, c2, c3
    <3> QED BY <3>1, <3>2, <3>3
  <2> DEFINE n2 == 6 + 3 * (c2 - 3)
             n3 == n2 + 3 * (c3 - c2)
             n4 == n3 + 3 * (12 - c3)
  <2>3. /\ Grown(6, 3, c2, n2) /\ Grown(n2, c2, c3, n3) /\ Grown(n3, c3, 12, n4)
        /\ n4 = 33 /\ 33 \in Nat /\ 33 + 3 = 36 /\ 36 \in 0..MaxFactors
    <3>1. c2 \in 3..12 /\ c3 \in c2..12
      BY <1>5, <2>1
    <3> HIDE DEF c2, c3
    <3> QED BY <3>1 DEF MaxFactors, Grown
  <2> HIDE DEF b1, b2, b3, b4, sfb, c2, c3
  <2> DEFINE s1 == Long(0, 6, len(1))
             s2 == s1 \o Short(3, c2, len(2))
             s3 == s2 \o Short(c2, c3, len(3))
             s4 == s3 \o Short(c3, 12, len(4))
             E == LongBands(0, 6)
  <2>4. \A a, b : E \cap Windows(a, b) = {}
    BY LongNotShort
  <2>5. Lists(s1, E \cup Windows(3, 3), 6)
    <3>1. Lists(s1, E, 6)
      BY <1>1, <2>1, LongFirst, Zenon
    <3>2. Windows(3, 3) = {}
      BY DEF Windows
    <3>3. E \cup Windows(3, 3) = E
      BY <3>2
    <3> HIDE DEF s1, E
    <3> QED BY <3>1, <3>3, Zenon
  <2> HIDE DEF s1, E, n2, n3, n4
  <2>6. Lists(s2, E \cup Windows(3, c2), n2)
    BY <1>1, <2>1, <2>3, <2>4, <2>5, ShortOn
  <2> HIDE DEF s2
  <2>7. Lists(s3, E \cup Windows(3, c3), n3)
    BY <1>1, <2>1, <2>3, <2>4, <2>6, ShortOn
  <2> HIDE DEF s3
  <2>8. Lists(s4, E \cup Windows(3, 12), n4)
    BY <1>1, <2>1, <2>3, <2>4, <2>7, ShortOn
  <2> HIDE DEF s4
  <2>9. Lists(s4 \o LastShort, E \cup Windows(3, 12), 36)
    BY <2>3, <2>8, LastOn, Zenon
  <2>10. all = s4 \o LastShort
    BY <1>4, <1>8, <2>2 DEF s4, s3, s2, s1
  <2>11. BandsOf("mpeg2", sis) = E \cup Windows(3, 12)
    <3>1. "mpeg2" # "mpeg1"
      OBVIOUS
    <3> QED BY <1>8, <3>1, BandsAre, Zenon DEF E
  <2>12. Lists(all, BandsOf("mpeg2", sis), 36)
    BY <2>9, <2>10, <2>11
  <2> QED BY <2>3, <2>12 DEF all, ListsBands
<1> QED BY <1>2, <1>6, <1>7, <1>8

----------------------------------------------------------------------------
(* The invariant of the reader.                                            *)

DrawsIInv ==
  /\ toRead = <<>> /\ drawn \in Nat /\ length \in Nat /\ Reads(bsi, drawn, length)
  /\ \E before \in Nat, n \in 0..31 : drawn = before + n /\ fields = Bits(before, n, length)

\* Nothing was unpacked yet.
Idle == length = 0 /\ drawn = 0 /\ toRead = <<>> /\ fields = <<>>

SideIInv ==
  \/ Idle
  \/ /\ length \in Nat /\ drawn \in Nat /\ Reads(bsi, drawn, length)
     /\ fields = Following(0, drawn)
     /\ \E remaining : Sums(toRead, remaining) /\ drawn + remaining = 8 * length

\* A factor has five bits at most, so that the reader never comes to the end of the buffer.
FactorsIInv ==
  \/ Idle
  \/ /\ length = 40 /\ drawn \in Nat /\ toRead \in Seq(0..5) /\ drawn + 5 * Len(toRead) <= 7 + 5 * MaxFactors
     /\ ListsBands(block.steps, block.version, block.of)
     /\ \E size \in Nat, bitOffset \in 0..7 :
          /\ size >= 40 /\ Reads(bsi, drawn, size) /\ drawn >= bitOffset
          /\ fields = Following(bitOffset, drawn - bitOffset)

\* The reader stands behind the bits that were read, and those to come are in the buffer.
ReaderIInv ==
  /\ reading \in {"draws", "side", "factors"}
  /\ reading = "draws" => DrawsIInv
  /\ reading = "side" => SideIInv
  /\ reading = "factors" => FactorsIInv

\* A reader of a new buffer.
LEMMA StartReads ==
  ASSUME NEW nBytes \in Nat
  PROVE  Reads(SetBitstreamPointer(nBytes, 0), 0, nBytes)
<1> DEFINE r == SetBitstreamPointer(nBytes, 0)
<1>1. r.bytePtr = 0 /\ r.iCache = EmptyCache /\ r.cachedBits = 0 /\ r.nBytes = nBytes
  BY DEF SetBitstreamPointer
<1> HIDE DEF r
<1>2. Standing(0, EmptyCache, 0, nBytes, 0, nBytes)
  BY DEF Standing, EmptyCache
<1> QED BY <1>1, <1>2, Zenon DEF Reads, r

LEMMA ReaderInitIInv == ReaderInit => ReaderIInv
<1> SUFFICES ASSUME ReaderInit PROVE ReaderIInv
  OBVIOUS
<1>1. length \in Nat /\ Reads(bsi, 0, length) /\ drawn = 0 /\ toRead = <<>> /\ fields = <<>>
  <2>1. length \in Nat
    <3>1. length \in ReaderBytes \/ length = 0
      BY DEF ReaderInit
    <3>2. ReaderBytes \subseteq Nat
      BY ReaderAssumption
    <3>3. 0 \in Nat
      OBVIOUS
    <3> QED BY <3>1, <3>2, <3>3, Zenon
  <2> QED BY <2>1, StartReads DEF ReaderInit
<1>2. CASE reading = "draws"
  <2>1. fields = Bits(0, 0, length)
    BY <1>1 DEF Bits
  <2>2. 0 \in Nat /\ 0 \in 0..31 /\ drawn = 0 + 0
    BY <1>1
  <2>3. DrawsIInv
    BY <1>1, <2>1, <2>2 DEF DrawsIInv
  <2> QED BY <1>2, <2>3 DEF ReaderIInv
<1>3. CASE reading \in {"side", "factors"} /\ length = 0
  <2>1. Idle
    BY <1>1, <1>3 DEF Idle
  <2> QED BY <1>3, <2>1 DEF ReaderIInv, SideIInv, FactorsIInv
<1> QED BY <1>2, <1>3 DEF ReaderInit

LEMMA DrawIInv == ReaderIInv /\ Draw => ReaderIInv'
<1> SUFFICES ASSUME ReaderIInv, Draw PROVE ReaderIInv'
  OBVIOUS
<1>1. reading = "draws" /\ reading' = "draws" /\ DrawsIInv
  BY DEF Draw, ReaderIInv
<1>2. PICK n \in Draws : bsi' = GetBits(bsi, n).bsi /\ drawn' = drawn + n /\ fields' = GetBits(bsi, n).data
  BY DEF Draw
<1>3. /\ n \in 0..31 /\ drawn \in Nat /\ length \in Nat
      /\ length' = length /\ toRead' = <<>> /\ Reads(bsi, drawn, length)
  BY <1>1, ReaderAssumption DEF Draw, DrawsIInv
<1>4. fields' = Bits(drawn, n, length') /\ Reads(bsi', drawn + n, length')
  <2>1. n \in Nat /\ n <= 31
    BY <1>3
  <2> QED BY <1>2, <1>3, <2>1, GetBitsReads
<1>5. drawn' \in Nat /\ drawn' = drawn + n
  BY <1>2, <1>3
<1>6. DrawsIInv'
  BY <1>2, <1>3, <1>4, <1>5 DEF DrawsIInv
<1> QED BY <1>1, <1>6 DEF ReaderIInv

LEMMA SideActionIInv == ReaderIInv /\ Side => ReaderIInv'
<1> SUFFICES ASSUME ReaderIInv, Side PROVE ReaderIInv'
  OBVIOUS
<1>1. reading = "side" /\ reading' = "side" /\ SideIInv /\ length = 0
  BY DEF Side, ReaderIInv
<1>2. PICK isMpeg1 \in BOOLEAN, mono \in BOOLEAN :
        \E switches \in [1..Subblocks(isMpeg1, mono) -> BOOLEAN] :
          /\ length' = SideBytes(isMpeg1, mono)
          /\ toRead' = UnpackSideInfo(isMpeg1, mono, switches)
          /\ bsi' = SetBitstreamPointer(SideBytes(isMpeg1, mono), 0)
  BY DEF Side
<1>3. PICK switches \in [1..Subblocks(isMpeg1, mono) -> BOOLEAN] :
          /\ length' = SideBytes(isMpeg1, mono)
          /\ toRead' = UnpackSideInfo(isMpeg1, mono, switches)
          /\ bsi' = SetBitstreamPointer(SideBytes(isMpeg1, mono), 0)
  BY <1>2
<1>4. SideBytes(isMpeg1, mono) \in Nat
  BY DEF SideBytes
<1>5. drawn' = 0 /\ fields' = <<>>
  <2>1. drawn' = drawn /\ fields' = fields
    BY DEF Side
  <2>2. CASE Idle
    BY <2>1, <2>2 DEF Idle
  <2>3. CASE ~Idle
    <3>1. PICK remaining : Sums(toRead, remaining) /\ drawn + remaining = 8 * length
      BY <1>1, <2>3 DEF SideIInv
    <3>2. drawn \in Nat /\ fields = Following(0, drawn) /\ remaining \in Nat
      BY <1>1, <2>3, <3>1, SumsTotal DEF SideIInv
    <3>3. drawn = 0
      BY <1>1, <3>1, <3>2
    <3>4. Following(0, 0) = <<>>
      BY DEF Following
    <3> QED BY <2>1, <3>2, <3>3, <3>4
  <2> QED BY <2>2, <2>3
<1>6. Reads(bsi', drawn', length')
  BY <1>3, <1>4, <1>5, StartReads
<1>7. Sums(toRead', 8 * length')
  BY <1>3, SideInfoSums
<1>8. fields' = Following(0, drawn')
  BY <1>5 DEF Following
<1>9. drawn' + 8 * length' = 8 * length' /\ drawn' \in Nat /\ length' \in Nat
  BY <1>3, <1>4, <1>5
<1>10. SideIInv'
  BY <1>6, <1>7, <1>8, <1>9 DEF SideIInv
<1> QED BY <1>1, <1>10 DEF ReaderIInv

\* A block of the stream: which factors its steps fill.
LEMMA StepsList ==
  ASSUME NEW s \in Steps
  PROVE  ListsBands(s.steps, s.version, s.of)
<1>1. ASSUME NEW codes, codes \subseteq 0..511, NEW b \in Blocks(codes) PROVE Blk(b) /\ b.sfCompress \in codes
  BY <1>1 DEF Blocks, Blk
<1>2. CASE \E b \in Blocks(FactorCodes \cap 0..15), gr \in 0..1, scfsi \in [1..4 -> BOOLEAN] :
             s = [version |-> "mpeg1", of |-> b, steps |-> UnpackSFMPEG1(b, gr, scfsi)]
  <2>1. PICK b \in Blocks(FactorCodes \cap 0..15), gr \in 0..1, scfsi \in [1..4 -> BOOLEAN] :
          s = [version |-> "mpeg1", of |-> b, steps |-> UnpackSFMPEG1(b, gr, scfsi)]
    BY <1>2
  <2>2. FactorCodes \cap 0..15 \subseteq 0..511
    BY ReaderAssumption
  <2>3. Blk(b) /\ b.sfCompress \in 0..15
    BY <1>1, <2>2
  <2>4. ListsBands(UnpackSFMPEG1(b, gr, scfsi), "mpeg1", b)
    BY <2>3, Factors1Lists
  <2> QED BY <2>1, <2>4
<1>3. CASE \E b \in Blocks(FactorCodes), right \in BOOLEAN :
             s = [version |-> "mpeg2", of |-> b, steps |-> UnpackSFMPEG2(b, right)]
  <2>1. PICK b \in Blocks(FactorCodes), right \in BOOLEAN :
          s = [version |-> "mpeg2", of |-> b, steps |-> UnpackSFMPEG2(b, right)]
    BY <1>3
  <2>2. Blk(b)
    BY <1>1, ReaderAssumption
  <2>3. ListsBands(UnpackSFMPEG2(b, right), "mpeg2", b)
    BY <2>2, Factors2Lists
  <2> QED BY <2>1, <2>3
<1> QED BY <1>2, <1>3 DEF Steps

\* The reader of scale factors starts behind the bits of the byte that were read before.
LEMMA ReaderAtReads ==
  ASSUME NEW bitOffset \in 0..7
  PROVE  \E size \in Nat : size >= 40 /\ Reads(ReaderAt(0, bitOffset, 8 * 40), bitOffset, size)
<1> DEFINE size == (8 * 40 + bitOffset + 7) \div 8
           start == SetBitstreamPointer(size, 0)
<1>1. size \in Nat /\ size >= 40
  OBVIOUS
<1>2. ReaderAt(0, bitOffset, 8 * 40) = IF bitOffset > 0 THEN GetBits(start, bitOffset).bsi ELSE start
  BY DEF ReaderAt
<1> HIDE DEF size
<1>3. Reads(start, 0, size)
  BY <1>1, StartReads
<1> HIDE DEF start
<1>4. CASE bitOffset > 0
  <2>1. bitOffset \in Nat /\ bitOffset <= 31 /\ 0 \in Nat /\ 0 + bitOffset = bitOffset
    OBVIOUS
  <2>2. Reads(GetBits(start, bitOffset).bsi, 0 + bitOffset, size)
    BY <1>1, <1>3, <2>1, GetBitsReads, Zenon
  <2> QED BY <1>1, <1>2, <1>4, <2>1, <2>2
<1>5. CASE ~(bitOffset > 0)
  <2>1. bitOffset = 0
    BY <1>5
  <2> QED BY <1>1, <1>2, <1>3, <1>5, <2>1
<1> QED BY <1>4, <1>5

LEMMA FactorsActionIInv == ReaderIInv /\ Factors => ReaderIInv'
<1> SUFFICES ASSUME ReaderIInv, Factors PROVE ReaderIInv'
  OBVIOUS
<1>1. /\ reading = "factors" /\ reading' = "factors" /\ FactorsIInv
      /\ length = 0 /\ length' = 40 /\ fields' = fields
  BY DEF Factors, ReaderIInv
<1>2. PICK s \in Steps, bitOffset \in FactorOffsets :
        /\ block' = s
        /\ toRead' = [i \in DOMAIN s.steps |-> BitsRead(s.steps[i])]
        /\ bsi' = ReaderAt(0, bitOffset, 8 * 40)
        /\ drawn' = bitOffset
  BY DEF Factors
<1>3. bitOffset \in 0..7
  BY ReaderAssumption
<1>4. ListsBands(block'.steps, block'.version, block'.of)
  BY <1>2, StepsList
<1>5. PICK n \in 0..MaxFactors : s.steps \in Seq(FactorSteps) /\ Len(s.steps) = n
  BY StepsList DEF ListsBands, Lists
<1>6. toRead' \in Seq(0..5) /\ Len(toRead') = n
  <2>1. DOMAIN s.steps = 1..n /\ n \in Nat
    BY <1>5 DEF MaxFactors
  <2>2. ASSUME NEW i \in 1..n PROVE BitsRead(s.steps[i]) \in 0..5
    <3>1. s.steps[i] \in FactorSteps
      BY <1>5, <2>2, ElementOfSeq
    <3>2. s.steps[i].bits \in -2..5
      BY <3>1 DEF FactorSteps
    <3> QED BY <3>2 DEF BitsRead
  <2>3. toRead' = [i \in 1..n |-> BitsRead(s.steps[i])]
    BY <1>2, <2>1
  <2> QED BY <2>1, <2>2, <2>3
<1>7. fields = <<>>
  BY <1>1 DEF FactorsIInv, Idle
<1>8. PICK size \in Nat : size >= 40 /\ Reads(bsi', drawn', size)
  BY <1>2, <1>3, ReaderAtReads
<1>9. drawn' = bitOffset /\ drawn' \in Nat /\ drawn' >= bitOffset /\ drawn' - bitOffset = 0
      /\ drawn' + 5 * Len(toRead') <= 7 + 5 * MaxFactors
  BY <1>2, <1>3, <1>5, <1>6 DEF MaxFactors
<1>10. fields' = Following(bitOffset, drawn' - bitOffset)
  BY <1>1, <1>7, <1>9 DEF Following
<1>11. FactorsIInv'
  BY <1>1, <1>3, <1>4, <1>6, <1>8, <1>9, <1>10 DEF FactorsIInv
<1> QED BY <1>1, <1>11 DEF ReaderIInv

LEMMA ReadFieldIInv == ReaderIInv /\ ReadField => ReaderIInv'
<1> SUFFICES ASSUME ReaderIInv, ReadField PROVE ReaderIInv'
  OBVIOUS
<1> DEFINE n == Head(toRead)
           g == GetBits(bsi, n)
<1>1. /\ toRead # <<>> /\ bsi' = g.bsi /\ fields' = fields \o g.data /\ drawn' = drawn + n
      /\ toRead' = Tail(toRead) /\ reading' = reading /\ length' = length /\ block' = block
  BY DEF ReadField
<1> HIDE DEF n, g
<1>2. reading # "draws"
  BY <1>1 DEF ReaderIInv, DrawsIInv
<1>3. ~Idle
  BY <1>1 DEF Idle
<1>4. CASE reading = "side"
  <2>1. length \in Nat /\ drawn \in Nat /\ Reads(bsi, drawn, length) /\ fields = Following(0, drawn)
    BY <1>3, <1>4 DEF ReaderIInv, SideIInv
  <2>2. PICK remaining : Sums(toRead, remaining) /\ drawn + remaining = 8 * length
    BY <1>3, <1>4 DEF ReaderIInv, SideIInv
  <2>3. n \in 0..31 /\ n <= remaining /\ Sums(toRead', remaining - n) /\ remaining \in Nat
    BY <1>1, <2>2, SumsTail, SumsTotal DEF n
  <2>4. n \in Nat /\ n <= 31
    BY <2>3
  <2>5. g.data = Bits(drawn, n, length) /\ Reads(bsi', drawn + n, length)
    BY <1>1, <2>1, <2>4, GetBitsReads DEF g
  <2>6. n \in Nat /\ 0 \in Nat /\ 0 + drawn = drawn /\ drawn + n <= 8 * length /\ drawn + n \in Nat
    BY <2>1, <2>2, <2>3
  <2>7. Joined(Following(0, drawn), Bits(drawn, n, length)) = Following(0, drawn + n)
    <3>1. Makes(0, drawn, drawn) /\ Makes(drawn, n, drawn + n)
      BY <2>6 DEF Makes
    <3> QED BY <2>1, <2>6, <3>1, FollowingOn
  <2>8. fields' = Following(0, drawn')
    BY <1>1, <2>1, <2>5, <2>6, <2>7, Zenon DEF Joined
  <2>9. drawn' \in Nat /\ drawn' + (remaining - n) = 8 * length'
    BY <1>1, <2>1, <2>2, <2>3
  <2>10. Reads(bsi', drawn', length') /\ length' \in Nat
    BY <1>1, <2>1, <2>5
  <2>11. SideIInv'
    BY <2>3, <2>8, <2>9, <2>10 DEF SideIInv
  <2> QED BY <1>1, <1>4, <2>11 DEF ReaderIInv
<1>5. CASE reading = "factors"
  <2>1. /\ length = 40 /\ drawn \in Nat /\ toRead \in Seq(0..5)
        /\ drawn + 5 * Len(toRead) <= 7 + 5 * MaxFactors
        /\ ListsBands(block.steps, block.version, block.of)
    BY <1>3, <1>5 DEF ReaderIInv, FactorsIInv
  <2>2. PICK size \in Nat, bitOffset \in 0..7 :
          /\ size >= 40 /\ Reads(bsi, drawn, size) /\ drawn >= bitOffset
          /\ fields = Following(bitOffset, drawn - bitOffset)
    BY <1>3, <1>5 DEF ReaderIInv, FactorsIInv
  <2>3. /\ Len(toRead) \in Nat /\ Len(toRead) >= 1 /\ toRead' \in Seq(0..5) /\ Len(toRead') = Len(toRead) - 1
        /\ n = toRead[1]
    BY <1>1, <2>1, EmptySeq DEF n
  <2>4. n \in 0..5
    <3>1. 1 \in 1..Len(toRead)
      BY <2>3
    <3> QED BY <2>1, <2>3, <3>1, ElementOfSeq
  <2>5. n <= 31 /\ n \in Nat
    BY <2>4
  <2>6. g.data = Bits(drawn, n, size) /\ Reads(bsi', drawn + n, size)
    BY <1>1, <2>1, <2>2, <2>5, GetBitsReads DEF g
  <2> DEFINE m == drawn - bitOffset
  <2>7. m \in Nat /\ bitOffset \in Nat /\ bitOffset + m = drawn /\ m + n = (drawn + n) - bitOffset
    BY <2>1, <2>2, <2>5
  <2> HIDE DEF m
  <2> DEFINE len == Len(toRead)
  <2>8. /\ len \in Nat /\ len >= 1 /\ Len(toRead') = len - 1
        /\ drawn + 5 * len <= 307 /\ 7 + 5 * MaxFactors = 307
    BY <2>1, <2>3 DEF MaxFactors
  <2> HIDE DEF len
  <2>9. drawn + n <= 8 * size /\ m + n \in Nat
    BY <2>1, <2>2, <2>4, <2>7, <2>8
  <2>10. Joined(Following(bitOffset, m), Bits(drawn, n, size)) = Following(bitOffset, m + n)
    <3> DEFINE total == m + n
    <3>1. total \in Nat /\ Makes(m, n, total)
      BY <2>9 DEF Makes
    <3>2. Makes(bitOffset, m, drawn) /\ m \in Nat /\ bitOffset \in Nat /\ drawn \in Nat /\ size \in Nat
      BY <2>1, <2>7 DEF Makes
    <3>3. n \in Nat /\ drawn + n <= 8 * size
      BY <2>5, <2>9
    <3> HIDE DEF total
    <3>4. Joined(Following(bitOffset, m), Bits(drawn, n, size)) = Following(bitOffset, total)
      BY <3>1, <3>2, <3>3, FollowingOn
    <3> QED BY <3>4 DEF total
  <2>11. fields = Following(bitOffset, m)
    BY <2>2 DEF m
  <2>12. fields' = Following(bitOffset, drawn' - bitOffset)
    BY <1>1, <2>6, <2>7, <2>10, <2>11 DEF Joined
  <2>13. drawn' \in Nat /\ drawn' >= bitOffset /\ drawn' + 5 * Len(toRead') <= 7 + 5 * MaxFactors
    BY <1>1, <2>1, <2>2, <2>4, <2>8
  <2>14. Reads(bsi', drawn', size)
    BY <1>1, <2>6
  <2>15. ListsBands(block'.steps, block'.version, block'.of) /\ length' = 40
    BY <1>1, <2>1
  <2>16. FactorsIInv'
    BY <2>2, <2>3, <2>12, <2>13, <2>14, <2>15 DEF FactorsIInv
  <2> QED BY <1>1, <1>5, <2>16 DEF ReaderIInv
<1> QED BY <1>2, <1>4, <1>5 DEF ReaderIInv

LEMMA ReaderStep == ReaderIInv /\ [ReaderNext]_readerVars => ReaderIInv'
<1> SUFFICES ASSUME ReaderIInv, [ReaderNext]_readerVars PROVE ReaderIInv'
  OBVIOUS
<1>1. CASE Draw
  BY <1>1, DrawIInv
<1>2. CASE Side
  BY <1>2, SideActionIInv
<1>3. CASE Factors
  BY <1>3, FactorsActionIInv
<1>4. CASE ReadField
  BY <1>4, ReadFieldIInv
<1>5. CASE UNCHANGED readerVars
  BY <1>5 DEF ReaderIInv, DrawsIInv, SideIInv, FactorsIInv, Idle, readerVars
<1> QED BY <1>1, <1>2, <1>3, <1>4, <1>5 DEF ReaderNext

\* CalcBitsUsed() counts what was read.
LEMMA UsedUp ==
  ASSUME NEW r, NEW at \in Nat, NEW size, Reads(r, at, size), NEW offset \in Nat
  PROVE  CalcBitsUsed(r, 0, offset) + offset = at /\ (offset = 0 => CalcBitsUsed(r, 0, offset) = at)
<1> DEFINE p == r.bytePtr
           b == r.cachedBits
<1>1. p \in Nat /\ b \in Int /\ 8 * p = at + b
  BY DEF Reads, Standing
<1>2. CalcBitsUsed(r, 0, offset) = (p - 0) * 8 - b - offset
  BY DEF CalcBitsUsed
<1> HIDE DEF p, b
<1>3. (p - 0) * 8 - b - offset = at - offset
  BY <1>1
<1> QED BY <1>2, <1>3

LEMMA DrawnOrder == ReaderIInv => DrawnInOrder
<1> SUFFICES ASSUME ReaderIInv, reading = "draws"
             PROVE  LET before == drawn - Len(fields)
                    IN /\ \A k \in DOMAIN fields :
                            fields[k] = IF before + k <= 8 * length THEN before + k ELSE NoBit
                       /\ CalcBitsUsed(bsi, 0, 0) = drawn
  BY DEF DrawnInOrder
<1>1. drawn \in Nat /\ length \in Nat /\ Reads(bsi, drawn, length)
  BY DEF ReaderIInv, DrawsIInv
<1>2. PICK before \in Nat, n \in 0..31 : drawn = before + n /\ fields = Bits(before, n, length)
  BY DEF ReaderIInv, DrawsIInv
<1>3. Len(fields) = n /\ DOMAIN fields = 1..n /\ drawn - Len(fields) = before
  BY <1>1, <1>2 DEF Bits
<1>4. \A k \in 1..n : fields[k] = IF before + k <= 8 * length THEN before + k ELSE NoBit
  BY <1>2 DEF Bits
<1>5. CalcBitsUsed(bsi, 0, 0) = drawn
  BY <1>1, UsedUp
<1> QED BY <1>3, <1>4, <1>5

LEMMA SideOrder == ReaderIInv => SideWhole
<1> SUFFICES ASSUME ReaderIInv, reading = "side", length > 0, toRead = <<>>
             PROVE  fields = Following(0, 8 * length) /\ CalcBitsUsed(bsi, 0, 0) = 8 * length
  BY DEF SideWhole
<1>1. ~Idle
  BY DEF Idle
<1>2. length \in Nat /\ drawn \in Nat /\ Reads(bsi, drawn, length) /\ fields = Following(0, drawn)
  BY <1>1 DEF ReaderIInv, SideIInv
<1>3. PICK remaining : Sums(toRead, remaining) /\ drawn + remaining = 8 * length
  BY <1>1 DEF ReaderIInv, SideIInv
<1>4. remaining = 0
  BY <1>3, SumsTotal
<1>5. drawn = 8 * length
  BY <1>2, <1>3, <1>4
<1>6. CalcBitsUsed(bsi, 0, 0) = drawn
  BY <1>2, UsedUp
<1> QED BY <1>2, <1>5, <1>6

LEMMA FactorsOrder == ReaderIInv => FactorsFilled
<1> DEFINE filled == {i \in DOMAIN block.steps : block.steps[i].bits # Cleared}
           offset == drawn - Len(fields)
<1> SUFFICES ASSUME ReaderIInv, reading = "factors", length > 0, toRead = <<>>
             PROVE  /\ {block.steps[i].entry : i \in filled} = BandsOf(block.version, block.of)
                    /\ \A i, j \in filled : block.steps[i].entry = block.steps[j].entry => i = j
                    /\ fields = Following(offset, Len(fields))
                    /\ PositionAfter(bsi, 0, offset) = <<drawn \div 8, drawn % 8>>
  BY DEF FactorsFilled
<1>1. ~Idle
  BY DEF Idle
<1>2. drawn \in Nat /\ ListsBands(block.steps, block.version, block.of)
  BY <1>1 DEF ReaderIInv, FactorsIInv
<1>3. PICK size \in Nat, bitOffset \in 0..7 :
          /\ Reads(bsi, drawn, size) /\ drawn >= bitOffset
          /\ fields = Following(bitOffset, drawn - bitOffset)
  BY <1>1 DEF ReaderIInv, FactorsIInv
<1>4. Len(fields) = drawn - bitOffset /\ offset = bitOffset
  <2>1. drawn - bitOffset \in Nat /\ bitOffset \in Nat
    BY <1>2, <1>3
  <2>2. Len(fields) = drawn - bitOffset
    BY <1>3, <2>1, FollowingSeq
  <2> QED BY <1>2, <2>1, <2>2
<1>5. fields = Following(offset, Len(fields))
  BY <1>3, <1>4
<1>6. PositionAfter(bsi, 0, offset) = <<drawn \div 8, drawn % 8>>
  <2>1. CalcBitsUsed(bsi, 0, bitOffset) + bitOffset = drawn
    BY <1>2, <1>3, UsedUp
  <2>2. 0 + (drawn \div 8) = drawn \div 8
    BY <1>2
  <2> HIDE DEF offset
  <2> QED BY <1>4, <2>1, <2>2 DEF PositionAfter
<1>7. PICK n \in 0..MaxFactors : Lists(block.steps, BandsOf(block.version, block.of), n)
  BY <1>2 DEF ListsBands
<1>8. filled = Filled(block.steps)
  BY <1>7 DEF Filled, Lists
<1> QED BY <1>5, <1>6, <1>7, <1>8 DEF Lists, Once

\* The bits of the stream reach the fields in order, for buffers of any length and fields of any
\* lengths up to 31 bits, for every side information, and for the scale factors of every block.
THEOREM FieldsInOrderAlways == ReaderSpec => []FieldsInOrder
<1>1. ReaderIInv => FieldsInOrder
  BY DrawnOrder, SideOrder, FactorsOrder DEF FieldsInOrder
<1> QED BY <1>1, ReaderInitIInv, ReaderStep, PTL DEF ReaderSpec
=============================================================================
