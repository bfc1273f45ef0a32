----------------------------- MODULE Mp3Stream ------------------------------
(***************************************************************************)
(* The MP3 decoder task (mp3_decode.c, helix_decode_task()) and the frame  *)
(* level of the decoder (helix/mp3dec.c): bytes from the ring buffer, the  *)
(* search for a sync word, the header, the main data with its reservoir,   *)
(* and where in it each granule and channel begins.                        *)
(*                                                                         *)
(* A byte of the stream is its position.  What the task has buffered is    *)
(* always one interval of the stream that ends at `received`; mainBuf is   *)
(* the sequence of the positions its bytes came from.                      *)
(***************************************************************************)
EXTENDS Integers, Sequences, SequencesExt, FiniteSets, FiniteSetsExt, Mp3Tables

CONSTANTS
  Streams,       \* the streams that may be played, by name
  MAINBUF_SIZE,  \* size of the input buffer and of mainBuf
  RING_BUF_SIZE, \* size of the ring buffer
  Portions       \* bytes a late stream may deliver in a read, at most

(* A stream is [frames, length, prompt].  A frame is                       *)
(*   [header, start, slots, begin, parts, valid]                           *)
(* where start is its first byte, slots the bytes of main data behind its  *)
(* head, begin mainDataBegin, and parts, by granule and channel, its bits  *)
(* of scale factors sf and its part23Length p23.  prompt: what the decoder *)
(* may take is there when it asks.                                         *)

MaxBegin == 511   \* mainDataBegin has 9 bits
HeaderWord == 4   \* bytes of a header without its CRC

\* The comment at MAINBUF_SIZE in mp3dec.h.
ASSUME SlotsFit == \A h \in Headers : MaxBegin + TableSlots(h) <= MAINBUF_SIZE

FrameOf == [header : Headers, start : Nat, slots : Nat, begin : 0..MaxBegin,
            parts : Seq([sf : Nat, p23 : Nat]), valid : BOOLEAN]

ASSUME StreamsAssumption ==
  /\ MAINBUF_SIZE \in Nat
  /\ \A s \in DOMAIN Streams : Streams[s] \in [frames : Seq(FrameOf), length : Nat, prompt : BOOLEAN]

\* The ring of mp3_decode.c holds more than the input buffer.
ASSUME RingAssumption ==
  /\ RING_BUF_SIZE \in Nat \ {0} /\ MAINBUF_SIZE <= RING_BUF_SIZE
  /\ Portions \subseteq Nat

\* TLC evaluates a definition once, but a constant that a .cfg replaces at each use.
Songs == Streams

VARIABLES
  stream,
  received, left,      \* the bytes taken from the ring, those of them not used
  mainBuf,
  bitrateIsZero, freeBitrateFlag, freeBitrateSlots, nSlots,
  pc,                  \* "input", "decode", or "copies" a negative length
  last,                \* the frame decoded last, 0: none, and
  starts,              \* the bit of mainBuf each of its parts began at
  played, errors,      \* frames played in order; errors reported
  skipped              \* whether a byte was ever thrown away
streamVars == <<stream, received, left, mainBuf, bitrateIsZero, freeBitrateFlag, freeBitrateSlots,
                nSlots, pc, last, starts, played, errors, skipped>>

ptr == received - left
song == Songs[stream]
Frames == song.frames
Size(f) == HeadBytes(f.header) + f.slots
Bytes(from, n) == [i \in 1..n |-> from + i - 1]

----------------------------------------------------------------------------
(* Input.                                                                  *)

\* xRingbufferReceiveUpTo() gives what is in one piece, up to the end of the ring.
InOnePiece == RING_BUF_SIZE - (received % RING_BUF_SIZE)

\* Seeded fault: the room in the buffer is not asked for a second time.
RequestOnce == IF left = 0 THEN MAINBUF_SIZE ELSE 0
Request == MAINBUF_SIZE - left

input_helix ==
  /\ pc = "input"
  /\ LET most == Min({Request, song.length - received, InOnePiece})
     IN \E len \in IF song.prompt THEN {most} ELSE {Min({n, most}) : n \in Portions} :
          received' = received + len /\ left' = left + len
  /\ pc' = "decode"
  /\ UNCHANGED <<stream, mainBuf, bitrateIsZero, freeBitrateFlag, freeBitrateSlots, nSlots, last, starts,
                 played, errors, skipped>>

----------------------------------------------------------------------------
(* The frame.                                                              *)

\* The frames whose sync word is among n bytes from a position on.
MP3FindSyncWord(from, n) ==
  {k \in DOMAIN Frames : from <= Frames[k].start /\ Frames[k].start < from + n - 1}

\* Their first 22 bits: neither the padding nor the channels.
SameHeader(h, g) == [h EXCEPT !.pad = g.pad, !.mono = g.mono] = g

\* Bytes to the next header like h, without a padding byte; -1 if none is there.
MP3FindFreeSync(from, h, n) ==
  LET like == {k \in MP3FindSyncWord(from, n) : SameHeader(Frames[k].header, h)}
  IN IF like = {} THEN -1
     ELSE Frames[Min(like)].start - from - CheckPadBit(h)

\* Seeded fault: the reservoir is the start of what is left, not its end.
ReservoirHead(buf, begin) == SubSeq(buf, 1, begin)

\* Seeded fault: the bytes before the reservoir are not dropped.
ReservoirGrows(buf, begin) == SubSeq(buf, 1, Len(buf))

\* The bytes in front of a frame's own that its main data begin with.
Reservoir(buf, begin) == SubSeq(buf, Len(buf) - begin + 1, Len(buf))

\* Where a part begins, byte and bit, and the bits that are left behind it.
\* An error ends the frame.
AfterPart(acc, part) ==
  LET sfEnd == acc.bitOffset + part.sf
      huffBlockBits == part.p23 - part.sf
      end == (sfEnd % 8) + huffBlockBits
      here == Append(acc.starts, 8 * acc.mainPtr + acc.bitOffset)
  IN IF acc.err # "" THEN acc
     ELSE IF acc.mainBits - part.sf < huffBlockBits THEN [acc EXCEPT !.err = "scalefact"]
     ELSE IF huffBlockBits < 0 THEN [acc EXCEPT !.err = "huffcodes"]
     ELSE [mainPtr |-> acc.mainPtr + sfEnd \div 8 + end \div 8, bitOffset |-> end % 8,
           mainBits |-> acc.mainBits - part.p23, starts |-> here, err |-> ""]
DecodeParts(parts, mainDataBytes) ==
  LET after[n \in 0..Len(parts)] ==
        IF n = 0 THEN [mainPtr |-> 0, bitOffset |-> 0, mainBits |-> 8 * mainDataBytes,
                       starts |-> <<>>, err |-> ""]
        ELSE AfterPart(after[n - 1], parts[n])
  IN after[Len(parts)]

\* Any error of frame k: the task throws away what it has buffered.
Fail(k, err) ==
  /\ errors' = Append(errors, [frame |-> k, err |-> err])
  /\ left' = 0
  /\ skipped' = TRUE
  /\ pc' = "input"
  /\ UNCHANGED <<received, last, starts, played, stream>>

\* Nothing that looks like a frame: the same, without an error.
NoSync ==
  /\ pc = "decode" /\ MP3FindSyncWord(ptr, left) = {}
  /\ left' = 0
  /\ skipped' = (skipped \/ left > 0)
  /\ pc' = "input"
  /\ UNCHANGED <<stream, received, mainBuf, bitrateIsZero, freeBitrateFlag, freeBitrateSlots, nSlots, last,
                 starts, played, errors>>

\* UnpackFrameHeader() refuses the header. One that is not all there is read with
\* what the buffer held before; that is taken for an error here.
BadHeader(k, atFrame) ==
  /\ ~Frames[k].valid \/ atFrame < HeaderWord
  /\ Fail(k, "header")
  /\ UNCHANGED <<mainBuf, bitrateIsZero, freeBitrateFlag, freeBitrateSlots, nSlots>>

\* The header sets bitrate and nSlots, unless the bitrate is free: then they
\* stay, and a bitrate of 0 starts the search for the next header, once.
SlotsOf(f, atFrame) ==
  LET h == f.header
      table == h.brIdx # 0
      slots == IF table THEN TableSlots(h) ELSE nSlots
      searches == ~freeBitrateFlag /\ bitrateIsZero /\ ~table
      head == HeadBytes(h)
      found == IF searches THEN MP3FindFreeSync(f.start + head, h, atFrame - head) ELSE freeBitrateSlots
  IN [searches |-> searches, found |-> found, fails |-> searches /\ found < 0,
      free |-> searches \/ freeBitrateFlag,
      n |-> IF searches \/ freeBitrateFlag THEN found + CheckPadBit(h) ELSE slots]

SetRate(f, s) ==
  /\ freeBitrateFlag' = s.free
  /\ freeBitrateSlots' = s.found
  /\ bitrateIsZero' = (bitrateIsZero /\ f.header.brIdx = 0 /\ (s.fails \/ ~s.searches))
  /\ nSlots' = IF s.fails THEN nSlots ELSE s.n

\* The main data are not all there, or the size of the frame is not known.
Underflow(k, s, bytesLeft) ==
  /\ UNCHANGED mainBuf
  /\ \/ s.fails /\ Fail(k, "freeBitrateSync")
     \/ ~s.fails /\ s.n > bytesLeft /\ Fail(k, "indataUnderflow")

\* memcpy() of a negative length: nothing is said of what comes after.
CopyNegative(s, bytesLeft) ==
  /\ ~s.fails /\ s.n <= bytesLeft /\ s.n < 0
  /\ pc' = "copies"
  /\ UNCHANGED <<stream, received, left, mainBuf, last, starts, played, errors, skipped>>

\* The main data join mainBuf, and the parts of the frame are found in it.
MainData(k, s, bytesLeft) ==
  LET f == Frames[k]
      mine == Bytes(f.start + HeadBytes(f.header), s.n)
  IN /\ ~s.fails /\ 0 <= s.n /\ s.n <= bytesLeft
     /\ \/ Len(mainBuf) < f.begin /\ mainBuf' = mainBuf \o mine /\ Fail(k, "maindataUnderflow")
        \/ /\ Len(mainBuf) >= f.begin
           /\ mainBuf' = Reservoir(mainBuf, f.begin) \o mine
           /\ \E d \in {DecodeParts(f.parts, f.begin + s.n)} :
                \/ d.err # "" /\ Fail(k, d.err)
                \/ /\ d.err = ""
                   /\ left' = bytesLeft - s.n
                   /\ last' = k /\ starts' = d.starts
                   /\ played' = Append(played, k)
                   /\ skipped' = (skipped \/ f.start > ptr)
                   /\ pc' = "input"
                   /\ UNCHANGED <<stream, received, errors>>

\* MP3Decode() behind the header, with atFrame bytes from the frame on.
MP3Decode(k, atFrame) ==
  /\ Frames[k].valid /\ atFrame >= HeaderWord
  /\ \E s \in {SlotsOf(Frames[k], atFrame)}, bytesLeft \in {atFrame - HeadBytes(Frames[k].header)} :
       /\ SetRate(Frames[k], s)
       /\ Underflow(k, s, bytesLeft) \/ CopyNegative(s, bytesLeft) \/ MainData(k, s, bytesLeft)

Decode ==
  /\ pc = "decode" /\ MP3FindSyncWord(ptr, left) # {}
  /\ \E k \in {Min(MP3FindSyncWord(ptr, left))} :
       LET atFrame == received - Frames[k].start
       IN BadHeader(k, atFrame) \/ MP3Decode(k, atFrame)

----------------------------------------------------------------------------
StreamInit ==
  /\ stream \in DOMAIN Streams
  /\ received = 0 /\ left = 0
  /\ mainBuf = <<>>
  /\ bitrateIsZero = TRUE /\ freeBitrateFlag = FALSE /\ freeBitrateSlots = 0 /\ nSlots = 0
  /\ pc = "input"
  /\ last = 0 /\ starts = <<>>
  /\ played = <<>> /\ errors = <<>>
  /\ skipped = FALSE

StreamNext == input_helix \/ NoSync \/ Decode
StreamSpec == StreamInit /\ [][StreamNext]_streamVars

----------------------------------------------------------------------------
(* Properties.                                                             *)

\* mainBuf is not written past its end: the reservoir and the slots of any
\* frame fit, while the bitrate is not free (MP3Decode(), MAINBUF_SIZE).
MainBufHolds == freeBitrateFlag \/ Len(mainBuf) <= MAINBUF_SIZE

\* The lengths of the first parts of a frame, and the main data of the first frames.
Lengths(f) ==
  LET sum[n \in 0..Len(f.parts)] == IF n = 0 THEN 0 ELSE sum[n - 1] + f.parts[n].p23 IN sum
MainBytes(k) == Bytes(Frames[k].start + HeadBytes(Frames[k].header), Frames[k].slots)
DataOfFirst ==
  LET data[k \in 0..Len(Frames)] == IF k = 0 THEN <<>> ELSE data[k - 1] \o MainBytes(k) IN data

\* While nothing was thrown away, the frame decoded last has its own main data:
\* as many of the bytes before it, heads left out, as mainDataBegin says, then
\* its own; and each part begins where the lengths of those before it end
\* (MP3Decode(): the reservoir, mainPtr and bitOffset).
OwnMainData ==
  (last # 0 /\ ~skipped) =>
    LET f == Frames[last]
        before == DataOfFirst[last - 1]
    IN /\ mainBuf = SubSeq(before, Len(before) - f.begin + 1, Len(before)) \o MainBytes(last)
       /\ starts = [n \in DOMAIN f.parts |-> Lengths(f)[n - 1]]

\* Both: the main data of a frame are its own, all of them, in mainBuf.
MainDataKept == OwnMainData /\ MainBufHolds

EndOf(k) == IF k = 0 THEN 0 ELSE Frames[k].start + Size(Frames[k])

\* Frames behind each other, each as long as its header says and at most half
\* the buffer, with main data that are all there.
Sound ==
  /\ song.length = EndOf(Len(Frames))
  /\ \A k \in DOMAIN Frames :
       LET f == Frames[k]
       IN /\ f.valid /\ f.header.brIdx # 0 /\ f.slots = TableSlots(f.header)
          /\ f.start = EndOf(k - 1) /\ Size(f) <= MAINBUF_SIZE \div 2
          /\ f.begin <= (IF k = 1 THEN 0 ELSE Frames[k - 1].begin + Frames[k - 1].slots)
          /\ \A n \in DOMAIN f.parts : f.parts[n].sf <= f.parts[n].p23
          /\ Lengths(f)[Len(f.parts)] <= 8 * (f.begin + f.slots)

\* A sound stream that comes in time is played without an error, every frame
\* once and in order, whatever pieces the ring gives (helix_decode_task()).
EveryFramePlayed ==
  (received > 0 /\ song.prompt /\ Sound) =>
    /\ errors = <<>>
    /\ played = [k \in 1..Len(played) |-> k]
    /\ ptr = EndOf(Len(played))

\* "out of data - assume last or truncated frame", mp3dec.c: in a stream that
\* comes in time only those are short of data.
UnderflowAtEnd ==
  song.prompt =>
    \A e \in ToSet(errors) :
      e.err = "indataUnderflow" => e.frame = Len(Frames) \/ song.length < EndOf(e.frame)
=============================================================================
