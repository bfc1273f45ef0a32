---------------------------- MODULE CameraFormat ----------------------------
(***************************************************************************)
(* The arithmetic of components/camera/camera.c: camera_init() and         *)
(* dma_desc_init() cut a line of the sensor into DMA buffers, a filter     *)
(* turns each buffer into bytes of the frame buffer, and get_fb_pos() says *)
(* where the next buffer's bytes go.  The behaviour walks through the ring *)
(* of buffers of every format and resolution.                              *)
(***************************************************************************)
EXTENDS Integers

CONSTANT
  Modes    \* pairs <<format, is_hs_mode()>> to look at

Formats == {"grayscale", "rgb565", "jpeg"}

ASSUME FormatAssumption == Modes \subseteq Formats \X BOOLEAN

VARIABLES
  mode, width,   \* of the picture
  nth            \* DMA buffer of the ring
formatVars == <<mode, width, nth>>

\* The widths of the table resolution[].
Widths == {40, 64, 88, 160, 128, 176, 240, 320, 352, 640, 800, 1280, 1600}

----------------------------------------------------------------------------
(* camera_init() and dma_desc_init().                                      *)

Format == mode[1]
Fast == mode[2]

SamplingMode ==
  CASE Fast -> "0A0B_0B0C"
    [] ~Fast /\ Format = "grayscale" -> "0A0B_0C0D"
    [] OTHER -> "0A00_0B00"

BytesPerSample == IF SamplingMode = "0A0B_0C0D" THEN 2 ELSE 4
BytesPerPixel == [grayscale |-> 1, rgb565 |-> 3, jpeg |-> 2][Format]

LineSize == width * 2 * BytesPerSample

\* The line is halved until a piece is shorter than a descriptor's 4096 bytes.
\* Seeded fault in DmaPerLine: the loop runs once.
DmaPerLineOnce == IF LineSize >= 4096 THEN 2 ELSE 1
DmaPerLine ==
  CHOOSE n \in {1, 2, 4, 8} : LineSize \div n < 4096 /\ (n = 1 \/ LineSize \div (n \div 2) >= 4096)
BufSize == LineSize \div DmaPerLine
DescCount == DmaPerLine * 4

\* The last buffer of a line is one sample short in SM_0A0B_0B0C.
Length(b) ==
  BufSize - (IF SamplingMode = "0A0B_0B0C" /\ (b + 1) % DmaPerLine = 0 THEN 4 ELSE 0)

----------------------------------------------------------------------------
(* The filters: the bytes they write for a buffer of the given length.     *)

\* Seeded fault in LastSample: no special handling of the final sample.
NoLastSample(length, bytes) == 0
LastSample(length, bytes) == IF length % 8 # 0 THEN bytes ELSE 0

Written(length) ==
  CASE Format = "jpeg"                  -> 4 * (length \div 16) + LastSample(length, 4)
    [] Format = "rgb565"                -> 6 * (length \div 16) + LastSample(length, 6)
    [] Format = "grayscale" /\ Fast     -> 4 * (length \div 32) + LastSample(length, 2)
    [] Format = "grayscale" /\ ~Fast    -> 4 * (length \div 16)

\* get_fb_pos()
FbPos(count) == (count * width * BytesPerPixel) \div DmaPerLine

----------------------------------------------------------------------------

FormatInit == mode \in Modes /\ width \in Widths /\ nth = 0

\* dma_filter_task filters one buffer.
Filter == nth' = (nth + 1) % DescCount /\ UNCHANGED <<mode, width>>

FormatNext == Filter
FormatSpec == FormatInit /\ [][FormatNext]_formatVars

----------------------------------------------------------------------------
(* Properties.                                                             *)

\* Each filter fills exactly the bytes between its position and the next one:
\* nothing of a line stays blank, nothing is written over a neighbour.
LineFilled == FbPos(nth) + Written(Length(nth)) = FbPos(nth + 1)

\* The buffers of a line hold the whole line, in pieces that a DMA descriptor
\* can describe: shorter than 4096 bytes and word aligned.
LineCovered ==
  /\ BufSize * DmaPerLine = LineSize
  /\ Length(nth) < 4096 /\ Length(nth) % 4 = 0
\* Both: what the filters write is the picture, line by line.
LinesWhole == LineFilled /\ LineCovered
=============================================================================
