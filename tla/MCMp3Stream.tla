----------------------------- MODULE MCMp3Stream ----------------------------
(***************************************************************************)
(* TLC instance of Mp3Stream: the streams that are played.                 *)
(***************************************************************************)
EXTENDS Mp3Stream

\* The streams: versions, bitrates and reservoirs; spoilt, cut, late and free ones.
Head1(brIdx) == [ver |-> "mpeg1", srIdx |-> 0, brIdx |-> brIdx, crc |-> FALSE, pad |-> FALSE, mono |-> FALSE]
Head2(brIdx) == [Head1(brIdx) EXCEPT !.ver = "mpeg2", !.crc = TRUE]
Head3(brIdx) == [Head1(brIdx) EXCEPT !.ver = "mpeg25", !.srIdx = 2, !.mono = TRUE]

\* The bits of the frame in parts of different length, scale factors in every other one.
Split(h, bits) ==
  LET n == (IF h.ver = "mpeg1" THEN 2 ELSE 1) * (IF h.mono THEN 1 ELSE 2)
      share == bits \div n
      Part(i) == [sf |-> IF i % 2 = 0 THEN 0 ELSE Min({37, share \div 2}),
                  p23 |-> share + (IF i = 1 THEN bits % n ELSE 0)]
  IN [i \in 1..n |-> Part(i)]

\* A plan of a stream behind `lead` other bytes; begins[k] is mainDataBegin of frame k, and
\* every third frame has a padding byte.  One frame may be spoilt, one part of a frame be given
\* another length, and bytes be cut off at the end.
Plan(lead, h, slots, begins, prompt) ==
  [lead |-> lead, h |-> h, slots |-> slots, begins |-> begins, prompt |-> prompt,
   spoilt |-> 0, part |-> <<0, 0>>, p23 |-> 0, cut |-> 0]

PlannedHeader(plan, k) == [plan.h EXCEPT !.pad = (k % 3 = 0)]
MainSlots(plan, h) == IF h.brIdx = 0 THEN plan.slots + CheckPadBit(h) ELSE TableSlots(h)
\* The main data of a frame reach to where those of the next begin, but for a few bits.
BitsOf(plan, slots, k) ==
  8 * (plan.begins[k] + slots - (IF k = Len(plan.begins) THEN 0 ELSE plan.begins[k + 1])) - (k % 5)
Parts(plan, h, slots, k) ==
  [i \in DOMAIN Split(h, 0) |->
     IF plan.part = <<k, i>> THEN [Split(h, BitsOf(plan, slots, k))[i] EXCEPT !.p23 = plan.p23]
     ELSE Split(h, BitsOf(plan, slots, k))[i]]
PlannedFrame(plan, h, slots, start, k) ==
  [header |-> h, start |-> start, slots |-> slots, begin |-> plan.begins[k],
   parts |-> Parts(plan, h, slots, k), valid |-> plan.spoilt # k]
Behind(fs, lead) == IF fs = <<>> THEN lead ELSE Last(fs).start + Size(Last(fs))
Whole(frames, plan) ==
  [frames |-> frames, length |-> Behind(frames, 0) - plan.cut, prompt |-> plan.prompt]
Stream(plan) ==
  LET AddFrame(fs, k) ==
        Append(fs, PlannedFrame(plan, PlannedHeader(plan, k), MainSlots(plan, PlannedHeader(plan, k)),
                         Behind(fs, plan.lead), k))
  IN Whole(FoldLeft(AddFrame, <<>>, [k \in DOMAIN plan.begins |-> k]), plan)

Reservoirs(n, max) == [k \in 1..n |-> IF k = 1 THEN 0 ELSE (101 * k * k) % (max + 1)]
Usual == Plan(0, Head1(9), 0, Reservoirs(18, 340), TRUE)
LateSong == Plan(0, Head2(8), 0, Reservoirs(6, 100), FALSE)
Plans == [
  usual |-> Usual, spoilt |-> [Usual EXCEPT !.spoilt = 5],
  oversize |-> [Usual EXCEPT !.part = <<3, 2>>, !.p23 = 4095],
  undersize |-> [Usual EXCEPT !.part = <<4, 1>>, !.p23 = 1],
  cut |-> [Usual EXCEPT !.cut = 300], cutHead |-> [Usual EXCEPT !.cut = 385],
  fast |-> Plan(0, Head1(14), 0, [k \in 1..14 |-> IF k = 1 THEN 0 ELSE 511], TRUE),
  mpeg2 |-> Plan(0, Head2(8), 0, Reservoirs(30, 100), TRUE),
  mpeg25 |-> Plan(0, Head3(4), 0, Reservoirs(9, 255), TRUE),
  late |-> LateSong, lateCut |-> [LateSong EXCEPT !.cut = 190],
  lateSpoilt |-> [LateSong EXCEPT !.spoilt = 3],
  behind |-> Plan(1939, Head1(9), 0, Reservoirs(5, 340), TRUE),
  middle |-> Plan(0, Head1(9), 0, <<300, 200, 0, 340>>, TRUE),
  free |-> Plan(0, Head1(0), 900, Reservoirs(6, 340), TRUE),
  freeLong |-> Plan(0, Head1(0), 1930, Reservoirs(3, 340), TRUE)]
MCStreams == [name \in DOMAIN Plans |-> Stream(Plans[name])]
=============================================================================
