--------------------------- MODULE Camera_proofs ---------------------------
(***************************************************************************)
(* Proof that camera_run() leaves nothing of a frame behind, for frames,   *)
(* rings and queues of any size, both formats, and interrupts served as    *)
(* late as may be.  The end marker is the last item of a frame in          *)
(* data_ready, because i2s_stop() is called once: in a raw frame by the    *)
(* interrupt of the last buffer, in a JPEG frame by VSYNC alone.           *)
(*                                                                         *)
(* Then, that with prompt interrupts the frame is whole: a buffer that     *)
(* waits to be filtered is not overwritten, because it is in the queue at  *)
(* its place, and the queue has room for the ring.  Next, that the buffers *)
(* of a line are filtered into adjoining parts of the frame buffer.        *)
(*                                                                         *)
(* The second half is about the web server that shows the frames, for any  *)
(* handlers and requests, segments that cut a request anywhere, and        *)
(* clients that leave at any time.                                         *)
(***************************************************************************)
EXTENDS Camera, CameraFormat, HttpServer, SequenceTheorems, WellFoundedInduction, TLAPS

----------------------------------------------------------------------------
(* The invariant.                                                          *)

TypeOK ==
  /\ call \in {"idle", "start", "wait"}
  /\ len \in Nat /\ sent \in Nat /\ cur \in 0..Descs - 1 /\ received \in Nat
  /\ queue \in Seq(0..Stop) /\ buf \in 0..Descs - 1 \cup {Nothing}

\* The end marker is the last item in the queue.
MarkerLast == \A i \in 1..Len(queue) : queue[i] = Stop => i = Len(queue)

\* The interrupts of buffers that a JPEG frame has raised: none for its last buffer.
Raised == IF inDone THEN received + 1 ELSE received

\* While the receiver runs, its interrupts are on, no marker has been sent, and a JPEG frame
\* has raised fewer interrupts than a raw frame.
Running ==
  /\ call = "wait" /\ i2sOn /\ (vsyncOn <=> jpeg) /\ ~frame_ready
  /\ edge => jpeg
  /\ \A i \in 1..Len(queue) : queue[i] # Stop
  /\ jpeg => /\ 1 < len /\ len =< Lines
             /\ Raised =< sent /\ Raised < len

\* When it has stopped, they are off and nothing follows the marker.
Stopped ==
  /\ ~i2sOn /\ ~vsyncOn /\ ~edge
  /\ MarkerLast
  /\ frame_ready => queue = <<>> /\ buf = Nothing
  /\ call = "start" => received = 0

QuietInv ==
  /\ QuietWhenIdle
  /\ IF rx THEN Running ELSE Stopped

----------------------------------------------------------------------------
(* Its steps.                                                              *)

\* An item that is sent is the last one of the queue, or it is lost.
LEMMA SendAppends ==
  ASSUME NEW q \in Seq(0..Stop), NEW item \in 0..Stop
  PROVE  /\ Send(q, item) \in Seq(0..Stop)
         /\ \A i \in 1..Len(Send(q, item)) :
              \/ i \in 1..Len(q) /\ Send(q, item)[i] = q[i]
              \/ i = Len(Send(q, item)) /\ Send(q, item)[i] = item
<1>1. /\ Append(q, item) \in Seq(0..Stop)
      /\ Len(Append(q, item)) = Len(q) + 1
      /\ \A i \in 1..Len(q) : Append(q, item)[i] = q[i]
      /\ Append(q, item)[Len(q) + 1] = item
  BY AppendProperties
<1>2. Len(q) \in Nat
  BY LenProperties
<1>3. CASE Len(q) < QueueSize
  <2>1. Send(q, item) = Append(q, item)
    BY <1>3 DEF Send
  <2> QED BY <1>1, <1>2, <2>1
<1>4. CASE ~(Len(q) < QueueSize)
  <2>1. Send(q, item) = q
    BY <1>4 DEF Send
  <2> QED BY <1>2, <2>1
<1> QED BY <1>3, <1>4

\* Every step keeps the types.
LEMMA TypeStep ==
  ASSUME TypeOK, Next
  PROVE  TypeOK'
<1> USE CameraAssumption DEF TypeOK, sensorVars, isrVars, filterVars, Stop, Nothing
<1>1. CASE CameraRun
  BY <1>1 DEF CameraRun
<1>2. CASE I2sRun
  BY <1>2 DEF I2sRun
<1>3. CASE Return
  BY <1>3 DEF Return
<1>4. CASE Receive
  BY <1>4 DEF Receive
<1>5. CASE Vsync
  BY <1>5 DEF Vsync
<1>6. ASSUME NEW stop, Signal(stop)
      PROVE  queue' \in Seq(0..Stop) /\ cur' \in 0..Descs - 1 /\ received' \in Nat
  <2>1. cur \in 0..Stop /\ Stop \in 0..Stop
    OBVIOUS
  <2>2. Send(queue, cur) \in Seq(0..Stop) /\ Send(Send(queue, cur), Stop) \in Seq(0..Stop)
    BY <2>1, SendAppends
  <2>3. (cur + 1) % Descs \in 0..Descs - 1
    OBVIOUS
  <2> QED BY <1>6, <2>2, <2>3 DEF Signal
<1>7. CASE I2sIsr
  BY <1>6, <1>7 DEF I2sIsr
<1>8. CASE GpioIsr
  <2>1. CASE received > 0
    BY <1>6, <1>8, <2>1 DEF GpioIsr
  <2>2. CASE ~(received > 0)
    BY <1>8, <2>2 DEF GpioIsr
  <2> QED BY <2>1, <2>2
<1>9. CASE FilterTake
  <2>1. Head(queue) \in 0..Stop /\ Tail(queue) \in Seq(0..Stop)
    BY <1>9, HeadTailProperties DEF FilterTake
  <2> QED BY <1>9, <2>1 DEF FilterTake
<1>10. CASE FilterWrite
  BY <1>10 DEF FilterWrite
<1> QED BY <1>1, <1>2, <1>3, <1>4, <1>5, <1>7, <1>8, <1>9, <1>10 DEF Next

\* What the interrupt handlers send: the buffer, which is not the marker, and the marker
\* behind it when they stop the receiver.
LEMMA SignalSends ==
  ASSUME TypeOK, NEW stop \in BOOLEAN, Signal(stop), \A i \in 1..Len(queue) : queue[i] # Stop
  PROVE  /\ ~stop => \A i \in 1..Len(queue') : queue'[i] # Stop
         /\ stop => MarkerLast'
<1> DEFINE once == Send(queue, cur)
<1>1. cur \in 0..Stop /\ cur # Stop /\ Stop \in 0..Stop /\ queue \in Seq(0..Stop)
  BY CameraAssumption DEF TypeOK, Stop
<1>2. once \in Seq(0..Stop) /\ \A i \in 1..Len(once) : once[i] # Stop
  BY <1>1, SendAppends
<1>3. CASE ~stop
  BY <1>2, <1>3 DEF Signal
<1>4. CASE stop
  <2>1. queue' = Send(once, Stop)
    BY <1>4 DEF Signal
  <2> HIDE DEF once
  <2>2. \A i \in 1..Len(queue') : \/ i \in 1..Len(once) /\ queue'[i] = once[i]
                                  \/ i = Len(queue')
    BY <1>1, <1>2, <2>1, SendAppends
  <2> QED BY <1>2, <1>4, <2>2 DEF MarkerLast
<1> QED BY <1>3, <1>4

\* Every step keeps the invariant.  The receiver is stopped once in a frame: the interrupt of a
\* buffer does not stop a JPEG frame, because Raised is less than its length, and a raw frame
\* has no VSYNC interrupt.
LEMMA QuietStep ==
  ASSUME TypeOK, QuietInv, Next
  PROVE  QuietInv'
<1> USE CameraAssumption DEF QuietInv, QuietWhenIdle, sensorVars, isrVars, filterVars
<1>1. CASE CameraRun
  BY <1>1 DEF CameraRun, Running, Stopped, MarkerLast
<1>2. CASE I2sRun
  <2>1. /\ call = "start" /\ call' = "wait" /\ ~inDone' /\ i2sOn' /\ rx'
        /\ vsyncOn' <=> (jpeg \/ vsyncOn)
        /\ sent' = 0 /\ (jpeg => len' \in 2..Longest)
        /\ UNCHANGED <<jpeg, edge, received, queue, frame_ready>>
    BY <1>2 DEF I2sRun
  <2>2. ~rx /\ ~vsyncOn /\ ~edge /\ queue = <<>> /\ received = 0 /\ ~frame_ready
    BY <2>1 DEF Stopped
  <2>3. \A i \in 1..Len(queue') : queue'[i] # Stop
    BY <2>1, <2>2
  <2> QED BY <2>1, <2>2, <2>3 DEF Running, Raised
<1>3. CASE Return
  <2>1. /\ call = "wait" /\ frame_ready /\ call' = "idle" /\ ~frame_ready'
        /\ UNCHANGED <<isrVars, queue, buf, received>>
    BY <1>3 DEF Return
  <2> QED BY <2>1 DEF Running, Stopped, MarkerLast
<1>4. CASE Receive
  <2>1. /\ rx /\ rx' /\ sent < len /\ sent' = sent + 1
        /\ inDone' <=> (inDone \/ ~jpeg \/ sent' < len)
        /\ UNCHANGED <<jpeg, call, len, i2sOn, vsyncOn, edge, received, queue, buf, frame_ready>>
    BY <1>4 DEF Receive
  <2>2. jpeg => Raised' =< sent' /\ Raised' < len'
    BY <2>1 DEF Running, Raised, TypeOK
  <2> QED BY <2>1, <2>2 DEF Running
<1>5. CASE Vsync
  <2>1. /\ rx /\ rx' /\ vsyncOn
        /\ UNCHANGED <<call, jpeg, len, sent, i2sOn, inDone, vsyncOn, received, queue, frame_ready>>
    BY <1>5 DEF Vsync
  <2> QED BY <2>1 DEF Running, Raised
<1>6. CASE I2sIsr
  <2>1. /\ i2sOn /\ inDone /\ ~inDone' /\ Signal(received + 1 = Lines)
        /\ UNCHANGED <<call, jpeg, len, sent, edge, buf, frame_ready>>
    BY <1>6 DEF I2sIsr
  <2>2. rx /\ Running
    BY <2>1 DEF Stopped
  <2>3. received' = received + 1
    BY <2>1 DEF Signal
  <2>4. CASE received + 1 = Lines
    <3>1. ~jpeg
      BY <2>1, <2>2, <2>4 DEF Running, Raised, TypeOK
    <3>2. ~rx' /\ ~i2sOn' /\ ~vsyncOn' /\ MarkerLast'
      BY <2>1, <2>2, <2>4, SignalSends DEF Signal, Disarm, Running
    <3> QED BY <2>1, <2>2, <3>1, <3>2 DEF Running, Stopped
  <2>5. CASE received + 1 # Lines
    <3>1. /\ UNCHANGED <<i2sOn, vsyncOn, rx>>
          /\ \A i \in 1..Len(queue') : queue'[i] # Stop
      BY <2>1, <2>2, <2>5, SignalSends DEF Signal, Disarm, Running
    <3>2. jpeg => Raised' = Raised
      BY <2>1, <2>3 DEF Raised
    <3> QED BY <2>1, <2>2, <3>1, <3>2 DEF Running
  <2> QED BY <2>4, <2>5
<1>7. CASE GpioIsr
  <2>1. /\ edge /\ ~edge'
        /\ UNCHANGED <<call, jpeg, len, sent, inDone, buf, frame_ready>>
    BY <1>7 DEF GpioIsr
  <2>2. rx /\ Running
    BY <2>1 DEF Stopped
  <2>3. CASE received > 0
    <3>1. Signal(TRUE)
      BY <1>7, <2>3 DEF GpioIsr
    <3>2. ~rx' /\ ~i2sOn' /\ ~vsyncOn' /\ MarkerLast'
      BY <2>2, <3>1, SignalSends DEF Signal, Disarm, Running
    <3> QED BY <2>1, <2>2, <3>2 DEF Running, Stopped
  <2>4. CASE ~(received > 0)
    <3>1. UNCHANGED <<received, queue, i2sOn, vsyncOn, rx>>
      BY <1>7, <2>4 DEF GpioIsr
    <3> QED BY <2>1, <2>2, <3>1 DEF Running, Raised
  <2> QED BY <2>3, <2>4
<1>8. CASE FilterTake
  <2>1. /\ buf = Nothing /\ queue # <<>> /\ queue' = Tail(queue)
        /\ UNCHANGED <<call, jpeg, len, sent, isrVars, received>>
    BY <1>8 DEF FilterTake
  <2>2. /\ Len(queue') = Len(queue) - 1 /\ Len(queue) \in Nat \ {0} /\ Head(queue) = queue[1]
        /\ \A i \in 1..Len(queue') : queue'[i] = queue[i + 1]
        /\ queue' \in Seq(0..Stop)
    BY <2>1, HeadTailProperties, LenProperties, EmptySeq DEF TypeOK
  <2>3. call = "wait"
    BY <2>1 DEF TypeOK
  <2>4. CASE Head(queue) = Stop
    <3>1. frame_ready' /\ UNCHANGED buf
      BY <1>8, <2>4 DEF FilterTake
    <3>2. ~rx
      BY <2>2, <2>4 DEF Running
    <3>3. Len(queue) = 1
      BY <2>2, <2>4, <3>2 DEF Stopped, MarkerLast
    <3>4. queue' = <<>>
      BY <2>2, <3>3, EmptySeq
    <3> QED BY <2>1, <2>3, <3>1, <3>2, <3>4 DEF Stopped, MarkerLast
  <2>5. CASE Head(queue) # Stop
    <3>1. UNCHANGED frame_ready
      BY <1>8, <2>5 DEF FilterTake
    <3>2. CASE rx
      <4>1. \A i \in 1..Len(queue') : queue'[i] # Stop
        BY <2>2, <3>2 DEF Running
      <4> QED BY <2>1, <2>3, <3>1, <3>2, <4>1 DEF Running, Raised
    <3>3. CASE ~rx
      <4>1. ~frame_ready
        BY <2>1, <3>3 DEF Stopped
      <4>2. MarkerLast'
        BY <2>2, <3>3 DEF Stopped, MarkerLast
      <4> QED BY <2>1, <2>3, <3>1, <3>3, <4>1, <4>2 DEF Stopped
    <3> QED BY <3>2, <3>3
  <2> QED BY <2>4, <2>5
<1>9. CASE FilterWrite
  <2>1. /\ buf # Nothing /\ buf' = Nothing
        /\ UNCHANGED <<call, jpeg, len, sent, isrVars, received, queue, frame_ready>>
    BY <1>9 DEF FilterWrite
  <2> QED BY <2>1 DEF Running, Stopped, MarkerLast, Raised
<1> QED BY <1>1, <1>2, <1>3, <1>4, <1>5, <1>6, <1>7, <1>8, <1>9 DEF Next

\* At the start.
LEMMA InitQuiet == Init => TypeOK /\ QuietInv
<1> SUFFICES ASSUME Init PROVE TypeOK /\ QuietInv
  OBVIOUS
<1>1. <<>> \in Seq(0..Stop) /\ Len(<<>>) = 0
  BY EmptySeq
<1> QED
  BY <1>1, CameraAssumption DEF Init, TypeOK, QuietInv, QuietWhenIdle, Stopped, MarkerLast, Nothing

\* Nothing happens.
LEMMA QuietUnchanged == ASSUME TypeOK, QuietInv, UNCHANGED vars PROVE TypeOK' /\ QuietInv'
BY DEF TypeOK, QuietInv, QuietWhenIdle, Running, Stopped, MarkerLast, Raised, vars, sensorVars,
       isrVars, filterVars

\* However late the interrupts of a frame are served, camera_run() leaves a clean pipeline: the
\* receiver stopped, no interrupt, buffer or end marker, and no spare frame_ready.
THEOREM QuietWhenIdleAlways == Spec => []QuietWhenIdle
<1>1. TypeOK /\ QuietInv /\ [Next]_vars => TypeOK' /\ QuietInv'
  BY TypeStep, QuietStep, QuietUnchanged
<1>2. QuietInv => QuietWhenIdle
  BY DEF QuietInv
<1> QED BY InitQuiet, <1>1, <1>2, PTL DEF Spec

----------------------------------------------------------------------------
(* The ring.                                                               *)

\* Quotient and remainder.
LEMMA Divided ==
  ASSUME NEW D \in Nat \ {0}, NEW a \in Nat
  PROVE  a \div D \in Nat /\ a % D \in 0..D - 1 /\ a = D * (a \div D) + (a % D)
OBVIOUS

\* Fewer steps than the ring has buffers do not lead back to the same one.
LEMMA ModApart ==
  ASSUME NEW D \in Nat \ {0}, NEW a \in Nat, NEW b \in Nat, a < b, b - a < D
  PROVE  a % D # b % D
<1> DEFINE p == a \div D
           q == b \div D
<1>1. p \in Nat /\ q \in Nat /\ a = D * p + (a % D) /\ b = D * q + (b % D) /\ a % D \in Nat /\ b % D \in Nat
  BY Divided
<1> HIDE DEF p, q
<1>2. SUFFICES ASSUME a % D = b % D PROVE FALSE
  OBVIOUS
<1>3. D * q - D * p = b - a
  BY <1>1, <1>2
<1>4. D * q - D * p = D * (q - p)
  BY <1>1
<1>5. CASE q =< p
  <2>1. D * (q - p) =< 0
    BY <1>1, <1>5
  <2> QED BY <1>3, <1>4, <2>1
<1>6. CASE q >= p + 1
  <2>1. D * (q - p) >= D
    BY <1>1, <1>6
  <2> QED BY <1>3, <1>4, <2>1
<1> QED BY <1>1, <1>5, <1>6

\* Once around the ring is the same place.
LEMMA ModAround ==
  ASSUME NEW D \in Nat \ {0}, NEW a \in Nat
  PROVE  (a + D) % D = a % D
<1> DEFINE b == a + D
           p == a \div D
           q == b \div D
           m == q - p - 1
<1>1. /\ p \in Nat /\ q \in Nat /\ a = D * p + (a % D) /\ b = D * q + (b % D) /\ b = a + D
      /\ a % D \in 0..D - 1 /\ b % D \in 0..D - 1
  <2>1. b \in Nat
    OBVIOUS
  <2> HIDE DEF b
  <2>2. /\ p \in Nat /\ q \in Nat /\ a = D * p + (a % D) /\ b = D * q + (b % D)
        /\ a % D \in 0..D - 1 /\ b % D \in 0..D - 1
    BY <2>1, Divided
  <2> QED BY <2>2 DEF b
<1> HIDE DEF b, p, q
<1>2. m \in Int /\ D * m = (a % D) - (b % D)
  <2>1. D * m = D * q - D * p - D
    BY <1>1
  <2> QED BY <1>1, <2>1
<1> HIDE DEF m
<1>3. CASE m =< -1
  <2>1. D * m =< -D
    BY <1>2, <1>3
  <2> QED BY <1>1, <1>2, <2>1
<1>4. CASE m >= 1
  <2>1. D * m >= D
    BY <1>2, <1>4
  <2> QED BY <1>1, <1>2, <2>1
<1>5. CASE m = 0
  <2>1. D * m = 0
    BY <1>5
  <2> QED BY <1>1, <1>2, <2>1 DEF b
<1> QED BY <1>2, <1>3, <1>4, <1>5

\* The place after a place in the ring.
LEMMA ModNext ==
  ASSUME NEW D \in Nat \ {0}, NEW a \in Nat
  PROVE  ((a % D) + 1) % D = (a + 1) % D
<1> DEFINE r == ((a % D) + 1) % D
           s == (a + 1) % D
           p == ((a % D) + 1) \div D
           q == (a + 1) \div D
           t == a \div D
<1>1. /\ r \in 0..D - 1 /\ s \in 0..D - 1 /\ p \in Nat /\ q \in Nat /\ t \in Nat
      /\ (a % D) + 1 = D * p + r /\ a + 1 = D * q + s /\ a = D * t + (a % D) /\ a % D \in Nat
  <2> DEFINE x == (a % D) + 1
             y == a + 1
  <2>1. x \in Nat /\ y \in Nat /\ a % D \in Nat /\ t \in Nat /\ a = D * t + (a % D)
    BY Divided
  <2> HIDE DEF x, y
  <2>2. /\ x \div D \in Nat /\ x % D \in 0..D - 1 /\ x = D * (x \div D) + (x % D)
        /\ y \div D \in Nat /\ y % D \in 0..D - 1 /\ y = D * (y \div D) + (y % D)
    BY <2>1, Divided
  <2> QED BY <2>1, <2>2 DEF x, y
<1> HIDE DEF r, s, p, q, t
<1> DEFINE m == q - t - p
<1>2. D * m = r - s
  <2>1. D * q - D * t - D * p = r - s
    BY <1>1
  <2>2. D * m = D * q - D * t - D * p
    BY <1>1
  <2> QED BY <2>1, <2>2
<1>3. m \in Int
  BY <1>1
<1> HIDE DEF m
<1>4. CASE m =< -1
  <2>1. D * m =< -D
    BY <1>3, <1>4
  <2> QED BY <1>1, <1>2, <2>1
<1>5. CASE m >= 1
  <2>1. D * m >= D
    BY <1>3, <1>5
  <2> QED BY <1>1, <1>2, <2>1
<1>6. CASE m = 0
  <2>1. D * m = 0
    BY <1>6
  <2>2. r = s
    BY <1>1, <1>2, <2>1
  <2> QED BY <2>2 DEF r, s
<1> QED BY <1>3, <1>4, <1>5, <1>6

----------------------------------------------------------------------------
(* The frame, when interrupts are served promptly.  A buffer is known by   *)
(* its number in the frame, and is in the ring at that number modulo       *)
(* Descs.                                                                  *)

Held == IF buf = Nothing THEN 0 ELSE 1
Waiting == received - filtered - Held

\* What the receiver has taken from the sensor, and what its interrupts have told of it: all but
\* the last buffer at most.
ToldOf ==
  /\ len \in 1..Lines /\ (~jpeg => len = Lines) /\ sent =< len
  /\ cur = received % Descs
  /\ edge => sent = len
  /\ IF rx THEN /\ received < len
                /\ sent = IF inDone \/ (jpeg /\ sent = len) THEN received + 1 ELSE received
                /\ jpeg /\ sent = len => ~inDone
           ELSE received = len /\ sent = len

\* The buffers told of and not filtered yet are held by the filter and in the queue, in order.
Queued ==
  /\ Waiting \in Nat /\ Waiting =< Len(queue) /\ Len(queue) =< Waiting + 1
  /\ rx => Len(queue) = Waiting
  /\ \A i \in 1..Len(queue) : queue[i] = IF i =< Waiting THEN (filtered + Held + i - 1) % Descs ELSE Stop
  /\ buf # Nothing => buf = filtered % Descs

\* The buffers that are not filtered yet are still in the ring, the others in the frame buffer.
InMemory ==
  /\ sent - filtered =< Descs
  /\ \A k \in Nat : filtered =< k /\ k < sent => dma[k % Descs] = k + 1
  /\ \A i \in 0..Lines : fb[i] = IF i < filtered THEN i + 1 ELSE 0

Fresh == cur = 0 /\ received = 0 /\ filtered = 0 /\ \A i \in 0..Lines : fb[i] = 0
Arriving ==
  /\ ToldOf /\ Queued /\ InMemory
  /\ frame_ready => data_size = len /\ filtered = len

FrameInv ==
  /\ DOMAIN fb = 0..Lines /\ DOMAIN dma = 0..Descs - 1 /\ filtered \in Nat
  /\ prompt /\ call = "start" => Fresh
  /\ prompt /\ call = "wait" => Arriving

\* cam_run().
LEMMA RunStep ==
  ASSUME TypeOK, QuietInv, FrameInv, CameraRun \/ I2sRun \/ Return
  PROVE  FrameInv'
<1> USE DEF sensorVars, isrVars, filterVars
<1>1. CASE CameraRun
  BY <1>1 DEF CameraRun, FrameInv, Fresh
<1>2. CASE I2sRun
  <2>1. /\ call = "start" /\ call' = "wait" /\ ~inDone' /\ rx'
        /\ sent' = 0 /\ len' \in (IF jpeg THEN 2..Longest ELSE {Lines})
        /\ UNCHANGED <<jpeg, prompt, dma, edge, cur, received, queue, buf, filtered, fb, frame_ready>>
    BY <1>2 DEF I2sRun
  <2>2. ~edge /\ queue = <<>> /\ buf = Nothing /\ ~frame_ready /\ Len(queue) = 0
    BY <2>1 DEF QuietInv, QuietWhenIdle
  <2>3. CASE prompt
    <3>1. Fresh
      BY <2>1, <2>3 DEF FrameInv
    <3>2. len' \in 1..Lines /\ (~jpeg => len' = Lines) /\ 0 % Descs = 0
      BY <2>1, CameraAssumption
    <3>3. ToldOf'
      BY <2>1, <2>2, <3>1, <3>2 DEF ToldOf, Fresh
    <3>4. Queued' /\ InMemory'
      BY <2>1, <2>2, <3>1, CameraAssumption DEF Queued, InMemory, Fresh, Waiting, Held
    <3> QED BY <2>1, <2>2, <3>3, <3>4 DEF FrameInv, Arriving
  <2> QED BY <2>1, <2>3 DEF FrameInv
<1>3. CASE Return
  BY <1>3 DEF Return, FrameInv
<1> QED BY <1>1, <1>2, <1>3

\* A buffer the sensor may fill is not one that waits to be filtered.
LEMMA ReceiveStep ==
  ASSUME TypeOK, QuietInv, FrameInv, Receive
  PROVE  FrameInv'
<1> USE DEF sensorVars, isrVars, filterVars
<1>1. /\ rx /\ sent < len /\ (prompt => ~inDone)
      /\ sent % Descs \notin BusyBufs
      /\ dma' = [dma EXCEPT ![sent % Descs] = sent + 1]
      /\ sent' = sent + 1 /\ (inDone' <=> (inDone \/ ~jpeg \/ sent' < len))
      /\ UNCHANGED <<jpeg, prompt, call, len, rx, edge, cur, received, queue, buf, filtered, fb, data_size,
                     frame_ready>>
  BY DEF Receive
<1>2. Descs \in Nat \ {0} /\ sent \in Nat /\ received \in Nat /\ filtered \in Nat /\ len \in Nat
  BY CameraAssumption DEF TypeOK, FrameInv
<1>3. DOMAIN dma' = DOMAIN dma
  BY <1>1
<1>4. ASSUME prompt, call = "wait" PROVE Arriving'
  <2>1. ToldOf /\ Queued /\ InMemory /\ sent = received /\ ~inDone
    BY <1>1, <1>4 DEF FrameInv, Arriving, ToldOf
  <2>2. ToldOf'
    <3>1. inDone' \/ (jpeg /\ sent' = len)
      BY <1>1, <1>2
    <3>2. jpeg /\ sent' = len => ~inDone'
      BY <1>1, <1>2, <2>1
    <3>3. sent' = received + 1 /\ sent' =< len /\ received < len /\ ~edge
      BY <1>1, <1>2, <2>1 DEF ToldOf
    <3> QED BY <1>1, <2>1, <3>1, <3>2, <3>3 DEF ToldOf
  <2>3. Queued'
    BY <1>1, <2>1 DEF Queued, Waiting, Held
  <2>4. ASSUME NEW k \in Nat, filtered =< k, k < sent PROVE k % Descs # sent % Descs
    <3>1. CASE k = filtered /\ Held = 1
      <4>1. buf = k % Descs
        BY <2>1, <3>1 DEF Queued, Held
      <4> QED BY <1>1, <4>1 DEF BusyBufs
    <3>2. CASE k >= filtered + Held
      <4> DEFINE i == k - (filtered + Held) + 1
      <4>1. Held \in {0, 1}
        BY DEF Held
      <4>2. i \in 1..Waiting /\ filtered + Held + i - 1 = k
        BY <1>2, <2>1, <2>4, <3>2, <4>1 DEF Waiting
      <4> HIDE DEF i
      <4>3. i \in 1..Len(queue) /\ i =< Waiting
        BY <2>1, <4>2, LenProperties DEF Queued, TypeOK
      <4>4. queue[i] = k % Descs
        BY <2>1, <4>2, <4>3 DEF Queued
      <4>5. i \in DOMAIN queue
        BY <4>3, LenProperties DEF TypeOK
      <4> QED BY <1>1, <4>4, <4>5 DEF BusyBufs
    <3> QED BY <1>2, <2>4, <3>1, <3>2 DEF Held
  <2>5. sent - filtered < Descs
    <3>1. CASE sent - filtered = Descs
      <4>1. filtered % Descs # sent % Descs
        BY <1>2, <2>4, <3>1
      <4>2. sent % Descs = filtered % Descs
        <5>1. sent = filtered + Descs
          BY <1>2, <3>1
        <5> QED BY <1>2, <5>1, ModAround
      <4> QED BY <4>1, <4>2
    <3> QED BY <1>2, <2>1, <3>1 DEF InMemory
  <2>6. ASSUME NEW k \in Nat, filtered =< k, k < sent + 1 PROVE dma'[k % Descs] = k + 1
    <3>1. k % Descs \in DOMAIN dma
      BY <1>2, Divided DEF FrameInv
    <3>2. CASE k = sent
      BY <1>1, <3>1, <3>2
    <3>3. CASE k < sent
      <4>1. k % Descs # sent % Descs /\ dma[k % Descs] = k + 1
        BY <2>1, <2>4, <2>6, <3>3 DEF InMemory
      <4> QED BY <1>1, <4>1
    <3> QED BY <1>2, <2>6, <3>2, <3>3
  <2>7. InMemory'
    BY <1>1, <1>2, <2>1, <2>5, <2>6 DEF InMemory
  <2>8. ~frame_ready
    BY <1>1 DEF QuietInv, Running
  <2> QED BY <1>1, <2>2, <2>3, <2>7, <2>8 DEF Arriving
<1>5. call = "wait"
  BY <1>1 DEF QuietInv, Running
<1> QED BY <1>1, <1>3, <1>4, <1>5 DEF FrameInv

\* The frame ends.
LEMMA VsyncStep ==
  ASSUME FrameInv, Vsync
  PROVE  FrameInv'
<1>1. /\ sent = len
      /\ UNCHANGED <<jpeg, prompt, call, len, sent, dma, rx, inDone, cur, received, queue, buf, filtered, fb,
                     data_size, frame_ready>>
  BY DEF Vsync, sensorVars, isrVars, filterVars
<1> QED BY <1>1 DEF FrameInv, Fresh, Arriving, ToldOf, Queued, InMemory, Waiting, Held

\* An interrupt handler tells of the next buffer, and of the end with the last one: there is room
\* for a buffer, because one of the ring at least is not in the queue.
LEMMA SignalStep ==
  ASSUME TypeOK, filtered \in Nat, ToldOf, Queued, InMemory, rx, sent = received + 1,
         NEW stop \in BOOLEAN, Signal(stop), UNCHANGED <<buf, filtered>>, rx' <=> ~stop
  PROVE  cur' = received' % Descs /\ received' = received + 1 /\ Queued'
<1> DEFINE once == Send(queue, cur)
<1>1. /\ Descs \in Nat \ {0} /\ QueueSize \in Nat /\ received \in Nat /\ cur \in 0..Stop
      /\ Held \in {0, 1} /\ queue \in Seq(0..Stop) /\ Len(queue) \in Nat /\ Stop \in 0..Stop
  BY CameraAssumption, LenProperties DEF TypeOK, Held, Stop
<1>2. received' = received + 1 /\ cur' = (cur + 1) % Descs /\ queue' = (IF stop THEN Send(once, Stop) ELSE once)
  BY DEF Signal
<1>3. cur' = received' % Descs
  BY <1>1, <1>2, ModNext DEF ToldOf
<1>4. Len(queue) = Waiting /\ Waiting \in Nat /\ Len(queue) < QueueSize
  BY <1>1, RingFits DEF Queued, InMemory, Waiting
<1>5. once = Append(queue, cur)
  BY <1>4 DEF Send
<1>6. /\ once \in Seq(0..Stop) /\ Len(once) = Waiting + 1 /\ once[Waiting + 1] = cur
      /\ \A i \in 1..Waiting : once[i] = queue[i]
  BY <1>1, <1>4, <1>5, AppendProperties
<1>7. Held' = Held /\ Waiting' = Waiting + 1
  BY <1>1, <1>2 DEF Held, Waiting
<1>8. \A i \in 1..Waiting + 1 : once[i] = (filtered + Held + i - 1) % Descs
  <2>1. ASSUME NEW i \in 1..Waiting + 1 PROVE once[i] = (filtered + Held + i - 1) % Descs
    <3>1. CASE i = Waiting + 1
      <4>1. filtered + Held + i - 1 = received
        BY <1>1, <3>1 DEF Waiting
      <4> QED BY <1>6, <3>1, <4>1 DEF ToldOf
    <3>2. CASE i # Waiting + 1
      BY <1>4, <1>6, <3>2 DEF Queued
    <3> QED BY <3>1, <3>2
  <2> QED BY <2>1
<1> HIDE DEF once
<1>9. /\ Len(queue') \in Waiting + 1..Waiting + 2 /\ (~stop => Len(queue') = Waiting + 1)
      /\ \A i \in 1..Len(queue') : queue'[i] = IF i =< Waiting + 1 THEN once[i] ELSE Stop
  <2>1. CASE ~stop
    BY <1>2, <1>4, <1>6, <2>1
  <2>2. CASE stop
    <3>1. CASE Len(once) < QueueSize
      <4>1. queue' = Append(once, Stop)
        BY <1>2, <2>2, <3>1 DEF Send
      <4> QED BY <1>1, <1>4, <1>6, <2>2, <4>1, AppendProperties
    <3>2. CASE ~(Len(once) < QueueSize)
      <4>1. queue' = once
        BY <1>2, <2>2, <3>2 DEF Send
      <4> QED BY <1>4, <1>6, <2>2, <4>1
    <3> QED BY <3>1, <3>2
  <2> QED BY <2>1, <2>2
<1>10. buf' # Nothing => buf' = filtered' % Descs
  BY DEF Queued
<1>11. \A i \in 1..Len(queue') :
         queue'[i] = IF i =< Waiting' THEN (filtered' + Held' + i - 1) % Descs ELSE Stop
  BY <1>4, <1>7, <1>8, <1>9
<1> QED BY <1>2, <1>3, <1>4, <1>7, <1>9, <1>10, <1>11 DEF Queued

\* A buffer of the ring is full.
LEMMA IsrStep ==
  ASSUME TypeOK, QuietInv, FrameInv, I2sIsr \/ GpioIsr
  PROVE  FrameInv'
<1> USE DEF sensorVars, filterVars
<1>1. UNCHANGED <<jpeg, prompt, call, len, sent, dma, buf, filtered, fb, data_size, frame_ready>>
  BY DEF I2sIsr, GpioIsr
<1>2. rx /\ Running /\ call = "wait" /\ ~frame_ready
  BY DEF I2sIsr, GpioIsr, QuietInv, Stopped, Running
<1>3. /\ filtered \in Nat /\ received \in Nat /\ sent \in Nat /\ len \in Nat /\ Lines \in Nat
  BY CameraAssumption DEF TypeOK, FrameInv
<1>4. SUFFICES ASSUME prompt PROVE ToldOf' /\ Queued'
  BY <1>1, <1>2 DEF FrameInv, Arriving, InMemory
<1>5. ToldOf /\ Queued /\ InMemory
  BY <1>2, <1>4 DEF FrameInv, Arriving
<1>6. CASE I2sIsr
  <2>1. inDone /\ ~inDone' /\ UNCHANGED edge /\ Signal(received + 1 = Lines)
    BY <1>6 DEF I2sIsr
  <2>2. sent = received + 1 /\ (jpeg => sent < len)
    BY <1>2, <1>3, <1>5, <2>1 DEF ToldOf
  <2>3. rx' <=> ~(received + 1 = Lines)
    BY <1>2, <2>1 DEF Signal, Disarm
  <2>4. cur' = received' % Descs /\ received' = received + 1 /\ Queued'
    BY <1>1, <1>2, <1>3, <1>5, <2>1, <2>2, <2>3, SignalStep
  <2>5. ToldOf'
    <3>1. jpeg => received + 1 < Lines
      BY <1>2, <1>3, <2>2 DEF Running
    <3>2. ~edge
      BY <1>2, <1>5, <2>2 DEF Running, ToldOf
    <3> QED BY <1>1, <1>2, <1>3, <1>5, <2>1, <2>2, <2>3, <2>4, <3>1, <3>2 DEF ToldOf
  <2> QED BY <2>4, <2>5
<1>7. CASE GpioIsr
  <2>1. edge /\ ~edge' /\ UNCHANGED inDone
    BY <1>7 DEF GpioIsr
  <2>2. jpeg /\ sent = len /\ ~inDone /\ sent = received + 1 /\ received > 0
    BY <1>2, <1>3, <1>5, <2>1 DEF Running, ToldOf
  <2>3. Signal(TRUE) /\ ~rx'
    BY <1>7, <2>2 DEF GpioIsr, Signal, Disarm
  <2>4. cur' = received' % Descs /\ received' = received + 1 /\ Queued'
    BY <1>1, <1>2, <1>3, <1>5, <2>2, <2>3, SignalStep
  <2>5. ToldOf'
    BY <1>1, <1>3, <1>5, <2>1, <2>2, <2>3, <2>4 DEF ToldOf
  <2> QED BY <2>4, <2>5
<1> QED BY <1>6, <1>7

\* The task takes what the queue has first.
LEMMA TakeStep ==
  ASSUME TypeOK, QuietInv, FrameInv, FilterTake
  PROVE  FrameInv'
<1>1. /\ buf = Nothing /\ queue # <<>> /\ queue' = Tail(queue)
      /\ UNCHANGED <<jpeg, prompt, call, len, sent, dma, rx, inDone, edge, cur, received, filtered, fb>>
      /\ \/ Head(queue) = Stop /\ data_size' = filtered /\ frame_ready' /\ buf' = buf
         \/ Head(queue) # Stop /\ buf' = Head(queue) /\ UNCHANGED <<data_size, frame_ready>>
  BY DEF FilterTake, sensorVars, isrVars
<1>2. /\ Len(queue') = Len(queue) - 1 /\ Len(queue) \in Nat \ {0} /\ Head(queue) = queue[1]
      /\ \A i \in 1..Len(queue') : queue'[i] = queue[i + 1]
  BY <1>1, HeadTailProperties, LenProperties, EmptySeq DEF TypeOK
<1>3. call = "wait"
  BY <1>1 DEF QuietInv, QuietWhenIdle, TypeOK
<1>4. SUFFICES ASSUME prompt PROVE Queued' /\ (frame_ready' => data_size' = len /\ filtered = len)
  BY <1>1, <1>3 DEF FrameInv, Arriving, ToldOf, InMemory
<1>5. ToldOf /\ Queued /\ (frame_ready => data_size = len /\ filtered = len)
  BY <1>3, <1>4 DEF FrameInv, Arriving
<1>6. /\ Held = 0 /\ filtered \in Nat /\ received \in Nat /\ Descs \in Nat \ {0}
      /\ Waiting \in Nat /\ Waiting = received - filtered
  BY <1>1, <1>5, CameraAssumption DEF Held, FrameInv, TypeOK, Queued, Waiting
<1>7. CASE Waiting = 0
  <2>1. Head(queue) = Stop /\ Len(queue) = 1
    BY <1>2, <1>5, <1>6, <1>7 DEF Queued
  <2>2. ~rx
    BY <1>5, <1>6, <1>7, <2>1 DEF Queued
  <2>3. filtered = len /\ data_size' = filtered /\ UNCHANGED buf
    BY <1>1, <1>5, <1>6, <1>7, <2>1, <2>2 DEF ToldOf
  <2>4. Len(queue') = 0 /\ Waiting' = Waiting
    BY <1>1, <1>2, <2>1, <2>3 DEF Waiting, Held
  <2>5. Queued'
    BY <1>1, <1>5, <1>6, <1>7, <2>2, <2>3, <2>4 DEF Queued
  <2> QED BY <1>1, <2>3, <2>5
<1>8. CASE Waiting # 0
  <2>1. Head(queue) = filtered % Descs
    <3>1. 1 \in 1..Len(queue) /\ 1 =< Waiting /\ filtered + Held + 1 - 1 = filtered
      BY <1>2, <1>6, <1>8
    <3> QED BY <1>2, <1>5, <3>1 DEF Queued
  <2>2. filtered % Descs \in 0..Descs - 1
    BY <1>6, Divided
  <2>3. buf' = filtered % Descs /\ buf' # Nothing /\ UNCHANGED <<data_size, frame_ready>>
    BY <1>1, <1>6, <2>1, <2>2 DEF Stop, Nothing
  <2>4. Held' = 1 /\ Waiting' = Waiting - 1
    BY <1>1, <1>6, <2>3 DEF Held, Waiting
  <2>5. ASSUME NEW i \in 1..Len(queue')
        PROVE  queue'[i] = IF i =< Waiting - 1 THEN (filtered + 1 + i - 1) % Descs ELSE Stop
    <3>1. queue'[i] = queue[i + 1] /\ i + 1 \in 1..Len(queue)
      BY <1>2
    <3>2. queue[i + 1] = IF i + 1 =< Waiting THEN (filtered + Held + (i + 1) - 1) % Descs ELSE Stop
      BY <1>5, <3>1 DEF Queued
    <3>3. filtered + Held + (i + 1) - 1 = filtered + 1 + i - 1
      BY <1>6
    <3> QED BY <1>6, <3>1, <3>2, <3>3
  <2>6. Queued'
    <3>1. /\ Waiting' \in Nat /\ Waiting' =< Len(queue') /\ Len(queue') =< Waiting' + 1
          /\ rx' => Len(queue') = Waiting'
      BY <1>1, <1>2, <1>5, <1>6, <1>8, <2>4 DEF Queued
    <3> QED BY <1>1, <2>3, <2>4, <2>5, <3>1 DEF Queued
  <2> QED BY <1>5, <2>3, <2>6, <1>1
<1> QED BY <1>7, <1>8

\* The task filters a buffer into the frame.
LEMMA FilterWriteStep ==
  ASSUME TypeOK, QuietInv, FrameInv, FilterWrite
  PROVE  FrameInv'
<1>1. /\ buf # Nothing /\ buf' = Nothing /\ filtered' = filtered + 1
      /\ fb' = IF filtered \in DOMAIN fb THEN [fb EXCEPT ![filtered] = dma[buf]] ELSE fb
      /\ UNCHANGED <<jpeg, prompt, call, len, sent, dma, rx, inDone, edge, cur, received, queue, data_size,
                     frame_ready>>
  BY DEF FilterWrite, sensorVars, isrVars
<1>2. /\ filtered \in Nat /\ received \in Nat /\ sent \in Nat /\ len \in Nat /\ Lines \in Nat
      /\ DOMAIN fb' = DOMAIN fb /\ DOMAIN fb = 0..Lines /\ filtered' \in Nat
  BY <1>1, CameraAssumption DEF TypeOK, FrameInv
<1>3. call = "wait" /\ ~frame_ready
  BY <1>1 DEF QuietInv, QuietWhenIdle, TypeOK, Running, Stopped
<1>4. SUFFICES ASSUME prompt PROVE ToldOf' /\ Queued' /\ InMemory'
  BY <1>1, <1>2, <1>3 DEF FrameInv, Arriving
<1>5. ToldOf /\ Queued /\ InMemory
  BY <1>3, <1>4 DEF FrameInv, Arriving
<1>6. ToldOf'
  BY <1>1, <1>5 DEF ToldOf
<1>7. Held = 1 /\ Held' = 0 /\ Waiting' = Waiting /\ filtered' + Held' = filtered + Held
  BY <1>1, <1>2 DEF Held, Waiting
<1>8. Queued'
  BY <1>1, <1>5, <1>7 DEF Queued
<1>9. filtered < sent /\ sent =< Lines
  BY <1>2, <1>5, <1>7 DEF Queued, Waiting, ToldOf
<1>10. dma[buf] = filtered + 1 /\ fb' = [fb EXCEPT ![filtered] = filtered + 1]
  <2>1. buf = filtered % Descs
    BY <1>1, <1>5 DEF Queued
  <2>2. dma[filtered % Descs] = filtered + 1
    BY <1>2, <1>5, <1>9 DEF InMemory
  <2>3. filtered \in DOMAIN fb
    BY <1>2, <1>9
  <2> QED BY <1>1, <2>1, <2>2, <2>3
<1>11. \A i \in 0..Lines : fb'[i] = IF i < filtered + 1 THEN i + 1 ELSE 0
  BY <1>2, <1>5, <1>10 DEF InMemory
<1>12. InMemory'
  <2>1. filtered' = filtered + 1 /\ sent' = sent /\ dma' = dma /\ sent - (filtered + 1) =< Descs
    BY <1>1, <1>2, <1>5, CameraAssumption DEF InMemory
  <2>2. \A k \in Nat : filtered + 1 =< k /\ k < sent => dma[k % Descs] = k + 1
    <3>1. \A k \in Nat : filtered + 1 =< k => filtered =< k
      BY <1>2
    <3> QED BY <1>5, <3>1 DEF InMemory
  <2> QED BY <1>11, <2>1, <2>2 DEF InMemory
<1> QED BY <1>6, <1>8, <1>12

\* What camera_run() returns when interrupts are served promptly is the frame, whole and in order,
\* for every length of a frame, of the ring and of the queue that holds it.
THEOREM FrameWholeAlways == Spec => FrameWhole
<1>1. Init => TypeOK /\ QuietInv /\ FrameInv
  BY InitQuiet DEF Init, FrameInv
<1>2. TypeOK /\ QuietInv /\ FrameInv /\ [Next]_vars => TypeOK' /\ QuietInv' /\ FrameInv'
  <2>1. ASSUME TypeOK, QuietInv, FrameInv, UNCHANGED vars PROVE TypeOK' /\ QuietInv' /\ FrameInv'
    <3>1. FrameInv'
      BY <2>1 DEF FrameInv, Fresh, Arriving, ToldOf, Queued, InMemory, Waiting, Held, vars, sensorVars,
                  isrVars, filterVars
    <3> QED BY <2>1, <3>1, QuietUnchanged
  <2>2. ASSUME TypeOK, QuietInv, FrameInv, Next PROVE FrameInv'
    BY <2>2, RunStep, ReceiveStep, VsyncStep, IsrStep, TakeStep, FilterWriteStep DEF Next
  <2> QED BY <2>1, <2>2, TypeStep, QuietStep
<1>3. TypeOK /\ QuietInv /\ FrameInv /\ [Next]_vars =>
        [prompt /\ Return =>
           /\ data_size = len
           /\ \A i \in 0..Lines : fb[i] = IF i < len THEN i + 1 ELSE 0]_vars
  <2> SUFFICES ASSUME FrameInv, prompt, Return
               PROVE  /\ data_size = len
                      /\ \A i \in 0..Lines : fb[i] = IF i < len THEN i + 1 ELSE 0
    OBVIOUS
  <2>1. call = "wait" /\ frame_ready
    BY DEF Return
  <2> QED BY <2>1 DEF FrameInv, Arriving, InMemory
<1> QED BY <1>1, <1>2, <1>3, PTL DEF Spec, FrameWhole

----------------------------------------------------------------------------
(* The cut of a line into buffers.                                         *)

FormatInv == mode \in Modes /\ width \in Widths /\ nth \in Nat

\* A line is cut into 1, 2 or 4 buffers of a multiple of 8 pixels.
LEMMA LineCut ==
  ASSUME FormatInv
  PROVE  /\ BytesPerSample \in {2, 4}
         /\ \E n \in {1, 2, 4}, j \in Nat :
              /\ DmaPerLine = n /\ width = 8 * n * j /\ 0 < j
              /\ LineSize = 16 * n * j * BytesPerSample /\ BufSize = 16 * j * BytesPerSample /\ BufSize < 4096
<1> DEFINE b == BytesPerSample
           l == LineSize
           P(n) == l \div n < 4096 /\ (n = 1 \/ l \div (n \div 2) >= 4096)
<1>1. b \in {2, 4}
  BY DEF BytesPerSample
<1>2. width \in Widths /\ l = width * 2 * b
  BY DEF FormatInv, LineSize
<1>3. DmaPerLine = CHOOSE n \in {1, 2, 4, 8} : P(n)
  BY DEF DmaPerLine
<1> HIDE DEF b, l
<1>4. \E n \in {1, 2, 4} : /\ \A m \in {1, 2, 4, 8} : P(m) <=> m = n
                           /\ \E j \in Nat : width = 8 * n * j /\ 0 < j
  <2>1. CASE l < 4096
    <3>1. \A m \in {1, 2, 4, 8} : P(m) <=> m = 1
      BY <1>1, <1>2, <2>1 DEF Widths
    <3>2. \E j \in Nat : width = 8 * 1 * j /\ 0 < j
      <4>1. width \div 8 \in Nat /\ width = 8 * 1 * (width \div 8) /\ 0 < width \div 8
        BY <1>2 DEF Widths
      <4> QED BY <4>1
    <3> QED BY <3>1, <3>2
  <2>2. CASE 4096 =< l /\ l < 8192
    <3>1. \A m \in {1, 2, 4, 8} : P(m) <=> m = 2
      BY <1>1, <1>2, <2>2 DEF Widths
    <3>2. \E j \in Nat : width = 8 * 2 * j /\ 0 < j
      <4>1. width \div 16 \in Nat /\ width = 8 * 2 * (width \div 16) /\ 0 < width \div 16
        BY <1>1, <1>2, <2>2 DEF Widths
      <4> QED BY <4>1
    <3> QED BY <3>1, <3>2
  <2>3. CASE 8192 =< l
    <3>1. \A m \in {1, 2, 4, 8} : P(m) <=> m = 4
      BY <1>1, <1>2, <2>3 DEF Widths
    <3>2. \E j \in Nat : width = 8 * 4 * j /\ 0 < j
      <4>1. width \div 32 \in Nat /\ width = 8 * 4 * (width \div 32) /\ 0 < width \div 32
        BY <1>1, <1>2, <2>3 DEF Widths
      <4> QED BY <4>1
    <3> QED BY <3>1, <3>2
  <2> QED BY <1>1, <1>2, <2>1, <2>2, <2>3 DEF Widths
<1>5. PICK n \in {1, 2, 4} : /\ \A m \in {1, 2, 4, 8} : P(m) <=> m = n
                             /\ \E j \in Nat : width = 8 * n * j /\ 0 < j
  BY <1>4
<1>6. DmaPerLine = n /\ P(n)
  BY <1>3, <1>5
<1>7. PICK j \in Nat : width = 8 * n * j /\ 0 < j
  BY <1>5
<1>8. BufSize = l \div n
  BY <1>6 DEF BufSize, l
<1>9. l = 16 * n * j * b /\ l \div n = 16 * j * b
  BY <1>1, <1>2, <1>5, <1>7
<1> QED BY <1>1, <1>5, <1>6, <1>7, <1>8, <1>9 DEF l, b

\* What a filter writes for a buffer of j times 8 pixels, and where it writes it.
LEMMA BufferWritten ==
  ASSUME FormatInv, Modes \subseteq Formats \X BOOLEAN, mode # <<"grayscale", TRUE>>
  PROVE  LinesWhole
<1>1. PICK n \in {1, 2, 4}, j \in Nat :
        /\ DmaPerLine = n /\ width = 8 * n * j /\ 0 < j
        /\ LineSize = 16 * n * j * BytesPerSample /\ BufSize = 16 * j * BytesPerSample /\ BufSize < 4096
  BY LineCut
<1>2. nth \in Nat /\ Format \in Formats /\ Fast \in BOOLEAN /\ ~ (Format = "grayscale" /\ Fast)
  <2>1. PICK f \in Formats, fast \in BOOLEAN : mode = <<f, fast>>
    BY DEF FormatInv
  <2> QED BY <2>1 DEF FormatInv, Format, Fast
<1> DEFINE short == SamplingMode = "0A0B_0B0C" /\ (nth + 1) % n = 0
           k == nth * j
           length == Length(nth)
<1>3. /\ BytesPerSample = (IF Format = "grayscale" THEN 2 ELSE 4)
      /\ short => Fast /\ Format # "grayscale"
      /\ BytesPerPixel = (IF Format = "jpeg" THEN 2 ELSE IF Format = "rgb565" THEN 3 ELSE 1)
  BY <1>2 DEF BytesPerSample, SamplingMode, Formats, BytesPerPixel
<1>4. length = 16 * j * BytesPerSample - (IF short THEN 4 ELSE 0)
  BY <1>1 DEF Length
<1>5. /\ FbPos(nth) = (8 * n * k * BytesPerPixel) \div n
      /\ FbPos(nth + 1) = (8 * n * (k + j) * BytesPerPixel) \div n
  <2>1. nth * width = 8 * n * k /\ (nth + 1) * width = 8 * n * (k + j)
    BY <1>1, <1>2
  <2> QED BY <1>1, <2>1 DEF FbPos
<1>6. k \in Nat
  BY <1>1, <1>2
<1> HIDE DEF k, length, short
<1>7. /\ FbPos(nth) = 8 * k * BytesPerPixel /\ FbPos(nth + 1) = 8 * (k + j) * BytesPerPixel
  BY <1>1, <1>3, <1>5, <1>6
<1>8. Written(length) = 8 * j * BytesPerPixel
  <2>1. CASE Format = "jpeg"
    BY <1>1, <1>3, <1>4, <2>1 DEF Written, LastSample
  <2>2. CASE Format = "rgb565"
    BY <1>1, <1>3, <1>4, <2>2 DEF Written, LastSample
  <2>3. CASE Format = "grayscale"
    BY <1>1, <1>2, <1>3, <1>4, <2>3 DEF Written
  <2> QED BY <1>2, <2>1, <2>2, <2>3 DEF Formats
<1>9. LineFilled
  BY <1>1, <1>3, <1>6, <1>7, <1>8 DEF LineFilled, length
<1>10. BufSize * DmaPerLine = LineSize
  BY <1>1, <1>3
<1>11. Length(nth) < 4096 /\ Length(nth) % 4 = 0
  BY <1>1, <1>3, <1>4 DEF length
<1> QED BY <1>9, <1>10, <1>11 DEF LinesWhole, LineCovered

\* The ring has no more buffers than data_ready has places: RingFits of Camera.
LEMMA RingOfSixteen == FormatInv => DescCount =< 16
BY LineCut DEF DescCount

\* Every format but the fast grayscale, at every resolution of the table: the filters fill the
\* frame buffer line by line without a gap or an overlap (dma_desc_init(), get_fb_pos()).
THEOREM LinesWholeAlways ==
  ASSUME <<"grayscale", TRUE>> \notin Modes
  PROVE  FormatSpec => []LinesWhole
<1>1. FormatInit => FormatInv
  BY DEF FormatInit, FormatInv
<1>2. FormatInv /\ [FormatNext]_formatVars => FormatInv'
  <2> SUFFICES ASSUME FormatInv, Filter PROVE FormatInv'
    BY DEF FormatNext, formatVars, FormatInv
  <2>1. DescCount \in Nat \ {0}
    BY LineCut DEF DescCount
  <2> QED BY <2>1 DEF Filter, FormatInv
<1>3. FormatInv => LinesWhole
  BY BufferWritten, FormatAssumption DEF FormatInv
<1> QED BY <1>1, <1>2, <1>3, PTL DEF FormatSpec

----------------------------------------------------------------------------
(* The invariant of the web server.                                        *)

States == {"uri", "name", "value", "body", "done", "collecting", "sending", "end"}
Element == [cb : {"url", "name", "value", "headers", "body", "message"}, text : Texts]
Context ==
  [state : States, parse_buffer : Texts, request_header_tmp : Texts,
   request_headers : Seq(Header), request_args : Texts, handler : 0..Len(Handlers),
   response_code : {0, 200, 404}, response_headers : Seq({"disposition", "length", "type"})]
Item == [what : {"copy", "frame", "boundary"}]
        \cup [what : {"head"}, code : {0, 200, 404}, headers : Seq({"disposition", "length", "type"})]

Parsed == {"uri", "name", "value", "body", "done"}

ServerTypeOK ==
  /\ registered \in 0..Len(Handlers)
  /\ pc \in {"accept", "parse", "begin", "shoot", "part", "piece", "endPart", "end", "close"}
  /\ req \in Request /\ known \in BOOLEAN /\ pending \in Seq(Element)
  /\ peer \in BOOLEAN /\ ctx \in Context /\ events \in Seq(Events)
  /\ pieces \in 0..2 /\ wire \in Seq(Item)

\* What is pending of a request r is a tail of its elements, the first perhaps begun: it has
\* this position, and this is left of its text.
Position(r, pend) == Len(Callbacks(r)) - Len(pend) + 1
Left(pend) == Head(pend).text
Aligned(r, pend) ==
  /\ Len(pend) =< Len(Callbacks(r))
  /\ pend # <<>> => Head(pend).cb = Callbacks(r)[Position(r, pend)].cb
  /\ \A i \in 2..Len(pend) : pend[i] = Callbacks(r)[Position(r, pend) + i - 1]
Untouched(r, pend) == Left(pend) = Callbacks(r)[Position(r, pend)].text

\* What a context c holds after k headers.
Holds(r, c, k) == c.request_headers = Reverse(SubSeq(r.headers, 1, k))

\* The events e so far, and how far they may have come.
Ordered(e) ==
  \A i, j \in 1..Len(e) :
    i < j => Rank(e[i]) < Rank(e[j]) \/ (e[i] = "DATA" /\ e[j] = "DATA")
UpTo(e, rank) == \A i \in 1..Len(e) : Rank(e[i]) =< rank

\* The handler is for the request, and wants to respond.
Found(r, handler) ==
  /\ handler \in 1..Len(Handlers) /\ Handlers[handler].uri = r.uri
  /\ Handlers[handler].method = r.method /\ "RESPONSE" \in Handlers[handler].events

\* The stages of a request, in their order; kn: its handler is known, and parse_buffer was empty.
InUri(r, kn, c, pend) ==
  /\ Position(r, pend) = 1
  /\ kn => r.uri = c.parse_buffer \o Left(pend)
AfterUri(r, kn, c, pend) ==
  /\ Position(r, pend) = 2 /\ Untouched(r, pend)
  /\ kn => r.uri = c.parse_buffer
BeforeHeaders(r, kn, c, e, pend) ==
  /\ c.state = "uri" /\ Holds(r, c, 0) /\ c.handler = 0 /\ e = <<>>
  /\ InUri(r, kn, c, pend) \/ AfterUri(r, kn, c, pend)
InName(r, c, pend, k) ==
  /\ Position(r, pend) = 2 * k /\ c.state = "name"
  /\ r.headers[k].name = c.parse_buffer \o Left(pend)
AfterName(r, c, pend, k) ==
  /\ Position(r, pend) = 2 * k + 1 /\ c.state = "name" /\ Untouched(r, pend)
  /\ r.headers[k].name = c.parse_buffer
InValue(r, c, pend, k) ==
  /\ Position(r, pend) = 2 * k + 1 /\ c.state = "value"
  /\ r.headers[k].name = c.request_header_tmp
  /\ r.headers[k].value = c.parse_buffer \o Left(pend)
AfterValue(r, c, pend, k) ==
  /\ Position(r, pend) = 2 * k + 2 /\ c.state = "value" /\ Untouched(r, pend)
  /\ r.headers[k].name = c.request_header_tmp
  /\ r.headers[k].value = c.parse_buffer
InHeader(r, c, pend, k) ==
  /\ Holds(r, c, k - 1)
  /\ \/ InName(r, c, pend, k) \/ AfterName(r, c, pend, k)
     \/ InValue(r, c, pend, k) \/ AfterValue(r, c, pend, k)
InHeaders(r, kn, c, e, pend) ==
  /\ \E k \in 1..Len(r.headers) : InHeader(r, c, pend, k)
  /\ kn => Found(r, c.handler)
  /\ ~ r.next => Ordered(e) /\ UpTo(e, 1)
AfterHeaders(r, kn, c, e, pend) ==
  /\ Position(r, pend) > 2 * Len(r.headers) + 2 /\ c.state \in {"body", "done"}
  /\ Holds(r, c, Len(r.headers))
  /\ pend = <<>> => c.state = "done"
  /\ kn /\ r.headers # <<>> => Found(r, c.handler)
  /\ ~ r.next => Ordered(e) /\ UpTo(e, 3)
Stage(r, kn, c, e, pend) ==
  /\ Aligned(r, pend)
  /\ \/ BeforeHeaders(r, kn, c, e, pend) \/ InHeaders(r, kn, c, e, pend)
     \/ AfterHeaders(r, kn, c, e, pend)

\* A request of which the handler is known stays so.
Known == known => \E h \in Matching(req.method, req.uri) : "RESPONSE" \in Handlers[h].events
Parsing == pc = "parse" => Known /\ Stage(req, known, ctx, events, pending)

\* Once the parser has stopped, the answer to a whole request is settled.
Settled ==
  /\ pc # "parse" /\ ~ req.next => Ordered(events)
  /\ pc \notin {"accept", "parse"} /\ known /\ req.headers # <<>> /\ pending = <<>> => Answered

\* What the next header block will say.
FirstBlock ==
  /\ wire = <<>> /\ ctx.response_code # 0
  /\ ctx.response_headers = IF Page.page = "single" THEN <<"disposition", "length", "type">>
                            ELSE <<"type">>
Collecting(next) == ctx.state = "collecting" /\ (peer => next)
BetweenParts ==
  \/ FirstBlock
  \/ /\ wire # <<>> /\ wire[Len(wire)] = [what |-> "boundary"]
     /\ ctx.response_code = 0 /\ ctx.response_headers = <<>>
OfPart ==
  /\ wire # <<>> /\ wire[Len(wire)].what # "boundary"
  /\ ctx.response_code = 0 /\ ctx.response_headers = <<"length", "type">>

NoHeaders == ctx.response_headers = <<>>
IsStream == Page.page = "stream"

\* The header blocks that were sent and, wherever the response is, the next one.
Blocks ==
  /\ HeadersInPlace
  /\ pc \in {"accept", "parse", "begin", "end", "close"} => NoHeaders
  /\ pc = "accept" => ctx.request_headers = <<>> /\ ctx.request_args = <<>> /\ ctx.handler = 0
  /\ pc = "parse" => wire = <<>> /\ ctx.state \in Parsed
  /\ pc = "begin" => Collecting(wire = <<>>)
  /\ pc = "shoot" => IF IsStream THEN Collecting(BetweenParts) ELSE NoHeaders /\ Collecting(wire = <<>>)
  /\ pc = "part" => IsStream /\ Collecting(BetweenParts)
  /\ pc = "piece" => /\ pieces > 0 /\ (IsStream => ctx.response_code = 0)
                     /\ \/ Collecting(IF IsStream THEN OfPart ELSE FirstBlock)
                        \/ ctx.state = "sending" /\ NoHeaders
  /\ pc = "endPart" => IsStream /\ ctx.state = "sending" /\ NoHeaders /\ ctx.response_code = 0

IInv == ServerTypeOK /\ Parsing /\ Settled /\ Blocks

----------------------------------------------------------------------------
(* Lemmas about numbers and sequences.                                     *)

\* The numbers are well-founded: a nonempty set has a least one.
LEMMA LeastNumber ==
  ASSUME NEW T, T \subseteq Nat, T # {}
  PROVE  \E x \in T : \A y \in T : x =< y
<1> DEFINE Less == OpToRel(<, Nat)
<1>1. \A x, y \in Nat : <<x, y>> \in Less <=> x < y
  BY DEF OpToRel
<1>2. IsWellFoundedOn(Less, Nat)
  BY NatLessThanWellFounded
<1> HIDE DEF Less
<1>3. PICK x \in T : \A y \in T : ~ (<<y, x>> \in Less)
  BY <1>2, WFMin
<1>4. ASSUME NEW y \in T PROVE x =< y
  <2>1. x \in Nat /\ y \in Nat
    OBVIOUS
  <2>2. ~ (y < x)
    BY <1>1, <1>3, <2>1
  <2> QED BY <2>1, <2>2
<1> QED BY <1>4

\* A set of indices has its greatest and its least element.
LEMMA MaxOfIndices ==
  ASSUME NEW n \in Nat, NEW T, T \subseteq 1..n, T # {}
  PROVE  Max(T) \in T /\ \A x \in T : x =< Max(T)
<1> DEFINE D == {n - x : x \in T}
<1>1. D \subseteq Nat /\ D # {}
  OBVIOUS
<1>2. PICK d \in D : \A e \in D : d =< e
  BY <1>1, LeastNumber
<1>3. PICK m \in T : d = n - m
  OBVIOUS
<1>4. \A x \in T : m >= x
  <2> SUFFICES ASSUME NEW x \in T PROVE m >= x
    OBVIOUS
  <2>1. x \in 1..n /\ m \in 1..n
    OBVIOUS
  <2>2. n - m =< n - x
    BY <1>2, <1>3
  <2> QED BY <2>1, <2>2
<1>5. \E y \in T : \A x \in T : y >= x
  BY <1>4
<1>6. Max(T) \in T /\ \A x \in T : Max(T) >= x
  BY <1>5 DEF Max
<1> QED BY <1>6

\* The least of some indices is one of them.
LEMMA MinOfIndices ==
  ASSUME NEW n \in Nat, NEW T, T \subseteq 1..n, T # {}
  PROVE  Min(T) \in T
<1>1. T \subseteq Nat
  OBVIOUS
<1>2. \E x \in T : \A y \in T : x =< y
  BY <1>1, LeastNumber
<1> QED BY <1>2 DEF Min

\* A sequence turned around has the same members.
LEMMA ReverseType ==
  ASSUME NEW S, NEW s \in Seq(S)
  PROVE  Reverse(s) \in Seq(S)
<1>1. \A i \in 1..Len(s) : Len(s) - i + 1 \in 1..Len(s)
  OBVIOUS
<1>2. \A i \in 1..Len(s) : s[Len(s) - i + 1] \in S
  BY <1>1, ElementOfSeq
<1> QED BY <1>2 DEF Reverse

----------------------------------------------------------------------------
(* Lemmas about the server's operators.                                    *)

\* The last handler that matches is found, if there is one.
LEMMA FindHandler ==
  ASSUME ServerTypeOK, NEW method, NEW uri
  PROVE  LET h == http_find_handler(method, uri)
         IN /\ h \in 0..registered
            /\ Matching(method, uri) # {} =>
                 h \in Matching(method, uri) /\ \A g \in Matching(method, uri) : g =< h
<1>1. registered \in Nat /\ Matching(method, uri) \subseteq 1..registered
  BY HttpAssumption DEF ServerTypeOK, Matching
<1>2. CASE Matching(method, uri) = {}
  BY <1>1, <1>2 DEF http_find_handler
<1>3. CASE Matching(method, uri) # {}
  BY <1>1, <1>3, MaxOfIndices DEF http_find_handler
<1> QED BY <1>2, <1>3

\* The handler is looked up for the text before a "?", and the text is taken.
LEMMA UriDone ==
  ASSUME ServerTypeOK, NEW c \in Context
  PROVE  LET d == uri_done(c)
         IN /\ d \in Context
            /\ d.state = c.state /\ d.parse_buffer = <<>>
            /\ d.request_header_tmp = c.request_header_tmp /\ d.request_headers = c.request_headers
            /\ d.response_code = c.response_code /\ d.response_headers = c.response_headers
            /\ "?" \notin ToSet(c.parse_buffer) =>
                 d.handler = http_find_handler(req.method, c.parse_buffer)
<1> DEFINE query == SelectInSeq(c.parse_buffer, LAMBDA t : t = "?")
           I == {i \in 1..Len(c.parse_buffer) : c.parse_buffer[i] = "?"}
           uri == IF query = 0 THEN c.parse_buffer ELSE SubSeq(c.parse_buffer, 1, query - 1)
           args == IF query = 0 THEN <<>>
                   ELSE SubSeq(c.parse_buffer, query + 1, Len(c.parse_buffer))
           d == uri_done(c)
<1>1. c.parse_buffer \in Texts /\ c.request_args \in Texts
  BY DEF Context
<1>2. query = IF I # {} THEN Min(I) ELSE 0
  BY DEF SelectInSeq
<1>3. query \in 0..Len(c.parse_buffer)
  <2>1. Len(c.parse_buffer) \in Nat /\ I \subseteq 1..Len(c.parse_buffer)
    BY <1>1 DEF Texts
  <2>2. I # {} => Min(I) \in I
    BY <2>1, MinOfIndices
  <2> QED BY <1>2, <2>1, <2>2
<1> HIDE DEF query
<1>4. args \in Texts
  BY <1>1, <1>3, SubSeqProperties DEF Texts
<1> DEFINE both == Reverse(args) \o c.request_args
           handler == http_find_handler(req.method, uri)
<1>5. both \in Texts
  BY <1>1, <1>4, ReverseType, ConcatProperties DEF Texts
<1>6. handler \in 0..Len(Handlers)
  BY FindHandler, HttpAssumption DEF ServerTypeOK
<1>7. d = [c EXCEPT !.request_args = both, !.handler = handler, !.parse_buffer = <<>>]
  BY DEF uri_done, query
<1>8. "?" \notin ToSet(c.parse_buffer) => handler = http_find_handler(req.method, c.parse_buffer)
  BY <1>1, <1>2 DEF ToSet, Texts
<1>9. <<>> \in Texts
  BY DEF Texts
<1> HIDE DEF args, uri, d, both, handler
<1>10. d \in Context
  BY <1>5, <1>6, <1>7, <1>9, ZenonT(30) DEF Context
<1>11. d.handler = handler
  BY <1>7 DEF Context
<1> QED BY <1>7, <1>8, <1>10, <1>11 DEF Context, d

SameAnswer(c, d) ==
  c.response_code = d.response_code /\ c.response_headers = d.response_headers
SameHandler(c, d) ==
  c.handler = d.handler /\ c.request_args = d.request_args

\* header_value_done puts the header before the others.
LEMMA ValueDone ==
  ASSUME NEW c \in Context
  PROVE  LET d == header_value_done(c)
         IN /\ d \in Context /\ SameAnswer(c, d) /\ SameHandler(c, d)
            /\ d.state = c.state /\ d.parse_buffer = <<>>
            /\ d.request_headers =
                 <<[name |-> c.request_header_tmp, value |-> c.parse_buffer]>> \o c.request_headers
<1> DEFINE h == [name |-> c.request_header_tmp, value |-> c.parse_buffer]
           headers == <<h>> \o c.request_headers
           d == header_value_done(c)
<1>1. h \in Header /\ c.request_headers \in Seq(Header)
  BY DEF Context, Header
<1>2. headers \in Seq(Header)
  <2>1. <<h>> \in Seq(Header)
    BY <1>1
  <2> QED BY <1>1, <2>1, ConcatProperties
<1>3. d = [c EXCEPT !.request_headers = headers, !.request_header_tmp = <<>>, !.parse_buffer = <<>>]
  BY DEF header_value_done
<1>4. <<>> \in Texts
  BY DEF Texts
<1> HIDE DEF h, headers, d
<1>5. d \in Context
  <2>1. d = [state |-> c.state, parse_buffer |-> <<>>, request_header_tmp |-> <<>>,
             request_headers |-> headers, request_args |-> c.request_args, handler |-> c.handler,
             response_code |-> c.response_code, response_headers |-> c.response_headers]
    BY <1>3 DEF Context
  <2> QED BY <1>2, <1>4, <2>1 DEF Context
<1>7. d.state = c.state /\ d.parse_buffer = <<>> /\ d.request_headers = headers
  BY <1>3 DEF Context
<1>6. SameAnswer(c, d) /\ SameHandler(c, d)
  BY <1>3 DEF Context, SameAnswer, SameHandler
<1> QED BY <1>5, <1>6, <1>7 DEF d, headers, h

\* What http_header_name_cb does in each state.
LEMMA NameCallback ==
  ASSUME ServerTypeOK, NEW at \in Texts
  PROVE  LET c == http_header_name_cb(ctx, at)
         IN /\ c \in Context /\ SameAnswer(c, ctx)
            /\ c.state = IF ctx.state \in {"uri", "value"} THEN "name" ELSE ctx.state
            /\ ctx.state = "uri" => /\ c.parse_buffer = at /\ c.handler = uri_done(ctx).handler
                                    /\ c.request_headers = ctx.request_headers
            /\ ctx.state = "value" =>
                 /\ c.parse_buffer = at /\ c.handler = ctx.handler
                 /\ c.request_headers = header_value_done(ctx).request_headers
            /\ ctx.state = "name" => /\ c.parse_buffer = ctx.parse_buffer \o at
                                     /\ SameHandler(c, ctx)
                                     /\ c.request_headers = ctx.request_headers
<1> DEFINE done == CASE ctx.state = "uri" -> uri_done(ctx)
                     [] ctx.state = "value" -> header_value_done(ctx)
                     [] OTHER -> ctx
           both == done.parse_buffer \o at
           state == IF done.state \in {"uri", "value"} THEN "name" ELSE done.state
           c == http_header_name_cb(ctx, at)
<1>1. ctx \in Context
  BY DEF ServerTypeOK
<1>2. done \in Context /\ SameAnswer(done, ctx) /\ done.state = ctx.state
  <2>1. CASE ctx.state = "uri"
    BY <1>1, <2>1, UriDone DEF SameAnswer
  <2>2. CASE ctx.state = "value"
    BY <1>1, <2>2, ValueDone DEF SameAnswer
  <2>3. CASE ctx.state \notin {"uri", "value"}
    BY <1>1, <2>3 DEF SameAnswer
  <2> QED BY <2>1, <2>2, <2>3
<1>3. /\ ctx.state = "uri" => done = uri_done(ctx) /\ done.parse_buffer = <<>>
      /\ ctx.state = "value" => done = header_value_done(ctx) /\ done.parse_buffer = <<>>
      /\ ctx.state = "name" => done = ctx
  BY <1>1, UriDone, ValueDone
<1>4. c = [done EXCEPT !.state = state, !.parse_buffer = both]
  BY DEF http_header_name_cb
<1>5. ctx.state = "uri" => done.request_headers = ctx.request_headers
  BY <1>1, <1>3, UriDone
<1>6. ctx.state = "value" => done.handler = ctx.handler
  BY <1>1, <1>3, ValueDone DEF SameHandler
<1>7. done.parse_buffer \in Texts
  BY <1>2 DEF Context
<1>8. both \in Texts /\ <<>> \o at = at
  BY <1>7, ConcatProperties, ConcatEmptySeq DEF Texts
<1>9. state \in States
  BY <1>2 DEF Context, States
<1>10. both = IF ctx.state \in {"uri", "value"} THEN at ELSE done.parse_buffer \o at
  BY <1>3, <1>8
<1> HIDE DEF done, both, c, state
<1>11. c \in Context /\ SameAnswer(c, done) /\ SameHandler(c, done)
       /\ c.state = state /\ c.parse_buffer = both /\ c.request_headers = done.request_headers
  BY <1>2, <1>4, <1>8, <1>9, ZenonT(30) DEF Context, SameAnswer, SameHandler
<1>12. state = IF ctx.state \in {"uri", "value"} THEN "name" ELSE ctx.state
  BY <1>2 DEF state
<1> QED BY <1>2, <1>3, <1>5, <1>6, <1>8, <1>10, <1>11, <1>12 DEF SameAnswer, SameHandler, c

\* What http_header_value_cb does in each state.
LEMMA ValueCallback ==
  ASSUME ServerTypeOK, NEW at \in Texts
  PROVE  LET c == http_header_value_cb(ctx, at)
         IN /\ c \in Context /\ SameAnswer(c, ctx) /\ SameHandler(c, ctx)
            /\ c.request_headers = ctx.request_headers
            /\ c.state = IF ctx.state = "name" THEN "value" ELSE ctx.state
            /\ ctx.state = "name" => /\ c.request_header_tmp = ctx.parse_buffer
                                     /\ c.parse_buffer = at
            /\ ctx.state # "name" => /\ c.request_header_tmp = ctx.request_header_tmp
                                     /\ c.parse_buffer = ctx.parse_buffer \o at
<1> DEFINE done == IF ctx.state = "name" THEN header_name_done(ctx) ELSE ctx
           both == done.parse_buffer \o at
           state == IF done.state = "name" THEN "value" ELSE done.state
           c == http_header_value_cb(ctx, at)
<1>1. ctx \in Context /\ <<>> \in Texts
  BY DEF ServerTypeOK, Texts
<1>2. /\ done \in Context /\ SameAnswer(done, ctx) /\ SameHandler(done, ctx)
      /\ done.state = ctx.state /\ done.request_headers = ctx.request_headers
  BY <1>1, ZenonT(60) DEF header_name_done, Context, SameAnswer, SameHandler
<1>3. /\ ctx.state = "name" => /\ done.parse_buffer = <<>>
                               /\ done.request_header_tmp = ctx.parse_buffer
      /\ ctx.state # "name" => done = ctx
  BY <1>1 DEF header_name_done, Context
<1>4. c = [done EXCEPT !.state = state, !.parse_buffer = both]
  BY DEF http_header_value_cb
<1>7. done.parse_buffer \in Texts
  BY <1>2 DEF Context
<1>8. both \in Texts /\ <<>> \o at = at
  BY <1>7, ConcatProperties, ConcatEmptySeq DEF Texts
<1>9. state \in States
  BY <1>2 DEF Context, States
<1>10. both = IF ctx.state = "name" THEN at ELSE ctx.parse_buffer \o at
  BY <1>3, <1>8
<1>12. state = IF ctx.state = "name" THEN "value" ELSE ctx.state
  BY <1>2
<1> HIDE DEF done, both, c, state
<1>11. /\ c \in Context /\ SameAnswer(c, done) /\ SameHandler(c, done)
       /\ c.state = state /\ c.parse_buffer = both /\ c.request_headers = done.request_headers
       /\ c.request_header_tmp = done.request_header_tmp
  BY <1>2, <1>4, <1>8, <1>9, ZenonT(30) DEF Context, SameAnswer, SameHandler
<1> QED BY <1>2, <1>3, <1>10, <1>11, <1>12 DEF SameAnswer, SameHandler, c

\* What http_headers_done_cb does in each state.
LEMMA HeadersCallback ==
  ASSUME ServerTypeOK
  PROVE  LET c == http_headers_done_cb(ctx)
         IN /\ c \in Context /\ SameAnswer(c, ctx) /\ SameHandler(c, ctx) /\ c.state = "body"
            /\ c.request_headers = IF ctx.state = "value" THEN header_value_done(ctx).request_headers
                                   ELSE ctx.request_headers
<1> DEFINE done == IF ctx.state = "value" THEN header_value_done(ctx) ELSE ctx
<1>1. ctx \in Context
  BY DEF ServerTypeOK
<1>2. done \in Context /\ SameAnswer(done, ctx) /\ SameHandler(done, ctx)
  BY <1>1, ValueDone DEF SameAnswer, SameHandler
<1>3. done.request_headers = IF ctx.state = "value" THEN header_value_done(ctx).request_headers
                             ELSE ctx.request_headers
  OBVIOUS
<1>4. http_headers_done_cb(ctx) = [done EXCEPT !.state = "body"]
  BY DEF http_headers_done_cb
<1> HIDE DEF done
<1> QED BY <1>2, <1>3, <1>4 DEF Context, States, SameAnswer, SameHandler

\* A callback and what it tells the handler are well typed, and leave the answer alone.
LEMMA CallbackType ==
  ASSUME ServerTypeOK, NEW element \in Element, NEW at \in Texts
  PROVE  LET c == Callback(element.cb, at)
         IN /\ c \in Context /\ SameAnswer(c, ctx)
            /\ ctx.state \in Parsed => c.state \in Parsed
            /\ Told(element.cb) \in Seq(Events)
<1> DEFINE cb == element.cb
           c == Callback(cb, at)
<1>1. /\ cb \in {"url", "name", "value", "headers", "body", "message"} /\ ctx \in Context
      /\ events \in Seq(Events)
  BY DEF Element, ServerTypeOK
<1>2. c \in Context /\ SameAnswer(c, ctx) /\ (ctx.state \in Parsed => c.state \in Parsed)
  <2>1. CASE cb = "url"
    <3> DEFINE both == ctx.parse_buffer \o at
    <3>1. both \in Texts
      BY <1>1, ConcatProperties DEF Texts, Context
    <3>2. c = [ctx EXCEPT !.parse_buffer = both]
      BY <2>1 DEF Callback
    <3> HIDE DEF both, c
    <3> QED BY <1>1, <3>1, <3>2, SMTT(30) DEF Context, SameAnswer
  <2>2. CASE cb = "name"
    BY <2>2, NameCallback DEF Callback, Parsed
  <2>3. CASE cb = "value"
    BY <2>3, ValueCallback DEF Callback, Parsed
  <2>4. CASE cb = "headers"
    BY <2>4, HeadersCallback DEF Callback, Parsed
  <2>5. CASE cb = "body"
    BY <1>1, <2>5 DEF Callback, SameAnswer
  <2>6. CASE cb = "message"
    <3>1. c = [ctx EXCEPT !.state = "done"]
      BY <2>6 DEF Callback, http_message_done_cb
    <3> HIDE DEF c
    <3> QED BY <1>1, <3>1 DEF Context, States, Parsed, SameAnswer
  <2> QED BY <1>1, <2>1, <2>2, <2>3, <2>4, <2>5, <2>6
<1>3. ASSUME NEW d, NEW event \in Events
      PROVE  invoke_handler(d, events, event) \in Seq(Events)
  BY <1>1, AppendProperties DEF invoke_handler
<1>4. Told(cb) \in Seq(Events)
  BY <1>1, <1>3 DEF Told, Events
<1> QED BY <1>2, <1>4

\* The answer begins.
LEMMA AnswerStep ==
  ASSUME NEW c \in Context, NEW e \in Seq(Events), Answer(c, e)
  PROVE  /\ ctx' \in Context /\ SameAnswer(ctx', c) /\ SameHandler(ctx', c)
         /\ ctx'.state = "collecting" /\ events' \in Seq(Events)
         /\ pc' \in {"begin", "close", "shoot"}
         /\ pc' = "shoot" => c.handler # 0 /\ Handlers[c.handler].page # "stream"
<1>1. ctx' = [c EXCEPT !.state = "collecting"]
  BY DEF Answer
<1>2. ctx' \in Context /\ SameAnswer(ctx', c) /\ SameHandler(ctx', c) /\ ctx'.state = "collecting"
  BY <1>1 DEF Context, States, SameAnswer, SameHandler
<1>3. events' \in Seq(Events)
  <2>1. events' = invoke_handler(c, e, "RESPONSE") /\ "RESPONSE" \in Events
    BY DEF Answer, Events
  <2> QED BY <2>1, AppendProperties DEF invoke_handler
<1>4. pc' = CASE c.handler = 0 -> "begin"
              [] ~Wants(c, "RESPONSE") -> "close"
              [] OTHER -> IF Handlers[c.handler].page = "stream" THEN "begin" ELSE "shoot"
  BY DEF Answer
<1>5. /\ pc' \in {"begin", "close", "shoot"}
      /\ pc' = "shoot" => c.handler # 0 /\ Handlers[c.handler].page # "stream"
  BY <1>4
<1> QED BY <1>2, <1>3, <1>5

\* What Parse does: a piece of the first element, and the answer if it does not fit.
LEMMA ParseStep ==
  ASSUME ServerTypeOK, Parse
  PROVE  LET cb == Head(pending).cb
         IN \E at \in Texts, rest \in Texts :
              LET c == Callback(cb, at)
              IN /\ Head(pending).text = at \o rest /\ pending # <<>>
                 /\ pending' = IF rest = <<>> THEN Tail(pending)
                               ELSE <<Of(cb, rest)>> \o Tail(pending)
                 /\ \/ ctx' = c /\ events' = Told(cb) /\ pc' = "parse"
                    \/ /\ ~ Fits(c)
                       /\ \E d \in Context :
                            /\ SameAnswer(d, c) /\ SameHandler(d, c)
                            /\ Answer(d, Told(cb))
<1> DEFINE cb == Head(pending).cb
           text == Head(pending).text
<1>1. pending # <<>> /\ Head(pending) \in Element /\ pc = "parse"
  BY HeadTailProperties DEF Parse, ServerTypeOK
<1>2. text \in Texts /\ cb \in {"url", "name", "value", "headers", "body", "message"}
  BY <1>1 DEF Element
<1>3. PICK n \in 0..Len(text) :
        LET c == Callback(cb, SubSeq(text, 1, n))
        IN /\ pending' = IF n = Len(text) THEN Tail(pending)
                         ELSE <<Of(cb, SubSeq(text, n + 1, Len(text)))>> \o Tail(pending)
           /\ IF Fits(c)
              THEN ctx' = c /\ events' = Told(cb) /\ UNCHANGED pc
              ELSE Answer([c EXCEPT !.parse_buffer = SubSeq(@, 1, Len(@) - n)], Told(cb))
  BY DEF Parse
<1> DEFINE at == SubSeq(text, 1, n)
           rest == SubSeq(text, n + 1, Len(text))
           c == Callback(cb, at)
           d == [c EXCEPT !.parse_buffer = SubSeq(@, 1, Len(@) - n)]
<1>4. Len(text) \in Nat /\ n \in Nat
  BY <1>2 DEF Texts
<1>5. \A i \in 1..Len(text) : text[i] \in Tokens
  BY <1>2, ElementOfSeq DEF Texts
<1>6. at \in Texts /\ rest \in Texts
  BY <1>4, <1>5, SubSeqProperties DEF Texts
<1>7. text = at \o rest
  <2>1. text \in Seq(Tokens) /\ 1 \in 1..Len(text) + 1 /\ n \in 1 - 1..Len(text)
        /\ Len(text) \in n..Len(text)
    BY <1>2, <1>4 DEF Texts
  <2>2. SubSeq(text, 1, n) \o SubSeq(text, n + 1, Len(text)) = SubSeq(text, 1, Len(text))
    BY <2>1, ConcatAdjacentSubSeq
  <2> QED BY <2>1, <2>2, SubSeqFull
<1>8. n = Len(text) <=> rest = <<>>
  <2>1. Len(rest) = IF n + 1 =< Len(text) THEN Len(text) - n ELSE 0
    BY <1>4, <1>5, SubSeqProperties
  <2>2. rest = <<>> <=> Len(rest) = 0
    BY <1>6, EmptySeq DEF Texts
  <2> HIDE DEF rest
  <2> QED BY <1>4, <2>1, <2>2
<1>9. c \in Context
  BY <1>1, <1>6, CallbackType
<1>10. SubSeq(c.parse_buffer, 1, Len(c.parse_buffer) - n) \in Texts
  <2>1. c.parse_buffer \in Texts
    BY <1>9 DEF Context
  <2>2. Len(c.parse_buffer) \in Nat /\ \A i \in 1..Len(c.parse_buffer) : c.parse_buffer[i] \in Tokens
    BY <2>1, ElementOfSeq DEF Texts
  <2> QED BY <1>4, <2>2, SubSeqProperties DEF Texts
<1>11. d \in Context /\ SameAnswer(d, c) /\ SameHandler(d, c)
  <2> DEFINE cut == SubSeq(c.parse_buffer, 1, Len(c.parse_buffer) - n)
  <2>1. d = [c EXCEPT !.parse_buffer = cut]
    OBVIOUS
  <2> HIDE DEF cut, c, d
  <2>2. d \in Context
    <3>1. d = [state |-> c.state, parse_buffer |-> cut, request_header_tmp |-> c.request_header_tmp,
               request_headers |-> c.request_headers, request_args |-> c.request_args,
               handler |-> c.handler,
               response_code |-> c.response_code, response_headers |-> c.response_headers]
      BY <1>9, <2>1 DEF Context
    <3>2. cut \in Texts
      BY <1>10 DEF cut
    <3> QED BY <1>9, <3>1, <3>2 DEF Context
  <2> QED BY <1>9, <2>1, <2>2 DEF Context, SameAnswer, SameHandler
<1>12. pending' = IF rest = <<>> THEN Tail(pending) ELSE <<Of(cb, rest)>> \o Tail(pending)
  BY <1>3, <1>8
<1>13. \/ ctx' = c /\ events' = Told(cb) /\ pc' = "parse"
       \/ ~ Fits(c) /\ Answer(d, Told(cb))
  BY <1>1, <1>3
<1> HIDE DEF d
<1>14. \/ ctx' = c /\ events' = Told(cb) /\ pc' = "parse"
       \/ ~ Fits(c) /\ \E e \in Context : SameAnswer(e, c) /\ SameHandler(e, c) /\ Answer(e, Told(cb))
  BY <1>11, <1>13
<1> HIDE DEF at, rest
<1>15. \E a, r \in Texts :
         LET f == Callback(cb, a)
         IN /\ text = a \o r /\ pending # <<>>
            /\ pending' = IF r = <<>> THEN Tail(pending) ELSE <<Of(cb, r)>> \o Tail(pending)
            /\ \/ ctx' = f /\ events' = Told(cb) /\ pc' = "parse"
               \/ ~ Fits(f) /\ \E e \in Context : /\ SameAnswer(e, f) /\ SameHandler(e, f)
                                                  /\ Answer(e, Told(cb))
  BY <1>1, <1>6, <1>7, <1>12, <1>14
<1> QED BY <1>15

----------------------------------------------------------------------------
(* The elements of a request.                                              *)

\* What a callback is given.
LEMMA OfType ==
  ASSUME NEW cb \in {"url", "name", "value", "headers", "body", "message"}, NEW text \in Texts
  PROVE  Of(cb, text) \in Element /\ Of(cb, text).cb = cb /\ Of(cb, text).text = text
BY DEF Of, Element

\* The elements of the headers: a name and a value for each.
LEMMA OfHeadersShape ==
  ASSUME NEW headers \in Seq(Header)
  PROVE  /\ OfHeaders(headers) \in Seq(Element) /\ Len(OfHeaders(headers)) = 2 * Len(headers)
         /\ \A k \in 1..Len(headers) :
              /\ OfHeaders(headers)[2 * k - 1] = Of("name", headers[k].name)
              /\ OfHeaders(headers)[2 * k] = Of("value", headers[k].value)
<1> DEFINE n == Len(headers)
           s == OfHeaders(headers)
<1>1. n \in Nat
  OBVIOUS
<1>2. \A k \in 1..n : headers[k].name \in Texts /\ headers[k].value \in Texts
  <2> SUFFICES ASSUME NEW k \in 1..n PROVE headers[k].name \in Texts /\ headers[k].value \in Texts
    OBVIOUS
  <2>1. headers[k] \in Header
    BY ElementOfSeq
  <2> QED BY <2>1 DEF Header
<1>3. ASSUME NEW i \in 1..2 * n
      PROVE  s[i] \in Element
  <2>1. s[i] = IF i % 2 = 1 THEN Of("name", headers[(i + 1) \div 2].name)
               ELSE Of("value", headers[i \div 2].value)
    BY DEF OfHeaders
  <2>2. CASE i % 2 = 1
    <3>1. (i + 1) \div 2 \in 1..n
      BY <1>1, <2>2
    <3> QED BY <1>2, <2>1, <2>2, <3>1, OfType
  <2>3. CASE i % 2 # 1
    <3>1. i \div 2 \in 1..n
      BY <1>1, <2>3
    <3> QED BY <1>2, <2>1, <2>3, <3>1, OfType
  <2> QED BY <2>2, <2>3
<1>4. s \in Seq(Element) /\ Len(s) = 2 * n
  <2>1. 2 * n \in Nat /\ DOMAIN s = 1..2 * n /\ s = [i \in 1..2 * n |-> s[i]]
    BY <1>1 DEF OfHeaders
  <2> HIDE DEF s, n
  <2>2. s \in [1..2 * n -> Element]
    BY <1>3, <2>1
  <2> QED BY <2>1, <2>2
<1>5. ASSUME NEW k \in 1..n
      PROVE  /\ s[2 * k - 1] = Of("name", headers[k].name)
             /\ s[2 * k] = Of("value", headers[k].value)
  <2>1. 2 * k - 1 \in 1..2 * n /\ (2 * k - 1) % 2 = 1 /\ (2 * k - 1 + 1) \div 2 = k
    BY <1>1
  <2>2. 2 * k \in 1..2 * n /\ (2 * k) % 2 # 1 /\ (2 * k) \div 2 = k
    BY <1>1
  <2> QED BY <2>1, <2>2 DEF OfHeaders
<1> QED BY <1>4, <1>5

\* What follows the headers: the body, the end of the message and perhaps another request.
LEMMA OfBodyShape ==
  ASSUME NEW r \in Request
  PROVE  LET s == OfBody(r)
         IN /\ s \in Seq(Element) /\ Len(s) >= 1 /\ s[Len(s)].cb = "message"
            /\ \A i \in 1..Len(s) :
                 /\ s[i].cb \in {"body", "message", "url", "headers"}
                 /\ ~ r.next => s[i].cb = (IF i = Len(s) THEN "message" ELSE "body")
<1> DEFINE body == IF r.body = <<>> THEN <<>> ELSE <<Of("body", r.body)>>
           message == <<Of("message", <<>>)>>
           other == IF r.next THEN <<Of("url", <<"/">>), Of("headers", <<>>), Of("message", <<>>)>>
                    ELSE <<>>
<1>1. OfBody(r) = (body \o message) \o other
  BY DEF OfBody
<1>2. <<>> \in Texts /\ <<"/">> \in Texts /\ r.body \in Texts /\ r.next \in BOOLEAN
  BY HttpAssumption DEF Texts, Request
<1>3. body \in Seq(Element) /\ Len(body) \in {0, 1} /\ \A i \in 1..Len(body) : body[i].cb = "body"
  BY <1>2, OfType
<1>4. message \in Seq(Element) /\ Len(message) = 1 /\ message[1].cb = "message"
  BY <1>2, OfType
<1>5. /\ other \in Seq(Element) /\ Len(other) = IF r.next THEN 3 ELSE 0
      /\ r.next => other[1].cb = "url" /\ other[2].cb = "headers" /\ other[3].cb = "message"
  <2>1. CASE r.next
    <3>1. Of("url", <<"/">>) \in Element /\ Of("headers", <<>>) \in Element /\ Of("message", <<>>) \in Element
      BY <1>2, OfType
    <3> QED BY <1>2, <2>1, <3>1, OfType
  <2>2. CASE ~ r.next
    BY <2>2
  <2> QED BY <1>2, <2>1, <2>2
<1> HIDE DEF body, message, other
<1> DEFINE first == body \o message
<1>6. /\ first \in Seq(Element) /\ Len(first) = Len(body) + 1
      /\ \A i \in 1..Len(first) : first[i].cb = (IF i = Len(first) THEN "message" ELSE "body")
  <2>1. /\ first \in Seq(Element) /\ Len(first) = Len(body) + Len(message)
        /\ \A i \in 1..Len(body) + Len(message) :
             first[i] = IF i =< Len(body) THEN body[i] ELSE message[i - Len(body)]
    BY <1>3, <1>4, ConcatProperties
  <2> HIDE DEF first
  <2> QED BY <1>3, <1>4, <2>1
<1> HIDE DEF first
<1>7. /\ OfBody(r) \in Seq(Element) /\ Len(OfBody(r)) = Len(first) + Len(other)
      /\ \A i \in 1..Len(first) + Len(other) :
           OfBody(r)[i] = IF i =< Len(first) THEN first[i] ELSE other[i - Len(first)]
  <2>1. OfBody(r) = first \o other
    BY <1>1 DEF first
  <2>2. /\ first \o other \in Seq(Element) /\ Len(first \o other) = Len(first) + Len(other)
        /\ \A i \in 1..Len(first) + Len(other) :
             (first \o other)[i] = IF i =< Len(first) THEN first[i] ELSE other[i - Len(first)]
    BY <1>5, <1>6, ConcatProperties, ZenonT(30)
  <2> QED BY <2>1, <2>2
<1>8. CASE ~ r.next
  BY <1>3, <1>5, <1>6, <1>7, <1>8
<1>9. CASE r.next
  <2>1. \A i \in 1..Len(first) + 3 : i > Len(first) => i - Len(first) \in {1, 2, 3}
    BY <1>3, <1>6
  <2>2. Len(other) = 3 /\ Len(first) \in {1, 2} /\ Len(OfBody(r)) = Len(first) + 3
    BY <1>3, <1>5, <1>6, <1>7, <1>9
  <2>3. ASSUME NEW i \in 1..Len(first) + 3
        PROVE  OfBody(r)[i].cb \in {"body", "message", "url", "headers"}
    <3>1. CASE i =< Len(first)
      BY <1>6, <1>7, <2>2, <3>1
    <3>2. CASE i > Len(first)
      BY <1>5, <1>7, <1>9, <2>1, <2>2, <3>2
    <3> QED BY <2>2, <3>1, <3>2
  <2>4. OfBody(r)[Len(first) + 3] = other[3]
    BY <1>7, <2>2
  <2> QED BY <1>5, <1>7, <1>9, <2>2, <2>3, <2>4
<1> QED BY <1>2, <1>8, <1>9

\* The elements of a request by their positions.
LEMMA CallbacksShape ==
  ASSUME NEW r \in Request
  PROVE  LET s == Callbacks(r)
             n == Len(r.headers)
         IN /\ n \in Nat /\ s \in Seq(Element) /\ Len(s) \in Nat /\ Len(s) > 2 * n + 2
            /\ s[1] = Of("url", r.uri) /\ s[2 * n + 2] = Of("headers", <<>>)
            /\ \A k \in 1..n : /\ s[2 * k] = Of("name", r.headers[k].name)
                               /\ s[2 * k + 1] = Of("value", r.headers[k].value)
            /\ s[Len(s)].cb = "message"
            /\ \A i \in 2 * n + 3..Len(s) :
                 /\ s[i].cb \in {"body", "message", "url", "headers"}
                 /\ ~ r.next => s[i].cb = (IF i = Len(s) THEN "message" ELSE "body")
<1> DEFINE n == Len(r.headers)
           url == <<Of("url", r.uri)>>
           headers == OfHeaders(r.headers)
           done == <<Of("headers", <<>>)>>
           body == OfBody(r)
           s == Callbacks(r)
<1>1. r.headers \in Seq(Header) /\ r.uri \in Texts /\ <<>> \in Texts /\ n \in Nat
  BY DEF Request, Texts
<1>2. url \in Seq(Element) /\ Len(url) = 1 /\ url[1] = Of("url", r.uri)
  BY <1>1, OfType
<1>3. headers \in Seq(Element) /\ Len(headers) = 2 * n
  BY <1>1, OfHeadersShape
<1>4. done \in Seq(Element) /\ Len(done) = 1 /\ done[1] = Of("headers", <<>>)
  BY <1>1, OfType
<1>5. body \in Seq(Element) /\ Len(body) \in Nat /\ Len(body) >= 1
  BY OfBodyShape
<1>6. s = ((url \o headers) \o done) \o body
  BY DEF Callbacks
<1> HIDE DEF url, headers, done, body, s, n
<1> DEFINE two == url \o headers
           three == two \o done
<1>7. /\ two \in Seq(Element) /\ Len(two) = 1 + 2 * n
      /\ two[1] = url[1] /\ \A i \in 2..1 + 2 * n : two[i] = headers[i - 1]
  <2>1. /\ two \in Seq(Element) /\ Len(two) = Len(url) + Len(headers)
        /\ \A i \in 1..Len(url) + Len(headers) :
             two[i] = IF i =< Len(url) THEN url[i] ELSE headers[i - Len(url)]
    BY <1>2, <1>3, ConcatProperties
  <2> HIDE DEF two
  <2> QED BY <1>1, <1>2, <1>3, <2>1
<1> HIDE DEF two
<1>8. /\ three \in Seq(Element) /\ Len(three) = 2 + 2 * n
      /\ \A i \in 1..1 + 2 * n : three[i] = two[i]
      /\ three[2 * n + 2] = done[1]
  <2>1. /\ three \in Seq(Element) /\ Len(three) = Len(two) + Len(done)
        /\ \A i \in 1..Len(two) + Len(done) :
             three[i] = IF i =< Len(two) THEN two[i] ELSE done[i - Len(two)]
    BY <1>4, <1>7, ConcatProperties
  <2> HIDE DEF three
  <2>2. Len(three) = 2 + 2 * n
    BY <1>1, <1>4, <1>7, <2>1
  <2>3. \A i \in 1..1 + 2 * n : three[i] = two[i]
    BY <1>1, <1>4, <1>7, <2>1
  <2>4. 2 * n + 2 \in 1..Len(two) + Len(done) /\ ~ (2 * n + 2 =< Len(two)) /\ 2 * n + 2 - Len(two) = 1
    BY <1>1, <1>4, <1>7
  <2>5. three[2 * n + 2] = done[2 * n + 2 - Len(two)]
    BY <1>1, <1>4, <1>7, <2>1, <2>4
  <2>6. three[2 * n + 2] = done[1]
    BY <2>4, <2>5
  <2> QED BY <2>1, <2>2, <2>3, <2>6
<1> HIDE DEF three
<1>9. /\ s \in Seq(Element) /\ Len(s) = 2 + 2 * n + Len(body)
      /\ \A i \in 1..2 + 2 * n : s[i] = three[i]
      /\ \A i \in 2 * n + 3..Len(s) : s[i] = body[i - (2 * n + 2)]
  <2>1. s = three \o body
    BY <1>6 DEF three, two
  <2>2. /\ three \o body \in Seq(Element) /\ Len(three \o body) = Len(three) + Len(body)
        /\ \A i \in 1..Len(three) + Len(body) :
             (three \o body)[i] = IF i =< Len(three) THEN three[i] ELSE body[i - Len(three)]
    BY <1>5, <1>8, ConcatProperties
  <2> QED BY <1>1, <1>5, <1>8, <2>1, <2>2
<1>10. s[1] = Of("url", r.uri) /\ s[2 * n + 2] = Of("headers", <<>>)
  BY <1>1, <1>2, <1>4, <1>7, <1>8, <1>9
<1>11. ASSUME NEW k \in 1..n
       PROVE  s[2 * k] = Of("name", r.headers[k].name) /\ s[2 * k + 1] = Of("value", r.headers[k].value)
  <2>1. s[2 * k] = headers[2 * k - 1] /\ s[2 * k + 1] = headers[2 * k]
    <3>1. 2 * k \in 2..1 + 2 * n /\ 2 * k + 1 \in 2..1 + 2 * n
      BY <1>1
    <3> QED BY <1>1, <1>7, <1>8, <1>9, <3>1
  <2> QED BY <1>1, <2>1, OfHeadersShape DEF headers, n
<1>12. s[Len(s)].cb = "message"
  <2>1. Len(s) \in 2 * n + 3..Len(s) /\ Len(s) - (2 * n + 2) = Len(body)
    BY <1>1, <1>5, <1>9
  <2> QED BY <1>9, <2>1, OfBodyShape DEF body
<1>13. ASSUME NEW i \in 2 * n + 3..Len(s)
       PROVE  /\ s[i].cb \in {"body", "message", "url", "headers"}
              /\ ~ r.next => s[i].cb = (IF i = Len(s) THEN "message" ELSE "body")
  <2>1. i - (2 * n + 2) \in 1..Len(body) /\ (i = Len(s) <=> i - (2 * n + 2) = Len(body))
    BY <1>1, <1>5, <1>9
  <2>2. s[i] = body[i - (2 * n + 2)]
    BY <1>9
  <2> QED BY <2>1, <2>2, OfBodyShape DEF body
<1>14. Len(s) \in Nat /\ Len(s) > 2 * n + 2
  BY <1>1, <1>5, <1>9
<1> QED BY <1>1, <1>9, <1>10, <1>11, <1>12, <1>13, <1>14 DEF s, n

----------------------------------------------------------------------------
(* The types.                                                              *)

\* The page that answers.
LEMMA PageType ==
  ASSUME ServerTypeOK
  PROVE  Page.page \in Pages \cup {"notFound"} /\ Page.pieces \in 1..2
         /\ (ctx.handler = 0 => Page.page = "notFound")
<1>1. ctx.handler \in 0..Len(Handlers)
  BY DEF ServerTypeOK, Context
<1>2. CASE ctx.handler = 0
  BY <1>2 DEF Page, NotFound
<1>3. CASE ctx.handler # 0
  <2>1. Handlers[ctx.handler] \in Handler
    BY <1>1, <1>3, HttpAssumption, ElementOfSeq
  <2> QED BY <1>3, <2>1 DEF Page, Handler
<1> QED BY <1>2, <1>3

\* What is written stays a sequence of items.
LEMMA OutType ==
  ASSUME ServerTypeOK, NEW items \in Seq(Item), Out(items)
  PROVE  wire' \in Seq(Item)
BY ConcatProperties DEF Out, ServerTypeOK

\* A context whose headers are sent.
LEMMA SentType ==
  ASSUME NEW c \in Context
  PROVE  LET d == HeadersSent(c)
         IN /\ d \in Context /\ SameHandler(d, c) /\ d.state = "sending"
            /\ d.response_headers = <<>> /\ d.response_code = c.response_code
<1> DEFINE d == HeadersSent(c)
<1>1. d = [c EXCEPT !.response_headers = <<>>, !.state = "sending"]
  BY DEF HeadersSent
<1>2. <<>> \in Seq({"disposition", "length", "type"})
  OBVIOUS
<1> HIDE DEF d
<1>3. d \in Context
  <2>1. d = [state |-> "sending", parse_buffer |-> c.parse_buffer,
             request_header_tmp |-> c.request_header_tmp, request_headers |-> c.request_headers,
             request_args |-> c.request_args, handler |-> c.handler,
             response_code |-> c.response_code, response_headers |-> <<>>]
    BY <1>1 DEF Context
  <2> QED BY <1>2, <2>1 DEF Context, States
<1>4. /\ SameHandler(d, c) /\ d.state = "sending"
      /\ d.response_headers = <<>> /\ d.response_code = c.response_code
  BY <1>1 DEF Context, SameHandler
<1> QED BY <1>3, <1>4 DEF d

\* The block of headers is an item.
LEMMA BlockType ==
  ASSUME ServerTypeOK
  PROVE  HeaderBlock \in Item /\ HeadersSent(ctx) \in Context
<1>1. HeaderBlock \in Item
  BY DEF HeaderBlock, Item, ServerTypeOK, Context
<1>2. HeadersSent(ctx) \in Context
  BY SentType DEF ServerTypeOK
<1> QED BY <1>1, <1>2

\* A write of the handler.
LEMMA WriteType ==
  ASSUME ServerTypeOK, NEW what \in {"copy", "frame"}, Write([what |-> what])
  PROVE  wire' \in Seq(Item) /\ ctx' \in Context
<1>1. [what |-> what] \in Item
  BY DEF Item
<1>2. CASE ctx.state = "collecting"
  <2>1. <<HeaderBlock, [what |-> what]>> \in Seq(Item)
    BY <1>1, BlockType
  <2> QED BY <1>2, <2>1, OutType, BlockType DEF Write
<1>3. CASE ctx.state # "collecting"
  <2>1. <<[what |-> what]>> \in Seq(Item)
    BY <1>1
  <2> QED BY <1>3, <2>1, OutType DEF Write, ServerTypeOK
<1> QED BY <1>2, <1>3

\* At the start.
LEMMA TypeInit == HttpInit => ServerTypeOK
<1> SUFFICES ASSUME HttpInit PROVE ServerTypeOK
  OBVIOUS
<1>1. <<>> \in Texts /\ Len(Handlers) \in Nat
  BY HttpAssumption DEF Texts
<1>2. ctx \in Context
  BY <1>1 DEF HttpInit, Context, States
<1>3. req \in Request
  <2>1. req = [method |-> "GET", uri |-> <<>>, headers |-> <<>>, body |-> <<>>, next |-> FALSE]
    BY DEF HttpInit, NoRequest
  <2> QED BY <1>1, <2>1, HttpAssumption DEF Request
<1>4. pending \in Seq(Element) /\ events \in Seq(Events) /\ wire \in Seq(Item)
  BY DEF HttpInit
<1>5. known \in BOOLEAN /\ peer \in BOOLEAN
  BY DEF HttpInit
<1>6. registered \in 0..Len(Handlers) /\ pc = "accept" /\ pieces \in 0..2
  BY <1>1 DEF HttpInit
<1> QED BY <1>2, <1>3, <1>4, <1>5, <1>6 DEF ServerTypeOK

\* What a part of the page sets for its header block.
LEMMA PartContext ==
  ASSUME NEW c \in Context
  PROVE  LET d == [HeadersSent(c) EXCEPT !.state = "collecting", !.response_code = 0,
                                         !.response_headers = <<"length", "type">> \o @]
         IN /\ d \in Context /\ SameHandler(d, c) /\ d.state = "collecting"
            /\ d.response_headers = <<"length", "type">> /\ d.response_code = 0
<1> DEFINE empty == HeadersSent(c)
           headers == <<"length", "type">> \o empty.response_headers
           d == [empty EXCEPT !.state = "collecting", !.response_code = 0, !.response_headers = headers]
<1>1. /\ empty \in Context /\ SameHandler(empty, c) /\ empty.response_headers = <<>>
  BY SentType
<1>2. headers = <<"length", "type">> /\ headers \in Seq({"disposition", "length", "type"})
  <2>1. <<"length", "type">> \in Seq({"disposition", "length", "type"})
    OBVIOUS
  <2> QED BY <1>1, <2>1, ConcatEmptySeq
<1> HIDE DEF empty, headers
<1>3. d \in Context
  <2>1. empty \in Context /\ headers \in Seq({"disposition", "length", "type"})
    BY <1>1, <1>2
  <2>2. "collecting" \in States /\ 0 \in {0, 200, 404}
    BY DEF States
  <2> QED BY <2>1, <2>2, ZenonT(30) DEF Context
<1>4. /\ SameHandler(d, empty) /\ d.state = "collecting"
      /\ d.response_headers = headers /\ d.response_code = 0
  BY <1>1 DEF Context, SameHandler
<1>5. SameHandler(d, c)
  BY <1>1, <1>4 DEF SameHandler
<1> HIDE DEF d
<1>6. d \in Context /\ SameHandler(d, c) /\ d.state = "collecting"
      /\ d.response_headers = <<"length", "type">> /\ d.response_code = 0
  BY <1>2, <1>3, <1>4, <1>5
<1> QED BY <1>6 DEF d, headers, empty

\* What http_response_begin and the page itself set.
LEMMA BeginContext ==
  ASSUME ServerTypeOK, Begin, ctx.response_headers = <<>>
  PROVE  /\ ctx' \in Context /\ SameHandler(ctx', ctx) /\ ctx'.state = ctx.state
         /\ ctx'.response_code = IF Page.page = "notFound" THEN 404 ELSE 200
         /\ ctx'.response_headers = IF Page.page = "single" THEN <<"disposition", "length", "type">>
                                    ELSE <<"type">>
<1> DEFINE code == IF Page.page = "notFound" THEN 404 ELSE 200
           own == IF Page.page = "single" THEN <<"disposition", "length", "type">> ELSE <<"type">>
           headers == own \o ctx.response_headers
<1>1. ctx \in Context
  BY DEF ServerTypeOK
<1>2. ctx' = [ctx EXCEPT !.response_code = code, !.response_headers = headers]
  BY DEF Begin
<1>3. headers = own /\ headers \in Seq({"disposition", "length", "type"})
  <2>1. /\ <<"disposition", "length", "type">> \in Seq({"disposition", "length", "type"})
        /\ <<"type">> \in Seq({"disposition", "length", "type"})
    OBVIOUS
  <2>2. own = <<"disposition", "length", "type">> \/ own = <<"type">>
    OBVIOUS
  <2>3. own \in Seq({"disposition", "length", "type"})
    BY <2>1, <2>2
  <2> HIDE DEF own
  <2> QED BY <2>3, ConcatEmptySeq
<1>4. code \in {0, 200, 404}
  OBVIOUS
<1> HIDE DEF code, own, headers
<1>5. ctx' \in Context
  <2>1. headers \in Seq({"disposition", "length", "type"})
    BY <1>3
  <2>2. [ctx EXCEPT !.response_code = code, !.response_headers = headers] \in Context
    BY <1>1, <1>4, <2>1, ZenonT(30) DEF Context
  <2> QED BY <1>2, <2>2
<1>6. /\ SameHandler(ctx', ctx) /\ ctx'.state = ctx.state
      /\ ctx'.response_code = code /\ ctx'.response_headers = headers
  BY <1>1, <1>2 DEF Context, SameHandler
<1>7. ctx'.response_code = code /\ ctx'.response_headers = own
  BY <1>3, <1>6
<1> QED BY <1>5, <1>6, <1>7 DEF code, own

\* Every step keeps the types.
LEMMA TypeNext ==
  ASSUME ServerTypeOK, Blocks, [HttpNext]_httpVars
  PROVE  ServerTypeOK'
<1> USE DEF ServerTypeOK
<1>1. CASE Register
  BY <1>1, HttpAssumption DEF Register, reqVars
<1>2. CASE Accept
  <2>1. req' \in Request /\ pending' = Callbacks(req')
    BY <1>2, HttpAssumption DEF Accept
  <2>2. pending' \in Seq(Element)
    BY <2>1, CallbacksShape
  <2>3. ctx' \in Context
    <3>1. ctx' = [ctx EXCEPT !.state = "uri"]
      BY <1>2 DEF Accept
    <3>2. ctx \in Context /\ ctx'.state \in States
      BY <3>1 DEF Context, States, ServerTypeOK
    <3> QED BY <3>1, <3>2, ZenonT(30) DEF Context
  <2>4. known' \in BOOLEAN
    <3>1. known' = (/\ ctx.parse_buffer = <<>>
                    /\ \E h \in Matching(req'.method, req'.uri) : "RESPONSE" \in Handlers[h].events)
      BY <1>2 DEF Accept
    <3> QED BY <3>1
  <2>5. events' \in Seq(Events) /\ wire' \in Seq(Item) /\ pc' = "parse" /\ peer' \in BOOLEAN
    BY <1>2 DEF Accept
  <2> QED BY <1>2, <2>1, <2>2, <2>3, <2>4, <2>5 DEF Accept, pictures
<1>3. CASE Parse
  <2> DEFINE cb == Head(pending).cb
  <2>1. PICK at \in Texts, rest \in Texts :
          LET c == Callback(cb, at)
          IN /\ pending # <<>>
             /\ pending' = IF rest = <<>> THEN Tail(pending) ELSE <<Of(cb, rest)>> \o Tail(pending)
             /\ \/ ctx' = c /\ events' = Told(cb) /\ pc' = "parse"
                \/ \E d \in Context : Answer(d, Told(cb))
    BY <1>3, ParseStep
  <2>2. Head(pending) \in Element /\ Tail(pending) \in Seq(Element)
    BY <2>1, HeadTailProperties
  <2>3. Of(cb, rest) \in Element
    BY <2>2, OfType DEF Element
  <2>4. pending' \in Seq(Element)
    <3>1. <<Of(cb, rest)>> \in Seq(Element)
      BY <2>3
    <3> QED BY <2>1, <2>2, <3>1, ConcatProperties
  <2>5. Callback(cb, at) \in Context /\ Told(cb) \in Seq(Events)
    BY <2>2, CallbackType
  <2>6. ctx' \in Context /\ events' \in Seq(Events) /\ pc' \in {"parse", "begin", "close", "shoot"}
    BY <2>1, <2>5, AnswerStep
  <2> QED BY <1>3, <2>4, <2>6 DEF Parse, reqVars, pictures
<1>4. CASE Respond
  BY <1>4, AnswerStep DEF Respond, reqVars, pictures
<1>5. CASE Malformed
  BY <1>5, AnswerStep DEF Malformed, reqVars, pictures
<1>6. CASE RecvFails
  BY <1>6 DEF RecvFails, reqVars, pictures
<1>7. CASE Begin
  <2>1. ctx' \in Context
    BY <1>7, BeginContext DEF Blocks, NoHeaders, Begin
  <2>2. pieces' \in 0..2
    BY <1>7, PageType DEF Begin
  <2> QED BY <1>7, <2>1, <2>2 DEF Begin, reqVars, pictures
<1>8. CASE Shoot
  BY <1>8 DEF Shoot, reqVars
<1>9. CASE Part
  <2>1. ctx' \in Context
    BY <1>9, PartContext DEF Part
  <2>2. wire' \in Seq(Item)
    <3>1. <<HeaderBlock>> \in Seq(Item)
      BY BlockType
    <3> QED BY <1>9, <3>1, OutType DEF Part
  <2>3. pieces' \in 0..2
    BY <1>9, PageType DEF Part
  <2> QED BY <1>9, <2>1, <2>2, <2>3 DEF Part, reqVars
<1>10. CASE Piece
  <2>1. wire' \in Seq(Item) /\ ctx' \in Context
    BY <1>10, WriteType DEF Piece
  <2>2. pieces' \in 0..2 /\ pc' \in {"piece", "endPart", "end"}
    BY <1>10 DEF Piece
  <2> QED BY <1>10, <2>1, <2>2 DEF Piece, reqVars
<1>11. CASE EndPart
  <2>1. ctx' \in Context
    <3>1. ctx' = [ctx EXCEPT !.state = "collecting"]
      BY <1>11 DEF EndPart
    <3>2. ctx \in Context /\ ctx'.state \in States
      BY <3>1 DEF Context, States, ServerTypeOK
    <3> QED BY <3>1, <3>2, ZenonT(30) DEF Context
  <2>2. wire' \in Seq(Item)
    <3>1. <<[what |-> "boundary"]>> \in Seq(Item)
      BY DEF Item
    <3> QED BY <1>11, <3>1, OutType DEF EndPart
  <2> QED BY <1>11, <2>1, <2>2 DEF EndPart, reqVars, pictures
<1>12. CASE End
  <2>1. ctx' \in Context
    <3>1. ctx' = [ctx EXCEPT !.state = "end"]
      BY <1>12 DEF End
    <3>2. ctx \in Context /\ ctx'.state \in States
      BY <3>1 DEF Context, States, ServerTypeOK
    <3> QED BY <3>1, <3>2, ZenonT(30) DEF Context
  <2> QED BY <1>12, <2>1 DEF End, reqVars, pictures
<1>13. CASE Close
  <2>1. ctx' \in Context
    <3>1. ctx' = [state |-> ctx.state, parse_buffer |-> ctx.parse_buffer,
                  request_header_tmp |-> ctx.request_header_tmp, request_headers |-> <<>>,
                  request_args |-> <<>>, handler |-> 0,
                  response_code |-> ctx.response_code, response_headers |-> ctx.response_headers]
      BY <1>13 DEF Close, Context
    <3>2. Len(Handlers) \in Nat
      BY HttpAssumption
    <3> QED BY <3>1, <3>2 DEF Context, Texts
  <2> QED BY <1>13, <2>1 DEF Close, reqVars, pictures
<1>14. CASE TcpDone
  BY <1>14 DEF TcpDone, reqVars
<1>15. CASE Leave
  BY <1>15 DEF Leave, reqVars, pictures
<1>16. CASE UNCHANGED httpVars
  BY <1>16 DEF httpVars, reqVars, pictures
<1> QED
  BY <1>1, <1>2, <1>3, <1>4, <1>5, <1>6, <1>7, <1>8, <1>9, <1>10, <1>11, <1>12, <1>13, <1>14,
     <1>15, <1>16 DEF HttpNext, Connection, Responding

----------------------------------------------------------------------------
(* The header blocks.                                                      *)

\* Every header block of what was written, for a page of this kind, is in place.
InPlace(w, page) ==
  \A i \in 1..Len(w) : w[i].what = "head" =>
    /\ (w[i].code # 0) <=> (i = 1)
    /\ w[i].headers =
         CASE i = 1 /\ page = "single" -> <<"disposition", "length", "type">>
           [] i = 1 /\ page # "single" -> <<"type">>
           [] i > 1 /\ w[i - 1].what = "boundary" -> <<>>
           [] OTHER -> <<"length", "type">>

\* The item may be written next.
MayFollow(w, page, item) ==
  item.what = "head" =>
    /\ (item.code # 0) <=> (w = <<>>)
    /\ item.headers =
         CASE w = <<>> /\ page = "single" -> <<"disposition", "length", "type">>
           [] w = <<>> /\ page # "single" -> <<"type">>
           [] w # <<>> /\ w[Len(w)].what = "boundary" -> <<>>
           [] OTHER -> <<"length", "type">>

\* The property, as one of the wire and the page.
LEMMA InPlaceIs == HeadersInPlace <=> (pc # "accept" => InPlace(wire, Page.page))
BY DEF HeadersInPlace, InPlace

\* An item that may follow.
LEMMA InPlaceExtends ==
  ASSUME NEW w \in Seq(Item), NEW page, InPlace(w, page), NEW item \in Item, MayFollow(w, page, item)
  PROVE  LET v == w \o <<item>>
         IN v \in Seq(Item) /\ InPlace(v, page) /\ Len(v) = Len(w) + 1 /\ v[Len(v)] = item
<1> DEFINE v == w \o <<item>>
           n == Len(w)
<1>1. n \in Nat /\ (w = <<>> <=> n = 0)
  BY EmptySeq
<1>2. v \in Seq(Item) /\ Len(v) = n + 1 /\ v[n + 1] = item /\ \A i \in 1..n : v[i] = w[i]
  <2>1. <<item>> \in Seq(Item) /\ Len(<<item>>) = 1 /\ <<item>>[1] = item
    OBVIOUS
  <2>2. /\ v \in Seq(Item) /\ Len(v) = n + Len(<<item>>)
        /\ \A i \in 1..n + Len(<<item>>) : v[i] = IF i =< n THEN w[i] ELSE <<item>>[i - n]
    BY <2>1, ConcatProperties
  <2> HIDE DEF v, n
  <2> QED BY <1>1, <2>1, <2>2
<1> HIDE DEF v, n
<1>3. ASSUME NEW i \in 1..n + 1, v[i].what = "head"
      PROVE  /\ (v[i].code # 0) <=> (i = 1)
             /\ v[i].headers =
                  CASE i = 1 /\ page = "single" -> <<"disposition", "length", "type">>
                    [] i = 1 /\ page # "single" -> <<"type">>
                    [] i > 1 /\ v[i - 1].what = "boundary" -> <<>>
                    [] OTHER -> <<"length", "type">>
  <2>1. CASE i =< n
    <3>1. i \in 1..n /\ v[i] = w[i] /\ (i > 1 => v[i - 1] = w[i - 1])
      BY <1>1, <1>2, <2>1
    <3>2. /\ (w[i].code # 0) <=> (i = 1)
          /\ w[i].headers =
               CASE i = 1 /\ page = "single" -> <<"disposition", "length", "type">>
                 [] i = 1 /\ page # "single" -> <<"type">>
                 [] i > 1 /\ w[i - 1].what = "boundary" -> <<>>
                 [] OTHER -> <<"length", "type">>
      BY <1>3, <3>1 DEF InPlace, n
    <3> QED BY <3>1, <3>2
  <2>2. CASE i = n + 1
    <3>1. v[i] = item /\ (i = 1 <=> w = <<>>) /\ (i > 1 <=> w # <<>>) /\ (i > 1 => v[i - 1] = w[n])
      BY <1>1, <1>2, <2>2
    <3>2. /\ (item.code # 0) <=> (w = <<>>)
          /\ item.headers =
               CASE w = <<>> /\ page = "single" -> <<"disposition", "length", "type">>
                 [] w = <<>> /\ page # "single" -> <<"type">>
                 [] w # <<>> /\ w[n].what = "boundary" -> <<>>
                 [] OTHER -> <<"length", "type">>
      BY <1>3, <3>1 DEF MayFollow, n
    <3> QED BY <3>1, <3>2
  <2> QED BY <1>1, <2>1, <2>2
<1> QED BY <1>2, <1>3 DEF InPlace, v, n

\* A header block and the item behind it.
LEMMA InPlaceExtendsTwice ==
  ASSUME NEW w \in Seq(Item), NEW page, InPlace(w, page), NEW block \in Item, NEW item \in Item,
         MayFollow(w, page, block), item.what # "head"
  PROVE  LET v == w \o <<block, item>> IN v \in Seq(Item) /\ InPlace(v, page)
<1> DEFINE v == w \o <<block>>
<1>1. v \in Seq(Item) /\ InPlace(v, page)
  BY InPlaceExtends
<1>2. w \o <<block, item>> = v \o <<item>>
  <2>1. <<block>> \in Seq(Item) /\ <<item>> \in Seq(Item)
    OBVIOUS
  <2>2. <<block, item>> = <<block>> \o <<item>>
    <3> DEFINE a == <<block>>
               b == <<item>>
               ab == <<block, item>>
    <3>1. /\ ab \in Seq(Item) /\ Len(ab) = 2 /\ Len(a) = 1 /\ Len(b) = 1
          /\ ab[1] = block /\ ab[2] = item /\ a[1] = block /\ b[1] = item
      OBVIOUS
    <3> HIDE DEF a, b, ab
    <3>2. /\ a \o b \in Seq(Item) /\ Len(a \o b) = Len(a) + Len(b)
          /\ \A i \in 1..Len(a) + Len(b) : (a \o b)[i] = IF i =< Len(a) THEN a[i] ELSE b[i - Len(a)]
      BY <2>1, ConcatProperties DEF a, b
    <3>3. Len(a \o b) = 2 /\ (a \o b)[1] = block /\ (a \o b)[2] = item
      BY <3>1, <3>2
    <3>4. \A i \in 1..Len(ab) : ab[i] = (a \o b)[i]
      <4>1. \A i \in 1..Len(ab) : i = 1 \/ i = 2
        BY <3>1
      <4> QED BY <3>1, <3>3, <4>1
    <3>5. ab = a \o b
      BY <3>1, <3>2, <3>3, <3>4, SeqEqual
    <3> QED BY <3>5 DEF a, b, ab
  <2> QED BY <2>1, <2>2, ConcatAssociative
<1>3. MayFollow(v, page, item)
  BY DEF MayFollow
<1> HIDE DEF v
<1>4. v \o <<item>> \in Seq(Item) /\ InPlace(v \o <<item>>, page)
  BY <1>1, <1>3, InPlaceExtends
<1> QED BY <1>2, <1>4

\* As long as the handler is the same, so is the page.
LEMMA SamePage ==
  ASSUME SameHandler(ctx', ctx)
  PROVE  Page' = Page
BY DEF SameHandler, Page

\* The answer starts with nothing written and nothing collected.
LEMMA BlocksAnswer ==
  ASSUME ServerTypeOK, Blocks, pc = "parse", NEW c \in Context, SameAnswer(c, ctx),
         NEW e \in Seq(Events), Answer(c, e), UNCHANGED wire
  PROVE  Blocks'
<1>1. /\ ctx' \in Context /\ SameAnswer(ctx', c) /\ SameHandler(ctx', c)
      /\ ctx'.state = "collecting" /\ pc' \in {"begin", "close", "shoot"}
      /\ pc' = "shoot" => c.handler # 0 /\ Handlers[c.handler].page # "stream"
  BY AnswerStep
<1>2. ctx'.response_headers = <<>> /\ wire' = <<>>
  BY <1>1 DEF Blocks, NoHeaders, SameAnswer
<1>3. pc' = "shoot" => ~ IsStream'
  <2>1. ctx'.handler = c.handler
    BY <1>1 DEF SameHandler
  <2> QED BY <1>1, <2>1 DEF IsStream, Page
<1> QED BY <1>1, <1>2, <1>3 DEF Blocks, NoHeaders, Collecting, HeadersInPlace

\* Every step keeps where the headers are.
LEMMA BlocksNext ==
  ASSUME ServerTypeOK, Blocks, [HttpNext]_httpVars
  PROVE  Blocks'
<1>1. ServerTypeOK'
  BY TypeNext
<1>2. ctx \in Context /\ wire \in Seq(Item) /\ peer \in BOOLEAN /\ HeaderBlock \in Item
  BY BlockType DEF ServerTypeOK
<1> DEFINE vars1 == <<pc, ctx, wire, pieces>>
<1>3. CASE UNCHANGED vars1 /\ (peer' = peer \/ peer' = FALSE)
  <2>1. Page' = Page /\ (IsStream' <=> IsStream) /\ (HeadersInPlace' <=> HeadersInPlace)
    BY <1>3 DEF Page, IsStream, HeadersInPlace
  <2>2. (FirstBlock' <=> FirstBlock) /\ (OfPart' <=> OfPart) /\ (BetweenParts' <=> BetweenParts)
        /\ (NoHeaders' <=> NoHeaders)
    BY <1>3, <2>1 DEF FirstBlock, BetweenParts, OfPart, NoHeaders
  <2> QED BY <1>2, <1>3, <2>1, <2>2 DEF Blocks, Collecting
<1>4. CASE Register \/ TcpDone \/ Leave \/ UNCHANGED httpVars
  <2>1. UNCHANGED vars1 /\ (peer' = peer \/ peer' = FALSE)
    BY <1>4 DEF Register, TcpDone, Leave, httpVars
  <2> QED BY <1>3, <2>1
<1>5. CASE Accept
  <2>1. /\ pc' = "parse" /\ wire' = <<>> /\ ctx'.state = "uri"
        /\ ctx'.response_headers = ctx.response_headers /\ pc = "accept"
    BY <1>2, <1>5 DEF Accept, Context
  <2> QED BY <2>1 DEF Blocks, NoHeaders, HeadersInPlace, Parsed
<1>6. CASE Parse
  <2> DEFINE cb == Head(pending).cb
  <2>1. PICK at \in Texts :
          LET c == Callback(cb, at)
          IN /\ pending # <<>>
             /\ \/ ctx' = c /\ pc' = "parse"
                \/ \E d \in Context : SameAnswer(d, c) /\ Answer(d, Told(cb))
    BY <1>6, ParseStep
  <2> DEFINE c == Callback(cb, at)
  <2>2. Head(pending) \in Element
    BY <2>1, HeadTailProperties DEF ServerTypeOK
  <2>3. c \in Context /\ SameAnswer(c, ctx) /\ Told(cb) \in Seq(Events)
        /\ (ctx.state \in Parsed => c.state \in Parsed)
    BY <2>2, CallbackType
  <2> HIDE DEF c
  <2>4. pc = "parse" /\ wire' = wire /\ wire = <<>> /\ NoHeaders /\ ctx.state \in Parsed
    BY <1>6 DEF Parse, Blocks
  <2>5. CASE ctx' = c /\ pc' = "parse"
    BY <2>3, <2>4, <2>5 DEF Blocks, SameAnswer, NoHeaders, HeadersInPlace
  <2>6. CASE \E d \in Context : SameAnswer(d, c) /\ Answer(d, Told(cb))
    <3>1. PICK d \in Context : SameAnswer(d, c) /\ Answer(d, Told(cb))
      BY <2>6
    <3>2. SameAnswer(d, ctx)
      BY <2>3, <3>1 DEF SameAnswer
    <3> QED BY <2>3, <2>4, <3>1, <3>2, BlocksAnswer
  <2> QED BY <2>1, <2>5, <2>6 DEF c
<1>7. CASE Respond \/ Malformed
  <2>1. pc = "parse" /\ Answer(ctx, events) /\ UNCHANGED wire
    BY <1>7 DEF Respond, Malformed
  <2>2. SameAnswer(ctx, ctx) /\ events \in Seq(Events)
    BY DEF SameAnswer, ServerTypeOK
  <2> QED BY <1>2, <2>1, <2>2, BlocksAnswer
<1>8. CASE RecvFails
  BY <1>8 DEF RecvFails, Blocks, NoHeaders, HeadersInPlace
<1>9. CASE Begin
  <2>1. pc = "begin" /\ NoHeaders /\ Collecting(wire = <<>>) /\ UNCHANGED <<wire, peer>>
        /\ pieces' = Page.pieces
    BY <1>9 DEF Begin, Blocks
  <2>2. /\ SameHandler(ctx', ctx) /\ ctx'.state = "collecting" /\ ctx'.response_code # 0
        /\ ctx'.response_headers = IF Page.page = "single" THEN <<"disposition", "length", "type">>
                                   ELSE <<"type">>
    BY <1>9, <2>1, BeginContext DEF NoHeaders, Collecting
  <2>3. Page' = Page
    BY <2>2, SamePage
  <2>4. peer => FirstBlock'
    BY <2>1, <2>2, <2>3 DEF FirstBlock, Collecting
  <2>5. pc' = IF IsStream THEN "shoot" ELSE "piece"
    BY <1>9 DEF Begin, IsStream
  <2>6. HeadersInPlace'
    BY <2>1, <2>3 DEF HeadersInPlace, Blocks
  <2>7. pieces' > 0
    BY <2>1, PageType
  <2> QED BY <2>1, <2>2, <2>3, <2>4, <2>5, <2>6, <2>7 DEF Blocks, Collecting, BetweenParts, IsStream
<1>10. CASE Shoot
  <2>1. /\ pc = "shoot" /\ UNCHANGED <<ctx, wire, peer, pieces>>
        /\ pc' = IF IsStream THEN "part" ELSE "begin"
    BY <1>10 DEF Shoot, IsStream
  <2>2. Page' = Page /\ (IsStream' <=> IsStream) /\ (NoHeaders' <=> NoHeaders)
        /\ (BetweenParts' <=> BetweenParts)
    BY <2>1 DEF Page, IsStream, BetweenParts, FirstBlock, NoHeaders
  <2>3. HeadersInPlace'
    BY <2>1, <2>2 DEF HeadersInPlace, Blocks
  <2> QED BY <2>1, <2>2, <2>3 DEF Blocks, Collecting
<1>11. CASE Part
  <2>1. /\ pc = "part" /\ IsStream /\ Collecting(BetweenParts)
        /\ pc' = "piece" /\ UNCHANGED peer /\ pieces' = Page.pieces
        /\ wire' = IF peer THEN wire \o <<HeaderBlock>> ELSE wire
    BY <1>11 DEF Part, Blocks, Out
  <2>2. /\ SameHandler(ctx', ctx) /\ ctx'.state = "collecting"
        /\ ctx'.response_headers = <<"length", "type">> /\ ctx'.response_code = 0
    BY <1>2, <1>11, PartContext DEF Part
  <2>3. Page' = Page /\ IsStream' /\ Page.page # "single"
    BY <2>1, <2>2, SamePage DEF IsStream
  <2>4. /\ HeaderBlock.what = "head" /\ HeaderBlock.code = ctx.response_code
        /\ HeaderBlock.headers = ctx.response_headers
    BY DEF HeaderBlock
  <2>5. peer => MayFollow(wire, Page.page, HeaderBlock)
    <3>1. SUFFICES ASSUME peer PROVE MayFollow(wire, Page.page, HeaderBlock)
      OBVIOUS
    <3>2. CASE FirstBlock
      BY <2>3, <2>4, <3>2 DEF FirstBlock, MayFollow
    <3>3. CASE wire # <<>> /\ wire[Len(wire)] = [what |-> "boundary"]
               /\ ctx.response_code = 0 /\ ctx.response_headers = <<>>
      BY <2>4, <3>3 DEF MayFollow
    <3> QED BY <2>1, <3>1, <3>2, <3>3 DEF Collecting, BetweenParts
  <2>6. InPlace(wire, Page.page)
    BY <2>1, InPlaceIs DEF Blocks
  <2>7. InPlace(wire', Page.page) /\ (peer => wire' # <<>> /\ wire'[Len(wire')] = HeaderBlock)
    <3>1. CASE peer
      <4> DEFINE v == wire \o <<HeaderBlock>>
      <4>1. v \in Seq(Item) /\ InPlace(v, Page.page) /\ Len(v) = Len(wire) + 1 /\ v[Len(v)] = HeaderBlock
        BY <1>2, <2>5, <2>6, <3>1, InPlaceExtends
      <4>2. v # <<>>
        BY <1>2, <4>1, EmptySeq
      <4> QED BY <2>1, <3>1, <4>1, <4>2
    <3>2. CASE ~ peer
      BY <2>1, <2>6, <3>2
    <3> QED BY <3>1, <3>2
  <2>8. HeadersInPlace'
    BY <2>3, <2>7 DEF HeadersInPlace, InPlace
  <2>9. peer => OfPart'
    BY <2>2, <2>4, <2>7 DEF OfPart
  <2>10. pieces' > 0
    BY <2>1, PageType
  <2> QED BY <2>1, <2>2, <2>3, <2>8, <2>9, <2>10 DEF Blocks, Collecting
<1>12. CASE Piece
  <2> DEFINE item == [what |-> IF pieces = 1 /\ Page.page # "notFound" THEN "frame" ELSE "copy"]
  <2>1. /\ pc = "piece" /\ pieces > 0 /\ UNCHANGED peer /\ pieces' = pieces - 1
        /\ Write(item)
        /\ pc' = CASE pieces > 1 /\ (peer \/ Page.page # "stream") -> "piece"
                   [] pieces = 1 /\ peer /\ Page.page = "stream" -> "endPart"
                   [] OTHER -> "end"
    BY <1>12 DEF Piece
  <2>2. item \in Item /\ item.what # "head"
    BY DEF Item
  <2> HIDE DEF item
  <2>3. /\ SameHandler(ctx', ctx) /\ ctx'.state = "sending" /\ ctx'.response_headers = <<>>
        /\ ctx'.response_code = ctx.response_code
    <3>1. CASE ctx.state = "collecting"
      BY <1>2, <2>1, <3>1, SentType DEF Write
    <3>2. CASE ctx.state # "collecting"
      <4>1. ctx' = ctx
        BY <2>1, <3>2 DEF Write
      <4> QED BY <2>1, <3>2, <4>1 DEF Blocks, Collecting, NoHeaders, SameHandler
    <3> QED BY <3>1, <3>2
  <2>4. Page' = Page
    BY <2>3, SamePage
  <2>5. InPlace(wire, Page.page)
    BY <2>1, InPlaceIs DEF Blocks
  <2>6. InPlace(wire', Page.page)
    <3>1. CASE ~ peer
      BY <2>1, <2>5, <3>1 DEF Write, Out
    <3>2. CASE peer /\ ctx.state = "collecting"
      <4>1. MayFollow(wire, Page.page, HeaderBlock)
        <5>1. /\ HeaderBlock.what = "head" /\ HeaderBlock.code = ctx.response_code
              /\ HeaderBlock.headers = ctx.response_headers
          BY DEF HeaderBlock
        <5>2. IF IsStream THEN OfPart ELSE FirstBlock
          BY <2>1, <3>2 DEF Blocks, Collecting
        <5> QED BY <5>1, <5>2 DEF MayFollow, OfPart, FirstBlock
      <4>2. wire' = wire \o <<HeaderBlock, item>>
        BY <2>1, <3>2 DEF Write, Out
      <4> QED BY <1>2, <2>2, <2>5, <4>1, <4>2, InPlaceExtendsTwice
    <3>3. CASE peer /\ ctx.state # "collecting"
      <4>1. wire' = wire \o <<item>>
        BY <2>1, <3>3 DEF Write, Out
      <4>2. MayFollow(wire, Page.page, item)
        BY <2>2 DEF MayFollow
      <4> QED BY <1>2, <2>2, <2>5, <4>1, <4>2, InPlaceExtends
    <3> QED BY <1>2, <3>1, <3>2, <3>3
  <2>7. HeadersInPlace'
    BY <2>4, <2>6 DEF HeadersInPlace, InPlace
  <2>8. NoHeaders' /\ (IsStream' <=> IsStream) /\ (IsStream => ctx'.response_code = 0)
    BY <2>1, <2>3, <2>4 DEF NoHeaders, IsStream, Blocks
  <2>9. /\ pc' \in {"piece", "endPart", "end"} /\ (pc' = "piece" => pieces > 1)
        /\ pc' = "endPart" => IsStream
    BY <2>1 DEF IsStream
  <2>10. pieces \in Int
    BY DEF ServerTypeOK
  <2>11. pc' = "piece" => pieces' > 0
    BY <2>1, <2>9, <2>10
  <2> QED BY <2>3, <2>7, <2>8, <2>9, <2>11 DEF Blocks
<1>13. CASE EndPart
  <2> DEFINE item == [what |-> "boundary"]
  <2>1. /\ pc = "endPart" /\ UNCHANGED peer /\ ctx' = [ctx EXCEPT !.state = "collecting"]
        /\ pc' = (IF peer THEN "shoot" ELSE "end")
        /\ wire' = IF peer THEN wire \o <<item>> ELSE wire
    BY <1>13 DEF EndPart, Out
  <2>2. IsStream /\ NoHeaders /\ ctx.response_code = 0
    BY <2>1 DEF Blocks
  <2>3. /\ SameHandler(ctx', ctx) /\ SameAnswer(ctx', ctx) /\ ctx'.state = "collecting"
    BY <1>2, <2>1 DEF Context, SameHandler, SameAnswer
  <2>4. Page' = Page /\ IsStream'
    BY <2>2, <2>3, SamePage DEF IsStream
  <2>5. item \in Item /\ MayFollow(wire, Page.page, item)
    BY DEF Item, MayFollow
  <2>6. InPlace(wire, Page.page)
    BY <2>1, InPlaceIs DEF Blocks
  <2>7. InPlace(wire', Page.page) /\ (peer => wire' # <<>> /\ wire'[Len(wire')] = item)
    <3>1. CASE peer
      <4> DEFINE v == wire \o <<item>>
      <4> HIDE DEF item
      <4>1. v \in Seq(Item) /\ InPlace(v, Page.page) /\ Len(v) = Len(wire) + 1 /\ v[Len(v)] = item
        BY <1>2, <2>5, <2>6, InPlaceExtends
      <4>2. v # <<>>
        BY <1>2, <4>1, EmptySeq
      <4> QED BY <2>1, <3>1, <4>1, <4>2
    <3>2. CASE ~ peer
      BY <2>1, <2>6, <3>2
    <3> QED BY <3>1, <3>2
  <2>8. HeadersInPlace'
    BY <2>4, <2>7 DEF HeadersInPlace, InPlace
  <2>9. NoHeaders' /\ (peer => BetweenParts')
    BY <2>2, <2>3, <2>7 DEF NoHeaders, SameAnswer, BetweenParts
  <2> QED BY <2>1, <2>3, <2>4, <2>8, <2>9 DEF Blocks, Collecting
<1>14. CASE End
  <2>1. /\ pc = "end" /\ pc' = "close" /\ wire' = wire /\ ctx' = [ctx EXCEPT !.state = "end"]
    BY <1>14 DEF End
  <2>2. SameHandler(ctx', ctx) /\ SameAnswer(ctx', ctx)
    BY <1>2, <2>1 DEF Context, SameHandler, SameAnswer
  <2>3. Page' = Page
    BY <2>2, SamePage
  <2>4. HeadersInPlace'
    BY <2>1, <2>3 DEF HeadersInPlace, Blocks
  <2> QED BY <2>1, <2>2, <2>4 DEF Blocks, NoHeaders, SameAnswer
<1>15. CASE Close
  <2>1. /\ pc = "close" /\ pc' = "accept"
        /\ ctx'.request_headers = <<>> /\ ctx'.request_args = <<>> /\ ctx'.handler = 0
        /\ ctx'.response_headers = ctx.response_headers
    BY <1>2, <1>15 DEF Close, Context
  <2> QED BY <2>1 DEF Blocks, NoHeaders, HeadersInPlace
<1> QED
  BY <1>4, <1>5, <1>6, <1>7, <1>8, <1>9, <1>10, <1>11, <1>12, <1>13, <1>14, <1>15
  DEF HttpNext, Connection, Responding

----------------------------------------------------------------------------
(* The stages of a request.                                                *)

\* The parser calls back with the text at of the first element, of which rest is left.
Taken(pend, at, rest, pend2) ==
  /\ at \in Texts /\ rest \in Texts /\ pend # <<>> /\ Left(pend) = at \o rest
  /\ pend2 = IF rest = <<>> THEN Tail(pend) ELSE <<Of(Head(pend).cb, rest)>> \o Tail(pend)

\* A piece of the first element is taken: the rest of it stays, or the next one is untouched.
LEMMA PendingStep ==
  ASSUME NEW r \in Request, NEW pend \in Seq(Element), Aligned(r, pend),
         NEW at, NEW rest, NEW pend2, Taken(pend, at, rest, pend2)
  PROVE  LET p == Position(r, pend)
         IN /\ p \in 1..Len(Callbacks(r)) /\ Head(pend).cb = Callbacks(r)[p].cb
            /\ Aligned(r, pend2)
            /\ rest # <<>> => /\ pend2 # <<>> /\ Position(r, pend2) = p /\ Left(pend2) = rest
            /\ rest = <<>> => /\ Position(r, pend2) = p + 1 /\ at = Left(pend)
                              /\ pend2 = <<>> <=> p = Len(Callbacks(r))
                              /\ pend2 # <<>> => Untouched(r, pend2)
<1> DEFINE s == Callbacks(r)
           m == Len(pend)
           p == Position(r, pend)
           tail == Tail(pend)
<1>0. /\ at \in Texts /\ rest \in Texts /\ pend # <<>> /\ Head(pend).text = at \o rest
      /\ pend2 = IF rest = <<>> THEN Tail(pend) ELSE <<Of(Head(pend).cb, rest)>> \o Tail(pend)
  BY DEF Taken, Left
<1>1. s \in Seq(Element) /\ Len(s) \in Nat
  BY CallbacksShape
<1>2. /\ m \in Nat /\ m > 0 /\ Head(pend) \in Element /\ Head(pend) = pend[1]
      /\ tail \in Seq(Element) /\ Len(tail) = m - 1 /\ \A i \in 1..m - 1 : tail[i] = pend[i + 1]
  BY <1>0, HeadTailProperties, EmptySeq
<1>3. p = Len(s) - m + 1 /\ m =< Len(s) /\ Head(pend).cb = s[p].cb
      /\ \A i \in 2..m : pend[i] = s[p + i - 1]
  BY <1>0 DEF Position, Aligned
<1>4. p \in 1..Len(s)
  BY <1>1, <1>2, <1>3
<1> HIDE DEF s, m, p, tail
<1>5. \A i \in 1..m - 1 : tail[i] = s[p + i]
  <2> SUFFICES ASSUME NEW i \in 1..m - 1 PROVE tail[i] = s[p + i]
    OBVIOUS
  <2>1. i + 1 \in 2..m /\ p + (i + 1) - 1 = p + i
    BY <1>1, <1>2, <1>4
  <2> QED BY <1>2, <1>3, <2>1
<1>6. CASE rest = <<>>
  <2>1. pend2 = tail
    BY <1>0, <1>6 DEF tail
  <2>2. Position(r, pend2) = p + 1
    <3>1. Position(r, pend2) = Len(s) - Len(pend2) + 1
      BY DEF Position, s
    <3>2. Len(pend2) = m - 1
      BY <1>2, <2>1
    <3>3. p = Len(s) - m + 1 /\ Len(s) \in Nat /\ m \in Nat
      BY <1>1, <1>2, <1>3
    <3> QED BY ONLY <3>1, <3>2, <3>3
  <2>3. (pend2 = <<>> <=> m = 1) /\ (m = 1 <=> p = Len(s))
    <3>1. pend2 = <<>> <=> Len(pend2) = 0
      BY <1>2, <2>1, EmptySeq
    <3>2. Len(pend2) = m - 1
      BY <1>2, <2>1
    <3> QED BY <1>1, <1>2, <1>3, <3>1, <3>2
  <2>4. ASSUME pend2 # <<>>
        PROVE  Head(pend2) = s[p + 1]
    <3>1. 1 \in 1..m - 1 /\ Head(pend2) = tail[1]
      BY <1>2, <2>1, <2>3, <2>4
    <3> QED BY <1>5, <3>1
  <2>5. \A i \in 2..Len(pend2) : pend2[i] = s[p + 1 + i - 1]
    <3> SUFFICES ASSUME NEW i \in 2..m - 1 PROVE tail[i] = s[p + 1 + i - 1]
      BY <1>2, <2>1
    <3>1. i \in 1..m - 1 /\ p + 1 + i - 1 = p + i
      BY <1>2, <1>4
    <3> QED BY <1>5, <3>1
  <2>6. Aligned(r, pend2)
    <3>1. Len(pend2) =< Len(s)
      BY <1>1, <1>2, <1>3, <2>1
    <3> QED BY <2>2, <2>4, <2>5, <3>1 DEF Aligned, s
  <2>7. pend2 # <<>> => Untouched(r, pend2)
    BY <2>2, <2>4 DEF Untouched, Left, s
  <2>8. at = Left(pend)
    BY <1>0, <1>6, ConcatEmptySeq DEF Texts, Left
  <2> QED BY <1>3, <1>4, <1>6, <2>2, <2>3, <2>6, <2>7, <2>8 DEF s, p
<1>7. CASE rest # <<>>
  <2> DEFINE e == Of(Head(pend).cb, rest)
             v == <<e>> \o tail
  <2>1. e \in Element /\ e.cb = Head(pend).cb /\ e.text = rest
    BY <1>0, <1>2, OfType DEF Element
  <2>2. pend2 = v
    BY <1>0, <1>7 DEF tail
  <2> HIDE DEF e
  <2>3. /\ v \in Seq(Element) /\ Len(v) = m /\ v[1] = e
        /\ \A i \in 2..m : v[i] = tail[i - 1]
    <3> DEFINE first == <<e>>
    <3>1. first \in Seq(Element) /\ Len(first) = 1 /\ first[1] = e
      BY <2>1
    <3> HIDE DEF first
    <3>2. /\ first \o tail \in Seq(Element) /\ Len(first \o tail) = Len(first) + Len(tail)
          /\ \A i \in 1..Len(first) + Len(tail) :
               (first \o tail)[i] = IF i =< Len(first) THEN first[i] ELSE tail[i - Len(first)]
      <4>1. first \in Seq(Element) /\ tail \in Seq(Element)
        BY <1>2, <3>1
      <4> QED BY <4>1, ConcatProperties
    <3>3. v = first \o tail
      BY DEF first
    <3> HIDE DEF v
    <3> QED BY <1>2, <3>1, <3>2, <3>3
  <2> HIDE DEF v
  <2>4. pend2 # <<>> /\ Len(pend2) = m /\ Head(pend2) = e
    <3>1. v # <<>>
      BY <1>2, <2>3, EmptySeq
    <3>2. Head(v) = v[1]
      BY <2>3, <3>1
    <3> QED BY <2>2, <2>3, <3>1, <3>2
  <2>5. Position(r, pend2) = p
    BY <1>3, <2>4 DEF Position, s
  <2>6. \A i \in 2..m : pend2[i] = s[p + i - 1]
    <3> SUFFICES ASSUME NEW i \in 2..m PROVE pend2[i] = s[p + i - 1]
      OBVIOUS
    <3>1. i - 1 \in 1..m - 1 /\ p + (i - 1) = p + i - 1
      BY <1>2, <1>4
    <3> QED BY <1>5, <2>2, <2>3, <3>1
  <2>7. Aligned(r, pend2)
    BY <1>3, <2>1, <2>4, <2>5, <2>6 DEF Aligned, s
  <2>8. Left(pend2) = rest
    BY <2>1, <2>4 DEF Left
  <2> QED BY <1>3, <1>4, <1>7, <2>4, <2>5, <2>7, <2>8 DEF s, p
<1> QED BY <1>6, <1>7

\* The list with another header before the others is the list of one more header.
LEMMA ReverseNext ==
  ASSUME NEW S, NEW s \in Seq(S), NEW k \in 1..Len(s)
  PROVE  <<s[k]>> \o Reverse(SubSeq(s, 1, k - 1)) = Reverse(SubSeq(s, 1, k))
<1> DEFINE a == SubSeq(s, 1, k - 1)
           b == SubSeq(s, 1, k)
           first == <<s[k]>>
           left == first \o Reverse(a)
           right == Reverse(b)
<1>1. Len(s) \in Nat /\ k \in Nat /\ k > 0 /\ k =< Len(s) /\ \A i \in 1..Len(s) : s[i] \in S
  BY ElementOfSeq
<1>2. a \in Seq(S) /\ Len(a) = k - 1 /\ \A i \in 1..k - 1 : a[i] = s[i]
  BY <1>1, SubSeqProperties
<1>3. b \in Seq(S) /\ Len(b) = k /\ \A i \in 1..k : b[i] = s[i]
  BY <1>1, SubSeqProperties
<1>4. first \in Seq(S) /\ Len(first) = 1 /\ first[1] = s[k]
  BY <1>1
<1> HIDE DEF a, b, first
<1>5. /\ Reverse(a) \in Seq(S) /\ Len(Reverse(a)) = k - 1
      /\ \A i \in 1..k - 1 : Reverse(a)[i] = s[k - i]
  <2>1. Reverse(a) \in Seq(S) /\ Reverse(a) = [i \in 1..k - 1 |-> a[k - 1 - i + 1]]
    BY <1>2, ReverseType DEF Reverse
  <2>2. Len(Reverse(a)) = k - 1
    BY <1>1, <2>1
  <2>3. ASSUME NEW i \in 1..k - 1 PROVE Reverse(a)[i] = s[k - i]
    <3>1. k - 1 - i + 1 = k - i /\ k - i \in 1..k - 1
      BY <1>1
    <3>2. Reverse(a)[i] = a[k - i]
      BY <2>1, <3>1
    <3> QED BY <1>2, <3>1, <3>2
  <2> QED BY <2>1, <2>2, <2>3
<1>6. /\ right \in Seq(S) /\ Len(right) = k
      /\ \A i \in 1..k : right[i] = s[k - i + 1]
  <2>1. right \in Seq(S) /\ right = [i \in 1..k |-> b[k - i + 1]]
    BY <1>3, ReverseType DEF Reverse
  <2>2. \A i \in 1..k : k - i + 1 \in 1..k
    BY <1>1
  <2> HIDE DEF right
  <2>3. Len(right) = k
    BY <1>1, <2>1
  <2>4. ASSUME NEW i \in 1..k PROVE right[i] = s[k - i + 1]
    BY <1>3, <2>1, <2>2
  <2> QED BY <2>1, <2>3, <2>4
<1>7. /\ left \in Seq(S) /\ Len(left) = k
      /\ \A i \in 1..k : left[i] = s[k - i + 1]
  <2>1. /\ left \in Seq(S) /\ Len(left) = Len(first) + Len(Reverse(a))
        /\ \A i \in 1..Len(first) + Len(Reverse(a)) :
             left[i] = IF i =< Len(first) THEN first[i] ELSE Reverse(a)[i - Len(first)]
    BY <1>4, <1>5, ConcatProperties
  <2> HIDE DEF left
  <2>2. Len(left) = k /\ Len(first) + Len(Reverse(a)) = k
    BY <1>1, <1>4, <1>5, <2>1
  <2>3. ASSUME NEW i \in 1..k PROVE left[i] = s[k - i + 1]
    <3>1. CASE i = 1
      BY <1>1, <1>4, <2>1, <2>2, <3>1
    <3>2. CASE i > 1
      <4>1. i - 1 \in 1..k - 1 /\ k - (i - 1) = k - i + 1
        BY <1>1, <3>2
      <4>2. left[i] = Reverse(a)[i - 1]
        BY <1>1, <1>4, <2>1, <2>2, <3>2
      <4> QED BY <1>5, <4>1, <4>2
    <3> QED BY <1>1, <3>1, <3>2
  <2> QED BY <2>1, <2>2, <2>3
<1> HIDE DEF left, right
<1>8. left = right
  BY <1>1, <1>6, <1>7, SeqEqual
<1> QED BY <1>8 DEF left, right, a, b, first

\* The handler that uri_done looks up for a known address is one of the request's.
LEMMA FindKnown ==
  ASSUME ServerTypeOK, Known, known, req.uri = ctx.parse_buffer
  PROVE  Found(req, uri_done(ctx).handler)
<1> DEFINE g == http_find_handler(req.method, req.uri)
           M == Matching(req.method, req.uri)
<1>1. PICK h \in M : "RESPONSE" \in Handlers[h].events
  BY DEF Known
<1>2. /\ registered \in 0..Len(Handlers) /\ Len(Handlers) \in Nat
      /\ \A i \in M : /\ i \in 1..Len(Handlers)
                      /\ Handlers[i].uri = req.uri /\ Handlers[i].method = req.method
  BY HttpAssumption DEF Matching, ServerTypeOK
<1>3. g \in M /\ h =< g
  BY <1>1, FindHandler
<1> HIDE DEF g, M
<1>4. "RESPONSE" \in Handlers[g].events
  <2>1. h = g \/ h < g
    BY <1>1, <1>2, <1>3
  <2> QED BY <1>1, <1>2, <1>3, <2>1, HttpAssumption
<1>5. "?" \notin ToSet(ctx.parse_buffer)
  BY <1>1, <1>2, HttpAssumption
<1>6. uri_done(ctx).handler = g
  BY <1>5, UriDone DEF ServerTypeOK, g
<1> QED BY <1>2, <1>3, <1>4, <1>6 DEF Found

\* An event of a higher rank is told after the others; data may be told again.
LEMMA InvokeOrdered ==
  ASSUME NEW e \in Seq(Events), Ordered(e), NEW event \in Events, NEW c,
         UpTo(e, Rank(event) - 1) \/ (event = "DATA" /\ UpTo(e, 3))
  PROVE  LET f == invoke_handler(c, e, event) IN Ordered(f) /\ UpTo(f, Rank(event))
<1> DEFINE f == Append(e, event)
<1>1. \A d \in Events : Rank(d) \in 1..4 /\ (Rank(d) = 3 <=> d = "DATA")
  BY DEF Events, Rank
<1>2. /\ Len(e) \in Nat /\ Len(f) = Len(e) + 1 /\ f[Len(e) + 1] = event
      /\ \A i \in 1..Len(e) : f[i] = e[i]
  BY AppendProperties
<1>3. \A i \in 1..Len(e) : e[i] \in Events
  BY ElementOfSeq
<1> HIDE DEF f
<1>4. \A i \in 1..Len(e) : Rank(e[i]) < Rank(event) \/ (e[i] = "DATA" /\ event = "DATA")
  <2> SUFFICES ASSUME NEW i \in 1..Len(e)
               PROVE  Rank(e[i]) < Rank(event) \/ (e[i] = "DATA" /\ event = "DATA")
    OBVIOUS
  <2>1. CASE UpTo(e, Rank(event) - 1)
    BY <1>1, <1>3, <2>1 DEF UpTo
  <2>2. CASE event = "DATA" /\ UpTo(e, 3)
    <3>1. Rank(e[i]) =< 3 /\ Rank(e[i]) \in 1..4
      BY <1>1, <1>3, <2>2 DEF UpTo
    <3>2. Rank(event) = 3
      BY <1>1, <2>2
    <3>3. e[i] \in Events /\ (Rank(e[i]) = 3 => e[i] = "DATA")
      BY <1>1, <1>3
    <3>4. Rank(e[i]) < 3 \/ Rank(e[i]) = 3
      BY <3>1
    <3> QED BY <2>2, <3>2, <3>3, <3>4
  <2> QED BY <2>1, <2>2
<1>5. Ordered(f)
  <2> SUFFICES ASSUME NEW i \in 1..Len(f), NEW j \in 1..Len(f), i < j
               PROVE  Rank(f[i]) < Rank(f[j]) \/ (f[i] = "DATA" /\ f[j] = "DATA")
    BY DEF Ordered
  <2>1. i \in 1..Len(e) /\ f[i] = e[i]
    BY <1>2
  <2>2. CASE j \in 1..Len(e)
    BY <1>2, <2>1, <2>2 DEF Ordered
  <2>3. CASE j = Len(e) + 1
    BY <1>2, <1>4, <2>1, <2>3
  <2> QED BY <1>2, <2>2, <2>3
<1>6. UpTo(f, Rank(event))
  <2> SUFFICES ASSUME NEW i \in 1..Len(f) PROVE Rank(f[i]) =< Rank(event)
    BY DEF UpTo
  <2>1. CASE i \in 1..Len(e)
    <3>1. f[i] = e[i] /\ Rank(e[i]) \in 1..4 /\ Rank(event) \in 1..4
      BY <1>1, <1>2, <1>3, <2>1
    <3> QED BY <1>4, <2>1, <3>1
  <2>2. CASE i = Len(e) + 1
    BY <1>1, <1>2, <2>2
  <2> QED BY <1>2, <2>1, <2>2
<1>7. UpTo(e, Rank(event))
  <2> SUFFICES ASSUME NEW i \in 1..Len(e) PROVE Rank(e[i]) =< Rank(event)
    BY DEF UpTo
  <2>1. Rank(e[i]) \in 1..4 /\ Rank(event) \in 1..4
    BY <1>1, <1>3
  <2> QED BY <1>4, <2>1
<1>8. invoke_handler(c, e, event) = IF Wants(c, event) THEN f ELSE e
  BY DEF invoke_handler, f
<1> QED BY <1>5, <1>6, <1>7, <1>8

\* Where that leaves the request.
LEMMA TakenStep ==
  ASSUME ServerTypeOK, NEW at, NEW rest, NEW pend2, Taken(pending, at, rest, pend2), Aligned(req, pending)
  PROVE  /\ Position(req, pending) \in 1..Len(Callbacks(req))
         /\ Head(pending).cb = Callbacks(req)[Position(req, pending)].cb
         /\ Aligned(req, pend2)
         /\ rest # <<>> => Position(req, pend2) = Position(req, pending)
         /\ rest = <<>> => Position(req, pend2) = Position(req, pending) + 1
         /\ rest = <<>> /\ Position(req, pending) < Len(Callbacks(req)) => pend2 # <<>> /\ Untouched(req, pend2)
         /\ pend2 = <<>> => Position(req, pending) = Len(Callbacks(req))
<1>1. req \in Request /\ pending \in Seq(Element)
  BY DEF ServerTypeOK
<1> QED BY <1>1, PendingStep

\* What is collected of the element's text, and what is left of it.
LEMMA TakenText ==
  ASSUME ServerTypeOK, NEW at, NEW rest, NEW pend2, Taken(pending, at, rest, pend2), Aligned(req, pending),
         NEW buffer \in Texts
  PROVE  /\ at \in Texts
         /\ rest # <<>> => /\ Left(pending) = at \o Left(pend2)
                           /\ buffer \o Left(pending) = (buffer \o at) \o Left(pend2)
         /\ rest = <<>> => /\ Left(pending) = at
                           /\ buffer \o Left(pending) = buffer \o at
         /\ Left(pending) = <<>> => rest = <<>>
<1>1. /\ at \in Texts /\ rest \in Texts /\ Left(pending) = at \o rest
      /\ req \in Request /\ pending \in Seq(Element)
  BY DEF Taken, ServerTypeOK
<1>2. /\ rest # <<>> => Left(pend2) = rest
      /\ rest = <<>> => at = Left(pending)
  BY <1>1, PendingStep
<1>3. (buffer \o at) \o rest = buffer \o (at \o rest)
  BY <1>1, ConcatAssociative DEF Texts
<1>4. at \o rest = <<>> => rest = <<>>
  BY <1>1, ConcatEqualIffEmpty DEF Texts
<1> QED BY <1>1, <1>2, <1>3, <1>4

\* Events up to one are up to a later one.
LEMMA UpToMore ==
  ASSUME NEW e \in Seq(Events), NEW m \in Int, NEW n \in Int, m =< n, UpTo(e, m)
  PROVE  UpTo(e, n)
<1> SUFFICES ASSUME NEW i \in 1..Len(e) PROVE Rank(e[i]) =< n
  BY DEF UpTo
<1>1. e[i] \in Events
  BY ElementOfSeq
<1>2. Rank(e[i]) \in 1..4
  BY <1>1 DEF Events, Rank
<1> QED BY <1>2 DEF UpTo

\* Before the first event.
LEMMA NoEvents == Ordered(<<>>) /\ \A n : UpTo(<<>>, n)
BY DEF Ordered, UpTo

\* The first text of the request, its URI.
LEMMA InUriStep ==
  ASSUME ServerTypeOK, NEW at, NEW rest, NEW pend2, Taken(pending, at, rest, pend2), Aligned(req, pending),
         BeforeHeaders(req, known, ctx, events, pending), InUri(req, known, ctx, pending)
  PROVE  BeforeHeaders(req, known, Callback(Head(pending).cb, at), Told(Head(pending).cb), pend2)
<1> DEFINE c == [ctx EXCEPT !.parse_buffer = @ \o at]
<1>1. req \in Request /\ ctx \in Context /\ ctx.parse_buffer \in Texts
  BY DEF ServerTypeOK, Context
<1>2. Position(req, pending) = 1 /\ (known => req.uri = ctx.parse_buffer \o Left(pending))
  BY DEF InUri
<1>3. Head(pending).cb = "url" /\ Len(Callbacks(req)) \in Nat /\ Len(Callbacks(req)) > 2
  <2>1. /\ Callbacks(req)[1] = Of("url", req.uri)
        /\ Len(Callbacks(req)) \in Nat /\ Len(req.headers) \in Nat
        /\ Len(Callbacks(req)) > 2 * Len(req.headers) + 2
    BY <1>1, CallbacksShape
  <2> QED BY <1>2, <2>1, TakenStep DEF Of
<1>4. Callback("url", at) = c /\ Told("url") = events
  BY DEF Callback, Told
<1>5. /\ c.state = ctx.state /\ c.handler = ctx.handler /\ c.request_headers = ctx.request_headers
      /\ c.parse_buffer = ctx.parse_buffer \o at
  BY <1>1 DEF Context
<1> HIDE DEF c
<1>6. c.state = "uri" /\ Holds(req, c, 0) /\ c.handler = 0 /\ events = <<>>
  BY <1>5 DEF BeforeHeaders, Holds
<1>7. CASE rest # <<>>
  <2>1. Position(req, pend2) = 1
    BY <1>2, <1>7, TakenStep
  <2>2. ctx.parse_buffer \o Left(pending) = (ctx.parse_buffer \o at) \o Left(pend2)
    BY <1>1, <1>7, TakenText, SMTT(30)
  <2>3. InUri(req, known, c, pend2)
    BY <1>2, <1>5, <2>1, <2>2 DEF InUri
  <2> QED BY <1>3, <1>4, <1>6, <2>3 DEF BeforeHeaders
<1>8. CASE rest = <<>>
  <2>1. Position(req, pend2) = 2 /\ Untouched(req, pend2)
    BY <1>2, <1>3, <1>8, TakenStep
  <2>2. ctx.parse_buffer \o Left(pending) = ctx.parse_buffer \o at
    BY <1>1, <1>8, TakenText
  <2>3. AfterUri(req, known, c, pend2)
    BY <1>2, <1>5, <2>1, <2>2 DEF AfterUri
  <2> QED BY <1>3, <1>4, <1>6, <2>3 DEF BeforeHeaders
<1> QED BY <1>7, <1>8

\* The end of the header that Callback collected: it is before the others, as it was sent.
LEMMA HeaderDone ==
  ASSUME ServerTypeOK, NEW k \in 1..Len(req.headers), Holds(req, ctx, k - 1),
         req.headers[k].name = ctx.request_header_tmp, req.headers[k].value = ctx.parse_buffer
  PROVE  header_value_done(ctx).request_headers = Reverse(SubSeq(req.headers, 1, k))
<1> DEFINE h == req.headers[k]
<1>1. ctx \in Context /\ req.headers \in Seq(Header)
  BY DEF ServerTypeOK, Request
<1>2. h \in Header
  BY <1>1, ElementOfSeq
<1>3. h = [name |-> h.name, value |-> h.value]
  BY <1>2 DEF Header
<1> HIDE DEF h
<1>4. header_value_done(ctx).request_headers = <<h>> \o ctx.request_headers
  BY <1>1, <1>3, ValueDone DEF h
<1>5. <<h>> \o Reverse(SubSeq(req.headers, 1, k - 1)) = Reverse(SubSeq(req.headers, 1, k))
  BY <1>1, ReverseNext DEF h
<1> QED BY <1>4, <1>5 DEF Holds

\* The headers end: what the context holds is all of them, and the handler is told.
LEMMA HeadersEnd ==
  ASSUME ServerTypeOK, NEW at, NEW rest, NEW pend2, Taken(pending, at, rest, pend2), Aligned(req, pending),
         Position(req, pending) = 2 * Len(req.headers) + 2,
         Untouched(req, pending), ctx.state # "value" => Holds(req, ctx, Len(req.headers)),
         ctx.state = "value" =>
           header_value_done(ctx).request_headers = Reverse(SubSeq(req.headers, 1, Len(req.headers))),
         known /\ req.headers # <<>> => Found(req, ctx.handler),
         ~ req.next => Ordered(events) /\ UpTo(events, 1)
  PROVE  AfterHeaders(req, known, Callback(Head(pending).cb, at), Told(Head(pending).cb), pend2)
<1> DEFINE n == Len(req.headers)
           c == http_headers_done_cb(ctx)
           e == invoke_handler(ctx, events, "HEADERS")
<1>1. /\ req \in Request /\ n \in Nat /\ Len(Callbacks(req)) \in Nat /\ Len(Callbacks(req)) > 2 * n + 2
      /\ Callbacks(req)[2 * n + 2] = Of("headers", <<>>) /\ events \in Seq(Events)
  BY CallbacksShape DEF ServerTypeOK
<1>2. Head(pending).cb = "headers" /\ Left(pending) = <<>>
  BY <1>1, TakenStep DEF Of, Untouched
<1>3. Callback("headers", at) = c /\ Told("headers") = e
  BY DEF Callback, Told
<1>4. rest = <<>>
  <2>1. <<>> \in Texts
    BY DEF Texts
  <2> QED BY <1>2, <2>1, TakenText
<1>5. Position(req, pend2) = 2 * n + 3 /\ pend2 # <<>>
  BY <1>1, <1>4, TakenStep
<1>6. c.state = "body" /\ Holds(req, c, n) /\ c.handler = ctx.handler
  BY HeadersCallback DEF Holds, SameHandler
<1> HIDE DEF c, n
<1>7. ASSUME ~ req.next PROVE Ordered(e) /\ UpTo(e, 3)
  <2>1. UpTo(events, Rank("HEADERS") - 1) /\ Rank("HEADERS") = 2 /\ Ordered(events)
    BY <1>7 DEF Rank
  <2>2. Ordered(e) /\ UpTo(e, 2)
    BY <1>1, <2>1, InvokeOrdered DEF Events
  <2>3. e \in Seq(Events)
    BY <1>1, AppendProperties DEF invoke_handler, Events
  <2> HIDE DEF e
  <2> QED BY <2>2, <2>3, UpToMore
<1> HIDE DEF e
<1>8. AfterHeaders(req, known, c, e, pend2)
  BY <1>1, <1>5, <1>6, <1>7 DEF AfterHeaders, n
<1> QED BY <1>2, <1>3, <1>8

\* The first name, or the end of the headers: the handler of the request is found.
LEMMA AfterUriStep ==
  ASSUME ServerTypeOK, Known, NEW at, NEW rest, NEW pend2, Taken(pending, at, rest, pend2),
         Aligned(req, pending),
         BeforeHeaders(req, known, ctx, events, pending), AfterUri(req, known, ctx, pending)
  PROVE  LET c == Callback(Head(pending).cb, at)
             e == Told(Head(pending).cb)
         IN InHeaders(req, known, c, e, pend2) \/ AfterHeaders(req, known, c, e, pend2)
<1> DEFINE n == Len(req.headers)
           c == http_header_name_cb(ctx, at)
           e == invoke_handler(uri_done(ctx), events, "URI")
<1>1. /\ req \in Request /\ n \in Nat /\ Len(Callbacks(req)) \in Nat /\ Len(Callbacks(req)) > 2 * n + 2
      /\ ctx \in Context /\ events = <<>> /\ events \in Seq(Events)
      /\ ctx.state = "uri" /\ Holds(req, ctx, 0) /\ <<>> \in Texts
  BY CallbacksShape DEF ServerTypeOK, BeforeHeaders, Texts
<1>2. Position(req, pending) = 2 /\ Untouched(req, pending) /\ (known => req.uri = ctx.parse_buffer)
  BY DEF AfterUri
<1>3. CASE n = 0
  BY <1>1, <1>2, <1>3, NoEvents, HeadersEnd, EmptySeq DEF ServerTypeOK, Request
<1>4. CASE n > 0
  <2>1. /\ Callbacks(req)[2] = Of("name", req.headers[1].name)
    BY <1>1, <1>4, CallbacksShape
  <2>2. Head(pending).cb = "name" /\ Left(pending) = req.headers[1].name
    BY <1>2, <2>1, TakenStep DEF Of, Untouched
  <2>3. Callback("name", at) = c /\ Told("name") = e
    BY <1>1 DEF Callback, Told
  <2>4. /\ c.state = "name" /\ c.parse_buffer = at /\ c.handler = uri_done(ctx).handler
        /\ c.request_headers = ctx.request_headers
    BY <1>1, NameCallback, TakenText
  <2> HIDE DEF c
  <2>5. InHeader(req, c, pend2, 1)
    <3>1. Holds(req, c, 1 - 1)
      BY <1>1, <2>4 DEF Holds
    <3>2. CASE rest # <<>>
      <4>1. InName(req, c, pend2, 1)
        BY <1>1, <1>2, <2>2, <2>4, <3>2, TakenStep, TakenText DEF InName
      <4> QED BY <3>1, <4>1 DEF InHeader
    <3>3. CASE rest = <<>>
      <4>1. AfterName(req, c, pend2, 1)
        BY <1>1, <1>2, <2>2, <2>4, <3>3, TakenStep, TakenText DEF AfterName
      <4> QED BY <3>1, <4>1 DEF InHeader
    <3> QED BY <3>2, <3>3
  <2>6. known => Found(req, c.handler)
    BY <1>2, <2>4, FindKnown
  <2>7. Ordered(e) /\ UpTo(e, 1)
    BY <1>1, NoEvents, InvokeOrdered DEF Events, Rank
  <2> HIDE DEF e
  <2>8. InHeaders(req, known, c, e, pend2)
    BY <1>4, <2>5, <2>6, <2>7 DEF InHeaders
  <2> QED BY <2>2, <2>3, <2>8
<1> QED BY <1>1, <1>3, <1>4

\* A text of a header, or the first one after a header.
LEMMA InHeadersStep ==
  ASSUME ServerTypeOK, NEW at, NEW rest, NEW pend2, Taken(pending, at, rest, pend2), Aligned(req, pending),
         InHeaders(req, known, ctx, events, pending)
  PROVE  LET c == Callback(Head(pending).cb, at)
             e == Told(Head(pending).cb)
         IN InHeaders(req, known, c, e, pend2) \/ AfterHeaders(req, known, c, e, pend2)
<1> DEFINE n == Len(req.headers)
           name == http_header_name_cb(ctx, at)
           value == http_header_value_cb(ctx, at)
<1>1. /\ req \in Request /\ n \in Nat /\ Len(Callbacks(req)) \in Nat /\ Len(Callbacks(req)) > 2 * n + 2
      /\ ctx \in Context /\ events \in Seq(Events) /\ <<>> \in Texts
      /\ ctx.parse_buffer \in Texts
  BY CallbacksShape DEF ServerTypeOK, Texts, Context
<1>11. ctx.parse_buffer \in Texts
  BY <1>1
<1>12. /\ rest # <<>> => /\ Left(pending) = at \o Left(pend2)
                         /\ ctx.parse_buffer \o Left(pending) = (ctx.parse_buffer \o at) \o Left(pend2)
       /\ rest = <<>> => /\ Left(pending) = at
                         /\ ctx.parse_buffer \o Left(pending) = ctx.parse_buffer \o at
  <2> DEFINE buffer == ctx.parse_buffer
  <2>1. buffer \in Texts
    BY <1>11
  <2> HIDE DEF buffer
  <2>2. /\ rest # <<>> => /\ Left(pending) = at \o Left(pend2)
                          /\ buffer \o Left(pending) = (buffer \o at) \o Left(pend2)
        /\ rest = <<>> => /\ Left(pending) = at
                          /\ buffer \o Left(pending) = buffer \o at
    BY <2>1, TakenText, SMTT(30)
  <2> QED BY <2>2 DEF buffer
<1>2. PICK k \in 1..n : InHeader(req, ctx, pending, k)
  BY DEF InHeaders
<1>3. (known => Found(req, ctx.handler)) /\ (~ req.next => Ordered(events) /\ UpTo(events, 1))
  BY DEF InHeaders
<1>4. /\ Callbacks(req)[2 * k] = Of("name", req.headers[k].name)
      /\ Callbacks(req)[2 * k + 1] = Of("value", req.headers[k].value)
      /\ 2 * k < Len(Callbacks(req)) /\ 2 * k + 1 < Len(Callbacks(req))
      /\ 2 * k + 2 < Len(Callbacks(req)) \/ k = n
  BY <1>1, <1>2, CallbacksShape
<1>5. Holds(req, ctx, k - 1) /\ at \in Texts
  BY <1>2 DEF InHeader, Taken
<1>6. ASSUME NEW c, NEW j \in 1..n, InHeader(req, c, pend2, j), c.handler = ctx.handler,
             ctx.state # "uri"
      PROVE  /\ InHeaders(req, known, c, Told("name"), pend2)
             /\ InHeaders(req, known, c, Told("value"), pend2)
  BY <1>3, <1>6 DEF InHeaders, Told
<1>7. CASE InName(req, ctx, pending, k)
  <2>1. /\ Position(req, pending) = 2 * k /\ ctx.state = "name"
        /\ req.headers[k].name = ctx.parse_buffer \o Left(pending)
    BY <1>7 DEF InName
  <2>2. Head(pending).cb = "name" /\ Callback("name", at) = name
    BY <1>4, <2>1, TakenStep DEF Of, Callback
  <2>3. /\ name.state = "name" /\ name.parse_buffer = ctx.parse_buffer \o at
        /\ name.handler = ctx.handler /\ name.request_headers = ctx.request_headers
    BY <1>5, <2>1, NameCallback DEF SameHandler
  <2> HIDE DEF name
  <2>4. Holds(req, name, k - 1)
    BY <1>5, <2>3 DEF Holds
  <2>5. CASE rest # <<>>
    <3>1. Position(req, pend2) = 2 * k
      BY <2>1, <2>5, TakenStep
    <3>2. ctx.parse_buffer \o Left(pending) = (ctx.parse_buffer \o at) \o Left(pend2)
      BY <1>12, <2>5
    <3>3. InName(req, name, pend2, k)
      BY <2>1, <2>3, <3>1, <3>2 DEF InName
    <3> QED BY <1>6, <2>1, <2>2, <2>3, <2>4, <3>3 DEF InHeader
  <2>6. CASE rest = <<>>
    <3>1. Position(req, pend2) = 2 * k + 1 /\ Untouched(req, pend2)
      BY <1>4, <2>1, <2>6, TakenStep
    <3>2. ctx.parse_buffer \o Left(pending) = ctx.parse_buffer \o at
      BY <1>12, <2>6
    <3>3. AfterName(req, name, pend2, k)
      BY <2>1, <2>3, <3>1, <3>2 DEF AfterName
    <3> QED BY <1>6, <2>1, <2>2, <2>3, <2>4, <3>3 DEF InHeader
  <2> QED BY <2>5, <2>6
<1>8. CASE AfterName(req, ctx, pending, k)
  <2>1. /\ Position(req, pending) = 2 * k + 1 /\ ctx.state = "name" /\ Untouched(req, pending)
        /\ req.headers[k].name = ctx.parse_buffer
    BY <1>8 DEF AfterName
  <2>2. /\ Head(pending).cb = "value" /\ Callback("value", at) = value
        /\ Left(pending) = req.headers[k].value
    BY <1>4, <2>1, TakenStep DEF Of, Callback, Untouched
  <2>3. /\ value.state = "value" /\ value.parse_buffer = at
        /\ value.request_header_tmp = ctx.parse_buffer
        /\ value.handler = ctx.handler /\ value.request_headers = ctx.request_headers
    BY <1>5, <2>1, ValueCallback DEF SameHandler
  <2> HIDE DEF value
  <2>4. Holds(req, value, k - 1)
    BY <1>5, <2>3 DEF Holds
  <2>5. CASE rest # <<>>
    <3>1. Position(req, pend2) = 2 * k + 1
      BY <2>1, <2>5, TakenStep
    <3>2. Left(pending) = at \o Left(pend2)
      BY <1>12, <2>5
    <3>3. InValue(req, value, pend2, k)
      BY <2>1, <2>2, <2>3, <3>1, <3>2 DEF InValue
    <3> QED BY <1>6, <2>1, <2>2, <2>3, <2>4, <3>3 DEF InHeader
  <2>6. CASE rest = <<>>
    <3>1. Position(req, pend2) = 2 * k + 2 /\ Untouched(req, pend2)
      BY <1>4, <2>1, <2>6, TakenStep
    <3>2. Left(pending) = at
      BY <1>12, <2>6
    <3>3. AfterValue(req, value, pend2, k)
      BY <2>1, <2>2, <2>3, <3>1, <3>2 DEF AfterValue
    <3> QED BY <1>6, <2>1, <2>2, <2>3, <2>4, <3>3 DEF InHeader
  <2> QED BY <2>5, <2>6
<1>9. CASE InValue(req, ctx, pending, k)
  <2>1. /\ Position(req, pending) = 2 * k + 1 /\ ctx.state = "value"
        /\ req.headers[k].name = ctx.request_header_tmp
        /\ req.headers[k].value = ctx.parse_buffer \o Left(pending)
    BY <1>9 DEF InValue
  <2>2. Head(pending).cb = "value" /\ Callback("value", at) = value
    BY <1>4, <2>1, TakenStep DEF Of, Callback
  <2>3. /\ value.state = "value" /\ value.parse_buffer = ctx.parse_buffer \o at
        /\ value.request_header_tmp = ctx.request_header_tmp
        /\ value.handler = ctx.handler /\ value.request_headers = ctx.request_headers
    BY <1>5, <2>1, ValueCallback DEF SameHandler
  <2> HIDE DEF value
  <2>4. Holds(req, value, k - 1)
    BY <1>5, <2>3 DEF Holds
  <2>5. CASE rest # <<>>
    <3>1. Position(req, pend2) = 2 * k + 1
      BY <2>1, <2>5, TakenStep
    <3>2. ctx.parse_buffer \o Left(pending) = (ctx.parse_buffer \o at) \o Left(pend2)
      BY <1>12, <2>5
    <3>3. InValue(req, value, pend2, k)
      BY <2>1, <2>3, <3>1, <3>2 DEF InValue
    <3> QED BY <1>6, <2>1, <2>2, <2>3, <2>4, <3>3 DEF InHeader
  <2>6. CASE rest = <<>>
    <3>1. Position(req, pend2) = 2 * k + 2 /\ Untouched(req, pend2)
      BY <1>4, <2>1, <2>6, TakenStep
    <3>2. ctx.parse_buffer \o Left(pending) = ctx.parse_buffer \o at
      BY <1>12, <2>6
    <3>3. AfterValue(req, value, pend2, k)
      BY <2>1, <2>3, <3>1, <3>2 DEF AfterValue
    <3> QED BY <1>6, <2>1, <2>2, <2>3, <2>4, <3>3 DEF InHeader
  <2> QED BY <2>5, <2>6
<1>10. CASE AfterValue(req, ctx, pending, k)
  <2>1. /\ Position(req, pending) = 2 * k + 2 /\ ctx.state = "value" /\ Untouched(req, pending)
        /\ req.headers[k].name = ctx.request_header_tmp
        /\ req.headers[k].value = ctx.parse_buffer
    BY <1>10 DEF AfterValue
  <2>2. header_value_done(ctx).request_headers = Reverse(SubSeq(req.headers, 1, k))
    BY <1>5, <2>1, HeaderDone
  <2>3. CASE k = n
    BY <1>3, <2>1, <2>2, <2>3, HeadersEnd
  <2>4. CASE k < n
    <3>1. /\ k + 1 \in 1..n /\ 2 * (k + 1) = 2 * k + 2 /\ (k + 1) - 1 = k
          /\ 2 * k + 2 < Len(Callbacks(req))
      <4>1. k + 1 \in 1..n /\ 2 * (k + 1) = 2 * k + 2 /\ (k + 1) - 1 = k
        BY <1>1, <2>4
      <4>2. 2 * k + 2 < Len(Callbacks(req))
        BY <1>1, <1>2, <1>4, <2>4
      <4> QED BY <4>1, <4>2
    <3>2. Callbacks(req)[2 * (k + 1)] = Of("name", req.headers[k + 1].name)
      BY <1>1, <3>1, CallbacksShape
    <3>3. /\ Head(pending).cb = "name" /\ Callback("name", at) = name
          /\ Left(pending) = req.headers[k + 1].name
      <4>1. Head(pending).cb = Callbacks(req)[2 * (k + 1)].cb
        BY <2>1, <3>1, TakenStep
      <4>2. Left(pending) = Callbacks(req)[2 * (k + 1)].text
        BY <2>1, <3>1 DEF Untouched
      <4> QED BY <3>2, <4>1, <4>2 DEF Of, Callback
    <3>4. /\ name.state = "name" /\ name.parse_buffer = at /\ name.handler = ctx.handler
          /\ name.request_headers = header_value_done(ctx).request_headers
      BY <1>5, <2>1, NameCallback
    <3> HIDE DEF name
    <3>5. Holds(req, name, (k + 1) - 1)
      BY <2>2, <3>1, <3>4 DEF Holds
    <3>6. CASE rest # <<>>
      <4>1. Position(req, pend2) = 2 * (k + 1)
        BY <2>1, <3>1, <3>6, TakenStep
      <4>2. Left(pending) = at \o Left(pend2)
        BY <1>12, <3>6
      <4>3. InName(req, name, pend2, k + 1)
        BY <3>3, <3>4, <4>1, <4>2 DEF InName
      <4>4. InHeader(req, name, pend2, k + 1)
        BY <3>5, <4>3 DEF InHeader
      <4> QED BY <1>6, <2>1, <3>1, <3>3, <3>4, <4>4
    <3>7. CASE rest = <<>>
      <4>1. Position(req, pend2) = 2 * k + 3 /\ Untouched(req, pend2) /\ 2 * (k + 1) + 1 = 2 * k + 3
        BY <2>1, <3>1, <3>7, TakenStep
      <4>2. Left(pending) = at
        BY <1>12, <3>7
      <4>3. AfterName(req, name, pend2, k + 1)
        BY <3>3, <3>4, <4>1, <4>2 DEF AfterName
      <4>4. InHeader(req, name, pend2, k + 1)
        BY <3>5, <4>3 DEF InHeader
      <4> QED BY <1>6, <2>1, <3>1, <3>3, <3>4, <4>4
    <3> QED BY <3>6, <3>7
  <2> QED BY <1>1, <1>2, <2>3, <2>4
<1> QED BY <1>2, <1>7, <1>8, <1>9, <1>10 DEF InHeader

\* A callback after the headers: they stay, and the handler is told of the body's pieces.
LEMMA AfterHeadersStep ==
  ASSUME ServerTypeOK, NEW at, NEW rest, NEW pend2, Taken(pending, at, rest, pend2), Aligned(req, pending),
         AfterHeaders(req, known, ctx, events, pending)
  PROVE  AfterHeaders(req, known, Callback(Head(pending).cb, at), Told(Head(pending).cb), pend2)
<1> DEFINE n == Len(req.headers)
           p == Position(req, pending)
           cb == Head(pending).cb
           c == Callback(cb, at)
           e == Told(cb)
<1>1. /\ req \in Request /\ n \in Nat /\ Len(Callbacks(req)) \in Nat
      /\ ctx \in Context /\ events \in Seq(Events) /\ at \in Texts
  BY CallbacksShape DEF ServerTypeOK, Taken
<1>2. /\ p > 2 * n + 2 /\ ctx.state \in {"body", "done"} /\ Holds(req, ctx, n)
      /\ known /\ req.headers # <<>> => Found(req, ctx.handler)
      /\ ~ req.next => Ordered(events) /\ UpTo(events, 3)
  BY DEF AfterHeaders
<1>3. p \in 2 * n + 3..Len(Callbacks(req)) /\ cb = Callbacks(req)[p].cb
  BY <1>1, <1>2, TakenStep
<1>4. /\ cb \in {"body", "message", "url", "headers"}
      /\ ~ req.next => cb \in {"body", "message"}
      /\ p = Len(Callbacks(req)) => cb = "message"
  BY <1>1, <1>3, CallbacksShape
<1>5. Position(req, pend2) > 2 * n + 2
  <2>1. p \in Nat /\ (Position(req, pend2) = p \/ Position(req, pend2) = p + 1)
    BY <1>1, <1>3, TakenStep
  <2> QED BY <1>1, <1>2, <2>1
<1>6. /\ c.request_headers = ctx.request_headers /\ c.handler = ctx.handler
      /\ c.state \in {"body", "done"} /\ (cb = "message" => c.state = "done")
  <2>1. CASE cb = "url"
    <3>1. c = [ctx EXCEPT !.parse_buffer = @ \o at]
      BY <2>1 DEF Callback
    <3> HIDE DEF c
    <3> QED BY <1>1, <1>2, <2>1, <3>1 DEF Context
  <2>2. CASE cb = "headers"
    BY <1>2, <2>2, HeadersCallback DEF Callback, SameHandler
  <2>3. CASE cb = "body"
    BY <1>2, <2>3 DEF Callback
  <2>4. CASE cb = "message"
    BY <1>1, <2>4 DEF Callback, http_message_done_cb, Context
  <2> QED BY <1>4, <2>1, <2>2, <2>3, <2>4
<1>7. ASSUME ~ req.next PROVE Ordered(e) /\ UpTo(e, 3)
  <2>1. CASE cb = "body"
    <3>1. e = invoke_handler(ctx, events, "DATA") /\ Rank("DATA") = 3
      BY <2>1 DEF Told, Rank
    <3> QED BY <1>1, <1>2, <1>7, <3>1, InvokeOrdered DEF Events
  <2>2. CASE cb = "message"
    BY <1>2, <1>7, <2>2 DEF Told
  <2> QED BY <1>4, <1>7, <2>1, <2>2
<1>8. pend2 = <<>> => c.state = "done"
  BY <1>4, <1>6, TakenStep
<1> HIDE DEF c, e
<1>9. AfterHeaders(req, known, c, e, pend2)
  BY <1>2, <1>5, <1>6, <1>7, <1>8 DEF AfterHeaders, Holds
<1> QED BY <1>9 DEF c, e

\* Any callback leads from a stage to a stage.
LEMMA StageStep ==
  ASSUME ServerTypeOK, Known, NEW at, NEW rest, NEW pend2, Taken(pending, at, rest, pend2),
         Stage(req, known, ctx, events, pending)
  PROVE  Stage(req, known, Callback(Head(pending).cb, at), Told(Head(pending).cb), pend2)
<1>1. Aligned(req, pending)
  BY DEF Stage
<1>2. Aligned(req, pend2)
  BY <1>1, TakenStep
<1>3. CASE BeforeHeaders(req, known, ctx, events, pending) /\ InUri(req, known, ctx, pending)
  BY <1>1, <1>2, <1>3, InUriStep DEF Stage
<1>4. CASE BeforeHeaders(req, known, ctx, events, pending) /\ AfterUri(req, known, ctx, pending)
  BY <1>1, <1>2, <1>4, AfterUriStep DEF Stage
<1>5. CASE InHeaders(req, known, ctx, events, pending)
  BY <1>1, <1>2, <1>5, InHeadersStep DEF Stage
<1>6. CASE AfterHeaders(req, known, ctx, events, pending)
  BY <1>1, <1>2, <1>6, AfterHeadersStep DEF Stage
<1> QED BY <1>3, <1>4, <1>5, <1>6 DEF Stage, BeforeHeaders

\* A connection is accepted: the request begins with its first text.
LEMMA StageAccept ==
  ASSUME NEW r \in Request, NEW kn \in BOOLEAN, NEW c,
         c.state = "uri", c.handler = 0, c.request_headers = <<>>, kn => c.parse_buffer = <<>>
  PROVE  Stage(r, kn, c, <<>>, Callbacks(r))
<1> DEFINE s == Callbacks(r)
<1>1. /\ s \in Seq(Element) /\ Len(s) \in Nat /\ Len(s) > 0 /\ s[1] = Of("url", r.uri)
      /\ r.headers \in Seq(Header) /\ r.uri \in Texts
  <2>1. s \in Seq(Element) /\ Len(s) \in Nat /\ Len(r.headers) \in Nat /\ Len(s) > 2 * Len(r.headers) + 2
    BY CallbacksShape
  <2>2. s[1] = Of("url", r.uri)
    BY CallbacksShape
  <2> QED BY <2>1, <2>2 DEF Request
<1> HIDE DEF s
<1>2. s # <<>> /\ Head(s) = s[1]
  BY <1>1, EmptySeq
<1>3. Position(r, s) = 1
  BY <1>1 DEF Position, s
<1>4. Aligned(r, s)
  <2>1. \A i \in 2..Len(s) : 1 + i - 1 = i
    BY <1>1
  <2> QED BY <1>1, <1>2, <1>3, <2>1 DEF Aligned, s
<1>5. Holds(r, c, 0)
  <2>1. SubSeq(r.headers, 1, 0) = <<>>
    BY <1>1, SubSeqEmpty
  <2>2. Reverse(<<>>) = <<>>
    BY DEF Reverse
  <2> QED BY <2>1, <2>2 DEF Holds
<1>6. InUri(r, kn, c, s)
  <2>1. Left(s) = r.uri
    BY <1>1, <1>2 DEF Left, Of
  <2>2. <<>> \o r.uri = r.uri
    BY <1>1, ConcatEmptySeq DEF Texts
  <2> QED BY <1>3, <2>1, <2>2 DEF InUri
<1> QED BY <1>4, <1>5, <1>6 DEF Stage, BeforeHeaders, s

\* In every stage the events came in order, none of them the last one.
LEMMA StageOrdered ==
  ASSUME ServerTypeOK, NEW c, NEW e \in Seq(Events), NEW pend, Stage(req, known, c, e, pend), ~ req.next
  PROVE  Ordered(e) /\ UpTo(e, 3)
<1>1. CASE BeforeHeaders(req, known, c, e, pend)
  BY <1>1, NoEvents DEF BeforeHeaders
<1>2. CASE InHeaders(req, known, c, e, pend)
  BY <1>2, UpToMore DEF InHeaders
<1>3. CASE AfterHeaders(req, known, c, e, pend)
  BY <1>3 DEF AfterHeaders
<1> QED BY <1>1, <1>2, <1>3 DEF Stage

\* When nothing is pending, all the headers were seen, and the message's end.
LEMMA StageEnd ==
  ASSUME ServerTypeOK, NEW c, NEW e, Stage(req, known, c, e, <<>>)
  PROVE  /\ c.state = "done"
         /\ known /\ req.headers # <<>> => Found(req, c.handler)
<1>1. /\ Len(Callbacks(req)) \in Nat /\ Len(req.headers) \in Nat
      /\ Len(Callbacks(req)) > 2 * Len(req.headers) + 2
  BY CallbacksShape DEF ServerTypeOK
<1>2. Position(req, <<>>) \in Nat /\ Position(req, <<>>) > 2 * Len(req.headers) + 3
  BY <1>1 DEF Position
<1>3. ~ BeforeHeaders(req, known, c, e, <<>>)
  BY <1>1, <1>2 DEF BeforeHeaders, InUri, AfterUri
<1>4. ~ InHeaders(req, known, c, e, <<>>)
  <2> SUFFICES ASSUME NEW k \in 1..Len(req.headers), InHeader(req, c, <<>>, k) PROVE FALSE
    BY DEF InHeaders
  <2>1. Position(req, <<>>) =< 2 * k + 2
    BY <1>1 DEF InHeader, InName, AfterName, InValue, AfterValue
  <2> QED BY <1>1, <1>2, <2>1
<1> QED BY <1>3, <1>4 DEF Stage, AfterHeaders

\* The answer, in whatever stage it begins, settles what the request was told.
LEMMA SettledAnswer ==
  ASSUME ServerTypeOK, NEW c \in Context, NEW d \in Context, SameHandler(d, c), NEW e \in Seq(Events),
         NEW pend, Stage(req, known, c, e, pend),
         Answer(d, e), pending' = pend, UNCHANGED <<req, known>>
  PROVE  Settled'
<1>1. ctx' = [d EXCEPT !.state = "collecting"] /\ events' = invoke_handler(d, e, "RESPONSE")
  BY DEF Answer
<1>2. ctx'.handler = c.handler
  BY <1>1 DEF Context, SameHandler
<1>3. ASSUME ~ req.next PROVE Ordered(events')
  <2>1. UpTo(e, Rank("RESPONSE") - 1) /\ Ordered(e)
    BY <1>3, StageOrdered DEF Rank
  <2> QED BY <1>1, <2>1, InvokeOrdered DEF Events
<1>4. ASSUME known, req.headers # <<>>, pend = <<>> PROVE Answered'
  <2>1. Found(req, c.handler)
    BY <1>4, StageEnd
  <2>2. d.handler # 0 /\ "RESPONSE" \in Handlers[d.handler].events
    BY <2>1, HttpAssumption DEF Found, SameHandler
  <2>3. events' = Append(e, "RESPONSE")
    BY <1>1, <2>2 DEF invoke_handler, Wants
  <2>4. "RESPONSE" \in ToSet(events')
    <3>1. events'[Len(e) + 1] = "RESPONSE" /\ Len(e) + 1 \in 1..Len(events')
      BY <2>3, AppendProperties DEF Events
    <3> QED BY <3>1 DEF ToSet
  <2> QED BY <1>2, <2>1, <2>4 DEF Answered, Found
<1> QED BY <1>3, <1>4 DEF Settled, Ordered

\* The step of the parser, when the answer does not begin, leads to the next stage.
LEMMA ParsingNext ==
  ASSUME ServerTypeOK, Parsing, Settled, Blocks, [HttpNext]_httpVars
  PROVE  Parsing' /\ Settled'
<1>1. ctx \in Context /\ events \in Seq(Events) /\ registered \in Nat /\ Len(Handlers) \in Nat
  BY HttpAssumption DEF ServerTypeOK
<1>2. ASSUME Known, UNCHANGED <<req, known>>, registered' = registered \/ registered' = registered + 1
      PROVE  Known'
  BY <1>1, <1>2 DEF Known, Matching
<1>3. ASSUME UNCHANGED <<pc, req, known, ctx, events, pending>>,
             registered' = registered \/ registered' = registered + 1
      PROVE  Parsing' /\ Settled'
  BY <1>2, <1>3 DEF Parsing, Settled, Answered, Ordered
<1>4. CASE Register \/ TcpDone \/ Leave \/ UNCHANGED httpVars
  BY <1>3, <1>4 DEF Register, TcpDone, Leave, httpVars, reqVars
<1>5. CASE Accept
  <2>1. /\ pc = "accept" /\ pc' = "parse" /\ req' \in Request /\ pending' = Callbacks(req')
        /\ events' = <<>> /\ registered' = registered
    BY <1>5, HttpAssumption DEF Accept
  <2>2. known' = (/\ ctx.parse_buffer = <<>>
                  /\ \E h \in Matching(req'.method, req'.uri) : "RESPONSE" \in Handlers[h].events)
    BY <1>5 DEF Accept
  <2>3. ctx' = [ctx EXCEPT !.state = "uri"]
    BY <1>5 DEF Accept
  <2>4. /\ ctx'.state = "uri" /\ ctx'.handler = 0 /\ ctx'.request_headers = <<>>
        /\ ctx'.parse_buffer = ctx.parse_buffer
    BY <1>1, <2>1, <2>3 DEF Context, Blocks
  <2>5. Stage(req', known', ctx', <<>>, Callbacks(req'))
    BY <2>1, <2>2, <2>4, StageAccept
  <2>6. Known'
    BY <2>1, <2>2 DEF Known, Matching
  <2> QED BY <2>1, <2>5, <2>6 DEF Parsing, Settled
<1>6. CASE Parse
  <2> DEFINE cb == Head(pending).cb
  <2>1. /\ pc = "parse" /\ Known /\ Stage(req, known, ctx, events, pending)
        /\ UNCHANGED <<registered, req, known>>
    BY <1>6 DEF Parse, Parsing, reqVars
  <2>2. PICK at \in Texts, rest \in Texts :
          LET c == Callback(cb, at)
          IN /\ Head(pending).text = at \o rest /\ pending # <<>>
             /\ pending' = IF rest = <<>> THEN Tail(pending) ELSE <<Of(cb, rest)>> \o Tail(pending)
             /\ \/ ctx' = c /\ events' = Told(cb) /\ pc' = "parse"
                \/ \E d \in Context : SameHandler(d, c) /\ Answer(d, Told(cb))
    BY <1>6, ParseStep
  <2> DEFINE c == Callback(cb, at)
             e == Told(cb)
  <2>3. Taken(pending, at, rest, pending')
    BY <2>2 DEF Taken, Left
  <2>4. Stage(req, known, c, e, pending')
    BY <2>1, <2>3, StageStep
  <2>5. c \in Context /\ e \in Seq(Events)
    <3>1. Head(pending) \in Element
      BY <2>2, HeadTailProperties DEF ServerTypeOK
    <3> QED BY <3>1, CallbackType
  <2> HIDE DEF c, e
  <2>6. CASE ctx' = c /\ events' = e /\ pc' = "parse"
    BY <1>2, <2>1, <2>4, <2>6 DEF Parsing, Settled
  <2>7. CASE \E d \in Context : SameHandler(d, c) /\ Answer(d, e)
    <3>1. PICK d \in Context : SameHandler(d, c) /\ Answer(d, e)
      BY <2>7
    <3>2. Settled'
      BY <2>1, <2>4, <2>5, <3>1, SettledAnswer
    <3>3. pc' # "parse"
      BY <2>5, <3>1, AnswerStep
    <3> QED BY <3>2, <3>3 DEF Parsing
  <2> QED BY <2>2, <2>6, <2>7 DEF c, e
<1>7. CASE Respond \/ Malformed
  <2>1. /\ pc = "parse" /\ Stage(req, known, ctx, events, pending) /\ Answer(ctx, events)
        /\ UNCHANGED <<req, known, pending>>
    BY <1>7 DEF Respond, Malformed, Parsing, reqVars
  <2>2. SameHandler(ctx, ctx)
    BY DEF SameHandler
  <2>3. Settled'
    BY <1>1, <2>1, <2>2, SettledAnswer
  <2>4. pc' # "parse"
    BY <1>1, <2>1, AnswerStep
  <2> QED BY <2>3, <2>4 DEF Parsing
<1>8. CASE RecvFails
  <2>1. /\ pc = "parse" /\ pc' = "close" /\ Stage(req, known, ctx, events, pending) /\ ctx.state # "done"
        /\ UNCHANGED <<req, known, pending, events, ctx>>
    BY <1>8 DEF RecvFails, Parsing, reqVars
  <2>2. pending # <<>>
    BY <2>1, StageEnd
  <2>3. ~ req.next => Ordered(events)
    BY <1>1, <2>1, StageOrdered
  <2> QED BY <2>1, <2>2, <2>3 DEF Parsing, Settled, Ordered
<1>9. CASE Responding \/ Close
  <2>1. /\ pc \notin {"accept", "parse"} /\ pc' # "parse"
        /\ pc' = "accept" \/ ctx'.handler = ctx.handler
        /\ UNCHANGED <<req, known, pending, events>>
    <3>1. CASE Begin
      BY <1>1, <3>1 DEF Begin, Context, reqVars
    <3>2. CASE Shoot
      BY <3>2 DEF Shoot, reqVars
    <3>3. CASE Part
      <4>1. ctx' = [HeadersSent(ctx) EXCEPT !.state = "collecting", !.response_code = 0,
                                            !.response_headers = <<"length", "type">> \o @]
        BY <3>3 DEF Part
      <4>2. ctx'.handler = ctx.handler
        BY <1>1, <4>1, PartContext DEF SameHandler
      <4> QED BY <3>3, <4>2 DEF Part, reqVars
    <3>4. CASE Piece
      <4>1. ctx'.handler = ctx.handler
        <5>1. ctx' = HeadersSent(ctx) \/ ctx' = ctx
          BY <3>4 DEF Piece, Write
        <5> QED BY <1>1, <5>1, SentType DEF SameHandler
      <4>2. pc = "piece" /\ pc' \in {"piece", "endPart", "end"} /\ UNCHANGED <<req, known, pending, events>>
        BY <3>4 DEF Piece, reqVars
      <4> QED BY <4>1, <4>2
    <3>5. CASE EndPart
      BY <1>1, <3>5 DEF EndPart, Context, reqVars
    <3>6. CASE End
      BY <1>1, <3>6 DEF End, Context, reqVars
    <3>7. CASE Close
      BY <3>7 DEF Close, reqVars
    <3> QED BY <1>9, <3>1, <3>2, <3>3, <3>4, <3>5, <3>6, <3>7 DEF Responding
  <2> QED BY <2>1 DEF Parsing, Settled, Answered, Ordered
<1> QED BY <1>4, <1>5, <1>6, <1>7, <1>8, <1>9 DEF HttpNext, Connection

----------------------------------------------------------------------------
(* The theorems.                                                           *)

\* At the start.
LEMMA HttpInvInit == HttpInit => IInv
<1> SUFFICES ASSUME HttpInit PROVE IInv
  OBVIOUS
<1>1. ServerTypeOK
  BY TypeInit
<1>2. Parsing /\ Settled
  BY NoEvents DEF HttpInit, Parsing, Settled
<1>3. Blocks
  BY DEF HttpInit, Blocks, HeadersInPlace, NoHeaders
<1> QED BY <1>1, <1>2, <1>3 DEF IInv

\* Every step keeps it.
LEMMA HttpInvNext == IInv /\ [HttpNext]_httpVars => IInv'
BY TypeNext, BlocksNext, ParsingNext DEF IInv

\* The invariant always holds.
LEMMA HttpInv == HttpSpec => []IInv
BY HttpInvInit, HttpInvNext, PTL DEF HttpSpec

\* The variables of the server have their types: the server holds no header and no byte of
\* a request but those it was sent, in the states its callbacks know.
THEOREM HttpTypeCorrect == HttpSpec => []ServerTypeOK
<1>1. IInv => ServerTypeOK
  BY DEF IInv
<1> QED BY <1>1, HttpInv, PTL

\* However its segments were cut, a request with a header for a page that was registered when
\* it began is answered by the handler of that page, if the connection before it left no text
\* behind: http_find_handler's search by the address that uri_done cuts out of parse_buffer.
THEOREM RequestHandledAlways == HttpSpec => []RequestHandled
<1>1. IInv => RequestHandled
  BY DEF IInv, Settled, RequestHandled
<1> QED BY <1>1, HttpInv, PTL

\* The handler is told of the request as it was sent: once the body starts, the context holds
\* every header with its name and its value and no other, however the callbacks for names and
\* values cut them, and the events come in the order of http_server.h.
THEOREM RequestToldAlways == HttpSpec => []RequestTold
<1>1. ASSUME IInv, pc = "parse", ctx.state \in {"body", "done"}
      PROVE  ctx.request_headers = Reverse(req.headers)
  <2>1. Stage(req, known, ctx, events, pending)
    BY <1>1 DEF IInv, Parsing
  <2>2. Holds(req, ctx, Len(req.headers))
    BY <1>1, <2>1 DEF Stage, BeforeHeaders, InHeaders, InHeader, InName, AfterName, InValue, AfterValue,
                     AfterHeaders
  <2>3. SubSeq(req.headers, 1, Len(req.headers)) = req.headers
    BY <1>1, SubSeqFull DEF IInv, ServerTypeOK, Request
  <2> QED BY <2>2, <2>3 DEF Holds
<1>2. ASSUME IInv, ~ req.next PROVE Ordered(events)
  <2>1. CASE pc = "parse"
    BY <1>2, <2>1, StageOrdered DEF IInv, Parsing, ServerTypeOK
  <2>2. CASE pc # "parse"
    BY <1>2, <2>2 DEF IInv, Settled
  <2> QED BY <2>1, <2>2
<1>3. IInv => RequestTold
  BY <1>1, <1>2 DEF RequestTold, HeadersExact, EventsInOrder, Ordered
<1> QED BY <1>3, HttpInv, PTL

\* A response is made of its own headers: one status line, at its start, and in every header
\* block those that http_response_begin and http_response_begin_multipart set for it; and a
\* connection leaves none of its headers, arguments or handler to the next one.
THEOREM HeadersOwnAlways == HttpSpec => []HeadersOwn
<1>1. IInv => HeadersOwn
  BY DEF IInv, Blocks, HeadersOwn, NothingKept, NoHeaders
<1> QED BY <1>1, HttpInv, PTL

=============================================================================
