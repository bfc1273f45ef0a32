------------------------------- MODULE Camera -------------------------------
(***************************************************************************)
(* The frame pipeline of components/camera/camera.c: camera_run() starts   *)
(* the I2S receiver and waits; the DMA fills a ring of buffers; i2s_isr()  *)
(* reports each of them, gpio_isr() the last one of a JPEG frame, through  *)
(* the queue data_ready to dma_filter_task, which copies them into the     *)
(* frame buffer and, at the end marker, gives frame_ready.                 *)
(*                                                                         *)
(* The unit of data is one DMA buffer.  The sensor's frame number i puts i *)
(* into the buffer, so the frame buffer shows what was copied where.       *)
(***************************************************************************)
EXTENDS Integers, Sequences

CONSTANTS
  Lines,       \* height * dma_per_line: buffers of a raw frame
  Descs,       \* dma_desc_count
  QueueSize,   \* length of data_ready
  Longest      \* bound: buffers of the longest JPEG frame

ASSUME CameraAssumption ==
  /\ {Lines, Descs, QueueSize} \subseteq Nat \ {0}
  /\ Longest \in Nat /\ 1 < Longest /\ Longest =< Lines

\* xQueueCreate(16), and dma_desc_init() makes 16 buffers at most (CameraFormat).
ASSUME RingFits == Descs =< QueueSize

Stop == Descs     \* SIZE_MAX in the queue
Nothing == -1     \* the filter holds no buffer

VARIABLES
  jpeg,      \* pixel_format = CAMERA_PF_JPEG, for good
  prompt,    \* the world: does an interrupt handler run before the next event?
  call,      \* camera_run(): "idle", "start" or "wait"
  len, sent, \* length of the sensor's frame, and how much of it was received
  dma,       \* what each DMA buffer holds
  rx,        \* I2S0.conf.rx_start
  i2sOn, inDone,   \* the I2S interrupt: enabled, raised
  vsyncOn, edge,   \* the VSYNC interrupt: enabled, raised
  cur, received,   \* dma_desc_cur, dma_received_count
  queue, buf,      \* data_ready, and the buffer dma_filter_task took from it
  filtered, fb,    \* dma_filtered_count, and the frame buffer
  data_size, frame_ready

sensorVars == <<jpeg, prompt, len, sent, dma>>
isrVars == <<rx, i2sOn, inDone, vsyncOn, edge>>
filterVars == <<buf, filtered, fb, data_size>>
vars == <<call, sensorVars, isrVars, cur, received, queue, filterVars, frame_ready>>

----------------------------------------------------------------------------
(* camera_run(), called by the HTTP handlers in the server's only task.    *)

\* Seeded fault in CameraRun: dma_desc_cur is not reset.
CameraRunKeepsCur ==
  /\ call = "idle" /\ call' = "start" /\ fb' = [i \in 0..Lines |-> 0]
  /\ received' = 0 /\ filtered' = 0 /\ i2sOn' = FALSE
  /\ UNCHANGED <<sensorVars, rx, inDone, vsyncOn, edge, cur, queue, buf, data_size, frame_ready>>

\* The frame buffer is cleared; i2s_run() waits for VSYNC, resets the counters
\* and disables the interrupt.
CameraRun ==
  /\ call = "idle" /\ call' = "start"
  /\ fb' = [i \in 0..Lines |-> 0]
  /\ cur' = 0 /\ received' = 0 /\ filtered' = 0
  /\ i2sOn' = FALSE
  /\ UNCHANGED <<sensorVars, rx, inDone, vsyncOn, edge, queue, buf, data_size, frame_ready>>

\* Raised interrupts are cleared, then they are enabled and I2S is started.
I2sRun ==
  /\ call = "start" /\ call' = "wait"
  /\ inDone' = FALSE /\ i2sOn' = TRUE /\ vsyncOn' = (jpeg \/ vsyncOn) /\ rx' = TRUE
  /\ len' \in IF jpeg THEN 2..Longest ELSE {Lines}
  /\ sent' = 0
  /\ UNCHANGED <<jpeg, prompt, dma, edge, cur, received, queue, filterVars, frame_ready>>

Return ==
  /\ call = "wait" /\ frame_ready
  /\ call' = "idle" /\ frame_ready' = FALSE
  /\ UNCHANGED <<sensorVars, isrVars, cur, received, queue, filterVars>>

----------------------------------------------------------------------------
(* The hardware (not under src/): the sensor, the DMA and the interrupts.  *)

BusyBufs == {queue[i] : i \in DOMAIN queue} \cup {buf}

\* A buffer is received.  The last one of a JPEG frame is not full and raises
\* no interrupt.  The filter is less than a ring behind the DMA.
Receive ==
  /\ rx /\ sent < len
  /\ prompt => ~inDone
  /\ sent % Descs \notin BusyBufs
  /\ dma' = [dma EXCEPT ![sent % Descs] = sent + 1]
  /\ sent' = sent + 1
  /\ inDone' = (inDone \/ ~jpeg \/ sent' < len)
  /\ UNCHANGED <<jpeg, prompt, call, len, rx, i2sOn, vsyncOn, edge, cur, received, queue, filterVars,
                 frame_ready>>

Vsync ==
  /\ rx /\ sent = len /\ vsyncOn /\ ~edge
  /\ prompt => ~inDone
  /\ edge' = TRUE
  /\ UNCHANGED <<call, sensorVars, rx, i2sOn, inDone, vsyncOn, cur, received, queue,
                 filterVars, frame_ready>>

----------------------------------------------------------------------------
(* Interrupt handlers.                                                     *)

\* xQueueSendFromISR(): a full queue drops the item.
Send(q, item) == IF Len(q) < QueueSize THEN Append(q, item) ELSE q

\* What i2s_stop() turns off.
Disarm(stop) == IF stop THEN i2sOn' = FALSE /\ vsyncOn' = FALSE /\ rx' = FALSE
                ELSE UNCHANGED <<i2sOn, vsyncOn, rx>>

\* Seeded faults in Signal: i2s_stop() sends no end marker, i2s_stop() leaves the
\* VSYNC interrupt enabled.
SignalNoMarker(stop) ==
  /\ cur' = (cur + 1) % Descs /\ received' = received + 1 /\ Disarm(stop)
  /\ queue' = Send(queue, cur)
SignalKeepsVsync(stop) ==
  /\ cur' = (cur + 1) % Descs /\ received' = received + 1
  /\ queue' = IF stop THEN Send(Send(queue, cur), Stop) ELSE Send(queue, cur)
  /\ i2sOn' = (i2sOn /\ ~stop) /\ rx' = (rx /\ ~stop) /\ UNCHANGED vsyncOn

\* signal_dma_buf_received(), followed by i2s_stop() when stop is TRUE.
Signal(stop) ==
  /\ cur' = (cur + 1) % Descs
  /\ received' = received + 1
  /\ queue' = IF stop THEN Send(Send(queue, cur), Stop) ELSE Send(queue, cur)
  /\ Disarm(stop)

I2sIsr ==
  /\ i2sOn /\ inDone /\ inDone' = FALSE
  /\ Signal(received + 1 = Lines)
  /\ UNCHANGED <<call, sensorVars, edge, filterVars, frame_ready>>

\* Seeded fault in GpioIsr: i2s_stop() alone, without the last buffer.
GpioIsrDropsLast ==
  /\ edge /\ edge' = FALSE
  /\ received > 0
  /\ Disarm(TRUE) /\ queue' = Send(queue, Stop)
  /\ UNCHANGED <<call, sensorVars, inDone, cur, received, filterVars, frame_ready>>

\* dma_done is never set: a VSYNC that was raised before i2s_stop() counts.
GpioIsr ==
  /\ edge /\ edge' = FALSE
  /\ IF received > 0 THEN Signal(TRUE)
     ELSE UNCHANGED <<cur, received, queue, i2sOn, vsyncOn, rx>>
  /\ UNCHANGED <<call, sensorVars, inDone, filterVars, frame_ready>>

----------------------------------------------------------------------------
(* dma_filter_task.                                                        *)

FilterTake ==
  /\ buf = Nothing /\ queue # <<>> /\ queue' = Tail(queue)
  /\ IF Head(queue) = Stop
     THEN data_size' = filtered /\ frame_ready' = TRUE /\ UNCHANGED buf
     ELSE buf' = Head(queue) /\ UNCHANGED <<data_size, frame_ready>>
  /\ UNCHANGED <<call, sensorVars, isrVars, cur, received, filtered, fb>>

\* The write that would pass the bound of the model's array is not represented.
FilterWrite ==
  /\ buf # Nothing /\ buf' = Nothing
  /\ fb' = IF filtered \in DOMAIN fb THEN [fb EXCEPT ![filtered] = dma[buf]] ELSE fb
  /\ filtered' = filtered + 1
  /\ UNCHANGED <<call, sensorVars, isrVars, cur, received, queue, data_size, frame_ready>>

----------------------------------------------------------------------------
(* The specification, from the end of camera_init().  Interrupts are late  *)
(* only in JPEG mode: a raw frame of which one interrupt is lost ends with *)
(* buffers of the next frame, which the model's sensor does not send.      *)

Init ==
  /\ jpeg \in BOOLEAN /\ prompt \in BOOLEAN /\ (jpeg \/ prompt)
  /\ call = "idle" /\ len = 0 /\ sent = 0 /\ dma = [d \in 0..Descs - 1 |-> 0]
  /\ rx = FALSE /\ i2sOn = FALSE /\ inDone = FALSE /\ vsyncOn = FALSE /\ edge = FALSE
  /\ cur = 0 /\ received = 0 /\ queue = <<>> /\ buf = Nothing
  /\ filtered = 0 /\ fb = [i \in 0..Lines |-> 0]
  /\ data_size = 0 /\ frame_ready = FALSE

Next == \/ CameraRun \/ I2sRun \/ Return \/ Receive \/ Vsync
        \/ I2sIsr \/ GpioIsr \/ FilterTake \/ FilterWrite

Spec == Init /\ [][Next]_vars

\* The sensor runs free; interrupts are taken; the filter's task is scheduled.
FairSpec == /\ Spec
            /\ WF_vars(I2sRun \/ Return) /\ WF_vars(Receive \/ Vsync)
            /\ WF_vars(I2sIsr) /\ WF_vars(GpioIsr) /\ WF_vars(FilterTake \/ FilterWrite)

----------------------------------------------------------------------------
(* Properties.                                                             *)

\* When interrupts are served promptly, camera_run() returns with the whole frame, each buffer
\* once and in order, and nothing behind it.
FrameWhole ==
  [][prompt /\ Return =>
       /\ data_size = len
       /\ \A i \in 0..Lines : fb[i] = IF i < len THEN i + 1 ELSE 0]_vars

\* Nothing of a frame is left when camera_run() returns, however late the interrupts of it were
\* served - no running receiver, no raised VSYNC, no buffer, no second end marker, no spare
\* frame_ready - so the next frame starts from a clean pipeline.
QuietWhenIdle ==
  call \in {"idle", "start"} =>
    /\ ~rx /\ ~vsyncOn /\ ~edge /\ ~frame_ready /\ queue = <<>> /\ buf = Nothing

\* The wait for frame_ready ends, when interrupts are served promptly.
RunReturns == (prompt /\ call = "wait") ~> call = "idle"

=============================================================================
