------------------------------- MODULE Aplay -------------------------------
(***************************************************************************)
(* The audio player (components/app/aplay.c) and the MP3 decoder it feeds  *)
(* (components/mp3_decode/mp3_decode.c), as they are driven by the command *)
(* task and by the button task (components/app/at_cmd.c).                  *)
(*                                                                         *)
(* Every FreeRTOS task has a program counter and every access to a shared  *)
(* event group, to the ring buffer or to a task notification is one step:  *)
(* the chip has two cores, so the steps of different tasks interleave      *)
(* freely.  Audio samples, file contents and the codec registers are not   *)
(* modelled: a source is the number of chunks it still has to deliver.     *)
(***************************************************************************)
EXTENDS Naturals

CONSTANTS
  Uart,           \* the task that runs cmd_parse(): it starts and pauses playback
  Button,         \* tasks that only stop playback (buttonRest_cb)
  Players,        \* slots for player tasks (mp3, wav or web)
  Decoders,       \* slots for decoder tasks
  None,           \* the NULL handle, no kind
  MaxChunks,      \* bound: chunks of the longest file or stream
  RingCap,        \* bound: chunks the 6 KB ring buffer holds
  MallocFails,    \* may helix_decode_task run out of memory?
  PromptDecoder   \* does a new decoder (priority 5, its own core) create its
                  \* ring buffer before the player has read its first chunk?

Callers == Uart \cup Button
Kinds == {"mp3", "wav", "web"}

ASSUME AplayAssumption ==
  /\ \A u, v \in Uart : u = v
  /\ None \notin Players \cup Kinds
  /\ MaxChunks \in Nat /\ RingCap \in Nat
  /\ MallocFails \in BOOLEAN /\ PromptDecoder \in BOOLEAN

VARIABLES
  bits,      \* aplay_event_group
  dbits,     \* decode_event_group
  webTask,   \* xwebplayTask
  cpc,       \* program counter of each caller
  job,       \* what a caller starts after aplay_stop(): a kind of player, or None
  ppc,       \* program counter of each player slot
  kind,      \* what the player plays
  left,      \* chunks its source still has
  notified,  \* pending task notification
  dpc,       \* program counter of each decoder slot
  ring,      \* the buffer rb points to: "none", "live" or "deleted"
  level      \* chunks in it

callerVars == <<cpc, job>>
playerVars == <<ppc, kind, left, notified>>
decoderVars == <<dpc, ring, level>>
vars == <<bits, dbits, webTask, callerVars, playerVars, decoderVars>>

----------------------------------------------------------------------------
(* Program counters. *)

StopLabels == {"stopSet", "stopNotify", "stopWait", "stopBlocked", "stopDestroy"}
StartLabels == {"startSuspend", "startStop", "startRequest", "startCreate"}
CallerLabels ==
  {"idle", "startWait", "startBlocked", "suspendCheck", "suspendToggle",
   "resumeDecoder", "resumePlayer", "pauseDecoder"} \cup StopLabels \cup StartLabels

DecodeStartLabels == {"decSuspend", "decDestroy", "decCreate"}
PlayerLabels ==
  {"free", "open", "clearRequest", "webTake", "decWait", "decBlocked", "connect",
   "loop", "pauseCheck", "read", "head", "recv", "body", "send", "poll", "exit"}
     \cup DecodeStartLabels

DecoderLabels == {"free", "init", "loop", "pauseCheck", "decode", "delete", "exit"}

Alive(p) == ppc[p] # "free"
Starting(c) == cpc[c] \in StartLabels
DecoderAlive(d) == dpc[d] # "free"
DecoderStarting(p) == ppc[p] \in DecodeStartLabels

\* aplay_get_state()
AplayState ==
  IF "PLAY" \in bits THEN "stop"
  ELSE IF "REQUEST" \in bits THEN "request"
  ELSE IF "SUSPEND" \in bits THEN "suspend"
  ELSE "start"

----------------------------------------------------------------------------
(* Moving one task, and what such a step does to the two event groups.     *)

CallerGoes(c, from, to) ==
  /\ cpc[c] = from /\ cpc' = [cpc EXCEPT ![c] = to]
  /\ UNCHANGED <<webTask, job, playerVars, decoderVars>>

PlayerGoes(p, from, to) ==
  /\ ppc[p] = from /\ ppc' = [ppc EXCEPT ![p] = to]
  /\ UNCHANGED <<webTask, callerVars, kind, decoderVars>>

DecoderGoes(d, from, to) ==
  /\ dpc[d] = from /\ dpc' = [dpc EXCEPT ![d] = to]
  /\ UNCHANGED <<bits, webTask, callerVars, kind, left, notified>>

SetBits(b) == bits' = b /\ UNCHANGED dbits
SetDecodeBits(b) == dbits' = b /\ UNCHANGED bits
SameBits == UNCHANGED <<bits, dbits>>
SameSource == UNCHANGED <<left, notified>>

\* xEventGroupSetBits(aplay_event_group, PLAY): every task blocked on the bit
\* wakes up at once, and the bit stays clear if one of them takes it.
SetPlayBit ==
  /\ SetBits(IF \E c \in Callers : cpc[c] = "startBlocked"
             THEN bits \ {"PLAY"} ELSE bits \cup {"PLAY"})
  /\ cpc' = [c \in Callers |->
               IF cpc[c] = "startBlocked" THEN "startSuspend"
               ELSE IF cpc[c] = "stopBlocked" THEN "stopDestroy" ELSE cpc[c]]

----------------------------------------------------------------------------
(* Seeded faults: each is a plausible bug in the action named after the    *)
(* dash, and breaks a property of a run.                                   *)

\* decode_destroy() before the player is gone - AplayStop
StopDestroysFirst(c) ==
  CallerGoes(c, "stopSet", "stopNotify") /\ bits' = bits \cup {"STOP"}
    /\ dbits' = dbits \cup {"DESTROY"}
\* xClearOnExit = pdFALSE - AplayStartWait
StartWaitKeepsBit(c) ==
  CallerGoes(c, "startWait", IF "PLAY" \in bits THEN "startSuspend" ELSE "startBlocked")
    /\ SameBits
\* STOP is not cleared - AplayStartClearStop
StartKeepsStop(c) == CallerGoes(c, "startStop", "startRequest") /\ SameBits
\* SUSPEND is not cleared - AplayStartClearSuspend
StartKeepsSuspend(c) == CallerGoes(c, "startSuspend", "startStop") /\ SameBits
\* xClearOnExit = pdFALSE - DecodeStartWait
DecodeWaitKeepsBit(p) ==
  PlayerGoes(p, "decWait", IF "PLAY" \in dbits THEN "decSuspend" ELSE "decBlocked")
    /\ SameBits /\ SameSource
\* DECODE_SUSPEND is not cleared - DecodeStartClearSuspend
DecodeStartKeepsSuspend(p) ==
  PlayerGoes(p, "decSuspend", "decDestroy") /\ SameBits /\ SameSource
\* the empty ring is read all the same - DecoderDecode
DecodeUnderflow(d) ==
  DecoderGoes(d, "decode", "loop") /\ level' = level - 1
    /\ UNCHANGED <<dbits, ppc, ring>>

----------------------------------------------------------------------------
(* The callers: commands, aplay_stop(), aplay_suspend() and the three      *)
(* start functions.                                                        *)

\* A command of task c: the guard that concerns the player (it is idle, not
\* REQUEST), then its calls, which run in later steps.
Command(c, first, k) ==
  /\ cpc[c] = "idle" /\ AplayState # "request"
  /\ cpc' = [cpc EXCEPT ![c] = first]
  /\ job' = [job EXCEPT ![c] = k]
  /\ UNCHANGED <<bits, dbits, webTask, playerVars, decoderVars>>

\* AT+PLAY=0,<name>: aplay_stop() and then one of the start functions.
PlayCommand(c, k) == c \in Uart /\ Command(c, "stopSet", k)

\* AT+PLAY=2, AT+REC=0, AT+REST and the button: aplay_stop() alone.
StopCommand(c) == Command(c, "stopSet", None)

\* AT+PLAY=1: aplay_suspend().
SuspendCommand(c) == c \in Uart /\ Command(c, "suspendCheck", None)

AplayStop(c) ==
  CallerGoes(c, "stopSet", "stopNotify") /\ SetBits(bits \cup {"STOP"})

\* xwebplayTask is never reset: the handle may be that of a task that is gone
\* (the write then lands in freed memory, or in the task that reuses it).
AplayStopNotify(c) ==
  /\ cpc[c] = "stopNotify" /\ cpc' = [cpc EXCEPT ![c] = "stopWait"]
  /\ notified' = [p \in Players |-> notified[p] \/ (p = webTask /\ Alive(p))]
  /\ UNCHANGED <<bits, dbits, webTask, job, ppc, kind, left, decoderVars>>

AplayStopWait(c) ==
  CallerGoes(c, "stopWait", IF "PLAY" \in bits THEN "stopDestroy" ELSE "stopBlocked")
    /\ SameBits

\* decode_destroy() ends aplay_stop(): it does not wait for the decoder.
DecodeDestroy(c) ==
  CallerGoes(c, "stopDestroy", IF job[c] = None THEN "idle" ELSE "startWait")
    /\ SetDecodeBits(dbits \cup {"DESTROY"})

AplayStartWait(c) ==
  CallerGoes(c, "startWait", IF "PLAY" \in bits THEN "startSuspend" ELSE "startBlocked")
    /\ SetBits(bits \ {"PLAY"})

AplayStartClearSuspend(c) ==
  CallerGoes(c, "startSuspend", "startStop") /\ SetBits(bits \ {"SUSPEND"})

AplayStartClearStop(c) ==
  CallerGoes(c, "startStop", "startRequest") /\ SetBits(bits \ {"STOP"})

AplayStartSetRequest(c) ==
  CallerGoes(c, "startRequest", "startCreate") /\ SetBits(bits \cup {"REQUEST"})

\* xTaskCreatePinnedToCore(): the source has some number of chunks, and only
\* the web player's handle is kept.
AplayStartCreate(c) ==
  /\ cpc[c] = "startCreate" /\ cpc' = [cpc EXCEPT ![c] = "idle"]
  /\ \E p \in Players, n \in 0..MaxChunks :
       /\ ~Alive(p)
       /\ ppc' = [ppc EXCEPT ![p] = IF job[c] = "web" THEN "webTake" ELSE "open"]
       /\ kind' = [kind EXCEPT ![p] = job[c]]
       /\ left' = [left EXCEPT ![p] = n]
       /\ webTask' = IF job[c] = "web" THEN p ELSE webTask
  /\ job' = [job EXCEPT ![c] = None]
  /\ UNCHANGED <<bits, dbits, notified, decoderVars>>

AplaySuspendCheck(c) ==
  CallerGoes(c, "suspendCheck",
             IF bits \cap {"PLAY", "REQUEST"} = {} THEN "suspendToggle" ELSE "idle")
    /\ SameBits

\* The bit is read and set in one step; the 50 ms delay that follows the
\* setting is the gap before "pauseDecoder".
AplaySuspendToggle(c) ==
  CallerGoes(c, "suspendToggle",
             IF "SUSPEND" \in bits THEN "resumeDecoder" ELSE "pauseDecoder")
    /\ SetBits(bits \cup {"SUSPEND"})

AplayPauseDecoder(c) ==
  CallerGoes(c, "pauseDecoder", "idle") /\ SetDecodeBits(dbits \cup {"SUSPEND"})

AplayResumeDecoder(c) ==
  CallerGoes(c, "resumeDecoder", "resumePlayer") /\ SetDecodeBits(dbits \ {"SUSPEND"})

AplayResumePlayer(c) ==
  CallerGoes(c, "resumePlayer", "idle") /\ SetBits(bits \ {"SUSPEND"})

CallerStep(c) ==
  \/ AplayStop(c) \/ AplayStopNotify(c) \/ AplayStopWait(c) \/ DecodeDestroy(c)
  \/ AplayStartWait(c) \/ AplayStartClearSuspend(c) \/ AplayStartClearStop(c)
  \/ AplayStartSetRequest(c) \/ AplayStartCreate(c)
  \/ AplaySuspendCheck(c) \/ AplaySuspendToggle(c) \/ AplayPauseDecoder(c)
  \/ AplayResumeDecoder(c) \/ AplayResumePlayer(c)

----------------------------------------------------------------------------
(* The player tasks. *)

\* mp3: buffer and ID3 tag; wav: header, sample rate and buffer.  Any of them
\* may fail, and then REQUEST stays set.
OpenFile(p) ==
  \E to \in {"clearRequest", "exit"} :
    PlayerGoes(p, "open", to) /\ SameBits /\ SameSource

FileClearRequest(p) ==
  PlayerGoes(p, "clearRequest", IF kind[p] = "mp3" THEN "decWait" ELSE "loop")
    /\ SetBits(bits \ {"REQUEST"}) /\ SameSource

\* ulTaskNotifyTake(pdTRUE, 0) when the web player starts.
WebTake(p) ==
  /\ PlayerGoes(p, "webTake", "decWait") /\ SameBits
  /\ notified' = [notified EXCEPT ![p] = FALSE] /\ UNCHANGED left

\* decode_start() waits for the previous decoder to be gone.
DecodeStartWait(p) ==
  PlayerGoes(p, "decWait", IF "PLAY" \in dbits THEN "decSuspend" ELSE "decBlocked")
    /\ SetDecodeBits(dbits \ {"PLAY"}) /\ SameSource

DecodeStartClearSuspend(p) ==
  PlayerGoes(p, "decSuspend", "decDestroy")
    /\ SetDecodeBits(dbits \ {"SUSPEND"}) /\ SameSource

DecodeStartClearDestroy(p) ==
  PlayerGoes(p, "decDestroy", "decCreate")
    /\ SetDecodeBits(dbits \ {"DESTROY"}) /\ SameSource

DecodeStartCreate(p) ==
  /\ ppc[p] = "decCreate"
  /\ ppc' = [ppc EXCEPT ![p] = IF kind[p] = "web" THEN "connect" ELSE "loop"]
  /\ \E d \in Decoders : ~DecoderAlive(d) /\ dpc' = [dpc EXCEPT ![d] = "init"]
  /\ UNCHANGED <<bits, dbits, webTask, callerVars, kind, left, notified, ring, level>>

FileStopCheck(p) ==
  PlayerGoes(p, "loop", IF "STOP" \in bits THEN "exit" ELSE "pauseCheck")
    /\ SameBits /\ SameSource

FilePauseCheck(p) ==
  PlayerGoes(p, "pauseCheck", IF "SUSPEND" \in bits THEN "loop" ELSE "read")
    /\ SameBits /\ SameSource

\* Reading the file or connecting takes longer than the decoder's start-up,
\* when PromptDecoder says so.
DecoderReady == PromptDecoder => \A d \in Decoders : dpc[d] # "init"

\* fread(): a wav chunk goes straight to I2S, an mp3 chunk to the decoder.
FileRead(p) ==
  /\ DecoderReady
  /\ PlayerGoes(p, "read", IF left[p] = 0 THEN "exit"
                           ELSE IF kind[p] = "mp3" THEN "send" ELSE "loop")
  /\ left' = [left EXCEPT ![p] = IF @ = 0 THEN 0 ELSE @ - 1]
  /\ SameBits /\ UNCHANGED notified

\* http_tls_request(): any failure before the response ends the task.
WebConnect(p) ==
  /\ DecoderReady
  /\ \E to \in {"head", "exit"} : PlayerGoes(p, "connect", to)
  /\ SameBits /\ SameSource

\* http_tls_response(): the first bytes clear REQUEST (begin_callback).
WebReceive(p) ==
  /\ left[p] > 0
  /\ \E from \in {"head", "recv"} :
       /\ PlayerGoes(p, from, "body")
       /\ SetBits(IF from = "head" THEN bits \ {"REQUEST"} ELSE bits)
  /\ left' = [left EXCEPT ![p] = @ - 1] /\ UNCHANGED notified

\* The stream ends when the peer closes, fails or times out ten times.
WebClosed(p) ==
  /\ left[p] = 0
  /\ \E from \in {"head", "recv"} : PlayerGoes(p, from, "exit")
  /\ SameBits /\ SameSource

\* body_callback() drops the data of a paused session.
WebBody(p) ==
  PlayerGoes(p, "body", IF "SUSPEND" \in bits THEN "poll" ELSE "send")
    /\ SameBits /\ SameSource

WebPoll(p) ==
  /\ PlayerGoes(p, "poll", IF notified[p] THEN "exit" ELSE "recv") /\ SameBits
  /\ notified' = [notified EXCEPT ![p] = FALSE] /\ UNCHANGED left

\* decode_send(): the chunk enters the ring, or is dropped when the ring is
\* still full after a second.  On a ring that is not live nothing is stored.
DecodeSend(p) ==
  /\ ppc[p] = "send"
  /\ ppc' = [ppc EXCEPT ![p] = IF kind[p] = "web" THEN "poll" ELSE "loop"]
  /\ level' = IF ring = "live" /\ level < RingCap THEN level + 1 ELSE level
  /\ UNCHANGED <<bits, dbits, webTask, callerVars, kind, left, notified, dpc, ring>>

\* The task's memory is freed: its slot goes back to the initial values.
PlayerExit(p) ==
  /\ ppc[p] = "exit" /\ ppc' = [ppc EXCEPT ![p] = "free"]
  /\ kind' = [kind EXCEPT ![p] = "mp3"]
  /\ left' = [left EXCEPT ![p] = 0]
  /\ notified' = [notified EXCEPT ![p] = FALSE]
  /\ SetPlayBit
  /\ UNCHANGED <<webTask, job, decoderVars>>

PlayerStep(p) ==
  \/ OpenFile(p) \/ FileClearRequest(p) \/ WebTake(p)
  \/ DecodeStartWait(p) \/ DecodeStartClearSuspend(p)
  \/ DecodeStartClearDestroy(p) \/ DecodeStartCreate(p)
  \/ FileStopCheck(p) \/ FilePauseCheck(p) \/ FileRead(p)
  \/ WebConnect(p) \/ WebReceive(p) \/ WebClosed(p) \/ WebBody(p) \/ WebPoll(p)
  \/ DecodeSend(p) \/ PlayerExit(p)

----------------------------------------------------------------------------
(* The decoder tasks (helix_decode_task). *)

DecoderInit(d) ==
  /\ \/ DecoderGoes(d, "init", "loop") /\ ring' = "live" /\ level' = 0
     \/ MallocFails /\ DecoderGoes(d, "init", "delete") /\ UNCHANGED <<ring, level>>
  /\ UNCHANGED <<dbits, ppc>>

DecoderDestroyCheck(d) ==
  DecoderGoes(d, "loop", IF "DESTROY" \in dbits THEN "delete" ELSE "pauseCheck")
    /\ UNCHANGED <<dbits, ppc, ring, level>>

DecoderPauseCheck(d) ==
  DecoderGoes(d, "pauseCheck", IF "SUSPEND" \in dbits THEN "loop" ELSE "decode")
    /\ UNCHANGED <<dbits, ppc, ring, level>>

\* input_helix() takes what the ring holds; decoding never stops the loop.
DecoderDecode(d) ==
  DecoderGoes(d, "decode", "loop") /\ level' = (IF level > 0 THEN level - 1 ELSE 0)
    /\ UNCHANGED <<dbits, ppc, ring>>

\* vRingbufferDelete(rb): rb keeps pointing to the deleted buffer.
DecoderDelete(d) ==
  DecoderGoes(d, "delete", "exit") /\ ring' = "deleted" /\ level' = 0
    /\ UNCHANGED <<dbits, ppc>>

\* Setting DECODE_PLAY wakes the players blocked in decode_start().
DecoderExit(d) ==
  /\ DecoderGoes(d, "exit", "free") /\ UNCHANGED <<ring, level>>
  /\ dbits' = IF \E p \in Players : ppc[p] = "decBlocked"
              THEN dbits \ {"PLAY"} ELSE dbits \cup {"PLAY"}
  /\ ppc' = [p \in Players |-> IF ppc[p] = "decBlocked" THEN "decSuspend" ELSE ppc[p]]

DecoderStep(d) ==
  \/ DecoderInit(d) \/ DecoderDestroyCheck(d) \/ DecoderPauseCheck(d)
  \/ DecoderDecode(d) \/ DecoderDelete(d) \/ DecoderExit(d)

----------------------------------------------------------------------------
(* The specification. *)

\* aplay_init() and decode_init(): both groups start with their PLAY bit set.
Init ==
  /\ bits = {"PLAY"}
  /\ dbits = {"PLAY"}
  /\ webTask = None
  /\ cpc = [c \in Callers |-> "idle"]
  /\ job = [c \in Callers |-> None]
  /\ ppc = [p \in Players |-> "free"]
  /\ kind = [p \in Players |-> "mp3"]
  /\ left = [p \in Players |-> 0]
  /\ notified = [p \in Players |-> FALSE]
  /\ dpc = [d \in Decoders |-> "free"]
  /\ ring = "none"
  /\ level = 0

Next ==
  \/ \E c \in Callers : \/ \E k \in Kinds : PlayCommand(c, k)
                        \/ StopCommand(c)
                        \/ SuspendCommand(c)
                        \/ CallerStep(c)
  \/ \E p \in Players : PlayerStep(p)
  \/ \E d \in Decoders : DecoderStep(d)

\* Every task that can run is eventually scheduled; nobody has to issue commands.
Fairness ==
  /\ \A c \in Callers : WF_vars(CallerStep(c))
  /\ \A p \in Players : WF_vars(PlayerStep(p))
  /\ \A d \in Decoders : WF_vars(DecoderStep(d))

Spec == Init /\ [][Next]_vars
FairSpec == Spec /\ Fairness

----------------------------------------------------------------------------
(* Properties. *)

\* Type correctness: tasks are at one of their labels and the ring buffer never holds more than
\* its size.
TypeOK ==
  /\ bits \subseteq {"PLAY", "REQUEST", "STOP", "SUSPEND"}
  /\ dbits \subseteq {"PLAY", "SUSPEND", "DESTROY"}
  /\ webTask \in Players \cup {None}
  /\ cpc \in [Callers -> CallerLabels]
  /\ job \in [Callers -> Kinds \cup {None}]
  /\ ppc \in [Players -> PlayerLabels]
  /\ kind \in [Players -> Kinds]
  /\ left \in [Players -> 0..MaxChunks]
  /\ notified \in [Players -> BOOLEAN]
  /\ dpc \in [Decoders -> DecoderLabels]
  /\ ring \in {"none", "live", "deleted"}
  /\ level \in 0..RingCap

\* The PLAY bit is a lock on the player: at most one session is running or
\* being started, and the bit is set exactly when there is none, whoever
\* stops, starts or waits at the same time.
OneSession ==
  /\ \A p, q \in Players : Alive(p) /\ Alive(q) => p = q
  /\ \A p \in Players, c \in Callers : ~(Alive(p) /\ Starting(c))
  /\ "PLAY" \in bits <=> /\ \A p \in Players : ~Alive(p)
                         /\ \A c \in Callers : ~Starting(c)

\* decode_start() hands over from one decoder to the next although
\* decode_destroy() waits for nothing: two decoders never share the ring
\* buffer, the MP3 state and the I2S output.
OneDecoder ==
  /\ \A d, e \in Decoders : DecoderAlive(d) /\ DecoderAlive(e) => d = e
  /\ \A d \in Decoders, p \in Players : ~(DecoderAlive(d) /\ DecoderStarting(p))
  /\ "PLAY" \in dbits <=> /\ \A d \in Decoders : ~DecoderAlive(d)
                          /\ \A p \in Players : ~DecoderStarting(p)

\* With commands from one task, decode_send() is only called on a ring buffer
\* that exists: the decoder of a session outlives the session's player.
SendOnLiveRing == \A p \in Players : ppc[p] = "send" => ring = "live"

\* With commands from one task, a stop of an earlier session never hits the
\* next one: STOP is pending on a running player only while the command that
\* asks for it waits.
NoStaleStop ==
  \A p \in Players :
    Alive(p) /\ "STOP" \in bits => \E c \in Callers : cpc[c] \in StopLabels

\* With commands from one task, a player that feeds the decoder is not talking
\* to a decoder that an earlier pause has left suspended.
NoStalePause ==
  \A p \in Players :
    ppc[p] = "send" /\ "SUSPEND" \in dbits => "SUSPEND" \in bits

\* The session as its users see it: requested as soon as a caller has taken
\* the PLAY bit for it, and asked to stop once STOP has been set.
SessionState == IF \E c \in Callers : Starting(c) THEN "request" ELSE AplayState
Stopping == /\ "PLAY" \notin bits
            /\ \E c \in Callers : cpc[c] \in StopLabels \ {"stopSet"}

\* With commands from one task the player is an AplaySession: in particular a
\* session that was asked to stop ends, and the caller that waits is released.
Session == INSTANCE AplaySession WITH state <- SessionState, stopping <- Stopping

SessionSpec == Session!Spec

============================================================================
