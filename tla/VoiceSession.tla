---------------------------- MODULE VoiceSession ----------------------------
(***************************************************************************)
(* The voice request ("AT+REST" or button A) and everything it shares with *)
(* playback and file recording: the commands and the main loop of          *)
(* components/app/at_cmd.c, the recorders of components/app/wav_record.c,  *)
(* the uploader of components/http/mcotton_rest.c with the post and the    *)
(* response loop of http_client.c, and the flash partition of              *)
(* components/hal/sysfat.c that carries the recording from one to the      *)
(* other.  The player is the AplaySession that module Aplay implements.    *)
(*                                                                         *)
(* A command is the sequence of calls that parse_Play, parse_Record,       *)
(* parse_Rest or buttonRest_cb has still to make.  Each call that another  *)
(* task can observe is one step.  The audio is the number of 2 KB blocks.  *)
(***************************************************************************)
EXTENDS Integers, Sequences

CONSTANTS
  Uart,          \* the task that runs cmd_parse()
  Commands,      \* the commands it receives
  Button,        \* the task that runs buttonRest_cb()
  Writers,       \* slots for wav_record_task
  MaxBlocks,     \* bound: blocks of the longest voice recording
  TimeLimit,     \* bound: FILE_RECORD_TIMEOUT_MS, in blocks
  ServerCodes,   \* codes the server answers with
  Trailing,      \* may the parser fail on bytes that follow the answer?
  EarlyClose     \* may the server close before the answer is complete?

Callers == Uart \cup Button
NotFound == 404
NoVoice == -1

ASSUME VoiceAssumption ==
  /\ \A u, v \in Uart : u = v
  /\ \A u, v \in Button : u = v
  /\ Uart \cap Button = {}
  /\ Commands \subseteq {"rest", "play", "pause", "record", "recStop"}
  /\ MaxBlocks \in Nat \ {0} /\ TimeLimit \in Nat \ {0}
  /\ ServerCodes \subseteq Int
  /\ {Trailing, EarlyClose} \subseteq BOOLEAN

VARIABLES
  rest_flag,   \* a voice request is under way
  rest_code,   \* its result, 0 while there is none
  todo,        \* the calls each caller still has to make
  blocked,     \* the callers blocked in the first of them
  mpc,         \* at_process()
  player, asked,         \* the AplaySession
  rbits,       \* record_event_group
  notified,    \* rest_record_task has been given a request
  rpc,         \* rest_record_task
  wpc,         \* wav_record_task slots
  record_time, \* shared by all recordings to a file
  written,     \* blocks of the voice recording in flash (flash_wr_size)
  data_size,   \* blocks sys_data_set_size() announced
  programmed,  \* blocks of the partition that are not erased
  toErase,     \* sectors that sys_data_erase() has still to erase
  skipped,     \* history: a recording was left in flash by a failed connect
  overtaken,   \* history: a recording was written before the last one was erased
  ubits,       \* rest_event_group
  answered,    \* mcotton_rest_task has notified itself
  upc,         \* mcotton_rest_task
  ucode,       \* the code its callback is about to deliver
  uret,        \* where the callback returns to
  cut          \* history: an answer was cut off, and nobody has heard of it

commandVars == <<rest_flag, rest_code, todo, blocked, mpc>>
playerVars == <<player, asked>>
fileVars == <<wpc, record_time>>
flashVars == <<written, data_size, programmed, toErase, skipped, overtaken>>
uploadVars == <<ubits, answered, upc, ucode, uret, cut>>
vars == <<commandVars, playerVars, rbits, notified, rpc, fileVars, flashVars, uploadVars>>

Player == INSTANCE AplaySession WITH state <- player, stopping <- asked

----------------------------------------------------------------------------
(* Event group of the recorders.                                           *)

Waits(c, call) == c \in blocked /\ Head(todo[c]) = call

\* xEventGroupSetBits(record_event_group, PLAY), when the other bits are b and
\* rest_record_task would otherwise be at label rest: all the tasks blocked on
\* the bit wake up, and those that asked for it take it with them.
GivePlayBit(b, rest) ==
  LET taken == rpc = "blocked" \/ \E c \in Callers : Waits(c, "recTake")
      woken == {c \in blocked : Head(todo[c]) \in {"recWait", "recTake"}}
  IN /\ rbits' = IF taken THEN b \ {"PLAY"} ELSE b \cup {"PLAY"}
     /\ rpc' = IF rpc = "blocked" THEN "setup" ELSE rest
     /\ todo' = [c \in Callers |-> IF c \in woken THEN Tail(todo[c]) ELSE todo[c]]
     /\ blocked' = blocked \ woken

----------------------------------------------------------------------------
(* Commands.  The guards are read when the command is parsed; the calls    *)
(* follow in later steps.                                                  *)

Calls == [
  rest    |-> <<"setFlag", "recStop", "recWait", "playStop", "playWait", "give">>,
  play    |-> <<"recStop", "recWait", "playStop", "playWait", "playStart">>,
  pause   |-> <<"playStop", "playWait">>,
  record  |-> <<"playStop", "playWait", "recStop", "recWait", "recTake", "recClear",
                "recCreate">>,
  recStop |-> <<"recStop", "recWait">>]

\* Seeded fault in Accept: a command is accepted while a voice request runs.
AcceptBusy(c, name) ==
  /\ todo[c] = <<>> /\ player # "request"
  /\ todo' = [todo EXCEPT ![c] = Calls[name]]
  /\ UNCHANGED <<rest_flag, rest_code, blocked, mpc, playerVars, rbits, notified, rpc,
                 fileVars, flashVars, uploadVars>>

Accept(c, name) ==
  /\ todo[c] = <<>>
  /\ ~rest_flag /\ player # "request"
  /\ todo' = [todo EXCEPT ![c] = Calls[name]]
  /\ UNCHANGED <<rest_flag, rest_code, blocked, mpc, playerVars, rbits, notified, rpc,
                 fileVars, flashVars, uploadVars>>

Command(c) == \/ c \in Uart /\ \E name \in Commands : Accept(c, name)
              \/ c \in Button /\ Accept(c, "rest")

\* Caller c makes its next call, which returns or blocks it.
Makes(c, call) ==
  /\ todo[c] # <<>> /\ c \notin blocked /\ Head(todo[c]) = call
  /\ UNCHANGED <<rest_code, mpc, rpc, record_time, flashVars, uploadVars>>
Returns(c) == todo' = [todo EXCEPT ![c] = Tail(@)] /\ UNCHANGED blocked
Blocks(c) == blocked' = blocked \cup {c} /\ UNCHANGED todo

SetFlag(c) ==
  /\ Makes(c, "setFlag") /\ Returns(c)
  /\ rest_flag' = TRUE
  /\ UNCHANGED <<playerVars, rbits, notified, wpc>>

\* wav_record_stop(): STOP, then wait for PLAY without taking it.
RecStop(c) ==
  /\ Makes(c, "recStop") /\ Returns(c)
  /\ rbits' = rbits \cup {"STOP"}
  /\ UNCHANGED <<rest_flag, playerVars, notified, wpc>>

RecWait(c) ==
  /\ Makes(c, "recWait")
  /\ IF "PLAY" \in rbits THEN Returns(c) ELSE Blocks(c)
  /\ UNCHANGED <<rest_flag, playerVars, rbits, notified, wpc>>

\* aplay_stop(): it returns when the session that is running, if any, has ended.
PlayStop(c) ==
  /\ Makes(c, "playStop") /\ Returns(c)
  /\ asked' = (asked \/ player # "stop")
  /\ UNCHANGED <<rest_flag, player, rbits, notified, wpc>>

PlayWait(c) ==
  /\ Makes(c, "playWait") /\ Returns(c)
  /\ player = "stop"
  /\ UNCHANGED <<rest_flag, playerVars, rbits, notified, wpc>>

\* mp3_aplay_start(), wav_aplay_start(), web_aplay_start()
PlayStart(c) ==
  /\ Makes(c, "playStart") /\ Returns(c)
  /\ Player!Request
  /\ UNCHANGED <<rest_flag, rbits, notified, wpc>>

\* rest_record_give()
Give(c) ==
  /\ Makes(c, "give") /\ Returns(c)
  /\ notified' = TRUE
  /\ UNCHANGED <<rest_flag, playerVars, rbits, wpc>>

\* wav_record_start(): take PLAY, clear STOP, then set DETECT and create the task.
RecTake(c) ==
  /\ Makes(c, "recTake")
  /\ IF "PLAY" \in rbits THEN Returns(c) ELSE Blocks(c)
  /\ rbits' = rbits \ {"PLAY"}
  /\ UNCHANGED <<rest_flag, playerVars, notified, wpc>>

RecClear(c) ==
  /\ Makes(c, "recClear") /\ Returns(c)
  /\ rbits' = rbits \ {"STOP"}
  /\ UNCHANGED <<rest_flag, playerVars, notified, wpc>>

RecCreate(c) ==
  /\ Makes(c, "recCreate") /\ Returns(c)
  /\ rbits' = rbits \cup {"DETECT"}
  /\ \E w \in Writers : wpc[w] = "free" /\ wpc' = [wpc EXCEPT ![w] = "header"]
  /\ UNCHANGED <<rest_flag, playerVars, notified>>

\* fopen() fails, the name is unknown or the WiFi is down: the command ends.
Refused(c) ==
  /\ c \notin blocked
  /\ todo[c] \in {Tail(Tail(Calls.record)), Tail(Tail(Calls.play))}
  /\ todo' = [todo EXCEPT ![c] = <<>>]
  /\ UNCHANGED <<rest_flag, rest_code, blocked, mpc, playerVars, rbits, notified, rpc,
                 fileVars, flashVars, uploadVars>>

CallerStep(c) ==
  \/ SetFlag(c) \/ RecStop(c) \/ RecWait(c) \/ PlayStop(c) \/ PlayWait(c)
  \/ PlayStart(c) \/ Give(c) \/ RecTake(c) \/ RecClear(c) \/ RecCreate(c) \/ Refused(c)

----------------------------------------------------------------------------
(* at_process(), in the main task.                                         *)

\* Seeded fault in MainSeesResult: the flag is cleared before the delay.
MainClearsFlagFirst ==
  /\ mpc = "poll" /\ rest_code # 0 /\ mpc' = "delay"
  /\ rest_flag' = FALSE
  /\ UNCHANGED <<rest_code, todo, blocked>>

MainSeesResult ==
  /\ mpc = "poll" /\ rest_code # 0
  /\ mpc' = "delay"
  /\ UNCHANGED <<rest_flag, rest_code, todo, blocked>>

\* The two seconds are over, however far the uploader is: it may be waiting for the second of
\* its callback, or erase the flash.
MainClearsFlag ==
  /\ mpc = "delay" /\ mpc' = "flagged"
  /\ rest_flag' = FALSE
  /\ UNCHANGED <<rest_code, todo, blocked>>

MainClearsCode ==
  /\ mpc = "flagged" /\ mpc' = "poll"
  /\ rest_code' = 0
  /\ UNCHANGED <<rest_flag, todo, blocked>>

MainTask == /\ MainSeesResult \/ MainClearsFlag \/ MainClearsCode
            /\ UNCHANGED <<playerVars, rbits, notified, rpc, fileVars, flashVars, uploadVars>>

\* recordDone_callback: no request is answered between the two assignments
\* with which at_process() takes the previous result.
Deliver(code) ==
  /\ mpc # "flagged"
  /\ rest_code' = code

----------------------------------------------------------------------------
(* wav_record_task: a recording to a file.                                 *)

FileHeader(w) ==
  /\ wpc[w] = "header"
  /\ \/ wpc' = [wpc EXCEPT ![w] = "exit"] /\ UNCHANGED rbits
     \/ wpc' = [wpc EXCEPT ![w] = "loop"] /\ rbits' = rbits \ {"DETECT"}
  /\ UNCHANGED <<commandVars, rpc, record_time>>

FileLoop(w) ==
  /\ wpc[w] = "loop"
  /\ wpc' = [wpc EXCEPT ![w] =
               IF record_time < TimeLimit /\ "STOP" \notin rbits THEN "read" ELSE "exit"]
  /\ UNCHANGED <<commandVars, rbits, rpc, record_time>>

\* Audio_i2sRead() and fwrite(); both may fail.
FileRead(w) ==
  /\ wpc[w] = "read"
  /\ \/ wpc' = [wpc EXCEPT ![w] = "exit"] /\ UNCHANGED record_time
     \/ wpc' = [wpc EXCEPT ![w] = "loop"] /\ record_time' = record_time + 1
  /\ UNCHANGED <<commandVars, rbits, rpc>>

\* Seeded fault in FileExit: the recording ends without giving PLAY back.
FileExitKeepsBit(w) ==
  /\ wpc[w] = "exit" /\ wpc' = [wpc EXCEPT ![w] = "free"]
  /\ record_time' = 0
  /\ UNCHANGED <<commandVars, rbits, rpc>>

FileExit(w) ==
  /\ wpc[w] = "exit" /\ wpc' = [wpc EXCEPT ![w] = "free"]
  /\ record_time' = 0
  /\ GivePlayBit(rbits, rpc)
  /\ UNCHANGED <<rest_flag, rest_code, mpc>>

FileTask(w) == /\ FileHeader(w) \/ FileLoop(w) \/ FileRead(w) \/ FileExit(w)
               /\ UNCHANGED <<playerVars, notified, flashVars, uploadVars>>

----------------------------------------------------------------------------
(* rest_record_task: a voice recording to flash.                           *)

RestGoes(from, to) == rpc = from /\ rpc' = to

RestTake ==
  /\ RestGoes("notify", "wait") /\ notified /\ notified' = FALSE
  /\ UNCHANGED <<commandVars, rbits, flashVars, ubits>>

\* Seeded fault in RestWait: xClearOnExit = pdFALSE.
RestWaitKeepsBit ==
  /\ RestGoes("wait", IF "PLAY" \in rbits THEN "setup" ELSE "blocked")
  /\ UNCHANGED <<commandVars, rbits, notified, flashVars, ubits>>

RestWait ==
  /\ RestGoes("wait", IF "PLAY" \in rbits THEN "setup" ELSE "blocked")
  /\ rbits' = rbits \ {"PLAY"}
  /\ UNCHANGED <<commandVars, notified, flashVars, ubits>>

\* malloc() may fail.
RestSetup ==
  /\ \E to \in {"detect", "noVoice"} : RestGoes("setup", to)
  /\ rbits' = (rbits \cup {"DETECT"}) \ {"POST"}
  /\ written' = 0
  /\ UNCHANGED <<commandVars, notified, data_size, programmed, toErase, skipped, overtaken, ubits>>

RestDetect ==
  /\ \E to \in {"voice", "noVoice"} : RestGoes("detect", to)
  /\ UNCHANGED <<commandVars, rbits, notified, flashVars, ubits>>

\* restPost_callback(CODE_NO_VOICE, ...), called by the recorder itself.
RestNoVoice ==
  /\ rpc = "noVoice"
  /\ GivePlayBit(rbits \ {"POST"}, "noVoiceCode")
  /\ UNCHANGED <<rest_flag, rest_code, mpc, notified, flashVars, ubits>>

RestNoVoiceCode ==
  /\ RestGoes("noVoiceCode", "noVoiceDelay")
  /\ Deliver(NoVoice)
  /\ UNCHANGED <<rest_flag, todo, blocked, mpc, rbits, notified, flashVars, ubits>>

RestNoVoiceDelay ==
  /\ RestGoes("noVoiceDelay", "notify")
  /\ UNCHANGED <<commandVars, rbits, notified, flashVars, ubits>>

\* mcotton_rest_conn(), and then DETECT is cleared.
RestConn ==
  /\ RestGoes("voice", "begin") /\ ubits' = ubits \cup {"CONNECT"}
  /\ UNCHANGED <<commandVars, rbits, notified, flashVars>>

RestBegin ==
  /\ RestGoes("begin", "rec") /\ rbits' = rbits \ {"DETECT"}
  /\ UNCHANGED <<commandVars, notified, flashVars, ubits>>

\* The uploader has delivered a result and not yet erased what it posted.
EraseAhead == upc \in {"parsed", "erase", "erasing"} \/ (upc = "cbDelay" /\ uret # "idle")

\* sys_data_write() of one block; the recording ends with the silence, the
\* ten seconds or a failing read.
RestWrite ==
  /\ \E to \in IF written + 1 < MaxBlocks THEN {"rec", "finish"} ELSE {"finish"} :
       RestGoes("rec", to)
  /\ programmed' = programmed \cup {written}
  /\ written' = written + 1
  /\ overtaken' = (overtaken \/ EraseAhead)
  /\ UNCHANGED <<commandVars, rbits, notified, data_size, toErase, skipped, ubits>>

\* Seeded fault in RestFinish: sys_data_set_size() is not called.
RestFinishNoSize ==
  /\ RestGoes("finish", "send")
  /\ UNCHANGED <<commandVars, rbits, notified, flashVars, ubits>>

RestFinish ==
  /\ RestGoes("finish", "send") /\ data_size' = written
  /\ UNCHANGED <<commandVars, rbits, notified, written, programmed, toErase, skipped, overtaken, ubits>>

RestSend ==
  /\ RestGoes("send", "post") /\ ubits' = ubits \cup {"SEND"}
  /\ UNCHANGED <<commandVars, rbits, notified, flashVars>>

RestPost ==
  /\ RestGoes("post", "notify") /\ rbits' = rbits \cup {"POST"}
  /\ UNCHANGED <<commandVars, notified, flashVars, ubits>>

RestTask ==
  /\ \/ RestTake \/ RestWait \/ RestSetup \/ RestDetect \/ RestNoVoice
     \/ RestNoVoiceCode \/ RestNoVoiceDelay \/ RestConn \/ RestBegin \/ RestWrite
     \/ RestFinish \/ RestSend \/ RestPost
  /\ UNCHANGED <<playerVars, fileVars, answered, upc, ucode, uret, cut>>

----------------------------------------------------------------------------
(* mcotton_rest_task: the upload.                                          *)

UpGoes(from, to) == upc = from /\ upc' = to /\ UNCHANGED <<ucode, uret>>

\* restDone_callback(code, ...), after which the task goes on at label ret.
Callback(from, code, ret) ==
  upc = from /\ upc' = "cbBits" /\ ucode' = code /\ uret' = ret

UpConnect ==
  /\ "CONNECT" \in ubits /\ ubits' = ubits \ {"CONNECT"}
  /\ \/ UpGoes("idle", "tls")
     \/ UpGoes("idle", "noTls")
  /\ UNCHANGED <<commandVars, rbits, rpc, flashVars, answered>>

UpSend ==
  /\ "SEND" \in ubits /\ ubits' = ubits \ {"SEND"}
  /\ UpGoes("tls", "post")
  /\ UNCHANGED <<commandVars, rbits, rpc, flashVars, answered>>

\* Seeded fault in UpSendWithoutTls: "continue" without the callback.
UpSendSilently ==
  /\ "SEND" \in ubits /\ ubits' = ubits \ {"SEND"}
  /\ UpGoes("noTls", "idle") /\ skipped' = TRUE
  /\ UNCHANGED <<commandVars, rbits, rpc, written, data_size, programmed, toErase, overtaken, answered>>

\* Without a connection the loop starts over and the flash is not erased.
UpSendWithoutTls ==
  /\ "SEND" \in ubits /\ ubits' = ubits \ {"SEND"}
  /\ Callback("noTls", NotFound, "idle")
  /\ skipped' = TRUE
  /\ UNCHANGED <<commandVars, rbits, rpc, written, data_size, programmed, toErase, overtaken, answered>>

\* http_rest_post() has sent the recording.
UpPosted ==
  /\ UpGoes("post", "recv")
  /\ UNCHANGED <<commandVars, rbits, rpc, flashVars, ubits, answered>>

\* It fails while it sends, or its reads fail or time out ten times.
UpFails ==
  /\ Callback("post", NotFound, "erase") \/ Callback("recv", NotFound, "erase")
  /\ UNCHANGED <<commandVars, rbits, rpc, flashVars, ubits, answered>>

\* body_done_callback(): the task notifies itself to leave the response loop.
UpAnswered ==
  /\ \E code \in ServerCodes : Callback("recv", code, "parsed")
  /\ answered' = TRUE
  /\ UNCHANGED <<commandVars, rbits, rpc, flashVars, ubits>>

\* A piece of the answer arrives while a notification is pending.
UpLeftEarly ==
  /\ answered /\ answered' = FALSE /\ cut' = TRUE
  /\ UpGoes("recv", "erase")
  /\ UNCHANGED <<commandVars, rbits, rpc, flashVars, ubits>>

\* The connection is closed before the answer is complete: ESP_OK.
UpClosedEarly ==
  /\ EarlyClose /\ cut' = TRUE
  /\ UpGoes("recv", "erase")
  /\ UNCHANGED <<commandVars, rbits, rpc, flashVars, ubits, answered>>

\* The piece that completed the answer has been parsed ...
UpParsed ==
  /\ UpGoes("parsed", "erase")
  /\ answered' = FALSE
  /\ UNCHANGED <<commandVars, rbits, rpc, flashVars, ubits>>

\* ... or the parser stops at what follows the answer: ESP_FAIL, a second call
\* of the callback, and the notification stays pending.
UpTrailing ==
  /\ Trailing
  /\ Callback("parsed", NotFound, "again")
  /\ UNCHANGED <<commandVars, rbits, rpc, flashVars, ubits, answered>>

\* restPost_callback(): the bits, the code, and one second.
UpCallbackBits ==
  /\ UpGoes("cbBits", "cbCode")
  /\ GivePlayBit(rbits \ {"POST"}, rpc)
  /\ UNCHANGED <<rest_flag, rest_code, mpc, flashVars, ubits, answered>>

UpCallbackCode ==
  /\ upc = "cbCode" /\ upc' = "cbDelay" /\ UNCHANGED uret
  /\ Deliver(ucode) /\ ucode' = 0
  /\ UNCHANGED <<rest_flag, todo, blocked, mpc, rbits, rpc, flashVars, ubits, answered>>

UpCallbackReturns ==
  /\ upc = "cbDelay" /\ upc' = IF uret = "again" THEN "erase" ELSE uret
  /\ uret' = "idle" /\ UNCHANGED ucode
  /\ UNCHANGED <<commandVars, rbits, rpc, flashVars, ubits, answered>>

\* Seeded fault in Sectors: the size is rounded down.
SectorsRoundedDown(size) == 0..(size \div 2) - 1

\* The 4 KB sectors of two blocks that sys_data_erase() erases: the size is rounded up.
Sectors(size) == 0..(size + 2) \div 2 - 1

\* sys_data_erase(), which reads the size once and erases one sector after the other.
UpErase ==
  /\ UpGoes("erase", "erasing")
  /\ toErase' = Sectors(data_size)
  /\ UNCHANGED <<commandVars, rbits, rpc, written, data_size, programmed, skipped, overtaken,
                 ubits, answered>>

UpEraseSector ==
  /\ UpGoes("erasing", "erasing")
  /\ \E sector \in toErase :
       /\ \A other \in toErase : sector <= other
       /\ toErase' = toErase \ {sector}
       /\ programmed' = {b \in programmed : b \div 2 # sector}
  /\ UNCHANGED <<commandVars, rbits, rpc, written, data_size, skipped, overtaken, ubits, answered>>

\* The blocks of a request that has not been posted yet.
Unposted == rpc \in {"finish", "send"} \/ (rpc = "rec" /\ written > 0) \/ "SEND" \in ubits

\* It is erased; nothing remains of what was skipped or overtaken when all the flash is.
UpErased ==
  /\ toErase = {} /\ UpGoes("erasing", "idle")
  /\ skipped' = (skipped /\ programmed # {})
  /\ overtaken' = (overtaken /\ (programmed # {} \/ Unposted))
  /\ UNCHANGED <<commandVars, rbits, rpc, written, data_size, programmed, toErase, ubits, answered>>

UploadTask ==
  /\ \/ UpClosedEarly \/ UpLeftEarly
     \/ /\ \/ UpConnect \/ UpSend \/ UpSendWithoutTls \/ UpPosted \/ UpFails \/ UpAnswered
           \/ UpParsed \/ UpTrailing \/ UpCallbackBits \/ UpCallbackCode
           \/ UpCallbackReturns \/ UpErase \/ UpEraseSector \/ UpErased
        /\ UNCHANGED cut
  /\ UNCHANGED <<playerVars, notified, fileVars>>

----------------------------------------------------------------------------
(* The player, as AplaySession: it begins and ends when it likes.          *)

PlayerTask ==
  /\ Player!Begin \/ Player!Finish
  /\ UNCHANGED <<commandVars, rbits, notified, rpc, fileVars, flashVars, uploadVars>>

----------------------------------------------------------------------------
(* The specification.                                                      *)

\* rest_record_start(), wav_record_init() and mcotton_rest_start().
Init ==
  /\ rest_flag = FALSE /\ rest_code = 0 /\ mpc = "poll"
  /\ todo = [c \in Callers |-> <<>>] /\ blocked = {}
  /\ Player!Init
  /\ rbits = {"PLAY"} /\ notified = FALSE /\ rpc = "notify"
  /\ wpc = [w \in Writers |-> "free"] /\ record_time = 0
  /\ written = 0 /\ data_size = 0 /\ programmed = {}
  /\ toErase = {} /\ skipped = FALSE /\ overtaken = FALSE
  /\ ubits = {} /\ answered = FALSE /\ upc = "idle" /\ ucode = 0 /\ uret = "idle"
  /\ cut = FALSE

Next ==
  \/ \E c \in Callers : Command(c) \/ CallerStep(c)
  \/ \E w \in Writers : FileTask(w)
  \/ RestTask \/ UploadTask \/ MainTask \/ PlayerTask

\* Every task that can run is eventually scheduled, the server answers or the
\* reads time out, and a playing session that is asked to stop ends.
Fairness ==
  /\ \A c \in Callers : WF_vars(CallerStep(c))
  /\ \A w \in Writers : WF_vars(FileTask(w))
  /\ WF_vars(RestTask) /\ WF_vars(UploadTask) /\ WF_vars(MainTask)
  /\ WF_vars(player = "request" /\ PlayerTask)
  /\ WF_vars(asked /\ PlayerTask)

Spec == Init /\ [][Next]_vars
FairSpec == Spec /\ Fairness

----------------------------------------------------------------------------
(* Properties.                                                             *)

FileRecording == \E w \in Writers : wpc[w] # "free"
FileStarting(c) == todo[c] # <<>> /\ Head(todo[c]) \in {"recClear", "recCreate"}
VoiceRecording == rpc \in {"setup", "detect", "noVoice", "voice", "begin", "rec",
                           "finish", "send"}
Uploading == \/ "SEND" \in ubits
             \/ upc \in {"post", "recv"}
             \/ upc = "cbBits" /\ uret # "again"

\* The PLAY bit of record_event_group is handed from task to task - the command
\* that starts a file recording, the recording, the voice recording, the
\* upload - and comes back once: never two recordings, and never a recording
\* over an upload that still reads the flash, with commands from one task.
OneRecording ==
  /\ \A v, w \in Writers : wpc[v] # "free" /\ wpc[w] # "free" => v = w
  /\ FileRecording => ~VoiceRecording /\ ~Uploading
  /\ \A c \in Callers : FileStarting(c) => ~FileRecording /\ ~VoiceRecording /\ ~Uploading
  /\ ~(VoiceRecording /\ Uploading)
  /\ "PLAY" \in rbits =>
       /\ ~FileRecording /\ ~VoiceRecording /\ ~Uploading
       /\ \A c \in Callers : ~FileStarting(c)

\* With commands from one task the codec is never asked to play and to record
\* at the same time.
NeverPlayAndRecord ==
  player # "stop" => ~FileRecording /\ ~VoiceRecording /\ ~Uploading

\* Both: the codec has one user at a time.
OneUser == OneRecording /\ NeverPlayAndRecord

\* The bit is never lost: when nobody records, uploads or is about to record,
\* it is there, unless an answer was cut off without the callback that gives it
\* back.  Otherwise every later command would block for ever.
PlayBitComesBack ==
  \/ cut
  \/ FileRecording \/ VoiceRecording \/ Uploading \/ \E c \in Callers : FileStarting(c)
  \/ "PLAY" \in rbits

\* NOR flash: a voice recording writes only blocks that are erased, except after a request whose
\* connection failed, which leaves its recording behind, and when it is so early that the uploader
\* is still to erase the recording before it: at_process() lets the next request in two seconds
\* after a result, erased or not.
WritesErasedFlash ==
  rpc = "rec" /\ written \in programmed => skipped \/ overtaken \/ EraseAhead

\* What is posted is the recording that was announced, with nobody recording over it, and it is
\* all there, unless it was written while the uploader had still to erase the one before.
PostsWholeRecording ==
  upc = "post" => /\ data_size = written /\ rpc \notin {"setup", "rec", "finish"}
                  /\ overtaken \/ 0..data_size - 1 \subseteq programmed

\* Both: what is posted was recorded, on erased flash. A request that came too early makes no
\* exception for later ones, once a request after it has left all the flash erased.
FlashHoldsRecording == WritesErasedFlash /\ PostsWholeRecording

\* A result is taken by the main loop before the next one arrives.
ResultNotLost == [][rest_code # 0 => rest_code' \in {0, rest_code}]_rest_code

\* A voice request is answered: the busy flag does not stay.
RestAnswered == rest_flag ~> ~rest_flag

\* Every command returns to the task that runs it.
CommandsReturn == \A c \in Callers : todo[c] # <<>> ~> todo[c] = <<>>

\* Both: whatever is asked of the board ends, and leaves it free to be asked again.
EveryRequestEnds == RestAnswered /\ CommandsReturn

=============================================================================
