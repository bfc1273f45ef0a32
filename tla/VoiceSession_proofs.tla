------------------------ MODULE VoiceSession_proofs ------------------------
(***************************************************************************)
(* Proofs about VoiceSession, for any number of file recorders, blocks and *)
(* codes of the server.  The PLAY bit of record_event_group is never lost, *)
(* with or without the button.  With commands from one task and answers    *)
(* that end where the parser expects it: OneUser, FlashHoldsRecording and  *)
(* ResultNotLost.  They rest on RequestInv: a voice request is in the      *)
(* hands of one task at a time, and rest_flag keeps the next one out until *)
(* the main loop has taken its result.  It does not keep it out until the  *)
(* uploader has erased the flash: that is what FlashInv is about.          *)
(***************************************************************************)
EXTENDS VoiceSession, TLAPS

----------------------------------------------------------------------------
(* What a command has still to do.                                         *)

\* A voice request that has set rest_flag and has not called rest_record_give().
Asks == {
  <<"recStop", "recWait", "playStop", "playWait", "give">>,
  <<"recWait", "playStop", "playWait", "give">>,
  <<"playStop", "playWait", "give">>, <<"playWait", "give">>, <<"give">>}

\* All the other commands, and a voice request that has not begun.
Others == {
  <<"setFlag", "recStop", "recWait", "playStop", "playWait", "give">>,
  <<"recStop", "recWait", "playStop", "playWait", "playStart">>,
  <<"recWait", "playStop", "playWait", "playStart">>,
  <<"playStop", "playWait", "playStart">>, <<"playWait", "playStart">>, <<"playStart">>,
  <<"playStop", "playWait">>, <<"playWait">>,
  <<"playStop", "playWait", "recStop", "recWait", "recTake", "recClear", "recCreate">>,
  <<"playWait", "recStop", "recWait", "recTake", "recClear", "recCreate">>,
  <<"recStop", "recWait", "recTake", "recClear", "recCreate">>,
  <<"recWait", "recTake", "recClear", "recCreate">>,
  <<"recTake", "recClear", "recCreate">>, <<"recClear", "recCreate">>, <<"recCreate">>,
  <<"recStop", "recWait">>, <<"recWait">>}

\* wav_record_stop() has returned, so the lock has been seen.
LockSeen == {
  <<"playStop", "playWait", "give">>, <<"playWait", "give">>, <<"give">>,
  <<"playStop", "playWait", "playStart">>, <<"playWait", "playStart">>, <<"playStart">>,
  <<"recTake", "recClear", "recCreate">>}

\* aplay_stop() has returned, so nothing plays.
SilenceSeen == {
  <<"give">>, <<"playStart">>,
  <<"recStop", "recWait", "recTake", "recClear", "recCreate">>,
  <<"recWait", "recTake", "recClear", "recCreate">>,
  <<"recTake", "recClear", "recCreate">>, <<"recClear", "recCreate">>, <<"recCreate">>}

Remaining == Asks \cup Others
Starts(t) == t # <<>> /\ Head(t) \in {"recClear", "recCreate"}

RecorderLabels == {"notify", "wait", "blocked", "setup", "detect", "noVoice", "noVoiceCode",
                   "noVoiceDelay", "voice", "begin", "rec", "finish", "send", "post"}
UploaderLabels == {"idle", "tls", "noTls", "post", "recv", "parsed", "erase", "erasing", "cbBits",
                   "cbCode", "cbDelay"}

TypeOK ==
  /\ rest_flag \in BOOLEAN /\ rest_code \in Int /\ mpc \in {"poll", "delay", "flagged"}
  /\ todo \in [Callers -> Remaining \cup {<<>>}]
  /\ blocked \subseteq {c \in Callers : todo[c] # <<>>}
  /\ player \in {"stop", "request", "start"} /\ asked \in BOOLEAN
  /\ rbits \subseteq {"PLAY", "STOP", "DETECT", "POST"} /\ notified \in BOOLEAN
  /\ rpc \in RecorderLabels
  /\ wpc \in [Writers -> {"free", "header", "loop", "read", "exit"}] /\ record_time \in Nat
  /\ written \in Nat /\ data_size \in Nat /\ programmed \subseteq Nat /\ toErase \subseteq Nat
  /\ skipped \in BOOLEAN /\ overtaken \in BOOLEAN
  /\ ubits \subseteq {"CONNECT", "SEND"} /\ answered \in BOOLEAN /\ upc \in UploaderLabels
  /\ ucode \in Int /\ uret \in {"idle", "erase", "parsed", "again"} /\ cut \in BOOLEAN

----------------------------------------------------------------------------
(* The calls of a command.                                                 *)

\* What one call leaves of a command.
Kept(t) ==
  /\ t # <<>> /\ Tail(t) \in Remaining \cup {<<>>}
  /\ ~(t \in Asks /\ t \in Others)
  /\ Head(t) = "setFlag" => t \in Others /\ Tail(t) \in Asks
  /\ t \in Asks => Tail(t) \in Asks \cup {<<>>}
  /\ t \in Others /\ Head(t) # "setFlag" => Tail(t) \in Others \cup {<<>>}
  /\ Tail(t) \in LockSeen => t \in LockSeen \/ Head(t) = "recWait"
  /\ Head(t) = "recWait" => t \notin LockSeen
  /\ Tail(t) \in SilenceSeen => t \in SilenceSeen \/ Head(t) = "playWait"
  /\ Head(t) = "playStart" => Tail(t) = <<>> /\ t \in LockSeen \cap SilenceSeen \cap Others
  /\ Head(t) = "give" => Tail(t) = <<>> /\ t \in LockSeen \cap SilenceSeen \cap Asks
  /\ Head(t) = "recTake" => Starts(Tail(t)) /\ t \in LockSeen \cap SilenceSeen \cap Others
  /\ Head(t) = "recClear" => Starts(Tail(t))
  /\ Head(t) = "recCreate" => Tail(t) = <<>>
  /\ Starts(t) => t \in SilenceSeen \cap Others /\ t \notin LockSeen
  /\ Starts(Tail(t)) => Head(t) \in {"recTake", "recClear"}

\* For each command and each call of it, by evaluation.
LEMMA CallsKept == \A t \in Remaining : Kept(t)
<1>1. Kept(<<"recStop", "recWait", "playStop", "playWait", "give">>)
  <2> DEFINE t == <<"recStop", "recWait", "playStop", "playWait", "give">>
  <2>1. Head(t) = "recStop" /\ Tail(t) = <<"recWait", "playStop", "playWait", "give">>
    OBVIOUS
  <2> QED BY <2>1 DEF Kept, Remaining, Asks, Others, LockSeen, SilenceSeen, Starts
<1>2. Kept(<<"recWait", "playStop", "playWait", "give">>)
  <2> DEFINE t == <<"recWait", "playStop", "playWait", "give">>
  <2>1. Head(t) = "recWait" /\ Tail(t) = <<"playStop", "playWait", "give">>
    OBVIOUS
  <2> QED BY <2>1 DEF Kept, Remaining, Asks, Others, LockSeen, SilenceSeen, Starts
<1>3. Kept(<<"playStop", "playWait", "give">>)
  <2> DEFINE t == <<"playStop", "playWait", "give">>
  <2>1. Head(t) = "playStop" /\ Tail(t) = <<"playWait", "give">>
    OBVIOUS
  <2> QED BY <2>1 DEF Kept, Remaining, Asks, Others, LockSeen, SilenceSeen, Starts
<1>4. Kept(<<"playWait", "give">>)
  <2> DEFINE t == <<"playWait", "give">>
  <2>1. Head(t) = "playWait" /\ Tail(t) = <<"give">>
    OBVIOUS
  <2> QED BY <2>1 DEF Kept, Remaining, Asks, Others, LockSeen, SilenceSeen, Starts
<1>5. Kept(<<"give">>)
  <2> DEFINE t == <<"give">>
  <2>1. Head(t) = "give" /\ Tail(t) = <<>>
    OBVIOUS
  <2> QED BY <2>1 DEF Kept, Remaining, Asks, Others, LockSeen, SilenceSeen, Starts
<1>6. Kept(<<"setFlag", "recStop", "recWait", "playStop", "playWait", "give">>)
  <2> DEFINE t == <<"setFlag", "recStop", "recWait", "playStop", "playWait", "give">>
  <2>1. Head(t) = "setFlag" /\ Tail(t) = <<"recStop", "recWait", "playStop", "playWait", "give">>
    OBVIOUS
  <2> QED BY <2>1 DEF Kept, Remaining, Asks, Others, LockSeen, SilenceSeen, Starts
<1>7. Kept(<<"recStop", "recWait", "playStop", "playWait", "playStart">>)
  <2> DEFINE t == <<"recStop", "recWait", "playStop", "playWait", "playStart">>
  <2>1. Head(t) = "recStop" /\ Tail(t) = <<"recWait", "playStop", "playWait", "playStart">>
    OBVIOUS
  <2> QED BY <2>1 DEF Kept, Remaining, Asks, Others, LockSeen, SilenceSeen, Starts
<1>8. Kept(<<"recWait", "playStop", "playWait", "playStart">>)
  <2> DEFINE t == <<"recWait", "playStop", "playWait", "playStart">>
  <2>1. Head(t) = "recWait" /\ Tail(t) = <<"playStop", "playWait", "playStart">>
    OBVIOUS
  <2> QED BY <2>1 DEF Kept, Remaining, Asks, Others, LockSeen, SilenceSeen, Starts
<1>9. Kept(<<"playStop", "playWait", "playStart">>)
  <2> DEFINE t == <<"playStop", "playWait", "playStart">>
  <2>1. Head(t) = "playStop" /\ Tail(t) = <<"playWait", "playStart">>
    OBVIOUS
  <2> QED BY <2>1 DEF Kept, Remaining, Asks, Others, LockSeen, SilenceSeen, Starts
<1>10. Kept(<<"playWait", "playStart">>)
  <2> DEFINE t == <<"playWait", "playStart">>
  <2>1. Head(t) = "playWait" /\ Tail(t) = <<"playStart">>
    OBVIOUS
  <2> QED BY <2>1 DEF Kept, Remaining, Asks, Others, LockSeen, SilenceSeen, Starts
<1>11. Kept(<<"playStart">>)
  <2> DEFINE t == <<"playStart">>
  <2>1. Head(t) = "playStart" /\ Tail(t) = <<>>
    OBVIOUS
  <2> QED BY <2>1 DEF Kept, Remaining, Asks, Others, LockSeen, SilenceSeen, Starts
<1>12. Kept(<<"playStop", "playWait">>)
  <2> DEFINE t == <<"playStop", "playWait">>
  <2>1. Head(t) = "playStop" /\ Tail(t) = <<"playWait">>
    OBVIOUS
  <2> QED BY <2>1 DEF Kept, Remaining, Asks, Others, LockSeen, SilenceSeen, Starts
<1>13. Kept(<<"playWait">>)
  <2> DEFINE t == <<"playWait">>
  <2>1. Head(t) = "playWait" /\ Tail(t) = <<>>
    OBVIOUS
  <2> QED BY <2>1 DEF Kept, Remaining, Asks, Others, LockSeen, SilenceSeen, Starts
<1>14. Kept(<<"playStop", "playWait", "recStop", "recWait", "recTake", "recClear", "recCreate">>)
  <2> DEFINE t == <<"playStop", "playWait", "recStop", "recWait", "recTake", "recClear",
                    "recCreate">>
  <2>1. Head(t) = "playStop"
        /\ Tail(t) = <<"playWait", "recStop", "recWait", "recTake", "recClear", "recCreate">>
    OBVIOUS
  <2> QED BY <2>1 DEF Kept, Remaining, Asks, Others, LockSeen, SilenceSeen, Starts
<1>15. Kept(<<"playWait", "recStop", "recWait", "recTake", "recClear", "recCreate">>)
  <2> DEFINE t == <<"playWait", "recStop", "recWait", "recTake", "recClear", "recCreate">>
  <2>1. Head(t) = "playWait"
        /\ Tail(t) = <<"recStop", "recWait", "recTake", "recClear", "recCreate">>
    OBVIOUS
  <2> QED BY <2>1 DEF Kept, Remaining, Asks, Others, LockSeen, SilenceSeen, Starts
<1>16. Kept(<<"recStop", "recWait", "recTake", "recClear", "recCreate">>)
  <2> DEFINE t == <<"recStop", "recWait", "recTake", "recClear", "recCreate">>
  <2>1. Head(t) = "recStop" /\ Tail(t) = <<"recWait", "recTake", "recClear", "recCreate">>
    OBVIOUS
  <2> QED BY <2>1 DEF Kept, Remaining, Asks, Others, LockSeen, SilenceSeen, Starts
<1>17. Kept(<<"recWait", "recTake", "recClear", "recCreate">>)
  <2> DEFINE t == <<"recWait", "recTake", "recClear", "recCreate">>
  <2>1. Head(t) = "recWait" /\ Tail(t) = <<"recTake", "recClear", "recCreate">>
    OBVIOUS
  <2> QED BY <2>1 DEF Kept, Remaining, Asks, Others, LockSeen, SilenceSeen, Starts
<1>18. Kept(<<"recTake", "recClear", "recCreate">>)
  <2> DEFINE t == <<"recTake", "recClear", "recCreate">>
  <2>1. Head(t) = "recTake" /\ Tail(t) = <<"recClear", "recCreate">>
    OBVIOUS
  <2> QED BY <2>1 DEF Kept, Remaining, Asks, Others, LockSeen, SilenceSeen, Starts
<1>19. Kept(<<"recClear", "recCreate">>)
  <2> DEFINE t == <<"recClear", "recCreate">>
  <2>1. Head(t) = "recClear" /\ Tail(t) = <<"recCreate">>
    OBVIOUS
  <2> QED BY <2>1 DEF Kept, Remaining, Asks, Others, LockSeen, SilenceSeen, Starts
<1>20. Kept(<<"recCreate">>)
  <2> DEFINE t == <<"recCreate">>
  <2>1. Head(t) = "recCreate" /\ Tail(t) = <<>>
    OBVIOUS
  <2> QED BY <2>1 DEF Kept, Remaining, Asks, Others, LockSeen, SilenceSeen, Starts
<1>21. Kept(<<"recStop", "recWait">>)
  <2> DEFINE t == <<"recStop", "recWait">>
  <2>1. Head(t) = "recStop" /\ Tail(t) = <<"recWait">>
    OBVIOUS
  <2> QED BY <2>1 DEF Kept, Remaining, Asks, Others, LockSeen, SilenceSeen, Starts
<1>22. Kept(<<"recWait">>)
  <2> DEFINE t == <<"recWait">>
  <2>1. Head(t) = "recWait" /\ Tail(t) = <<>>
    OBVIOUS
  <2> QED BY <2>1 DEF Kept, Remaining, Asks, Others, LockSeen, SilenceSeen, Starts
<1> QED
  BY <1>1, <1>2, <1>3, <1>4, <1>5, <1>6, <1>7, <1>8, <1>9, <1>10, <1>11, <1>12, <1>13, <1>14,
     <1>15, <1>16, <1>17, <1>18, <1>19, <1>20, <1>21, <1>22 DEF Remaining, Asks, Others

\* A command that is accepted has not made a call, and what is left of a play
\* or record command that is refused was a command.
LEMMA CommandsKept ==
  /\ \A name \in Commands \cup {"rest"} :
       /\ Calls[name] \in Others /\ Calls[name] \notin LockSeen \cup SilenceSeen
       /\ ~Starts(Calls[name])
  /\ <<>> \notin Remaining /\ <<>> \notin LockSeen \cup SilenceSeen /\ ~Starts(<<>>)
  /\ Tail(Tail(Calls.record)) \in Others /\ ~Starts(Tail(Tail(Calls.record)))
  /\ Tail(Tail(Calls.play)) \in Others /\ ~Starts(Tail(Tail(Calls.play)))
<1>1. \A name \in {"rest", "play", "pause", "record", "recStop"} :
        /\ Calls[name] \in Others /\ Calls[name] \notin LockSeen \cup SilenceSeen
        /\ ~Starts(Calls[name])
  <2>1. Calls["rest"] \in Others /\ Calls["rest"] \notin LockSeen \cup SilenceSeen
        /\ ~Starts(Calls["rest"])
    BY DEF Calls, Others, LockSeen, SilenceSeen, Starts
  <2>2. Calls["play"] \in Others /\ Calls["play"] \notin LockSeen \cup SilenceSeen
        /\ ~Starts(Calls["play"])
    BY DEF Calls, Others, LockSeen, SilenceSeen, Starts
  <2>3. Calls["pause"] \in Others /\ Calls["pause"] \notin LockSeen \cup SilenceSeen
        /\ ~Starts(Calls["pause"])
    BY DEF Calls, Others, LockSeen, SilenceSeen, Starts
  <2>4. Calls["record"] \in Others /\ Calls["record"] \notin LockSeen \cup SilenceSeen
        /\ ~Starts(Calls["record"])
    BY DEF Calls, Others, LockSeen, SilenceSeen, Starts
  <2>5. Calls["recStop"] \in Others /\ Calls["recStop"] \notin LockSeen \cup SilenceSeen
        /\ ~Starts(Calls["recStop"])
    BY DEF Calls, Others, LockSeen, SilenceSeen, Starts
  <2> QED BY <2>1, <2>2, <2>3, <2>4, <2>5
<1>2. Commands \subseteq {"rest", "play", "pause", "record", "recStop"}
  BY VoiceAssumption
<1>3. /\ <<>> \notin Remaining /\ <<>> \notin LockSeen \cup SilenceSeen /\ ~Starts(<<>>)
  BY DEF Remaining, Asks, Others, LockSeen, SilenceSeen, Starts
<1>4. Tail(Tail(Calls.record)) \in Others /\ ~Starts(Tail(Tail(Calls.record)))
  <2>1. Calls.record = <<"playStop", "playWait", "recStop", "recWait", "recTake", "recClear",
                         "recCreate">>
    BY DEF Calls
  <2>2. Tail(Tail(Calls.record))
          = <<"recStop", "recWait", "recTake", "recClear", "recCreate">>
    BY <2>1
  <2>3. ~Starts(<<"recStop", "recWait", "recTake", "recClear", "recCreate">>)
    BY DEF Starts
  <2> QED BY <2>2, <2>3 DEF Others
<1>5. Tail(Tail(Calls.play)) \in Others /\ ~Starts(Tail(Tail(Calls.play)))
  <2>1. Calls.play = <<"recStop", "recWait", "playStop", "playWait", "playStart">>
    BY DEF Calls
  <2>2. Tail(Tail(Calls.play)) = <<"playStop", "playWait", "playStart">>
    BY <2>1
  <2>3. ~Starts(<<"playStop", "playWait", "playStart">>)
    BY DEF Starts
  <2> QED BY <2>2, <2>3 DEF Others
<1> QED BY <1>1, <1>2, <1>3, <1>4, <1>5

----------------------------------------------------------------------------
(* Type correctness.                                                       *)

\* The bit is given to tasks that wait for it: they go on with their commands.
LEMMA GiveTypes ==
  ASSUME TypeOK, NEW b \in SUBSET {"PLAY", "STOP", "DETECT", "POST"},
         NEW rest \in RecorderLabels, GivePlayBit(b, rest)
  PROVE  /\ rbits' \subseteq {"PLAY", "STOP", "DETECT", "POST"} /\ rpc' \in RecorderLabels
         /\ todo' \in [Callers -> Remaining \cup {<<>>}]
         /\ blocked' \subseteq {c \in Callers : todo'[c] # <<>>}
<1>1. \A c \in blocked : Tail(todo[c]) \in Remaining \cup {<<>>}
  BY CallsKept DEF TypeOK, Kept
<1>2. rbits' \subseteq {"PLAY", "STOP", "DETECT", "POST"} /\ rpc' \in RecorderLabels
  BY DEF GivePlayBit, RecorderLabels, TypeOK
<1>3. todo' \in [Callers -> Remaining \cup {<<>>}]
  BY <1>1 DEF GivePlayBit, TypeOK
<1>4. blocked' \subseteq {c \in Callers : todo'[c] # <<>>}
  BY DEF GivePlayBit, TypeOK
<1> QED BY <1>2, <1>3, <1>4

\* Every step keeps the types, and a caller is blocked in a call.
LEMMA TypeStep ==
  ASSUME TypeOK, Next
  PROVE  TypeOK'
<1> USE VoiceAssumption DEF TypeOK, RecorderLabels, UploaderLabels, commandVars, playerVars,
           fileVars, flashVars, uploadVars
<1>1. ASSUME NEW c \in Callers, Command(c) PROVE TypeOK'
  <2>1. PICK name \in Commands \cup {"rest"} : Accept(c, name)
    BY <1>1 DEF Command
  <2>2. Calls[name] \in Remaining /\ Calls[name] # <<>>
    BY CommandsKept DEF Remaining
  <2>3. todo' \in [Callers -> Remaining \cup {<<>>}]
    BY <2>1, <2>2 DEF Accept
  <2>4. blocked' \subseteq {d \in Callers : todo'[d] # <<>>}
    BY <2>1, <2>2 DEF Accept
  <2>5. UNCHANGED <<rest_flag, rest_code, mpc, playerVars, rbits, notified, rpc, fileVars,
                    flashVars, uploadVars>>
    BY <2>1 DEF Accept
  <2> QED BY <2>3, <2>4, <2>5
<1>2. ASSUME NEW c \in Callers, CallerStep(c) PROVE TypeOK'
  <2>1. todo[c] # <<>> => Tail(todo[c]) \in Remaining \cup {<<>>}
    BY CallsKept DEF Kept
  <2>2. CASE SetFlag(c)
    BY <2>1, <2>2 DEF SetFlag, Makes, Returns
  <2>3. CASE RecStop(c)
    BY <2>1, <2>3 DEF RecStop, Makes, Returns
  <2>4. CASE RecWait(c)
    <3>1. /\ Makes(c, "recWait") /\ (Returns(c) \/ Blocks(c))
          /\ UNCHANGED <<rest_flag, playerVars, rbits, notified, wpc>>
      BY <2>4 DEF RecWait
    <3>2. CASE Returns(c)
      BY <2>1, <3>1, <3>2 DEF Makes, Returns
    <3>3. CASE Blocks(c)
      BY <3>1, <3>3 DEF Makes, Blocks
    <3> QED BY <3>1, <3>2, <3>3
  <2>5. CASE PlayStop(c)
    BY <2>1, <2>5 DEF PlayStop, Makes, Returns
  <2>6. CASE PlayWait(c)
    BY <2>1, <2>6 DEF PlayWait, Makes, Returns
  <2>7. CASE PlayStart(c)
    BY <2>1, <2>7 DEF PlayStart, Makes, Returns, Player!Request
  <2>8. CASE Give(c)
    BY <2>1, <2>8 DEF Give, Makes, Returns
  <2>9. CASE RecTake(c)
    <3>1. /\ Makes(c, "recTake") /\ (Returns(c) \/ Blocks(c))
          /\ rbits' = rbits \ {"PLAY"} /\ UNCHANGED <<rest_flag, playerVars, notified, wpc>>
      BY <2>9 DEF RecTake
    <3>2. CASE Returns(c)
      BY <2>1, <3>1, <3>2 DEF Makes, Returns
    <3>3. CASE Blocks(c)
      BY <3>1, <3>3 DEF Makes, Blocks
    <3> QED BY <3>1, <3>2, <3>3
  <2>10. CASE RecClear(c)
    BY <2>1, <2>10 DEF RecClear, Makes, Returns
  <2>11. CASE RecCreate(c)
    BY <2>1, <2>11 DEF RecCreate, Makes, Returns
  <2>12. CASE Refused(c)
    BY <2>12 DEF Refused
  <2> QED
    BY <1>2, <2>2, <2>3, <2>4, <2>5, <2>6, <2>7, <2>8, <2>9, <2>10, <2>11, <2>12 DEF CallerStep
<1>3. ASSUME NEW w \in Writers, FileTask(w) PROVE TypeOK'
  <2>1. CASE FileHeader(w)
    <3>1. wpc' \in [Writers -> {"free", "header", "loop", "read", "exit"}]
      BY <2>1 DEF FileHeader
    <3>2. rbits' \subseteq {"PLAY", "STOP", "DETECT", "POST"}
      BY <2>1 DEF FileHeader
    <3> QED BY <1>3, <2>1, <3>1, <3>2 DEF FileTask, FileHeader
  <2>2. CASE FileLoop(w)
    BY <1>3, <2>2 DEF FileTask, FileLoop
  <2>3. CASE FileRead(w)
    BY <1>3, <2>3 DEF FileTask, FileRead
  <2>4. CASE FileExit(w)
    BY <1>3, <2>4, GiveTypes DEF FileTask, FileExit
  <2> QED BY <1>3, <2>1, <2>2, <2>3, <2>4 DEF FileTask
<1>4. CASE RestTask
  <2> USE DEF RestGoes
  <2>0. UNCHANGED <<playerVars, fileVars, answered, upc, ucode, uret, cut>>
    BY <1>4 DEF RestTask
  <2>1. CASE RestTake
    <3>1. notified' \in BOOLEAN
      BY <2>0, <2>1 DEF RestTake
    <3> QED BY <2>0, <2>1, <3>1 DEF RestTake
  <2>2. CASE RestWait
    BY <2>0, <2>2 DEF RestWait
  <2>3. CASE RestSetup
    BY <2>0, <2>3 DEF RestSetup
  <2>4. CASE RestDetect
    BY <2>0, <2>4 DEF RestDetect
  <2>5. CASE RestNoVoice
    BY <2>0, <2>5, GiveTypes DEF RestNoVoice
  <2>6. CASE RestNoVoiceCode
    BY <2>0, <2>6 DEF RestNoVoiceCode, Deliver, NoVoice
  <2>7. CASE RestNoVoiceDelay
    BY <2>0, <2>7 DEF RestNoVoiceDelay
  <2>8. CASE RestConn
    BY <2>0, <2>8 DEF RestConn
  <2>9. CASE RestBegin
    BY <2>0, <2>9 DEF RestBegin
  <2>10. CASE RestWrite
    <3>1. overtaken' \in BOOLEAN
      BY <2>10 DEF RestWrite
    <3> QED BY <2>0, <2>10, <3>1 DEF RestWrite
  <2>11. CASE RestFinish
    BY <2>0, <2>11 DEF RestFinish
  <2>12. CASE RestSend
    BY <2>0, <2>12 DEF RestSend
  <2>13. CASE RestPost
    BY <2>0, <2>13 DEF RestPost
  <2> QED
    BY <1>4, <2>1, <2>2, <2>3, <2>4, <2>5, <2>6, <2>7, <2>8, <2>9, <2>10, <2>11, <2>12, <2>13
       DEF RestTask
<1>5. CASE UploadTask
  <2> USE DEF UpGoes, Callback
  <2>0. UNCHANGED <<playerVars, notified, fileVars>>
    BY <1>5 DEF UploadTask
  <2>x. cut' \in BOOLEAN
    BY <1>5 DEF UploadTask, UpClosedEarly, UpLeftEarly
  <2>1. CASE UpConnect
    BY <2>0, <2>x, <2>1 DEF UpConnect
  <2>2. CASE UpSend
    BY <2>0, <2>x, <2>2 DEF UpSend
  <2>3. CASE UpSendWithoutTls
    BY <2>0, <2>x, <2>3 DEF UpSendWithoutTls, NotFound
  <2>4. CASE UpPosted
    BY <2>0, <2>x, <2>4 DEF UpPosted
  <2>5. CASE UpFails
    BY <2>0, <2>x, <2>5 DEF UpFails, NotFound
  <2>6. CASE UpAnswered
    BY <2>0, <2>x, <2>6 DEF UpAnswered
  <2>7. CASE UpLeftEarly
    <3>1. answered' \in BOOLEAN
      BY <2>0, <2>x, <2>7 DEF UpLeftEarly
    <3> QED BY <2>0, <2>x, <2>7, <3>1 DEF UpLeftEarly
  <2>8. CASE UpClosedEarly
    BY <2>0, <2>x, <2>8 DEF UpClosedEarly
  <2>9. CASE UpParsed
    <3>1. answered' \in BOOLEAN
      BY <2>0, <2>x, <2>9 DEF UpParsed
    <3> QED BY <2>0, <2>x, <2>9, <3>1 DEF UpParsed
  <2>10. CASE UpTrailing
    BY <2>0, <2>x, <2>10 DEF UpTrailing, NotFound
  <2>11. CASE UpCallbackBits
    BY <2>0, <2>x, <2>11, GiveTypes DEF UpCallbackBits
  <2>12. CASE UpCallbackCode
    BY <2>0, <2>x, <2>12 DEF UpCallbackCode, Deliver
  <2>13. CASE UpCallbackReturns
    BY <2>0, <2>x, <2>13 DEF UpCallbackReturns
  <2>14. CASE UpErase
    <3>1. toErase' \subseteq Nat
      BY <2>14 DEF UpErase, Sectors
    <3> QED BY <2>0, <2>x, <2>14, <3>1 DEF UpErase
  <2>15. CASE UpEraseSector
    <3>1. toErase' \subseteq Nat /\ programmed' \subseteq Nat
      BY <2>15 DEF UpEraseSector
    <3> QED BY <2>0, <2>x, <2>15, <3>1 DEF UpEraseSector
  <2>16. CASE UpErased
    <3>1. skipped' \in BOOLEAN /\ overtaken' \in BOOLEAN
      BY <2>16 DEF UpErased
    <3> QED BY <2>0, <2>x, <2>16, <3>1 DEF UpErased
  <2> QED
    BY <1>5, <2>1, <2>2, <2>3, <2>4, <2>5, <2>6, <2>7, <2>8, <2>9, <2>10, <2>11, <2>12, <2>13,
       <2>14, <2>15, <2>16 DEF UploadTask
<1>6. CASE MainTask
  <2>1. CASE MainSeesResult
    BY <1>6, <2>1 DEF MainTask, MainSeesResult
  <2>2. CASE MainClearsFlag
    <3>1. rest_flag' \in BOOLEAN
      BY <1>6, <2>2 DEF MainTask, MainClearsFlag
    <3> QED BY <1>6, <2>2, <3>1 DEF MainTask, MainClearsFlag
  <2>3. CASE MainClearsCode
    BY <1>6, <2>3 DEF MainTask, MainClearsCode
  <2> QED BY <1>6, <2>1, <2>2, <2>3 DEF MainTask
<1>7. CASE PlayerTask
  <2>1. CASE Player!Begin
    BY <1>7, <2>1 DEF PlayerTask, Player!Begin
  <2>2. CASE Player!Finish
    <3>1. asked' \in BOOLEAN
      BY <1>7, <2>2 DEF PlayerTask, Player!Finish
    <3> QED BY <1>7, <2>2, <3>1 DEF PlayerTask, Player!Finish
  <2> QED BY <1>7, <2>1, <2>2 DEF PlayerTask
<1> QED BY <1>1, <1>2, <1>3, <1>4, <1>5, <1>6, <1>7 DEF Next

----------------------------------------------------------------------------
(* The lock is never lost.                                                 *)

\* A bit that is given is taken by a task that will give it back, or it is there.
LEMMA GivenOrThere ==
  ASSUME TypeOK, NEW b, NEW rest, GivePlayBit(b, rest)
  PROVE  "PLAY" \in rbits' \/ rpc' = "setup" \/ \E c \in Callers : FileStarting(c)'
<1>1. CASE rpc = "blocked"
  BY <1>1 DEF GivePlayBit
<1>2. CASE \E c \in Callers : Waits(c, "recTake")
  <2>1. PICK c \in Callers : Waits(c, "recTake")
    BY <1>2
  <2>2. todo[c] \in Remaining /\ Head(todo[c]) = "recTake"
    BY <2>1 DEF Waits, TypeOK
  <2>3. todo'[c] = Tail(todo[c])
    BY <2>1 DEF GivePlayBit, Waits
  <2>4. Starts(todo'[c])
    BY <2>2, <2>3, CallsKept DEF Kept
  <2> QED BY <2>4 DEF FileStarting, Starts
<1>3. CASE rpc # "blocked" /\ ~\E c \in Callers : Waits(c, "recTake")
  BY <1>3 DEF GivePlayBit
<1> QED BY <1>1, <1>2, <1>3

\* Every step keeps PlayBitComesBack: whoever takes the bit is a recording or about to be
\* one, and each of them ends in a step that gives it.
LEMMA PlayBitStep ==
  ASSUME TypeOK, PlayBitComesBack, Next
  PROVE  PlayBitComesBack'
<1> USE DEF PlayBitComesBack, VoiceRecording, Uploading, FileRecording, FileStarting, commandVars,
           playerVars, fileVars, flashVars, uploadVars
<1>1. ASSUME NEW c \in Callers, Command(c) PROVE PlayBitComesBack'
  <2>1. PICK name \in Commands \cup {"rest"} : Accept(c, name)
    BY <1>1 DEF Command
  <2>2. \A d \in Callers : todo[d] # <<>> => todo'[d] = todo[d]
    BY <2>1 DEF Accept, TypeOK
  <2> QED BY <2>1, <2>2 DEF Accept
<1>2. ASSUME NEW c \in Callers, CallerStep(c) PROVE PlayBitComesBack'
  <2>1. ASSUME NEW call, Makes(c, call), Returns(c) \/ Blocks(c),
               call \notin {"recTake", "recClear", "recCreate"}, UNCHANGED wpc,
               "PLAY" \in rbits => "PLAY" \in rbits'
        PROVE  PlayBitComesBack'
    <3>1. \A d \in Callers : Starts(todo[d]) => todo'[d] = todo[d]
      BY <2>1 DEF Makes, Returns, Blocks, Starts, TypeOK
    <3>2. UNCHANGED <<rpc, uploadVars>>
      BY <2>1 DEF Makes
    <3> QED BY <2>1, <3>1, <3>2 DEF Starts
  <2>2. CASE SetFlag(c)
    BY <2>1, <2>2 DEF SetFlag
  <2>3. CASE RecStop(c)
    BY <2>1, <2>3 DEF RecStop
  <2>4. CASE RecWait(c)
    BY <2>1, <2>4 DEF RecWait
  <2>5. CASE PlayStop(c)
    BY <2>1, <2>5 DEF PlayStop
  <2>6. CASE PlayWait(c)
    BY <2>1, <2>6 DEF PlayWait
  <2>7. CASE PlayStart(c)
    BY <2>1, <2>7 DEF PlayStart
  <2>8. CASE Give(c)
    BY <2>1, <2>8 DEF Give
  <2>9. CASE RecTake(c)
    <3>1. todo[c] \in Remaining /\ Head(todo[c]) = "recTake" /\ UNCHANGED <<wpc, rpc, uploadVars>>
      BY <2>9 DEF RecTake, Makes, TypeOK
    <3>2. CASE "PLAY" \in rbits
      <4>1. todo'[c] = Tail(todo[c])
        BY <2>9, <3>2 DEF RecTake, Returns, TypeOK
      <4>2. Starts(todo'[c])
        BY <3>1, <4>1, CallsKept DEF Kept
      <4> QED BY <4>2 DEF Starts
    <3>3. CASE "PLAY" \notin rbits
      BY <2>9, <3>1, <3>3 DEF RecTake, Blocks
    <3> QED BY <3>2, <3>3
  <2>10. CASE RecClear(c)
    <3>1. todo[c] \in Remaining /\ Head(todo[c]) = "recClear" /\ todo'[c] = Tail(todo[c])
      BY <2>10 DEF RecClear, Makes, Returns, TypeOK
    <3>2. Starts(todo'[c])
      BY <3>1, CallsKept DEF Kept
    <3> QED BY <3>2 DEF Starts
  <2>11. CASE RecCreate(c)
    BY <2>11 DEF RecCreate, TypeOK
  <2>12. CASE Refused(c)
    <3>1. ~Starts(todo[c])
      BY <2>12, CommandsKept DEF Refused
    <3>2. \A d \in Callers : Starts(todo[d]) => todo'[d] = todo[d]
      BY <2>12, <3>1 DEF Refused, TypeOK
    <3> QED BY <2>12, <3>2 DEF Refused, Starts
  <2> QED
    BY <1>2, <2>2, <2>3, <2>4, <2>5, <2>6, <2>7, <2>8, <2>9, <2>10, <2>11, <2>12 DEF CallerStep
<1>3. ASSUME NEW w \in Writers, FileTask(w) PROVE PlayBitComesBack'
  <2>1. CASE FileHeader(w)
    BY <1>3, <2>1 DEF FileTask, FileHeader, TypeOK
  <2>2. CASE FileLoop(w)
    BY <1>3, <2>2 DEF FileTask, FileLoop, TypeOK
  <2>3. CASE FileRead(w)
    BY <1>3, <2>3 DEF FileTask, FileRead, TypeOK
  <2>4. CASE FileExit(w)
    BY <2>4, GivenOrThere DEF FileExit
  <2> QED BY <1>3, <2>1, <2>2, <2>3, <2>4 DEF FileTask
<1>4. CASE RestTask
  <2> USE DEF RestGoes
  <2>0. UNCHANGED <<playerVars, fileVars, answered, upc, ucode, uret, cut>>
    BY <1>4 DEF RestTask
  <2>1. CASE RestTake
    BY <2>0, <2>1 DEF RestTake
  <2>2. CASE RestWait
    BY <2>0, <2>2 DEF RestWait
  <2>3. CASE RestSetup
    BY <2>0, <2>3 DEF RestSetup
  <2>4. CASE RestDetect
    BY <2>0, <2>4 DEF RestDetect
  <2>5. CASE RestNoVoice
    BY <2>5, GivenOrThere DEF RestNoVoice
  <2>6. CASE RestNoVoiceCode
    BY <2>0, <2>6 DEF RestNoVoiceCode, Deliver
  <2>7. CASE RestNoVoiceDelay
    BY <2>0, <2>7 DEF RestNoVoiceDelay
  <2>8. CASE RestConn
    BY <2>0, <2>8 DEF RestConn
  <2>9. CASE RestBegin
    BY <2>0, <2>9 DEF RestBegin
  <2>10. CASE RestWrite
    BY <2>0, <2>10 DEF RestWrite
  <2>11. CASE RestFinish
    BY <2>0, <2>11 DEF RestFinish
  <2>12. CASE RestSend
    BY <2>0, <2>12 DEF RestSend
  <2>13. CASE RestPost
    BY <2>0, <2>13 DEF RestPost
  <2> QED
    BY <1>4, <2>1, <2>2, <2>3, <2>4, <2>5, <2>6, <2>7, <2>8, <2>9, <2>10, <2>11, <2>12, <2>13
       DEF RestTask
<1>5. CASE UploadTask
  <2> USE DEF UpGoes, Callback
  <2>0. UNCHANGED <<playerVars, notified, fileVars>> /\ (cut => cut')
    BY <1>5 DEF UploadTask, UpClosedEarly, UpLeftEarly
  <2>1. CASE UpConnect
    BY <2>0, <2>1 DEF UpConnect
  <2>2. CASE UpSend
    BY <2>0, <2>2 DEF UpSend
  <2>3. CASE UpSendWithoutTls
    BY <2>0, <2>3 DEF UpSendWithoutTls
  <2>4. CASE UpPosted
    BY <2>0, <2>4 DEF UpPosted
  <2>5. CASE UpFails
    BY <2>0, <2>5 DEF UpFails
  <2>6. CASE UpAnswered
    BY <2>0, <2>6 DEF UpAnswered
  <2>7. CASE UpLeftEarly
    BY <2>7 DEF UpLeftEarly
  <2>8. CASE UpClosedEarly
    BY <2>8 DEF UpClosedEarly
  <2>9. CASE UpParsed
    BY <2>0, <2>9 DEF UpParsed
  <2>10. CASE UpTrailing
    BY <2>0, <2>10 DEF UpTrailing
  <2>11. CASE UpCallbackBits
    BY <2>11, GivenOrThere DEF UpCallbackBits
  <2>12. CASE UpCallbackCode
    BY <2>0, <2>12 DEF UpCallbackCode, Deliver
  <2>13. CASE UpCallbackReturns
    BY <2>0, <2>13 DEF UpCallbackReturns
  <2>14. CASE UpErase
    BY <2>0, <2>14 DEF UpErase
  <2>15. CASE UpEraseSector
    BY <2>0, <2>15 DEF UpEraseSector
  <2>16. CASE UpErased
    BY <2>0, <2>16 DEF UpErased
  <2> QED
    BY <1>5, <2>1, <2>2, <2>3, <2>4, <2>5, <2>6, <2>7, <2>8, <2>9, <2>10, <2>11, <2>12, <2>13,
       <2>14, <2>15, <2>16 DEF UploadTask
<1>6. CASE MainTask
  BY <1>6 DEF MainTask, MainSeesResult, MainClearsFlag, MainClearsCode
<1>7. CASE PlayerTask
  BY <1>7 DEF PlayerTask
<1> QED BY <1>1, <1>2, <1>3, <1>4, <1>5, <1>6, <1>7 DEF Next

\* Initially nothing is under way and the bit is there.
LEMMA TypeInit == Init => TypeOK /\ PlayBitComesBack
<1> SUFFICES ASSUME Init PROVE TypeOK /\ PlayBitComesBack
  OBVIOUS
<1>1. {rest_flag, asked, notified, skipped, overtaken, answered, cut} \subseteq BOOLEAN
  BY DEF Init, Player!Init
<1>2. /\ rest_code \in Int /\ mpc \in {"poll", "delay", "flagged"}
      /\ todo \in [Callers -> Remaining \cup {<<>>}] /\ blocked = {}
      /\ player \in {"stop", "request", "start"}
      /\ rbits \subseteq {"PLAY", "STOP", "DETECT", "POST"} /\ rpc \in RecorderLabels
  BY DEF Init, Player!Init, RecorderLabels
<1>3. /\ wpc \in [Writers -> {"free", "header", "loop", "read", "exit"}] /\ record_time \in Nat
      /\ written \in Nat /\ data_size \in Nat /\ programmed \subseteq Nat
      /\ toErase \subseteq Nat
      /\ ubits \subseteq {"CONNECT", "SEND"} /\ upc \in UploaderLabels
      /\ ucode \in Int /\ uret \in {"idle", "erase", "parsed", "again"}
  BY DEF Init, UploaderLabels
<1>4. TypeOK
  BY <1>1, <1>2, <1>3 DEF TypeOK
<1>5. PlayBitComesBack
  BY DEF Init, PlayBitComesBack
<1> QED BY <1>4, <1>5

\* The types hold in every reachable state, with and without the button.
LEMMA TypeAlways == Spec => []TypeOK
<1>1. TypeOK /\ [Next]_vars => TypeOK'
  <2> SUFFICES ASSUME TypeOK, UNCHANGED vars PROVE TypeOK'
    BY TypeStep
  <2> QED BY DEF TypeOK, vars, commandVars, playerVars, fileVars, flashVars, uploadVars
<1> QED BY TypeInit, <1>1, PTL DEF Spec

\* With and without the button, whatever the server does: the PLAY bit of record_event_group
\* comes back from every recording and upload, but for the answer that is cut off.
THEOREM PlayBitComesBackAlways == Spec => []PlayBitComesBack
<1>1. TypeOK /\ PlayBitComesBack /\ [Next]_vars => PlayBitComesBack'
  <2> SUFFICES ASSUME PlayBitComesBack, UNCHANGED vars PROVE PlayBitComesBack'
    BY PlayBitStep
  <2> QED BY DEF PlayBitComesBack, VoiceRecording, Uploading, FileRecording, FileStarting, vars,
                 commandVars, playerVars, fileVars, flashVars, uploadVars
<1> QED BY TypeInit, TypeAlways, <1>1, PTL DEF Spec

----------------------------------------------------------------------------
(* One request at a time.                                                  *)

\* The conditions under which the codec has one user: commands come from one task, and the
\* parser does not fail on what follows an answer.
OneCaller == Button = {} /\ ~Trailing

\* The hands a voice request goes through: the command, the notification, the recorder, the
\* uploader, and the result that the main loop has not taken.
Asking == \E c \in Callers : todo[c] \in Asks
Given == notified \/ rpc \in {"wait", "blocked"}
Recording == VoiceRecording \/ rpc = "noVoiceCode"
InUpload == "SEND" \in ubits \/ upc \in {"post", "recv", "cbBits", "cbCode"}
Result == rest_code # 0 /\ mpc # "flagged"

\* It is in one of them, and meanwhile rest_flag is set.
RequestInv ==
  /\ Asking => rest_flag /\ ~Given /\ ~Recording /\ ~InUpload /\ ~Result
  /\ Given => rest_flag /\ ~Recording /\ ~InUpload /\ ~Result
  /\ Recording => rest_flag /\ ~InUpload /\ ~Result
  /\ InUpload => rest_flag /\ ~Result
  /\ Result => rest_flag
  /\ \A c \in Callers : todo[c] \in Others => ~rest_flag
  /\ mpc = "delay" => rest_code # 0
  /\ ~(notified /\ rpc \in {"wait", "blocked"})
  /\ ~("SEND" \in ubits /\ upc \in {"post", "recv", "cbBits", "cbCode"})
  /\ uret # "again"

\* A caller that is woken goes on with the command it was in.
LEMMA GivenGoesOn ==
  ASSUME TypeOK, NEW b, NEW rest, GivePlayBit(b, rest)
  PROVE  /\ \A c \in Callers : /\ todo'[c] \in Asks => todo[c] \in Asks
                               /\ todo'[c] \in Others => todo[c] \in Others
         /\ rpc' = IF rpc = "blocked" THEN "setup" ELSE rest
<1>1. ASSUME NEW c \in Callers
      PROVE  /\ todo'[c] \in Asks => todo[c] \in Asks
             /\ todo'[c] \in Others => todo[c] \in Others
  <2>1. CASE todo'[c] = todo[c]
    BY <2>1
  <2>2. CASE todo'[c] # todo[c]
    <3>1. todo'[c] = Tail(todo[c]) /\ c \in blocked /\ Head(todo[c]) \in {"recWait", "recTake"}
      BY <2>2 DEF GivePlayBit
    <3>2. todo[c] \in Remaining
      BY <3>1 DEF TypeOK
    <3> QED BY <3>1, <3>2, CallsKept, CommandsKept DEF Kept, Remaining
  <2> QED BY <2>1, <2>2
<1> QED BY <1>1 DEF GivePlayBit

\* Every step keeps RequestInv: the request is handed on, and the flag is cleared only when the
\* result has been there, although the uploader may still be to erase the flash.
LEMMA RequestStep ==
  ASSUME OneCaller, TypeOK, RequestInv, Next
  PROVE  RequestInv'
<1> USE DEF RequestInv, Asking, Given, Recording, VoiceRecording, InUpload, Result,
           commandVars, playerVars, fileVars, flashVars, uploadVars
<1>0. /\ \A c, d \in Callers : c = d
      /\ Trailing = FALSE
  BY VoiceAssumption DEF OneCaller, Callers
<1>1. ASSUME NEW c \in Callers, Command(c) PROVE RequestInv'
  <2>1. PICK name \in Commands \cup {"rest"} : Accept(c, name)
    BY <1>1 DEF Command
  <2>2. todo'[c] \in Others /\ todo'[c] \notin Asks
    BY <2>1, CommandsKept, CallsKept DEF Accept, TypeOK, Kept, Remaining
  <2>3. ~rest_flag /\ UNCHANGED <<rest_flag, rest_code, mpc, notified, rpc, uploadVars>>
    BY <2>1 DEF Accept
  <2> QED BY <1>0, <2>2, <2>3
<1>2. ASSUME NEW c \in Callers, CallerStep(c) PROVE RequestInv'
  <2>0. /\ todo[c] # <<>> => Kept(todo[c]) /\ todo[c] \in Asks \cup Others
        /\ <<>> \notin Asks \cup Others
    BY CallsKept, CommandsKept DEF TypeOK, Remaining
  <2>1. ASSUME NEW call, Makes(c, call), Returns(c) \/ Blocks(c), call \notin {"setFlag", "give"},
               UNCHANGED <<rest_flag, notified>>
        PROVE  RequestInv'
    <3>1. /\ todo'[c] \in Asks => todo[c] \in Asks
          /\ todo'[c] \in Others => todo[c] \in Others
      <4>1. CASE Returns(c)
        <5>1. todo'[c] = Tail(todo[c]) /\ todo[c] # <<>> /\ Head(todo[c]) # "setFlag"
          BY <2>1, <4>1 DEF Makes, Returns, TypeOK
        <5> QED BY <2>0, <5>1, CallsKept DEF Kept, Remaining
      <4>2. CASE Blocks(c)
        BY <4>2 DEF Blocks
      <4> QED BY <2>1, <4>1, <4>2
    <3>2. UNCHANGED <<rest_flag, rest_code, mpc, notified, rpc, uploadVars>>
      BY <2>1 DEF Makes
    <3> QED BY <1>0, <3>1, <3>2
  <2>2. CASE SetFlag(c)
    <3>1. todo[c] \in Others /\ todo'[c] \in Asks /\ todo'[c] \notin Others
      BY <2>0, <2>2, CallsKept DEF SetFlag, Makes, Returns, TypeOK, Kept, Remaining
    <3>2. ~rest_flag /\ rest_flag' /\ UNCHANGED <<rest_code, mpc, notified, rpc, uploadVars>>
      BY <2>2, <3>1 DEF SetFlag, Makes
    <3> QED BY <1>0, <3>1, <3>2
  <2>3. CASE RecStop(c)
    BY <2>1, <2>3 DEF RecStop
  <2>4. CASE RecWait(c)
    BY <2>1, <2>4 DEF RecWait
  <2>5. CASE PlayStop(c)
    BY <2>1, <2>5 DEF PlayStop
  <2>6. CASE PlayWait(c)
    BY <2>1, <2>6 DEF PlayWait
  <2>7. CASE PlayStart(c)
    BY <2>1, <2>7 DEF PlayStart
  <2>8. CASE Give(c)
    <3>1. todo[c] \in Asks /\ todo'[c] \notin Asks \cup Others
      BY <2>0, <2>8 DEF Give, Makes, Returns, TypeOK, Kept
    <3>2. notified' /\ UNCHANGED <<rest_flag, rest_code, mpc, rpc, uploadVars>>
      BY <2>8 DEF Give, Makes
    <3> QED BY <1>0, <3>1, <3>2
  <2>9. CASE RecTake(c)
    BY <2>1, <2>9 DEF RecTake
  <2>10. CASE RecClear(c)
    BY <2>1, <2>10 DEF RecClear
  <2>11. CASE RecCreate(c)
    BY <2>1, <2>11 DEF RecCreate
  <2>12. CASE Refused(c)
    <3>1. todo'[c] \notin Asks \cup Others
      BY <2>0, <2>12 DEF Refused, TypeOK
    <3>2. UNCHANGED <<rest_flag, rest_code, mpc, notified, rpc, uploadVars>>
      BY <2>12 DEF Refused
    <3> QED BY <1>0, <3>1, <3>2
  <2> QED
    BY <1>2, <2>2, <2>3, <2>4, <2>5, <2>6, <2>7, <2>8, <2>9, <2>10, <2>11, <2>12 DEF CallerStep
<1>3. ASSUME NEW w \in Writers, FileTask(w) PROVE RequestInv'
  <2>1. CASE FileExit(w)
    <3>1. UNCHANGED <<rest_flag, rest_code, mpc, notified, uploadVars>>
      BY <1>3, <2>1 DEF FileTask, FileExit
    <3>2. /\ \A c \in Callers : /\ todo'[c] \in Asks => todo[c] \in Asks
                                /\ todo'[c] \in Others => todo[c] \in Others
          /\ rpc' = IF rpc = "blocked" THEN "setup" ELSE rpc
      BY <2>1, GivenGoesOn DEF FileExit
    <3> QED BY <3>1, <3>2
  <2>2. CASE ~FileExit(w)
    <3>1. UNCHANGED <<commandVars, notified, rpc, uploadVars>>
      BY <1>3, <2>2 DEF FileTask, FileHeader, FileLoop, FileRead
    <3> QED BY <3>1
  <2> QED BY <2>1, <2>2
<1>4. CASE RestTask
  <2> USE DEF RestGoes
  <2>0. UNCHANGED <<playerVars, fileVars, answered, upc, ucode, uret, cut>>
    BY <1>4 DEF RestTask
  <2>1. CASE RestTake
    BY <2>0, <2>1 DEF RestTake
  <2>2. CASE RestWait
    BY <2>0, <2>2 DEF RestWait
  <2>3. CASE RestSetup
    BY <2>0, <2>3 DEF RestSetup
  <2>4. CASE RestDetect
    BY <2>0, <2>4 DEF RestDetect
  <2>5. CASE RestNoVoice
    <3>1. rpc = "noVoice" /\ UNCHANGED <<rest_flag, rest_code, mpc, notified, ubits>>
      BY <2>5 DEF RestNoVoice
    <3>2. /\ \A c \in Callers : /\ todo'[c] \in Asks => todo[c] \in Asks
                                /\ todo'[c] \in Others => todo[c] \in Others
          /\ rpc' = "noVoiceCode"
      BY <2>5, <3>1, GivenGoesOn DEF RestNoVoice
    <3> QED BY <2>0, <3>1, <3>2
  <2>6. CASE RestNoVoiceCode
    BY <2>0, <2>6 DEF RestNoVoiceCode, Deliver, TypeOK
  <2>7. CASE RestNoVoiceDelay
    BY <2>0, <2>7 DEF RestNoVoiceDelay
  <2>8. CASE RestConn
    BY <2>0, <2>8 DEF RestConn
  <2>9. CASE RestBegin
    BY <2>0, <2>9 DEF RestBegin
  <2>10. CASE RestWrite
    BY <2>0, <2>10 DEF RestWrite
  <2>11. CASE RestFinish
    BY <2>0, <2>11 DEF RestFinish
  <2>12. CASE RestSend
    BY <2>0, <2>12 DEF RestSend
  <2>13. CASE RestPost
    BY <2>0, <2>13 DEF RestPost
  <2> QED
    BY <1>4, <2>1, <2>2, <2>3, <2>4, <2>5, <2>6, <2>7, <2>8, <2>9, <2>10, <2>11, <2>12, <2>13
       DEF RestTask
<1>5. CASE UploadTask
  <2> USE DEF UpGoes, Callback
  <2>0. UNCHANGED <<playerVars, notified, fileVars>>
    BY <1>5 DEF UploadTask
  <2>1. CASE UpConnect
    BY <2>0, <2>1 DEF UpConnect
  <2>2. CASE UpSend
    BY <2>0, <2>2 DEF UpSend
  <2>3. CASE UpSendWithoutTls
    BY <2>0, <2>3 DEF UpSendWithoutTls
  <2>4. CASE UpPosted
    BY <2>0, <2>4 DEF UpPosted
  <2>5. CASE UpFails
    BY <2>0, <2>5 DEF UpFails
  <2>6. CASE UpAnswered
    BY <2>0, <2>6 DEF UpAnswered
  <2>7. CASE UpLeftEarly
    BY <2>0, <2>7 DEF UpLeftEarly
  <2>8. CASE UpClosedEarly
    BY <2>0, <2>8 DEF UpClosedEarly
  <2>9. CASE UpParsed
    BY <2>0, <2>9 DEF UpParsed
  <2>10. CASE UpTrailing
    BY <1>0, <2>10 DEF UpTrailing
  <2>11. CASE UpCallbackBits
    <3>1. upc = "cbBits" /\ upc' = "cbCode"
          /\ UNCHANGED <<rest_flag, rest_code, mpc, ubits, uret>>
      BY <2>11 DEF UpCallbackBits
    <3>2. /\ \A c \in Callers : /\ todo'[c] \in Asks => todo[c] \in Asks
                                /\ todo'[c] \in Others => todo[c] \in Others
          /\ rpc' = rpc
      BY <2>11, <3>1, GivenGoesOn DEF UpCallbackBits
    <3> QED BY <2>0, <3>1, <3>2
  <2>12. CASE UpCallbackCode
    BY <2>0, <2>12 DEF UpCallbackCode, Deliver, TypeOK
  <2>13. CASE UpCallbackReturns
    BY <2>0, <2>13 DEF UpCallbackReturns, TypeOK
  <2>14. CASE UpErase
    BY <2>0, <2>14 DEF UpErase
  <2>15. CASE UpEraseSector
    BY <2>0, <2>15 DEF UpEraseSector
  <2>16. CASE UpErased
    BY <2>0, <2>16 DEF UpErased
  <2> QED
    BY <1>5, <2>1, <2>2, <2>3, <2>4, <2>5, <2>6, <2>7, <2>8, <2>9, <2>10, <2>11, <2>12, <2>13,
       <2>14, <2>15, <2>16 DEF UploadTask
<1>6. CASE MainTask
  <2>1. UNCHANGED <<todo, notified, rpc, uploadVars>>
    BY <1>6 DEF MainTask, MainSeesResult, MainClearsFlag, MainClearsCode
  <2>2. CASE MainSeesResult
    BY <2>1, <2>2 DEF MainSeesResult
  <2>3. CASE MainClearsFlag
    BY <2>1, <2>3 DEF MainClearsFlag
  <2>4. CASE MainClearsCode
    BY <2>1, <2>4 DEF MainClearsCode
  <2> QED BY <1>6, <2>2, <2>3, <2>4 DEF MainTask
<1>7. CASE PlayerTask
  BY <1>7 DEF PlayerTask
<1> QED BY <1>1, <1>2, <1>3, <1>4, <1>5, <1>6, <1>7 DEF Next

----------------------------------------------------------------------------
(* One recording at a time.                                                *)

\* Nobody but a caller of wav_record_stop() ever waits for the bit: the others find it there.
LockInv ==
  /\ OneRecording
  /\ \A c \in Callers : todo[c] \in LockSeen => "PLAY" \in rbits
  /\ Given => "PLAY" \in rbits
  /\ rpc # "blocked"
  /\ \A c \in blocked : Head(todo[c]) = "recWait"

\* So a bit that is given is there.
LEMMA GivenIsThere ==
  ASSUME TypeOK, LockInv, NEW b, NEW rest, GivePlayBit(b, rest)
  PROVE  /\ rbits' = b \cup {"PLAY"} /\ rpc' = rest /\ blocked' = {}
         /\ \A c \in Callers : /\ Starts(todo'[c]) => Starts(todo[c])
                               /\ todo'[c] \in SilenceSeen => todo[c] \in SilenceSeen
<1>1. ~\E c \in Callers : Waits(c, "recTake")
  BY DEF Waits, LockInv
<1>2. ASSUME NEW c \in Callers
      PROVE  /\ Starts(todo'[c]) => Starts(todo[c])
             /\ todo'[c] \in SilenceSeen => todo[c] \in SilenceSeen
  <2>1. CASE todo'[c] = todo[c]
    BY <2>1
  <2>2. CASE todo'[c] # todo[c]
    <3>1. todo'[c] = Tail(todo[c]) /\ c \in blocked /\ Head(todo[c]) = "recWait"
      BY <2>2 DEF GivePlayBit, LockInv
    <3>2. todo[c] \in Remaining
      BY <3>1 DEF TypeOK
    <3> QED BY <3>1, <3>2, CallsKept DEF Kept
  <2> QED BY <2>1, <2>2
<1> QED BY <1>1, <1>2 DEF GivePlayBit, LockInv

\* Every step keeps the lock: the bit is with one task, and a request finds it there from the
\* return of its wav_record_stop() on, because RequestInv keeps the others out.
LEMMA LockStep ==
  ASSUME OneCaller, TypeOK, RequestInv, LockInv, Next
  PROVE  LockInv'
<1> USE DEF LockInv, OneRecording, Given, VoiceRecording, FileRecording, Uploading, FileStarting,
           commandVars, playerVars, fileVars, flashVars, uploadVars
<1>0. /\ \A c, d \in Callers : c = d
      /\ \A c \in Callers : FileStarting(c) <=> Starts(todo[c])
      /\ \A c \in Callers : FileStarting(c)' <=> Starts(todo'[c])
      /\ blocked \subseteq Callers
  BY VoiceAssumption DEF OneCaller, Callers, Starts, TypeOK
<1>1. ASSUME NEW c \in Callers, Command(c) PROVE LockInv'
  <2>1. PICK name \in Commands \cup {"rest"} : Accept(c, name)
    BY <1>1 DEF Command
  <2>2. todo'[c] \notin LockSeen /\ ~Starts(todo'[c]) /\ c \notin blocked
    BY <2>1, CommandsKept DEF Accept, TypeOK
  <2>3. UNCHANGED <<notified, rpc, rbits, blocked, fileVars, uploadVars>>
    BY <2>1 DEF Accept
  <2> QED BY <1>0, <2>2, <2>3
<1>2. ASSUME NEW c \in Callers, CallerStep(c) PROVE LockInv'
  <2>0. /\ todo[c] # <<>> => Kept(todo[c]) /\ todo[c] \in Asks \cup Others
        /\ <<>> \notin LockSeen /\ ~Starts(<<>>)
    BY CallsKept, CommandsKept DEF TypeOK, Remaining
  <2>1. ASSUME NEW call, Makes(c, call), Returns(c),
               call \notin {"recWait", "recTake", "recClear", "recCreate", "give"},
               UNCHANGED <<notified, wpc>>, "PLAY" \in rbits <=> "PLAY" \in rbits'
        PROVE  LockInv'
    <3>1. todo'[c] = Tail(todo[c]) /\ todo[c] # <<>> /\ Head(todo[c]) = call /\ c \notin blocked
      BY <2>1 DEF Makes, Returns, TypeOK
    <3>2. /\ todo'[c] \in LockSeen => todo[c] \in LockSeen
          /\ ~Starts(todo'[c]) /\ ~Starts(todo[c])
      BY <2>0, <2>1, <3>1 DEF Kept, Starts
    <3>3. UNCHANGED <<rpc, blocked, uploadVars>>
      BY <2>1 DEF Makes, Returns
    <3> QED BY <1>0, <2>1, <3>1, <3>2, <3>3
  <2>2. CASE SetFlag(c)
    BY <2>1, <2>2 DEF SetFlag
  <2>3. CASE RecStop(c)
    BY <2>1, <2>3 DEF RecStop
  <2>4. CASE RecWait(c)
    <3>1. /\ todo[c] # <<>> /\ Head(todo[c]) = "recWait" /\ c \notin blocked
          /\ UNCHANGED <<notified, rbits, rpc, wpc, uploadVars>>
      BY <2>4 DEF RecWait, Makes
    <3>2. CASE "PLAY" \in rbits
      <4>1. todo'[c] = Tail(todo[c]) /\ UNCHANGED blocked
        BY <2>4, <3>2 DEF RecWait, Returns, TypeOK
      <4>2. ~Starts(todo'[c])
        BY <2>0, <3>1, <4>1 DEF Kept
      <4> QED BY <1>0, <3>1, <3>2, <4>1, <4>2
    <3>3. CASE "PLAY" \notin rbits
      <4>1. blocked' = blocked \cup {c} /\ UNCHANGED todo
        BY <2>4, <3>3 DEF RecWait, Blocks
      <4> QED BY <1>0, <3>1, <3>3, <4>1
    <3> QED BY <3>2, <3>3
  <2>5. CASE PlayStop(c)
    BY <2>1, <2>5 DEF PlayStop
  <2>6. CASE PlayWait(c)
    BY <2>1, <2>6 DEF PlayWait
  <2>7. CASE PlayStart(c)
    BY <2>1, <2>7 DEF PlayStart
  <2>8. CASE Give(c)
    <3>1. /\ todo[c] # <<>> /\ Head(todo[c]) = "give" /\ todo'[c] = Tail(todo[c])
          /\ c \notin blocked /\ UNCHANGED <<blocked, rbits, rpc, wpc, uploadVars>>
      BY <2>8 DEF Give, Makes, Returns, TypeOK
    <3>2. todo[c] \in LockSeen /\ todo'[c] = <<>>
      BY <2>0, <3>1 DEF Kept
    <3> QED BY <1>0, <2>0, <3>1, <3>2
  <2>9. CASE RecTake(c)
    <3>1. /\ todo[c] # <<>> /\ Head(todo[c]) = "recTake" /\ c \notin blocked
          /\ rbits' = rbits \ {"PLAY"} /\ UNCHANGED <<notified, rpc, wpc, uploadVars>>
      BY <2>9 DEF RecTake, Makes
    <3>2. todo[c] \in LockSeen \cap Others /\ Starts(Tail(todo[c])) /\ Tail(todo[c]) \in Remaining
      BY <2>0, <3>1, CallsKept DEF Kept, Starts
    <3>3. "PLAY" \in rbits /\ ~Given
      BY <3>2 DEF RequestInv
    <3>4. todo'[c] = Tail(todo[c]) /\ UNCHANGED blocked
      BY <2>9, <3>3 DEF RecTake, Returns, TypeOK
    <3>5. todo'[c] \notin LockSeen
      BY <3>2, <3>4, CallsKept DEF Kept
    <3> QED BY <1>0, <3>1, <3>2, <3>3, <3>4, <3>5
  <2>10. CASE RecClear(c)
    <3>1. /\ todo[c] # <<>> /\ Head(todo[c]) = "recClear" /\ todo'[c] = Tail(todo[c])
          /\ c \notin blocked /\ rbits' = rbits \ {"STOP"}
          /\ UNCHANGED <<blocked, notified, rpc, wpc, uploadVars>>
      BY <2>10 DEF RecClear, Makes, Returns, TypeOK
    <3>2. Starts(todo[c]) /\ Starts(todo'[c]) /\ todo'[c] \in Remaining
      BY <2>0, <3>1 DEF Kept, Starts
    <3>3. todo'[c] \notin LockSeen
      BY <3>2, CallsKept DEF Kept
    <3> QED BY <1>0, <3>1, <3>2, <3>3
  <2>11. CASE RecCreate(c)
    <3>1. /\ todo[c] # <<>> /\ Head(todo[c]) = "recCreate" /\ todo'[c] = Tail(todo[c])
          /\ c \notin blocked /\ rbits' = rbits \cup {"DETECT"}
          /\ UNCHANGED <<blocked, notified, rpc, uploadVars>>
      BY <2>11 DEF RecCreate, Makes, Returns, TypeOK
    <3>2. PICK w \in Writers : wpc[w] = "free" /\ wpc' = [wpc EXCEPT ![w] = "header"]
      BY <2>11 DEF RecCreate
    <3>3. Starts(todo[c]) /\ todo'[c] = <<>>
      BY <2>0, <3>1 DEF Kept, Starts
    <3> QED BY <1>0, <2>0, <3>1, <3>2, <3>3
  <2>12. CASE Refused(c)
    <3>1. /\ todo'[c] = <<>> /\ c \notin blocked
          /\ UNCHANGED <<rbits, notified, rpc, blocked, wpc, uploadVars>>
      BY <2>12 DEF Refused, TypeOK
    <3> QED BY <1>0, <2>0, <3>1
  <2> QED
    BY <1>2, <2>2, <2>3, <2>4, <2>5, <2>6, <2>7, <2>8, <2>9, <2>10, <2>11, <2>12 DEF CallerStep
<1>3. ASSUME NEW w \in Writers, FileTask(w) PROVE LockInv'
  <2>0. UNCHANGED <<notified, uploadVars>>
    BY <1>3 DEF FileTask
  <2>1. CASE FileHeader(w)
    BY <2>0, <2>1 DEF FileHeader, TypeOK
  <2>2. CASE FileLoop(w)
    BY <2>0, <2>2 DEF FileLoop, TypeOK
  <2>3. CASE FileRead(w)
    BY <2>0, <2>3 DEF FileRead, TypeOK
  <2>4. CASE FileExit(w)
    <3>1. /\ wpc[w] = "exit" /\ wpc' = [wpc EXCEPT ![w] = "free"]
          /\ rbits' = rbits \cup {"PLAY"} /\ rpc' = rpc /\ blocked' = {}
          /\ \A c \in Callers : Starts(todo'[c]) => Starts(todo[c])
      BY <2>4, GivenIsThere DEF FileExit
    <3> QED BY <1>0, <2>0, <3>1 DEF TypeOK
  <2> QED BY <1>3, <2>1, <2>2, <2>3, <2>4 DEF FileTask
<1>4. CASE RestTask
  <2> USE DEF RestGoes
  <2>0. UNCHANGED <<playerVars, fileVars, answered, upc, ucode, uret, cut>>
    BY <1>4 DEF RestTask
  <2>1. CASE RestTake
    BY <2>0, <2>1 DEF RestTake
  <2>2. CASE RestWait
    <3>1. /\ rpc = "wait" /\ "PLAY" \in rbits /\ rpc' = "setup" /\ rbits' = rbits \ {"PLAY"}
          /\ UNCHANGED <<todo, blocked, notified, ubits>>
      BY <2>2 DEF RestWait
    <3>2. \A c \in Callers : todo[c] \notin LockSeen
      <4>1. \A c \in Callers : todo[c] \notin Asks \cup Others
        BY <3>1 DEF RequestInv, Asking
      <4> QED BY <4>1, CommandsKept DEF TypeOK, Remaining
    <3>3. ~notified'
      BY <3>1 DEF RequestInv
    <3> QED BY <2>0, <3>1, <3>2, <3>3
  <2>3. CASE RestSetup
    BY <2>0, <2>3 DEF RestSetup
  <2>4. CASE RestDetect
    BY <2>0, <2>4 DEF RestDetect
  <2>5. CASE RestNoVoice
    <3>1. /\ rpc = "noVoice" /\ rpc' = "noVoiceCode"
          /\ rbits' = (rbits \ {"POST"}) \cup {"PLAY"} /\ blocked' = {}
          /\ \A c \in Callers : Starts(todo'[c]) => Starts(todo[c])
          /\ UNCHANGED <<notified, ubits>>
      BY <2>5, GivenIsThere DEF RestNoVoice
    <3> QED BY <1>0, <2>0, <3>1
  <2>6. CASE RestNoVoiceCode
    BY <2>0, <2>6 DEF RestNoVoiceCode, Deliver
  <2>7. CASE RestNoVoiceDelay
    BY <2>0, <2>7 DEF RestNoVoiceDelay
  <2>8. CASE RestConn
    BY <2>0, <2>8 DEF RestConn
  <2>9. CASE RestBegin
    BY <2>0, <2>9 DEF RestBegin
  <2>10. CASE RestWrite
    BY <2>0, <2>10 DEF RestWrite
  <2>11. CASE RestFinish
    BY <2>0, <2>11 DEF RestFinish
  <2>12. CASE RestSend
    BY <2>0, <2>12 DEF RestSend
  <2>13. CASE RestPost
    BY <2>0, <2>13 DEF RestPost
  <2> QED
    BY <1>4, <2>1, <2>2, <2>3, <2>4, <2>5, <2>6, <2>7, <2>8, <2>9, <2>10, <2>11, <2>12, <2>13
       DEF RestTask
<1>5. CASE UploadTask
  <2> USE DEF UpGoes, Callback
  <2>0. UNCHANGED <<playerVars, notified, fileVars>>
    BY <1>5 DEF UploadTask
  <2>1. CASE UpConnect
    BY <2>0, <2>1 DEF UpConnect
  <2>2. CASE UpSend
    BY <2>0, <2>2 DEF UpSend
  <2>3. CASE UpSendWithoutTls
    BY <2>0, <2>3 DEF UpSendWithoutTls
  <2>4. CASE UpPosted
    BY <2>0, <2>4 DEF UpPosted
  <2>5. CASE UpFails
    BY <2>0, <2>5 DEF UpFails
  <2>6. CASE UpAnswered
    BY <2>0, <2>6 DEF UpAnswered
  <2>7. CASE UpLeftEarly
    BY <2>0, <2>7 DEF UpLeftEarly
  <2>8. CASE UpClosedEarly
    BY <2>0, <2>8 DEF UpClosedEarly
  <2>9. CASE UpParsed
    BY <2>0, <2>9 DEF UpParsed
  <2>10. CASE UpTrailing
    BY <2>10 DEF UpTrailing, OneCaller
  <2>11. CASE UpCallbackBits
    <3>1. /\ upc = "cbBits" /\ upc' = "cbCode" /\ rpc' = rpc
          /\ rbits' = (rbits \ {"POST"}) \cup {"PLAY"} /\ blocked' = {}
          /\ \A c \in Callers : Starts(todo'[c]) => Starts(todo[c])
          /\ UNCHANGED <<ubits, uret>>
      BY <2>11, GivenIsThere DEF UpCallbackBits
    <3>2. uret # "again" /\ "SEND" \notin ubits
      BY <3>1 DEF RequestInv
    <3> QED BY <1>0, <2>0, <3>1, <3>2
  <2>12. CASE UpCallbackCode
    BY <2>0, <2>12 DEF UpCallbackCode, Deliver
  <2>13. CASE UpCallbackReturns
    <3>1. uret \in {"idle", "erase", "parsed"}
      BY DEF TypeOK, RequestInv
    <3> QED BY <2>0, <2>13, <3>1 DEF UpCallbackReturns
  <2>14. CASE UpErase
    BY <2>0, <2>14 DEF UpErase
  <2>15. CASE UpEraseSector
    BY <2>0, <2>15 DEF UpEraseSector
  <2>16. CASE UpErased
    BY <2>0, <2>16 DEF UpErased
  <2> QED
    BY <1>5, <2>1, <2>2, <2>3, <2>4, <2>5, <2>6, <2>7, <2>8, <2>9, <2>10, <2>11, <2>12, <2>13,
       <2>14, <2>15, <2>16 DEF UploadTask
<1>6. CASE MainTask
  BY <1>6 DEF MainTask, MainSeesResult, MainClearsFlag, MainClearsCode
<1>7. CASE PlayerTask
  BY <1>7 DEF PlayerTask
<1> QED BY <1>1, <1>2, <1>3, <1>4, <1>5, <1>6, <1>7 DEF Next

----------------------------------------------------------------------------
(* Playing and recording.                                                  *)

\* A task that is to record has seen the player's end, and no other has started it since.
SilenceInv ==
  /\ NeverPlayAndRecord
  /\ \A c \in Callers : todo[c] \in SilenceSeen => player = "stop"
  /\ Given => player = "stop"

\* Every step keeps SilenceInv: a player is started by the task that has seen the lock.
LEMMA SilenceStep ==
  ASSUME OneCaller, TypeOK, RequestInv, LockInv, SilenceInv, Next
  PROVE  SilenceInv'
<1> USE DEF SilenceInv, NeverPlayAndRecord, Given, VoiceRecording, FileRecording, Uploading,
           commandVars, playerVars, fileVars, flashVars, uploadVars
<1>0. \A c, d \in Callers : c = d
  BY VoiceAssumption DEF OneCaller, Callers
<1>1. ASSUME NEW c \in Callers, Command(c) PROVE SilenceInv'
  <2>1. PICK name \in Commands \cup {"rest"} : Accept(c, name)
    BY <1>1 DEF Command
  <2>2. todo'[c] \notin SilenceSeen
    BY <2>1, CommandsKept DEF Accept, TypeOK
  <2>3. UNCHANGED <<notified, rpc, playerVars, fileVars, uploadVars>>
    BY <2>1 DEF Accept
  <2> QED BY <1>0, <2>2, <2>3
<1>2. ASSUME NEW c \in Callers, CallerStep(c) PROVE SilenceInv'
  <2>0. /\ todo[c] # <<>> => Kept(todo[c])
        /\ <<>> \notin SilenceSeen
    BY CallsKept, CommandsKept DEF TypeOK
  <2>1. ASSUME NEW call, Makes(c, call), Returns(c) \/ Blocks(c),
               call \notin {"playWait", "playStart", "recCreate", "give"},
               UNCHANGED <<notified, player, wpc>>
        PROVE  SilenceInv'
    <3>1. todo'[c] \in SilenceSeen => todo[c] \in SilenceSeen
      <4>1. CASE Returns(c)
        <5>1. todo'[c] = Tail(todo[c]) /\ todo[c] # <<>> /\ Head(todo[c]) = call
          BY <2>1, <4>1 DEF Makes, Returns, TypeOK
        <5> QED BY <2>0, <2>1, <5>1 DEF Kept
      <4>2. CASE Blocks(c)
        BY <4>2 DEF Blocks
      <4> QED BY <2>1, <4>1, <4>2
    <3>2. UNCHANGED <<notified, rpc, player, wpc, uploadVars>>
      BY <2>1 DEF Makes
    <3> QED BY <1>0, <3>1, <3>2
  <2>2. CASE SetFlag(c)
    BY <2>1, <2>2 DEF SetFlag
  <2>3. CASE RecStop(c)
    BY <2>1, <2>3 DEF RecStop
  <2>4. CASE RecWait(c)
    BY <2>1, <2>4 DEF RecWait
  <2>5. CASE PlayStop(c)
    BY <2>1, <2>5 DEF PlayStop
  <2>6. CASE PlayWait(c)
    BY <2>6 DEF PlayWait, Makes
  <2>7. CASE PlayStart(c)
    <3>1. /\ todo[c] # <<>> /\ Head(todo[c]) = "playStart" /\ todo'[c] = Tail(todo[c])
          /\ UNCHANGED <<notified, rpc, wpc, uploadVars>>
      BY <2>7 DEF PlayStart, Makes, Returns, TypeOK
    <3>2. todo[c] \in LockSeen \cap Others /\ todo'[c] = <<>>
      BY <2>0, <3>1 DEF Kept
    <3>3. "PLAY" \in rbits /\ ~rest_flag
      BY <3>2 DEF LockInv, RequestInv
    <3>4. ~FileRecording /\ ~VoiceRecording /\ ~Uploading /\ ~Given
      BY <3>3 DEF LockInv, OneRecording, RequestInv
    <3> QED BY <1>0, <2>0, <3>1, <3>2, <3>4
  <2>8. CASE Give(c)
    <3>1. /\ todo[c] # <<>> /\ Head(todo[c]) = "give" /\ todo'[c] = Tail(todo[c])
          /\ UNCHANGED <<player, rpc, wpc, uploadVars>>
      BY <2>8 DEF Give, Makes, Returns, TypeOK
    <3>2. todo[c] \in SilenceSeen /\ todo'[c] = <<>>
      BY <2>0, <3>1 DEF Kept
    <3> QED BY <1>0, <2>0, <3>1, <3>2
  <2>9. CASE RecTake(c)
    BY <2>1, <2>9 DEF RecTake
  <2>10. CASE RecClear(c)
    BY <2>1, <2>10 DEF RecClear
  <2>11. CASE RecCreate(c)
    <3>1. /\ todo[c] # <<>> /\ Head(todo[c]) = "recCreate"
          /\ UNCHANGED <<player, notified, rpc, uploadVars>>
      BY <2>11 DEF RecCreate, Makes
    <3>2. todo[c] \in SilenceSeen
      BY <2>0, <3>1 DEF Kept, Starts
    <3> QED BY <3>1, <3>2
  <2>12. CASE Refused(c)
    <3>1. todo'[c] = <<>> /\ UNCHANGED <<player, notified, rpc, wpc, uploadVars>>
      BY <2>12 DEF Refused, TypeOK
    <3> QED BY <1>0, <2>0, <3>1
  <2> QED
    BY <1>2, <2>2, <2>3, <2>4, <2>5, <2>6, <2>7, <2>8, <2>9, <2>10, <2>11, <2>12 DEF CallerStep
<1>3. ASSUME NEW w \in Writers, FileTask(w) PROVE SilenceInv'
  <2>0. UNCHANGED <<player, notified, uploadVars>>
    BY <1>3 DEF FileTask
  <2>1. CASE FileHeader(w)
    BY <2>0, <2>1 DEF FileHeader, TypeOK
  <2>2. CASE FileLoop(w)
    BY <2>0, <2>2 DEF FileLoop, TypeOK
  <2>3. CASE FileRead(w)
    BY <2>0, <2>3 DEF FileRead, TypeOK
  <2>4. CASE FileExit(w)
    <3>1. /\ wpc[w] = "exit" /\ rpc' = rpc
          /\ \A c \in Callers : todo'[c] \in SilenceSeen => todo[c] \in SilenceSeen
      BY <2>4, GivenIsThere DEF FileExit
    <3>2. FileRecording
      BY <3>1
    <3>3. CASE player = "stop"
      BY <2>0, <3>3
    <3>4. CASE player # "stop"
      BY <3>2, <3>4
    <3> QED BY <3>3, <3>4
  <2> QED BY <1>3, <2>1, <2>2, <2>3, <2>4 DEF FileTask
<1>4. CASE RestTask
  <2>0. UNCHANGED <<player, wpc, upc, uret>>
    BY <1>4 DEF RestTask
  <2>1. CASE RestNoVoice
    <3>1. /\ rpc = "noVoice" /\ rpc' = "noVoiceCode" /\ UNCHANGED <<notified, ubits>>
          /\ \A c \in Callers : todo'[c] \in SilenceSeen => todo[c] \in SilenceSeen
      BY <2>1, GivenIsThere DEF RestNoVoice
    <3> QED BY <2>0, <3>1
  <2>2. CASE ~RestNoVoice
    <3>1. todo' = todo
      BY <1>4, <2>2 DEF RestTask, RestTake, RestWait, RestSetup, RestDetect, RestNoVoiceCode,
            Deliver, RestNoVoiceDelay, RestConn, RestBegin, RestWrite, RestFinish, RestSend, RestPost
    <3>2. /\ Given' => Given
          /\ VoiceRecording' => VoiceRecording \/ Given
          /\ Uploading' => Uploading \/ VoiceRecording
      BY <1>4, <2>0, <2>2 DEF RestTask, RestGoes, RestTake, RestWait, RestSetup, RestDetect,
            RestNoVoiceCode, RestNoVoiceDelay, RestConn, RestBegin, RestWrite, RestFinish, RestSend,
            RestPost
    <3> QED BY <2>0, <3>1, <3>2
  <2> QED BY <2>1, <2>2
<1>5. CASE UploadTask
  <2>0. UNCHANGED <<player, notified, wpc>>
    BY <1>5 DEF UploadTask
  <2>1. CASE UpCallbackBits
    <3>1. /\ upc = "cbBits" /\ upc' = "cbCode" /\ rpc' = rpc /\ UNCHANGED <<ubits, uret>>
          /\ \A c \in Callers : todo'[c] \in SilenceSeen => todo[c] \in SilenceSeen
      BY <2>1, GivenIsThere DEF UpCallbackBits, UpGoes
    <3> QED BY <2>0, <3>1
  <2>2. CASE ~UpCallbackBits
    <3>1. UNCHANGED <<todo, rpc>>
      BY <1>5, <2>2 DEF UploadTask, UpConnect, UpSend, UpSendWithoutTls, UpPosted, UpFails,
            UpAnswered, UpLeftEarly, UpClosedEarly, UpParsed, UpTrailing, UpCallbackCode, Deliver,
            UpCallbackReturns, UpErase, UpEraseSector, UpErased
    <3>2. Uploading' => Uploading
      BY <1>5, <2>2 DEF UploadTask, UpGoes, Callback, UpConnect, UpSend, UpSendWithoutTls, UpPosted,
            UpFails, UpAnswered, UpLeftEarly, UpClosedEarly, UpParsed, UpTrailing, UpCallbackCode,
            UpCallbackReturns, UpErase, UpEraseSector, UpErased, TypeOK
    <3> QED BY <2>0, <3>1, <3>2
  <2> QED BY <2>1, <2>2
<1>6. CASE MainTask
  BY <1>6 DEF MainTask, MainSeesResult, MainClearsFlag, MainClearsCode
<1>7. CASE PlayerTask
  BY <1>7 DEF PlayerTask, Player!Begin, Player!Finish
<1> QED BY <1>1, <1>2, <1>3, <1>4, <1>5, <1>6, <1>7 DEF Next

----------------------------------------------------------------------------
(* The flash.                                                              *)

\* There is a recording, or part of one, that the uploader has yet to post and to answer.
InFlash == Unposted \/ InUpload

\* Block b is part of the recording, or still to be erased.
Accounted(b) ==
  /\ EraseAhead /\ upc # "erasing" => b < data_size
  /\ upc = "erasing" => b \div 2 \in toErase
  /\ ~EraseAhead => InFlash /\ b < written

\* Unless a recording has overtaken the erasing of the one before: the uploader erases while there
\* is none, and what is programmed is the recording, or what is to be erased, and nothing else,
\* unless one was left behind.
FlashInv ==
  /\ written =< MaxBlocks /\ data_size =< MaxBlocks
  /\ rpc = "rec" => written < MaxBlocks
  /\ rpc \in {"detect", "voice", "begin"} => written = 0
  /\ rpc = "send" \/ InUpload => data_size = written
  /\ ~overtaken /\ InFlash => ~EraseAhead /\ \A b \in 0..written - 1 : b \in programmed
  /\ ~overtaken /\ ~skipped => \A b \in programmed : Accounted(b)
  /\ upc \in {"cbBits", "cbCode", "cbDelay"} /\ uret = "idle" => skipped

\* sys_data_erase() erases all the blocks of a recording, although it erases sectors of two.
LEMMA ErasedCovers ==
  ASSUME NEW size \in Nat, NEW b \in Nat, b < size
  PROVE  b \div 2 \in Sectors(size)
<1>1. b \div 2 \in Nat /\ b \div 2 < (size + 2) \div 2
  OBVIOUS
<1> QED BY <1>1 DEF Sectors

\* Every step keeps FlashInv: only the recorder and the uploader touch the flash. RequestInv keeps
\* them apart but for the erasing, and what is written meanwhile makes overtaken true.
LEMMA FlashStep ==
  ASSUME OneCaller, TypeOK, RequestInv, LockInv, FlashInv, Next
  PROVE  FlashInv'
<1> USE VoiceAssumption DEF FlashInv, Accounted, EraseAhead, InFlash, Unposted, InUpload,
           commandVars, playerVars, fileVars, flashVars, uploadVars
<1>1. ASSUME NEW c \in Callers, Command(c) \/ CallerStep(c) PROVE FlashInv'
  <2>1. UNCHANGED <<rpc, flashVars, uploadVars>>
    BY <1>1 DEF Command, Accept, CallerStep, Makes, SetFlag, RecStop, RecWait, PlayStop, PlayWait,
          PlayStart, Give, RecTake, RecClear, RecCreate, Refused
  <2> QED BY <2>1
<1>2. ASSUME NEW w \in Writers, FileTask(w) PROVE FlashInv'
  <2>1. UNCHANGED <<rpc, flashVars, uploadVars>>
    BY <1>2, GivenIsThere DEF FileTask, FileHeader, FileLoop, FileRead, FileExit
  <2> QED BY <2>1
<1>3. CASE RestTask
  <2> USE DEF RestGoes
  <2>0. /\ UNCHANGED <<upc, uret>>
        /\ written \in Nat /\ data_size \in Nat /\ MaxBlocks \in Nat \ {0} /\ programmed \subseteq Nat
        /\ Recording => ~InUpload
    BY <1>3 DEF RestTask, TypeOK, RequestInv
  <2>1. CASE RestTake
    BY <2>0, <2>1 DEF RestTake
  <2>2. CASE RestWait
    BY <2>0, <2>2 DEF RestWait
  <2>3. CASE RestSetup
    <3>1. rpc = "setup" /\ ~InUpload
      BY <2>0, <2>3 DEF RestSetup, Recording, VoiceRecording
    <3> QED BY <2>0, <2>3, <3>1 DEF RestSetup
  <2>4. CASE RestDetect
    BY <2>0, <2>4 DEF RestDetect
  <2>5. CASE RestNoVoice
    <3>1. rpc = "noVoice" /\ rpc' = "noVoiceCode" /\ UNCHANGED <<flashVars, ubits>>
      BY <2>5, GivenIsThere DEF RestNoVoice
    <3> QED BY <2>0, <3>1
  <2>6. CASE RestNoVoiceCode
    BY <2>0, <2>6 DEF RestNoVoiceCode
  <2>7. CASE RestNoVoiceDelay
    BY <2>0, <2>7 DEF RestNoVoiceDelay
  <2>8. CASE RestConn
    BY <2>0, <2>8 DEF RestConn
  <2>9. CASE RestBegin
    BY <2>0, <2>9 DEF RestBegin
  <2>10. CASE RestWrite
    <3>1. /\ rpc = "rec" /\ ~InUpload /\ written < MaxBlocks
          /\ rpc' \in {"rec", "finish"} /\ (rpc' = "rec" => written + 1 < MaxBlocks)
          /\ programmed' = programmed \cup {written} /\ written' = written + 1
          /\ overtaken' = (overtaken \/ EraseAhead)
          /\ UNCHANGED <<data_size, toErase, skipped, ubits, upc, uret>>
      BY <2>0, <2>10 DEF RestWrite, Recording, VoiceRecording
    <3>2. written' =< MaxBlocks /\ InFlash' /\ EraseAhead' = EraseAhead
      BY <2>0, <3>1
    <3>3. CASE overtaken'
      BY <2>0, <3>1, <3>2, <3>3
    <3>4. CASE ~overtaken'
      <4>1. ~overtaken /\ ~EraseAhead
        BY <3>1, <3>4
      <4>2. written > 0 => InFlash
        BY <3>1
      <4>3. \A b \in 0..written' - 1 : b \in programmed'
        BY <2>0, <3>1, <4>1, <4>2
      <4>4. ~skipped' => \A b \in programmed' : b < written'
        BY <2>0, <3>1, <4>1
      <4> QED BY <3>1, <3>2, <4>1, <4>3, <4>4
    <3> QED BY <3>3, <3>4
  <2>11. CASE RestFinish
    <3>1. rpc = "finish" /\ ~InUpload /\ InFlash
      BY <2>0, <2>11 DEF RestFinish, Recording, VoiceRecording
    <3> QED BY <2>0, <2>11, <3>1 DEF RestFinish
  <2>12. CASE RestSend
    BY <2>0, <2>12 DEF RestSend
  <2>13. CASE RestPost
    BY <2>0, <2>13 DEF RestPost
  <2> QED
    BY <1>3, <2>1, <2>2, <2>3, <2>4, <2>5, <2>6, <2>7, <2>8, <2>9, <2>10, <2>11, <2>12, <2>13
       DEF RestTask
<1>4. CASE UploadTask
  <2> USE DEF UpGoes, Callback
  <2>0. InUpload => ~Unposted \/ "SEND" \in ubits
    BY DEF RequestInv, Recording, VoiceRecording
  <2>1. CASE UpConnect
    BY <2>1 DEF UpConnect
  <2>2. CASE UpSend
    BY <2>2 DEF UpSend
  <2>3. CASE UpSendWithoutTls
    BY <2>3 DEF UpSendWithoutTls
  <2>4. CASE UpPosted
    BY <2>4 DEF UpPosted
  <2>5. CASE UpFails
    BY <2>5 DEF UpFails
  <2>6. CASE UpAnswered
    BY <2>6 DEF UpAnswered
  <2>7. CASE UpLeftEarly
    <3>1. ~Unposted
      BY <2>0, <2>7 DEF UpLeftEarly, RequestInv
    <3> QED BY <2>7, <3>1 DEF UpLeftEarly
  <2>8. CASE UpClosedEarly
    <3>1. ~Unposted
      BY <2>0, <2>8 DEF UpClosedEarly, RequestInv
    <3> QED BY <2>8, <3>1 DEF UpClosedEarly
  <2>9. CASE UpParsed
    BY <2>9 DEF UpParsed
  <2>10. CASE UpTrailing
    BY <2>10 DEF UpTrailing, OneCaller
  <2>11. CASE UpCallbackBits
    <3>1. upc = "cbBits" /\ upc' = "cbCode" /\ UNCHANGED <<rpc, flashVars, ubits, uret>>
      BY <2>11, GivenIsThere DEF UpCallbackBits
    <3> QED BY <3>1
  <2>12. CASE UpCallbackCode
    <3>1. ~Unposted
      BY <2>0, <2>12 DEF UpCallbackCode, RequestInv
    <3> QED BY <2>12, <3>1 DEF UpCallbackCode
  <2>13. CASE UpCallbackReturns
    <3>1. uret \in {"idle", "erase", "parsed"} /\ upc' = uret
      BY <2>13 DEF UpCallbackReturns, TypeOK, RequestInv
    <3> QED BY <2>13, <3>1 DEF UpCallbackReturns
  <2>14. CASE UpErase
    <3>1. /\ upc = "erase" /\ upc' = "erasing" /\ toErase' = Sectors(data_size)
          /\ UNCHANGED <<rpc, written, data_size, programmed, skipped, overtaken, ubits, uret>>
      BY <2>14 DEF UpErase
    <3>2. \A b \in programmed : b < data_size => b \div 2 \in toErase'
      BY <3>1, ErasedCovers DEF TypeOK
    <3> QED BY <3>1, <3>2
  <2>15. CASE UpEraseSector
    <3>1. PICK sector \in toErase :
            /\ toErase' = toErase \ {sector}
            /\ programmed' = {b \in programmed : b \div 2 # sector}
      BY <2>15 DEF UpEraseSector
    <3>2. /\ upc = "erasing" /\ upc' = "erasing"
          /\ UNCHANGED <<rpc, written, data_size, skipped, overtaken, ubits, uret>>
      BY <2>15 DEF UpEraseSector
    <3> QED BY <3>1, <3>2
  <2>16. CASE UpErased
    <3>1. /\ upc = "erasing" /\ upc' = "idle" /\ toErase = {}
          /\ skipped' = (skipped /\ programmed # {})
          /\ overtaken' = (overtaken /\ (programmed # {} \/ Unposted))
          /\ UNCHANGED <<rpc, written, data_size, programmed, toErase, ubits, uret>>
      BY <2>16 DEF UpErased
    <3>2. CASE overtaken'
      BY <3>1, <3>2
    <3>3. CASE ~overtaken'
      <4>1. ~InFlash'
        BY <3>1, <3>3
      <4>2. ~skipped' => programmed' = {}
        BY <3>1, <3>3
      <4> QED BY <3>1, <4>1, <4>2
    <3> QED BY <3>2, <3>3
  <2> QED
    BY <1>4, <2>1, <2>2, <2>3, <2>4, <2>5, <2>6, <2>7, <2>8, <2>9, <2>10, <2>11, <2>12, <2>13,
       <2>14, <2>15, <2>16 DEF UploadTask
<1>5. CASE MainTask \/ PlayerTask
  BY <1>5 DEF MainTask, MainSeesResult, MainClearsFlag, MainClearsCode, PlayerTask
<1> QED BY <1>1, <1>2, <1>3, <1>4, <1>5 DEF Next

----------------------------------------------------------------------------
(* The theorems.                                                           *)

\* All of it together: the parts need one another, and each is kept by every step.
VoiceInv == TypeOK /\ RequestInv /\ LockInv /\ SilenceInv /\ FlashInv

\* Initially nobody has asked for anything, the lock is free and the flash is erased.
LEMMA VoiceInit == Init => VoiceInv
<1> SUFFICES ASSUME Init PROVE VoiceInv
  OBVIOUS
<1>1. \A c \in Callers : todo[c] = <<>>
  BY DEF Init
<1>2. \A c \in Callers : todo[c] \notin Asks \cup Others \cup LockSeen \cup SilenceSeen
                         /\ ~Starts(todo[c])
  BY <1>1, CommandsKept DEF Remaining
<1>3. RequestInv
  BY <1>2 DEF Init, RequestInv, Asking, Given, Recording, VoiceRecording, InUpload, Result
<1>4. LockInv
  BY <1>2 DEF Init, LockInv, OneRecording, FileRecording, VoiceRecording, Uploading, FileStarting,
        Starts, Given
<1>5. SilenceInv
  BY <1>2 DEF Init, Player!Init, SilenceInv, NeverPlayAndRecord, Given
<1>6. FlashInv
  BY VoiceAssumption DEF Init, FlashInv, Accounted, EraseAhead, InFlash, Unposted, InUpload
<1> QED BY TypeInit, <1>3, <1>4, <1>5, <1>6 DEF VoiceInv

\* Every step keeps it, when all commands come from one task.
LEMMA VoiceStep == OneCaller /\ VoiceInv /\ [Next]_vars => VoiceInv'
<1>1. OneCaller /\ VoiceInv /\ Next => VoiceInv'
  BY TypeStep, RequestStep, LockStep, SilenceStep, FlashStep DEF VoiceInv
<1>2. ASSUME VoiceInv, UNCHANGED vars PROVE VoiceInv'
  <2> USE <1>2 DEF VoiceInv, vars, commandVars, playerVars, fileVars, flashVars, uploadVars
  <2>1. TypeOK'
    BY DEF TypeOK
  <2>2. RequestInv'
    BY DEF RequestInv, Asking, Given, Recording, VoiceRecording, InUpload, Result
  <2>3. LockInv'
    BY DEF LockInv, OneRecording, FileRecording, VoiceRecording, Uploading, FileStarting, Given
  <2>4. SilenceInv'
    BY DEF SilenceInv, NeverPlayAndRecord, FileRecording, VoiceRecording, Uploading, Given
  <2>5. FlashInv'
    BY DEF FlashInv, Accounted, EraseAhead, InFlash, Unposted, InUpload
  <2> QED BY <2>1, <2>2, <2>3, <2>4, <2>5
<1> QED BY <1>1, <1>2

\* It holds in every reachable state.
LEMMA VoiceAlways ==
  ASSUME OneCaller
  PROVE  Spec => []VoiceInv
<1>1. VoiceInv /\ [Next]_vars => VoiceInv'
  BY VoiceStep
<1> QED BY VoiceInit, <1>1, PTL DEF Spec

\* With commands from one task, the codec has one user at a time: one recording, and no
\* recording while something plays.
THEOREM OneUserAlways ==
  ASSUME OneCaller
  PROVE  Spec => []OneUser
<1>1. VoiceInv => OneUser
  BY DEF VoiceInv, LockInv, SilenceInv, OneUser
<1> QED BY VoiceAlways, <1>1, PTL

\* With commands from one task, and however long the recordings are: one is written on erased flash
\* and posted whole, with two exceptions. A request whose connection failed has left its recording
\* behind; or the recording was begun before the uploader had erased the one before, which
\* at_process() allows two seconds after a result, waiting for nothing. What is posted has the size
\* that was announced even then, and nobody records over it.
THEOREM FlashHoldsRecordingAlways ==
  ASSUME OneCaller
  PROVE  Spec => []FlashHoldsRecording
<1>1. ASSUME VoiceInv PROVE WritesErasedFlash
  BY <1>1 DEF VoiceInv, TypeOK, FlashInv, Accounted, WritesErasedFlash
<1>2. ASSUME VoiceInv PROVE PostsWholeRecording
  <2>1. ASSUME upc = "post" PROVE rpc \notin {"setup", "rec", "finish"}
    BY <1>2, <2>1 DEF VoiceInv, RequestInv, Recording, VoiceRecording, InUpload
  <2> QED
    BY <1>2, <2>1 DEF VoiceInv, FlashInv, InFlash, InUpload, PostsWholeRecording
<1>3. VoiceInv => FlashHoldsRecording
  BY <1>1, <1>2 DEF FlashHoldsRecording
<1> QED BY VoiceAlways, <1>3, PTL

\* With commands from one task, no result of a request is overwritten before at_process() has
\* taken it.
THEOREM ResultNotLostAlways ==
  ASSUME OneCaller
  PROVE  Spec => ResultNotLost
<1>1. ASSUME VoiceInv, [Next]_vars, rest_code # 0 PROVE rest_code' \in {0, rest_code}
  <2> USE DEF VoiceInv, vars, commandVars
  <2>1. CASE RestTask
    <3>1. ~RestNoVoiceCode
      BY <1>1 DEF RestNoVoiceCode, RestGoes, Deliver, RequestInv, Recording, Result
    <3> QED
      BY <1>1, <2>1, <3>1 DEF RestTask, RestTake, RestWait, RestSetup, RestDetect, RestNoVoice,
            RestNoVoiceDelay, RestConn, RestBegin, RestWrite, RestFinish, RestSend, RestPost
  <2>2. CASE UploadTask
    <3>1. ~UpCallbackCode
      BY <1>1 DEF UpCallbackCode, UpGoes, Deliver, RequestInv, InUpload, Result
    <3> QED
      BY <1>1, <2>2, <3>1 DEF UploadTask, UpConnect, UpSend, UpSendWithoutTls, UpPosted, UpFails,
            UpAnswered, UpLeftEarly, UpClosedEarly, UpParsed, UpTrailing, UpCallbackBits,
            UpCallbackReturns, UpErase, UpEraseSector, UpErased
  <2>3. CASE MainTask \/ PlayerTask
    BY <1>1, <2>3 DEF MainTask, MainSeesResult, MainClearsFlag, MainClearsCode, PlayerTask
  <2>4. ASSUME NEW w \in Writers, FileTask(w) PROVE rest_code' \in {0, rest_code}
    BY <2>4 DEF FileTask, FileHeader, FileLoop, FileRead, FileExit
  <2>5. ASSUME NEW c \in Callers, Command(c) \/ CallerStep(c) PROVE rest_code' \in {0, rest_code}
    BY <2>5 DEF Command, Accept, CallerStep, Makes, SetFlag, RecStop, RecWait, PlayStop, PlayWait,
          PlayStart, Give, RecTake, RecClear, RecCreate, Refused
  <2> QED BY <1>1, <2>1, <2>2, <2>3, <2>4, <2>5 DEF Next
<1>2. VoiceInv /\ [Next]_vars => [rest_code # 0 => rest_code' \in {0, rest_code}]_rest_code
  BY <1>1
<1> QED BY VoiceAlways, <1>2, PTL DEF Spec, ResultNotLost
=============================================================================
