--------------------------- MODULE Aplay_proofs ---------------------------
(***************************************************************************)
(* Proofs about Aplay, for any number of chunks and of slots: the type     *)
(* invariant, OneSession and OneDecoder with or without the button task;   *)
(* with commands from one task only, NoStaleStop, and SendOnLiveRing when  *)
(* the decoder starts promptly and gets its memory; and that it takes no   *)
(* step but those of AplaySession.                                         *)
(***************************************************************************)
EXTENDS Aplay, TLAPS

\* Only the command task starts players, and it knows which kind it starts.
JobInv ==
  /\ \A c \in Callers : job[c] # None => c \in Uart
  /\ \A c \in Callers :
       cpc[c] \in StartLabels \cup {"startWait", "startBlocked"} => job[c] # None

TypeInv == TypeOK /\ JobInv

\* Every step keeps the type invariant and JobInv: a caller past the guards of parse_Play()
\* knows what it will start.
LEMMA TypeInvStep ==
  ASSUME TypeInv, Next
  PROVE  TypeInv'
<1> USE AplayAssumption DEF Command, CallerGoes, PlayerGoes, DecoderGoes, SetBits,
           SetDecodeBits, SameBits, SameSource, TypeInv, TypeOK, JobInv, CallerLabels, StopLabels, StartLabels,
           PlayerLabels, DecodeStartLabels, DecoderLabels, Kinds, Callers, vars,
           callerVars, playerVars, decoderVars
<1>1. ASSUME NEW c \in Callers, NEW k \in Kinds, PlayCommand(c, k) PROVE TypeInv'
  BY <1>1 DEF PlayCommand
<1>2. ASSUME NEW c \in Callers, StopCommand(c) PROVE TypeInv'
  BY <1>2 DEF StopCommand
<1>3. ASSUME NEW c \in Callers, SuspendCommand(c) PROVE TypeInv'
  BY <1>3 DEF SuspendCommand
<1>4. ASSUME NEW c \in Callers, AplayStop(c) PROVE TypeInv'
  BY <1>4 DEF AplayStop
<1>5. ASSUME NEW c \in Callers, AplayStopNotify(c) PROVE TypeInv'
  BY <1>5 DEF AplayStopNotify
<1>6. ASSUME NEW c \in Callers, AplayStopWait(c) PROVE TypeInv'
  BY <1>6 DEF AplayStopWait
<1>7. ASSUME NEW c \in Callers, DecodeDestroy(c) PROVE TypeInv'
  BY <1>7 DEF DecodeDestroy
<1>8. ASSUME NEW c \in Callers, AplayStartWait(c) PROVE TypeInv'
  BY <1>8 DEF AplayStartWait
<1>9. ASSUME NEW c \in Callers, AplayStartClearSuspend(c) PROVE TypeInv'
  BY <1>9 DEF AplayStartClearSuspend
<1>10. ASSUME NEW c \in Callers, AplayStartClearStop(c) PROVE TypeInv'
  BY <1>10 DEF AplayStartClearStop
<1>11. ASSUME NEW c \in Callers, AplayStartSetRequest(c) PROVE TypeInv'
  BY <1>11 DEF AplayStartSetRequest
<1>12. ASSUME NEW c \in Callers, AplayStartCreate(c) PROVE TypeInv'
  BY <1>12 DEF AplayStartCreate
<1>13. ASSUME NEW c \in Callers, AplaySuspendCheck(c) PROVE TypeInv'
  BY <1>13 DEF AplaySuspendCheck
<1>14. ASSUME NEW c \in Callers, AplaySuspendToggle(c) PROVE TypeInv'
  BY <1>14 DEF AplaySuspendToggle
<1>15. ASSUME NEW c \in Callers, AplayPauseDecoder(c) PROVE TypeInv'
  BY <1>15 DEF AplayPauseDecoder
<1>16. ASSUME NEW c \in Callers, AplayResumeDecoder(c) PROVE TypeInv'
  BY <1>16 DEF AplayResumeDecoder
<1>17. ASSUME NEW c \in Callers, AplayResumePlayer(c) PROVE TypeInv'
  BY <1>17 DEF AplayResumePlayer
<1>18. ASSUME NEW p \in Players, OpenFile(p) PROVE TypeInv'
  BY <1>18 DEF OpenFile
<1>19. ASSUME NEW p \in Players, FileClearRequest(p) PROVE TypeInv'
  BY <1>19 DEF FileClearRequest
<1>20. ASSUME NEW p \in Players, WebTake(p) PROVE TypeInv'
  BY <1>20 DEF WebTake
<1>21. ASSUME NEW p \in Players, DecodeStartWait(p) PROVE TypeInv'
  BY <1>21 DEF DecodeStartWait
<1>22. ASSUME NEW p \in Players, DecodeStartClearSuspend(p) PROVE TypeInv'
  BY <1>22 DEF DecodeStartClearSuspend
<1>23. ASSUME NEW p \in Players, DecodeStartClearDestroy(p) PROVE TypeInv'
  BY <1>23 DEF DecodeStartClearDestroy
<1>24. ASSUME NEW p \in Players, DecodeStartCreate(p) PROVE TypeInv'
  BY <1>24 DEF DecodeStartCreate
<1>25. ASSUME NEW p \in Players, FileStopCheck(p) PROVE TypeInv'
  BY <1>25 DEF FileStopCheck
<1>26. ASSUME NEW p \in Players, FilePauseCheck(p) PROVE TypeInv'
  BY <1>26 DEF FilePauseCheck
<1>27. ASSUME NEW p \in Players, FileRead(p) PROVE TypeInv'
  BY <1>27 DEF FileRead
<1>28. ASSUME NEW p \in Players, WebConnect(p) PROVE TypeInv'
  BY <1>28 DEF WebConnect
<1>29. ASSUME NEW p \in Players, WebReceive(p) PROVE TypeInv'
  BY <1>29 DEF WebReceive
<1>30. ASSUME NEW p \in Players, WebClosed(p) PROVE TypeInv'
  BY <1>30 DEF WebClosed
<1>31. ASSUME NEW p \in Players, WebBody(p) PROVE TypeInv'
  BY <1>31 DEF WebBody
<1>32. ASSUME NEW p \in Players, WebPoll(p) PROVE TypeInv'
  BY <1>32 DEF WebPoll
<1>33. ASSUME NEW p \in Players, DecodeSend(p) PROVE TypeInv'
  BY <1>33 DEF DecodeSend
<1>34. ASSUME NEW p \in Players, PlayerExit(p) PROVE TypeInv'
  BY <1>34 DEF PlayerExit, SetPlayBit
<1>35. ASSUME NEW d \in Decoders, DecoderInit(d) PROVE TypeInv'
  <2>1. /\ \E l \in {"loop", "delete"} : dpc' = [dpc EXCEPT ![d] = l]
        /\ ring' \in {ring, "live"} /\ level' \in {level, 0}
        /\ UNCHANGED <<bits, dbits, webTask, callerVars, playerVars>>
    BY <1>35 DEF DecoderInit
  <2> QED BY <2>1
<1>36. ASSUME NEW d \in Decoders, DecoderDestroyCheck(d) PROVE TypeInv'
  BY <1>36 DEF DecoderDestroyCheck
<1>37. ASSUME NEW d \in Decoders, DecoderPauseCheck(d) PROVE TypeInv'
  BY <1>37 DEF DecoderPauseCheck
<1>38. ASSUME NEW d \in Decoders, DecoderDecode(d) PROVE TypeInv'
  BY <1>38 DEF DecoderDecode
<1>39. ASSUME NEW d \in Decoders, DecoderDelete(d) PROVE TypeInv'
  BY <1>39 DEF DecoderDelete
<1>40. ASSUME NEW d \in Decoders, DecoderExit(d) PROVE TypeInv'
  BY <1>40 DEF DecoderExit
<1> HIDE DEF TypeInv, TypeOK, JobInv, CallerLabels, PlayerLabels, DecoderLabels, Kinds, Callers, vars
<1>41. QED
  BY <1>1, <1>2, <1>3, <1>4, <1>5, <1>6, <1>7, <1>8, <1>9, <1>10,
     <1>11, <1>12, <1>13, <1>14, <1>15, <1>16, <1>17, <1>18, <1>19,
     <1>20, <1>21, <1>22, <1>23, <1>24, <1>25, <1>26, <1>27, <1>28,
     <1>29, <1>30, <1>31, <1>32, <1>33, <1>34, <1>35, <1>36, <1>37,
     <1>38, <1>39, <1>40
     DEF Next, CallerStep, PlayerStep, DecoderStep

\* Every step keeps the PLAY bit the lock of the player: the bit is taken by the one caller
\* that goes on to create a task and given back by the task's end only.
LEMMA OneSessionStep ==
  ASSUME TypeInv, OneSession, Next
  PROVE  OneSession'
<1> USE AplayAssumption DEF Command, CallerGoes, PlayerGoes, DecoderGoes, SetBits,
           SetDecodeBits, SameBits, SameSource, TypeInv, TypeOK, JobInv, OneSession, Callers, Alive, Starting, StartLabels, vars,
           callerVars, playerVars, decoderVars
<1>1. ASSUME NEW c \in Callers, NEW k \in Kinds, PlayCommand(c, k) PROVE OneSession'
  BY <1>1 DEF PlayCommand
<1>2. ASSUME NEW c \in Callers, StopCommand(c) PROVE OneSession'
  BY <1>2 DEF StopCommand
<1>3. ASSUME NEW c \in Callers, SuspendCommand(c) PROVE OneSession'
  BY <1>3 DEF SuspendCommand
<1>4. ASSUME NEW c \in Callers, AplayStop(c) PROVE OneSession'
  BY <1>4 DEF AplayStop
<1>5. ASSUME NEW c \in Callers, AplayStopNotify(c) PROVE OneSession'
  BY <1>5 DEF AplayStopNotify
<1>6. ASSUME NEW c \in Callers, AplayStopWait(c) PROVE OneSession'
  BY <1>6 DEF AplayStopWait
<1>7. ASSUME NEW c \in Callers, DecodeDestroy(c) PROVE OneSession'
  BY <1>7 DEF DecodeDestroy
<1>8. ASSUME NEW c \in Callers, AplayStartWait(c) PROVE OneSession'
  BY <1>8 DEF AplayStartWait
<1>9. ASSUME NEW c \in Callers, AplayStartClearSuspend(c) PROVE OneSession'
  BY <1>9 DEF AplayStartClearSuspend
<1>10. ASSUME NEW c \in Callers, AplayStartClearStop(c) PROVE OneSession'
  BY <1>10 DEF AplayStartClearStop
<1>11. ASSUME NEW c \in Callers, AplayStartSetRequest(c) PROVE OneSession'
  BY <1>11 DEF AplayStartSetRequest
<1>12. ASSUME NEW c \in Callers, AplayStartCreate(c) PROVE OneSession'
  BY <1>12 DEF AplayStartCreate
<1>13. ASSUME NEW c \in Callers, AplaySuspendCheck(c) PROVE OneSession'
  BY <1>13 DEF AplaySuspendCheck
<1>14. ASSUME NEW c \in Callers, AplaySuspendToggle(c) PROVE OneSession'
  BY <1>14 DEF AplaySuspendToggle
<1>15. ASSUME NEW c \in Callers, AplayPauseDecoder(c) PROVE OneSession'
  BY <1>15 DEF AplayPauseDecoder
<1>16. ASSUME NEW c \in Callers, AplayResumeDecoder(c) PROVE OneSession'
  BY <1>16 DEF AplayResumeDecoder
<1>17. ASSUME NEW c \in Callers, AplayResumePlayer(c) PROVE OneSession'
  BY <1>17 DEF AplayResumePlayer
<1>18. ASSUME NEW p \in Players, OpenFile(p) PROVE OneSession'
  BY <1>18 DEF OpenFile
<1>19. ASSUME NEW p \in Players, FileClearRequest(p) PROVE OneSession'
  BY <1>19 DEF FileClearRequest
<1>20. ASSUME NEW p \in Players, WebTake(p) PROVE OneSession'
  BY <1>20 DEF WebTake
<1>21. ASSUME NEW p \in Players, DecodeStartWait(p) PROVE OneSession'
  BY <1>21 DEF DecodeStartWait
<1>22. ASSUME NEW p \in Players, DecodeStartClearSuspend(p) PROVE OneSession'
  BY <1>22 DEF DecodeStartClearSuspend
<1>23. ASSUME NEW p \in Players, DecodeStartClearDestroy(p) PROVE OneSession'
  BY <1>23 DEF DecodeStartClearDestroy
<1>24. ASSUME NEW p \in Players, DecodeStartCreate(p) PROVE OneSession'
  BY <1>24 DEF DecodeStartCreate
<1>25. ASSUME NEW p \in Players, FileStopCheck(p) PROVE OneSession'
  BY <1>25 DEF FileStopCheck
<1>26. ASSUME NEW p \in Players, FilePauseCheck(p) PROVE OneSession'
  BY <1>26 DEF FilePauseCheck
<1>27. ASSUME NEW p \in Players, FileRead(p) PROVE OneSession'
  BY <1>27 DEF FileRead
<1>28. ASSUME NEW p \in Players, WebConnect(p) PROVE OneSession'
  BY <1>28 DEF WebConnect
<1>29. ASSUME NEW p \in Players, WebReceive(p) PROVE OneSession'
  BY <1>29 DEF WebReceive
<1>30. ASSUME NEW p \in Players, WebClosed(p) PROVE OneSession'
  BY <1>30 DEF WebClosed
<1>31. ASSUME NEW p \in Players, WebBody(p) PROVE OneSession'
  BY <1>31 DEF WebBody
<1>32. ASSUME NEW p \in Players, WebPoll(p) PROVE OneSession'
  BY <1>32 DEF WebPoll
<1>33. ASSUME NEW p \in Players, DecodeSend(p) PROVE OneSession'
  BY <1>33 DEF DecodeSend
<1>34. ASSUME NEW p \in Players, PlayerExit(p) PROVE OneSession'
  <2>1. Alive(p) /\ \A q \in Players : Alive(q) => q = p
    BY <1>34 DEF PlayerExit
  <2>2. \A q \in Players : ~Alive(q)'
    BY <1>34, <2>1 DEF PlayerExit
  <2>3. \A c \in Callers : ~Starting(c)
    BY <2>1
  <2>4. \A c \in Callers : Starting(c)' <=> cpc[c] = "startBlocked"
    BY <1>34, <2>3 DEF PlayerExit, SetPlayBit
  <2>5. "PLAY" \in bits' <=> ~\E c \in Callers : cpc[c] = "startBlocked"
    BY <1>34 DEF PlayerExit, SetPlayBit
  <2> HIDE DEF Alive, Starting, TypeInv, TypeOK, Callers
  <2> QED BY <2>2, <2>4, <2>5
<1>35. ASSUME NEW d \in Decoders, DecoderInit(d) PROVE OneSession'
  BY <1>35 DEF DecoderInit
<1>36. ASSUME NEW d \in Decoders, DecoderDestroyCheck(d) PROVE OneSession'
  BY <1>36 DEF DecoderDestroyCheck
<1>37. ASSUME NEW d \in Decoders, DecoderPauseCheck(d) PROVE OneSession'
  BY <1>37 DEF DecoderPauseCheck
<1>38. ASSUME NEW d \in Decoders, DecoderDecode(d) PROVE OneSession'
  BY <1>38 DEF DecoderDecode
<1>39. ASSUME NEW d \in Decoders, DecoderDelete(d) PROVE OneSession'
  BY <1>39 DEF DecoderDelete
<1>40. ASSUME NEW d \in Decoders, DecoderExit(d) PROVE OneSession'
  BY <1>40 DEF DecoderExit
<1>41. QED
  BY <1>1, <1>2, <1>3, <1>4, <1>5, <1>6, <1>7, <1>8, <1>9, <1>10,
     <1>11, <1>12, <1>13, <1>14, <1>15, <1>16, <1>17, <1>18, <1>19,
     <1>20, <1>21, <1>22, <1>23, <1>24, <1>25, <1>26, <1>27, <1>28,
     <1>29, <1>30, <1>31, <1>32, <1>33, <1>34, <1>35, <1>36, <1>37,
     <1>38, <1>39, <1>40
     DEF Next, CallerStep, PlayerStep, DecoderStep

\* Every step keeps the decoder's PLAY bit its lock, across decode_start()'s wait, which
\* takes the bit while the old decoder may still be deleting its ring buffer.
LEMMA OneDecoderStep ==
  ASSUME TypeInv, OneSession, OneDecoder, Next
  PROVE  OneDecoder'
<1> USE AplayAssumption DEF Command, CallerGoes, PlayerGoes, DecoderGoes, SetBits,
           SetDecodeBits, SameBits, SameSource, TypeInv, TypeOK, OneSession, OneDecoder, DecoderAlive, DecoderStarting,
           DecodeStartLabels, Callers, Alive, Starting, StartLabels, vars,
           callerVars, playerVars, decoderVars
<1>1. ASSUME NEW c \in Callers, NEW k \in Kinds, PlayCommand(c, k) PROVE OneDecoder'
  BY <1>1 DEF PlayCommand
<1>2. ASSUME NEW c \in Callers, StopCommand(c) PROVE OneDecoder'
  BY <1>2 DEF StopCommand
<1>3. ASSUME NEW c \in Callers, SuspendCommand(c) PROVE OneDecoder'
  BY <1>3 DEF SuspendCommand
<1>4. ASSUME NEW c \in Callers, AplayStop(c) PROVE OneDecoder'
  BY <1>4 DEF AplayStop
<1>5. ASSUME NEW c \in Callers, AplayStopNotify(c) PROVE OneDecoder'
  BY <1>5 DEF AplayStopNotify
<1>6. ASSUME NEW c \in Callers, AplayStopWait(c) PROVE OneDecoder'
  BY <1>6 DEF AplayStopWait
<1>7. ASSUME NEW c \in Callers, DecodeDestroy(c) PROVE OneDecoder'
  BY <1>7 DEF DecodeDestroy
<1>8. ASSUME NEW c \in Callers, AplayStartWait(c) PROVE OneDecoder'
  BY <1>8 DEF AplayStartWait
<1>9. ASSUME NEW c \in Callers, AplayStartClearSuspend(c) PROVE OneDecoder'
  BY <1>9 DEF AplayStartClearSuspend
<1>10. ASSUME NEW c \in Callers, AplayStartClearStop(c) PROVE OneDecoder'
  BY <1>10 DEF AplayStartClearStop
<1>11. ASSUME NEW c \in Callers, AplayStartSetRequest(c) PROVE OneDecoder'
  BY <1>11 DEF AplayStartSetRequest
<1>12. ASSUME NEW c \in Callers, AplayStartCreate(c) PROVE OneDecoder'
  BY <1>12 DEF AplayStartCreate
<1>13. ASSUME NEW c \in Callers, AplaySuspendCheck(c) PROVE OneDecoder'
  BY <1>13 DEF AplaySuspendCheck
<1>14. ASSUME NEW c \in Callers, AplaySuspendToggle(c) PROVE OneDecoder'
  BY <1>14 DEF AplaySuspendToggle
<1>15. ASSUME NEW c \in Callers, AplayPauseDecoder(c) PROVE OneDecoder'
  BY <1>15 DEF AplayPauseDecoder
<1>16. ASSUME NEW c \in Callers, AplayResumeDecoder(c) PROVE OneDecoder'
  BY <1>16 DEF AplayResumeDecoder
<1>17. ASSUME NEW c \in Callers, AplayResumePlayer(c) PROVE OneDecoder'
  BY <1>17 DEF AplayResumePlayer
<1>18. ASSUME NEW p \in Players, OpenFile(p) PROVE OneDecoder'
  BY <1>18 DEF OpenFile
<1>19. ASSUME NEW p \in Players, FileClearRequest(p) PROVE OneDecoder'
  BY <1>19 DEF FileClearRequest
<1>20. ASSUME NEW p \in Players, WebTake(p) PROVE OneDecoder'
  BY <1>20 DEF WebTake
<1>21. ASSUME NEW p \in Players, DecodeStartWait(p) PROVE OneDecoder'
  BY <1>21 DEF DecodeStartWait
<1>22. ASSUME NEW p \in Players, DecodeStartClearSuspend(p) PROVE OneDecoder'
  BY <1>22 DEF DecodeStartClearSuspend
<1>23. ASSUME NEW p \in Players, DecodeStartClearDestroy(p) PROVE OneDecoder'
  BY <1>23 DEF DecodeStartClearDestroy
<1>24. ASSUME NEW p \in Players, DecodeStartCreate(p) PROVE OneDecoder'
  BY <1>24 DEF DecodeStartCreate
<1>25. ASSUME NEW p \in Players, FileStopCheck(p) PROVE OneDecoder'
  BY <1>25 DEF FileStopCheck
<1>26. ASSUME NEW p \in Players, FilePauseCheck(p) PROVE OneDecoder'
  BY <1>26 DEF FilePauseCheck
<1>27. ASSUME NEW p \in Players, FileRead(p) PROVE OneDecoder'
  BY <1>27 DEF FileRead
<1>28. ASSUME NEW p \in Players, WebConnect(p) PROVE OneDecoder'
  BY <1>28 DEF WebConnect
<1>29. ASSUME NEW p \in Players, WebReceive(p) PROVE OneDecoder'
  BY <1>29 DEF WebReceive
<1>30. ASSUME NEW p \in Players, WebClosed(p) PROVE OneDecoder'
  BY <1>30 DEF WebClosed
<1>31. ASSUME NEW p \in Players, WebBody(p) PROVE OneDecoder'
  BY <1>31 DEF WebBody
<1>32. ASSUME NEW p \in Players, WebPoll(p) PROVE OneDecoder'
  BY <1>32 DEF WebPoll
<1>33. ASSUME NEW p \in Players, DecodeSend(p) PROVE OneDecoder'
  BY <1>33 DEF DecodeSend
<1>34. ASSUME NEW p \in Players, PlayerExit(p) PROVE OneDecoder'
  BY <1>34 DEF PlayerExit, SetPlayBit
<1>35. ASSUME NEW d \in Decoders, DecoderInit(d) PROVE OneDecoder'
  BY <1>35 DEF DecoderInit
<1>36. ASSUME NEW d \in Decoders, DecoderDestroyCheck(d) PROVE OneDecoder'
  BY <1>36 DEF DecoderDestroyCheck
<1>37. ASSUME NEW d \in Decoders, DecoderPauseCheck(d) PROVE OneDecoder'
  BY <1>37 DEF DecoderPauseCheck
<1>38. ASSUME NEW d \in Decoders, DecoderDecode(d) PROVE OneDecoder'
  BY <1>38 DEF DecoderDecode
<1>39. ASSUME NEW d \in Decoders, DecoderDelete(d) PROVE OneDecoder'
  BY <1>39 DEF DecoderDelete
<1>40. ASSUME NEW d \in Decoders, DecoderExit(d) PROVE OneDecoder'
  BY <1>40 DEF DecoderExit
<1>41. QED
  BY <1>1, <1>2, <1>3, <1>4, <1>5, <1>6, <1>7, <1>8, <1>9, <1>10,
     <1>11, <1>12, <1>13, <1>14, <1>15, <1>16, <1>17, <1>18, <1>19,
     <1>20, <1>21, <1>22, <1>23, <1>24, <1>25, <1>26, <1>27, <1>28,
     <1>29, <1>30, <1>31, <1>32, <1>33, <1>34, <1>35, <1>36, <1>37,
     <1>38, <1>39, <1>40
     DEF Next, CallerStep, PlayerStep, DecoderStep

\* The type invariant holds in every reachable state.
LEMMA TypeInvariant == Spec => []TypeInv
<1>1. Init => TypeInv
  BY AplayAssumption DEF Init, TypeInv, TypeOK, JobInv, CallerLabels, StartLabels,
     PlayerLabels, DecoderLabels, Kinds
<1>2. TypeInv /\ [Next]_vars => TypeInv'
  <2>1. TypeInv /\ UNCHANGED vars => TypeInv'
    BY DEF TypeInv, TypeOK, JobInv, vars, callerVars, playerVars, decoderVars
  <2> QED BY TypeInvStep, <2>1
<1> QED BY <1>1, <1>2, PTL DEF Spec

\* Every variable keeps its type, for every bound and every number of slots.
THEOREM TypeCorrect == Spec => []TypeOK
<1>1. TypeInv => TypeOK
  BY DEF TypeInv
<1> QED BY <1>1, TypeInvariant, PTL

\* The PLAY bit of aplay_event_group admits one session at a time, whatever the
\* number of button tasks that stop playback concurrently.
THEOREM OneSessionAlways == Spec => []OneSession
<1>1. Init => OneSession
  BY DEF Init, OneSession, Alive, Starting, StartLabels
<1>2. TypeInv /\ OneSession /\ [Next]_vars => OneSession'
  <2>1. OneSession /\ UNCHANGED vars => OneSession'
    BY DEF OneSession, Alive, Starting, vars, callerVars, playerVars, decoderVars
  <2> QED BY OneSessionStep, <2>1
<1> QED BY <1>1, <1>2, TypeInvariant, PTL DEF Spec

\* decode_start() hands over from one decoder to the next: never two at once.
THEOREM OneDecoderAlways == Spec => []OneDecoder
<1>1. Init => OneDecoder
  BY DEF Init, OneDecoder, DecoderAlive, DecoderStarting, DecodeStartLabels
<1>2. TypeInv /\ OneSession /\ OneDecoder /\ [Next]_vars => OneDecoder'
  <2>1. OneDecoder /\ UNCHANGED vars => OneDecoder'
    BY DEF OneDecoder, DecoderAlive, DecoderStarting, vars, callerVars, playerVars,
       decoderVars
  <2> QED BY OneDecoderStep, <2>1
<1> QED BY <1>1, <1>2, TypeInvariant, OneSessionAlways, PTL DEF Spec

----------------------------------------------------------------------------
(* With commands from one task only.                                       *)

\* The caller consumes the PLAY bit itself: once aplay_stop() has seen it, it
\* stays set until the caller's own start function.
NoStaleStopInv ==
  /\ \A c \in Callers : cpc[c] \in {"stopDestroy", "startWait"} => "PLAY" \in bits
  /\ \A c \in Callers : cpc[c] \in {"startRequest", "startCreate"} => "STOP" \notin bits
  /\ NoStaleStop

\* The tasks that feed the decoder, and those that have waited for it.
Feeding(p) ==
  \/ ppc[p] \in {"connect", "head", "recv", "body", "send", "poll"}
  \/ kind[p] = "mp3" /\ ppc[p] \in {"loop", "pauseCheck", "read"}
Waited(p) == ppc[p] \in {"head", "recv", "body", "send", "poll"}

\* The decoder of a feeding player is running, and nobody has destroyed it.
RingInv ==
  /\ \A p \in Players : Feeding(p) =>
       /\ "DESTROY" \notin dbits
       /\ \E d \in Decoders : dpc[d] \in {"init", "loop", "pauseCheck", "decode"}
  /\ \A d \in Decoders :
       dpc[d] \in {"loop", "pauseCheck", "decode", "delete"} => ring = "live"
  /\ \A p \in Players, d \in Decoders : Waited(p) => dpc[d] # "init"
  /\ \A p \in Players : ppc[p] = "decCreate" => "DESTROY" \notin dbits

\* The decoder of a player that has reset it in decode_start() is paused only while the player
\* is: aplay_suspend() pauses the player first and wakes it last.
NoStalePauseInv ==
  /\ \A p \in Players :
       (Feeding(p) \/ ppc[p] \in {"decDestroy", "decCreate"}) /\ "SUSPEND" \in dbits
         => "SUSPEND" \in bits
  /\ \A c \in Callers : cpc[c] = "pauseDecoder" => "SUSPEND" \in bits
  /\ \A c \in Callers : cpc[c] = "resumePlayer" => "SUSPEND" \notin dbits

\* Every step keeps STOP tied to the command that set it, when only the command task starts
\* and stops playback: the flag is cleared before a new player is created.
LEMMA NoStaleStopStep ==
  ASSUME Button = {}, TypeInv, OneSession, NoStaleStopInv, Next
  PROVE  NoStaleStopInv'
<1> USE AplayAssumption DEF Command, CallerGoes, PlayerGoes, DecoderGoes, SetBits,
           SetDecodeBits, SameBits, SameSource, TypeInv, TypeOK, JobInv, OneSession, NoStaleStopInv, NoStaleStop, StopLabels,
           Callers, Alive, Starting, StartLabels, vars,
           callerVars, playerVars, decoderVars
<1>1. ASSUME NEW c \in Callers, NEW k \in Kinds, PlayCommand(c, k) PROVE NoStaleStopInv'
  BY <1>1 DEF PlayCommand
<1>2. ASSUME NEW c \in Callers, StopCommand(c) PROVE NoStaleStopInv'
  BY <1>2 DEF StopCommand
<1>3. ASSUME NEW c \in Callers, SuspendCommand(c) PROVE NoStaleStopInv'
  BY <1>3 DEF SuspendCommand
<1>4. ASSUME NEW c \in Callers, AplayStop(c) PROVE NoStaleStopInv'
  BY <1>4 DEF AplayStop
<1>5. ASSUME NEW c \in Callers, AplayStopNotify(c) PROVE NoStaleStopInv'
  BY <1>5 DEF AplayStopNotify
<1>6. ASSUME NEW c \in Callers, AplayStopWait(c) PROVE NoStaleStopInv'
  BY <1>6 DEF AplayStopWait
<1>7. ASSUME NEW c \in Callers, DecodeDestroy(c) PROVE NoStaleStopInv'
  BY <1>7 DEF DecodeDestroy
<1>8. ASSUME NEW c \in Callers, AplayStartWait(c) PROVE NoStaleStopInv'
  BY <1>8 DEF AplayStartWait
<1>9. ASSUME NEW c \in Callers, AplayStartClearSuspend(c) PROVE NoStaleStopInv'
  BY <1>9 DEF AplayStartClearSuspend
<1>10. ASSUME NEW c \in Callers, AplayStartClearStop(c) PROVE NoStaleStopInv'
  BY <1>10 DEF AplayStartClearStop
<1>11. ASSUME NEW c \in Callers, AplayStartSetRequest(c) PROVE NoStaleStopInv'
  BY <1>11 DEF AplayStartSetRequest
<1>12. ASSUME NEW c \in Callers, AplayStartCreate(c) PROVE NoStaleStopInv'
  BY <1>12 DEF AplayStartCreate
<1>13. ASSUME NEW c \in Callers, AplaySuspendCheck(c) PROVE NoStaleStopInv'
  BY <1>13 DEF AplaySuspendCheck
<1>14. ASSUME NEW c \in Callers, AplaySuspendToggle(c) PROVE NoStaleStopInv'
  BY <1>14 DEF AplaySuspendToggle
<1>15. ASSUME NEW c \in Callers, AplayPauseDecoder(c) PROVE NoStaleStopInv'
  BY <1>15 DEF AplayPauseDecoder
<1>16. ASSUME NEW c \in Callers, AplayResumeDecoder(c) PROVE NoStaleStopInv'
  BY <1>16 DEF AplayResumeDecoder
<1>17. ASSUME NEW c \in Callers, AplayResumePlayer(c) PROVE NoStaleStopInv'
  BY <1>17 DEF AplayResumePlayer
<1>18. ASSUME NEW p \in Players, OpenFile(p) PROVE NoStaleStopInv'
  BY <1>18 DEF OpenFile
<1>19. ASSUME NEW p \in Players, FileClearRequest(p) PROVE NoStaleStopInv'
  BY <1>19 DEF FileClearRequest
<1>20. ASSUME NEW p \in Players, WebTake(p) PROVE NoStaleStopInv'
  BY <1>20 DEF WebTake
<1>21. ASSUME NEW p \in Players, DecodeStartWait(p) PROVE NoStaleStopInv'
  BY <1>21 DEF DecodeStartWait
<1>22. ASSUME NEW p \in Players, DecodeStartClearSuspend(p) PROVE NoStaleStopInv'
  BY <1>22 DEF DecodeStartClearSuspend
<1>23. ASSUME NEW p \in Players, DecodeStartClearDestroy(p) PROVE NoStaleStopInv'
  BY <1>23 DEF DecodeStartClearDestroy
<1>24. ASSUME NEW p \in Players, DecodeStartCreate(p) PROVE NoStaleStopInv'
  BY <1>24 DEF DecodeStartCreate
<1>25. ASSUME NEW p \in Players, FileStopCheck(p) PROVE NoStaleStopInv'
  BY <1>25 DEF FileStopCheck
<1>26. ASSUME NEW p \in Players, FilePauseCheck(p) PROVE NoStaleStopInv'
  BY <1>26 DEF FilePauseCheck
<1>27. ASSUME NEW p \in Players, FileRead(p) PROVE NoStaleStopInv'
  BY <1>27 DEF FileRead
<1>28. ASSUME NEW p \in Players, WebConnect(p) PROVE NoStaleStopInv'
  BY <1>28 DEF WebConnect
<1>29. ASSUME NEW p \in Players, WebReceive(p) PROVE NoStaleStopInv'
  BY <1>29 DEF WebReceive
<1>30. ASSUME NEW p \in Players, WebClosed(p) PROVE NoStaleStopInv'
  BY <1>30 DEF WebClosed
<1>31. ASSUME NEW p \in Players, WebBody(p) PROVE NoStaleStopInv'
  BY <1>31 DEF WebBody
<1>32. ASSUME NEW p \in Players, WebPoll(p) PROVE NoStaleStopInv'
  BY <1>32 DEF WebPoll
<1>33. ASSUME NEW p \in Players, DecodeSend(p) PROVE NoStaleStopInv'
  BY <1>33 DEF DecodeSend
<1>34. ASSUME NEW p \in Players, PlayerExit(p) PROVE NoStaleStopInv'
  BY <1>34 DEF PlayerExit, SetPlayBit
<1>35. ASSUME NEW d \in Decoders, DecoderInit(d) PROVE NoStaleStopInv'
  BY <1>35 DEF DecoderInit
<1>36. ASSUME NEW d \in Decoders, DecoderDestroyCheck(d) PROVE NoStaleStopInv'
  BY <1>36 DEF DecoderDestroyCheck
<1>37. ASSUME NEW d \in Decoders, DecoderPauseCheck(d) PROVE NoStaleStopInv'
  BY <1>37 DEF DecoderPauseCheck
<1>38. ASSUME NEW d \in Decoders, DecoderDecode(d) PROVE NoStaleStopInv'
  BY <1>38 DEF DecoderDecode
<1>39. ASSUME NEW d \in Decoders, DecoderDelete(d) PROVE NoStaleStopInv'
  BY <1>39 DEF DecoderDelete
<1>40. ASSUME NEW d \in Decoders, DecoderExit(d) PROVE NoStaleStopInv'
  BY <1>40 DEF DecoderExit
<1>41. QED
  BY <1>1, <1>2, <1>3, <1>4, <1>5, <1>6, <1>7, <1>8, <1>9, <1>10,
     <1>11, <1>12, <1>13, <1>14, <1>15, <1>16, <1>17, <1>18, <1>19,
     <1>20, <1>21, <1>22, <1>23, <1>24, <1>25, <1>26, <1>27, <1>28,
     <1>29, <1>30, <1>31, <1>32, <1>33, <1>34, <1>35, <1>36, <1>37,
     <1>38, <1>39, <1>40
     DEF Next, CallerStep, PlayerStep, DecoderStep

\* Every step keeps the ring buffer alive under a player that feeds it, when memory lasts and
\* a new decoder creates the buffer before the player has its first chunk.
LEMMA RingStep ==
  ASSUME Button = {}, ~MallocFails, PromptDecoder,
         TypeInv, OneSession, OneDecoder, NoStaleStopInv, RingInv, Next
  PROVE  RingInv'
<1> USE AplayAssumption DEF Command, CallerGoes, PlayerGoes, DecoderGoes, SetBits,
           SetDecodeBits, SameBits, SameSource, TypeInv, TypeOK, OneSession, OneDecoder, NoStaleStopInv, RingInv, Feeding, Waited,
           DecoderReady, DecoderAlive, DecoderStarting, DecodeStartLabels, Callers, Alive, Starting, StartLabels, vars,
           callerVars, playerVars, decoderVars
<1>1. ASSUME NEW c \in Callers, NEW k \in Kinds, PlayCommand(c, k) PROVE RingInv'
  BY <1>1 DEF PlayCommand
<1>2. ASSUME NEW c \in Callers, StopCommand(c) PROVE RingInv'
  BY <1>2 DEF StopCommand
<1>3. ASSUME NEW c \in Callers, SuspendCommand(c) PROVE RingInv'
  BY <1>3 DEF SuspendCommand
<1>4. ASSUME NEW c \in Callers, AplayStop(c) PROVE RingInv'
  BY <1>4 DEF AplayStop
<1>5. ASSUME NEW c \in Callers, AplayStopNotify(c) PROVE RingInv'
  BY <1>5 DEF AplayStopNotify
<1>6. ASSUME NEW c \in Callers, AplayStopWait(c) PROVE RingInv'
  BY <1>6 DEF AplayStopWait
<1>7. ASSUME NEW c \in Callers, DecodeDestroy(c) PROVE RingInv'
  BY <1>7 DEF DecodeDestroy
<1>8. ASSUME NEW c \in Callers, AplayStartWait(c) PROVE RingInv'
  BY <1>8 DEF AplayStartWait
<1>9. ASSUME NEW c \in Callers, AplayStartClearSuspend(c) PROVE RingInv'
  BY <1>9 DEF AplayStartClearSuspend
<1>10. ASSUME NEW c \in Callers, AplayStartClearStop(c) PROVE RingInv'
  BY <1>10 DEF AplayStartClearStop
<1>11. ASSUME NEW c \in Callers, AplayStartSetRequest(c) PROVE RingInv'
  BY <1>11 DEF AplayStartSetRequest
<1>12. ASSUME NEW c \in Callers, AplayStartCreate(c) PROVE RingInv'
  BY <1>12 DEF AplayStartCreate
<1>13. ASSUME NEW c \in Callers, AplaySuspendCheck(c) PROVE RingInv'
  BY <1>13 DEF AplaySuspendCheck
<1>14. ASSUME NEW c \in Callers, AplaySuspendToggle(c) PROVE RingInv'
  BY <1>14 DEF AplaySuspendToggle
<1>15. ASSUME NEW c \in Callers, AplayPauseDecoder(c) PROVE RingInv'
  BY <1>15 DEF AplayPauseDecoder
<1>16. ASSUME NEW c \in Callers, AplayResumeDecoder(c) PROVE RingInv'
  BY <1>16 DEF AplayResumeDecoder
<1>17. ASSUME NEW c \in Callers, AplayResumePlayer(c) PROVE RingInv'
  BY <1>17 DEF AplayResumePlayer
<1>18. ASSUME NEW p \in Players, OpenFile(p) PROVE RingInv'
  BY <1>18 DEF OpenFile
<1>19. ASSUME NEW p \in Players, FileClearRequest(p) PROVE RingInv'
  BY <1>19 DEF FileClearRequest
<1>20. ASSUME NEW p \in Players, WebTake(p) PROVE RingInv'
  BY <1>20 DEF WebTake
<1>21. ASSUME NEW p \in Players, DecodeStartWait(p) PROVE RingInv'
  BY <1>21 DEF DecodeStartWait
<1>22. ASSUME NEW p \in Players, DecodeStartClearSuspend(p) PROVE RingInv'
  BY <1>22 DEF DecodeStartClearSuspend
<1>23. ASSUME NEW p \in Players, DecodeStartClearDestroy(p) PROVE RingInv'
  BY <1>23 DEF DecodeStartClearDestroy
<1>24. ASSUME NEW p \in Players, DecodeStartCreate(p) PROVE RingInv'
  BY <1>24 DEF DecodeStartCreate
<1>25. ASSUME NEW p \in Players, FileStopCheck(p) PROVE RingInv'
  BY <1>25 DEF FileStopCheck
<1>26. ASSUME NEW p \in Players, FilePauseCheck(p) PROVE RingInv'
  BY <1>26 DEF FilePauseCheck
<1>27. ASSUME NEW p \in Players, FileRead(p) PROVE RingInv'
  BY <1>27 DEF FileRead
<1>28. ASSUME NEW p \in Players, WebConnect(p) PROVE RingInv'
  BY <1>28 DEF WebConnect
<1>29. ASSUME NEW p \in Players, WebReceive(p) PROVE RingInv'
  BY <1>29 DEF WebReceive
<1>30. ASSUME NEW p \in Players, WebClosed(p) PROVE RingInv'
  BY <1>30 DEF WebClosed
<1>31. ASSUME NEW p \in Players, WebBody(p) PROVE RingInv'
  BY <1>31 DEF WebBody
<1>32. ASSUME NEW p \in Players, WebPoll(p) PROVE RingInv'
  BY <1>32 DEF WebPoll
<1>33. ASSUME NEW p \in Players, DecodeSend(p) PROVE RingInv'
  BY <1>33 DEF DecodeSend
<1>34. ASSUME NEW p \in Players, PlayerExit(p) PROVE RingInv'
  BY <1>34 DEF PlayerExit, SetPlayBit
<1>35. ASSUME NEW d \in Decoders, DecoderInit(d) PROVE RingInv'
  BY <1>35 DEF DecoderInit
<1>36. ASSUME NEW d \in Decoders, DecoderDestroyCheck(d) PROVE RingInv'
  BY <1>36 DEF DecoderDestroyCheck
<1>37. ASSUME NEW d \in Decoders, DecoderPauseCheck(d) PROVE RingInv'
  BY <1>37 DEF DecoderPauseCheck
<1>38. ASSUME NEW d \in Decoders, DecoderDecode(d) PROVE RingInv'
  BY <1>38 DEF DecoderDecode
<1>39. ASSUME NEW d \in Decoders, DecoderDelete(d) PROVE RingInv'
  BY <1>39 DEF DecoderDelete
<1>40. ASSUME NEW d \in Decoders, DecoderExit(d) PROVE RingInv'
  BY <1>40 DEF DecoderExit
<1>41. QED
  BY <1>1, <1>2, <1>3, <1>4, <1>5, <1>6, <1>7, <1>8, <1>9, <1>10,
     <1>11, <1>12, <1>13, <1>14, <1>15, <1>16, <1>17, <1>18, <1>19,
     <1>20, <1>21, <1>22, <1>23, <1>24, <1>25, <1>26, <1>27, <1>28,
     <1>29, <1>30, <1>31, <1>32, <1>33, <1>34, <1>35, <1>36, <1>37,
     <1>38, <1>39, <1>40
     DEF Next, CallerStep, PlayerStep, DecoderStep

\* Every step keeps the decoder's pause within the player's. Only the steps that clear the
\* player's bit, touch the decoder's, or bring a player to feed it are of interest: the
\* player's bit is cleared while no player is alive, or after the decoder's.
LEMMA NoStalePauseStep ==
  ASSUME Button = {}, TypeInv, OneSession, NoStalePauseInv, Next
  PROVE  NoStalePauseInv'
<1> USE AplayAssumption DEF Command, CallerGoes, PlayerGoes, DecoderGoes, SetBits,
           SetDecodeBits, SameBits, SameSource, TypeInv, TypeOK, JobInv, OneSession, NoStalePauseInv, Feeding,
           Callers, Alive, Starting, StartLabels, vars, callerVars, playerVars, decoderVars
<1>1. ASSUME NEW c \in Callers, \/ \E k \in Kinds : PlayCommand(c, k)
                               \/ StopCommand(c) \/ SuspendCommand(c)
      PROVE  NoStalePauseInv'
  BY <1>1 DEF PlayCommand, StopCommand, SuspendCommand
<1>2. ASSUME NEW c \in Callers, \/ AplayStop(c) \/ AplayStopNotify(c) \/ AplayStopWait(c)
                               \/ AplayStartWait(c) \/ AplayStartClearStop(c)
                               \/ AplayStartSetRequest(c) \/ AplaySuspendCheck(c)
      PROVE  NoStalePauseInv'
  BY <1>2 DEF AplayStop, AplayStopNotify, AplayStopWait, AplayStartWait, AplayStartClearStop,
     AplayStartSetRequest, AplaySuspendCheck
<1>3. ASSUME NEW c \in Callers, DecodeDestroy(c) PROVE NoStalePauseInv'
  BY <1>3 DEF DecodeDestroy
<1>4. ASSUME NEW c \in Callers, AplayStartClearSuspend(c) PROVE NoStalePauseInv'
  <2>1. \A p \in Players : ~Feeding(p) /\ ppc[p] \notin {"decDestroy", "decCreate"}
    BY <1>4 DEF AplayStartClearSuspend
  <2> QED BY <1>4, <2>1 DEF AplayStartClearSuspend
<1>5. ASSUME NEW c \in Callers, AplayStartCreate(c) PROVE NoStalePauseInv'
  BY <1>5 DEF AplayStartCreate
<1>6. ASSUME NEW c \in Callers, AplaySuspendToggle(c) PROVE NoStalePauseInv'
  BY <1>6 DEF AplaySuspendToggle
<1>7. ASSUME NEW c \in Callers, AplayPauseDecoder(c) PROVE NoStalePauseInv'
  BY <1>7 DEF AplayPauseDecoder
<1>8. ASSUME NEW c \in Callers, AplayResumeDecoder(c) PROVE NoStalePauseInv'
  BY <1>8 DEF AplayResumeDecoder
<1>9. ASSUME NEW c \in Callers, AplayResumePlayer(c) PROVE NoStalePauseInv'
  BY <1>9 DEF AplayResumePlayer
<1>10. ASSUME NEW p \in Players, \/ OpenFile(p) \/ FileClearRequest(p) \/ WebTake(p)
                                \/ DecodeStartWait(p)
       PROVE  NoStalePauseInv'
  BY <1>10 DEF OpenFile, FileClearRequest, WebTake, DecodeStartWait
<1>11. ASSUME NEW p \in Players, \/ DecodeStartClearSuspend(p) \/ DecodeStartClearDestroy(p)
                                \/ DecodeStartCreate(p)
       PROVE  NoStalePauseInv'
  BY <1>11 DEF DecodeStartClearSuspend, DecodeStartClearDestroy, DecodeStartCreate
<1>12. ASSUME NEW p \in Players, FileStopCheck(p) \/ FilePauseCheck(p) \/ FileRead(p)
       PROVE  NoStalePauseInv'
  BY <1>12 DEF FileStopCheck, FilePauseCheck, FileRead
<1>13. ASSUME NEW p \in Players, WebConnect(p) \/ WebReceive(p) \/ WebClosed(p)
       PROVE  NoStalePauseInv'
  BY <1>13 DEF WebConnect, WebReceive, WebClosed
<1>14. ASSUME NEW p \in Players, WebBody(p) \/ WebPoll(p) \/ DecodeSend(p)
       PROVE  NoStalePauseInv'
  BY <1>14 DEF WebBody, WebPoll, DecodeSend
<1>15. ASSUME NEW p \in Players, PlayerExit(p) PROVE NoStalePauseInv'
  BY <1>15 DEF PlayerExit, SetPlayBit
<1>16. ASSUME NEW d \in Decoders, \/ DecoderInit(d) \/ DecoderDestroyCheck(d)
                                 \/ DecoderPauseCheck(d) \/ DecoderDecode(d) \/ DecoderDelete(d)
       PROVE  NoStalePauseInv'
  BY <1>16 DEF DecoderInit, DecoderDestroyCheck, DecoderPauseCheck, DecoderDecode, DecoderDelete
<1>17. ASSUME NEW d \in Decoders, DecoderExit(d) PROVE NoStalePauseInv'
  BY <1>17 DEF DecoderExit
<1> QED
  BY <1>1, <1>2, <1>3, <1>4, <1>5, <1>6, <1>7, <1>8, <1>9, <1>10, <1>11, <1>12, <1>13, <1>14,
     <1>15, <1>16, <1>17
     DEF Next, CallerStep, PlayerStep, DecoderStep

\* The strengthened NoStaleStop holds in every reachable state.
LEMMA NoStaleStopInvariant == ASSUME Button = {} PROVE Spec => []NoStaleStopInv
<1>1. Init => NoStaleStopInv
  BY DEF Init, NoStaleStopInv, NoStaleStop, Alive, Callers
<1>2. TypeInv /\ OneSession /\ NoStaleStopInv /\ [Next]_vars => NoStaleStopInv'
  <2>1. NoStaleStopInv /\ UNCHANGED vars => NoStaleStopInv'
    BY DEF NoStaleStopInv, NoStaleStop, Alive, vars, callerVars, playerVars, decoderVars
  <2> QED BY NoStaleStopStep, <2>1
<1> QED BY <1>1, <1>2, TypeInvariant, OneSessionAlways, PTL DEF Spec

\* The stop of an earlier session never ends the next one.
THEOREM NoStaleStopAlways == ASSUME Button = {} PROVE Spec => []NoStaleStop
<1>1. NoStaleStopInv => NoStaleStop
  BY DEF NoStaleStopInv
<1> QED BY <1>1, NoStaleStopInvariant, PTL

\* A player that feeds its decoder finds it paused only when it has itself been paused: a
\* pause of an earlier session, late by the 50 ms of aplay_suspend(), never silences the next.
THEOREM NoStalePauseAlways == ASSUME Button = {} PROVE Spec => []NoStalePause
<1>1. Init => NoStalePauseInv
  BY DEF Init, NoStalePauseInv, Feeding, Callers
<1>2. TypeInv /\ OneSession /\ NoStalePauseInv /\ [Next]_vars => NoStalePauseInv'
  <2>1. NoStalePauseInv /\ UNCHANGED vars => NoStalePauseInv'
    BY DEF NoStalePauseInv, Feeding, vars, callerVars, playerVars, decoderVars
  <2> QED BY NoStalePauseStep, <2>1
<1>3. NoStalePauseInv => NoStalePause
  BY DEF NoStalePauseInv, NoStalePause, Feeding
<1> QED BY <1>1, <1>2, <1>3, TypeInvariant, OneSessionAlways, PTL DEF Spec

\* decode_send() is only called on a ring buffer that exists, provided that the
\* decoder gets its memory and starts before the first chunk has been read.
THEOREM SendOnLiveRingAlways ==
  ASSUME Button = {}, ~MallocFails, PromptDecoder
  PROVE  Spec => []SendOnLiveRing
<1>1. Init => RingInv
  BY DEF Init, RingInv, Feeding, Waited
<1>2. TypeInv /\ OneSession /\ OneDecoder /\ NoStaleStopInv /\ RingInv /\ [Next]_vars
        => RingInv'
  <2>1. RingInv /\ UNCHANGED vars => RingInv'
    BY DEF RingInv, Feeding, Waited, vars, callerVars, playerVars, decoderVars
  <2> QED BY RingStep, <2>1
<1>3. RingInv => SendOnLiveRing
  BY DEF RingInv, SendOnLiveRing, Feeding, Waited
<1> QED BY <1>1, <1>2, <1>3, TypeInvariant, OneSessionAlways, OneDecoderAlways,
           NoStaleStopInvariant, PTL DEF Spec

----------------------------------------------------------------------------
(* The player, with commands from one task, takes no step but those of     *)
(* AplaySession: for any number of slots and chunks, any decoder, in       *)
(* memory or out of it.  What AplaySession says of liveness is left to the *)
(* model checker.                                                          *)

\* What a command knows of the session it acts on.  It has seen that nothing is being
\* requested, and only its own task could request something since; a session is requested
\* with REQUEST set and SUSPEND clear, so that it begins in "start" and not paused.
RequestInv ==
  /\ \A c \in Callers :
       cpc[c] \in (StopLabels \ {"stopDestroy"}) \cup {"suspendToggle"} =>
         "PLAY" \in bits \/ "REQUEST" \notin bits
  /\ \A c \in Callers : cpc[c] # "startBlocked"
  /\ \A c \in Callers :
       cpc[c] \in {"startStop", "startRequest", "startCreate"} => "SUSPEND" \notin bits
  /\ \A c \in Callers : cpc[c] = "startCreate" => "REQUEST" \in bits
  /\ "PLAY" \notin bits /\ "REQUEST" \in bits /\ (\A c \in Callers : ~Starting(c))
       => "SUSPEND" \notin bits

\* Every step keeps RequestInv: the bits change hands between the one caller and the one
\* player only.
LEMMA RequestStep ==
  ASSUME Button = {}, TypeInv, OneSession, NoStaleStopInv, RequestInv, Next
  PROVE  RequestInv'
<1> USE AplayAssumption DEF Command, CallerGoes, PlayerGoes, DecoderGoes, SetBits,
           SetDecodeBits, SameBits, SameSource, TypeInv, TypeOK, JobInv, OneSession,
           NoStaleStopInv, RequestInv, StopLabels, Callers, Alive, Starting, StartLabels,
           AplayState, vars, callerVars, playerVars, decoderVars
<1>1. ASSUME NEW c \in Callers, NEW k \in Kinds, PlayCommand(c, k) PROVE RequestInv'
  BY <1>1 DEF PlayCommand
<1>2. ASSUME NEW c \in Callers, StopCommand(c) PROVE RequestInv'
  BY <1>2 DEF StopCommand
<1>3. ASSUME NEW c \in Callers, SuspendCommand(c) PROVE RequestInv'
  BY <1>3 DEF SuspendCommand
<1>4. ASSUME NEW c \in Callers, AplayStop(c) PROVE RequestInv'
  BY <1>4 DEF AplayStop
<1>5. ASSUME NEW c \in Callers, AplayStopNotify(c) PROVE RequestInv'
  BY <1>5 DEF AplayStopNotify
<1>6. ASSUME NEW c \in Callers, AplayStopWait(c) PROVE RequestInv'
  BY <1>6 DEF AplayStopWait
<1>7. ASSUME NEW c \in Callers, DecodeDestroy(c) PROVE RequestInv'
  BY <1>7 DEF DecodeDestroy
<1>8. ASSUME NEW c \in Callers, AplayStartWait(c) PROVE RequestInv'
  BY <1>8 DEF AplayStartWait
<1>9. ASSUME NEW c \in Callers, AplayStartClearSuspend(c) PROVE RequestInv'
  BY <1>9 DEF AplayStartClearSuspend
<1>10. ASSUME NEW c \in Callers, AplayStartClearStop(c) PROVE RequestInv'
  BY <1>10 DEF AplayStartClearStop
<1>11. ASSUME NEW c \in Callers, AplayStartSetRequest(c) PROVE RequestInv'
  BY <1>11 DEF AplayStartSetRequest
<1>12. ASSUME NEW c \in Callers, AplayStartCreate(c) PROVE RequestInv'
  BY <1>12 DEF AplayStartCreate
<1>13. ASSUME NEW c \in Callers, AplaySuspendCheck(c) PROVE RequestInv'
  BY <1>13 DEF AplaySuspendCheck
<1>14. ASSUME NEW c \in Callers, AplaySuspendToggle(c) PROVE RequestInv'
  BY <1>14 DEF AplaySuspendToggle
<1>15. ASSUME NEW c \in Callers,
              AplayPauseDecoder(c) \/ AplayResumeDecoder(c) \/ AplayResumePlayer(c)
       PROVE  RequestInv'
  BY <1>15 DEF AplayPauseDecoder, AplayResumeDecoder, AplayResumePlayer
<1>16. ASSUME NEW p \in Players, FileClearRequest(p) PROVE RequestInv'
  BY <1>16 DEF FileClearRequest
<1>17. ASSUME NEW p \in Players, WebReceive(p) PROVE RequestInv'
  BY <1>17 DEF WebReceive
<1>18. ASSUME NEW p \in Players, PlayerExit(p) PROVE RequestInv'
  BY <1>18 DEF PlayerExit, SetPlayBit
<1>19. ASSUME NEW p \in Players, \/ OpenFile(p) \/ WebTake(p) \/ FileStopCheck(p)
                                \/ FilePauseCheck(p) \/ FileRead(p) \/ WebConnect(p)
                                \/ WebClosed(p) \/ WebBody(p) \/ WebPoll(p) \/ DecodeSend(p)
       PROVE  RequestInv'
  <2>1. UNCHANGED <<bits, cpc>>
    BY <1>19 DEF OpenFile, WebTake, FileStopCheck, FilePauseCheck, FileRead, WebConnect,
       WebClosed, WebBody, WebPoll, DecodeSend
  <2> QED BY <2>1
<1>20. ASSUME NEW p \in Players, \/ DecodeStartWait(p) \/ DecodeStartClearSuspend(p)
                                \/ DecodeStartClearDestroy(p) \/ DecodeStartCreate(p)
       PROVE  RequestInv'
  <2>1. UNCHANGED <<bits, cpc>>
    BY <1>20 DEF DecodeStartWait, DecodeStartClearSuspend, DecodeStartClearDestroy,
       DecodeStartCreate
  <2> QED BY <2>1
<1>21. ASSUME NEW d \in Decoders, DecoderStep(d) PROVE RequestInv'
  <2>1. UNCHANGED <<bits, cpc>>
    BY <1>21 DEF DecoderStep, DecoderInit, DecoderDestroyCheck, DecoderPauseCheck,
       DecoderDecode, DecoderDelete, DecoderExit
  <2> QED BY <2>1
<1> QED
  BY <1>1, <1>2, <1>3, <1>4, <1>5, <1>6, <1>7, <1>8, <1>9, <1>10, <1>11, <1>12, <1>13, <1>14,
     <1>15, <1>16, <1>17, <1>18, <1>19, <1>20, <1>21
     DEF Next, CallerStep, PlayerStep

----------------------------------------------------------------------------
(* The refinement. *)

\* What the users of the player see of a step is a step of AplaySession or nothing.
SessionStep == Session!Next \/ UNCHANGED <<SessionState, Stopping>>

\* There is one caller, so what one caller does not ask for nobody asks for.
LEMMA OneCaller ==
  ASSUME Button = {}
  PROVE  \A c, e \in Callers : c = e
BY AplayAssumption DEF Callers

\* A step that changes neither the player's bits nor whether its caller starts or stops
\* a session is not seen.
LEMMA Unseen ==
  ASSUME UNCHANGED bits,
         \A c \in Callers : /\ Starting(c)' <=> Starting(c)
                            /\ cpc'[c] \in StopLabels \ {"stopSet"}
                                 <=> cpc[c] \in StopLabels \ {"stopSet"}
  PROVE  UNCHANGED <<SessionState, Stopping>>
<1>1. (\E c \in Callers : Starting(c))' <=> (\E c \in Callers : Starting(c))
  OBVIOUS
<1>2. AplayState' = AplayState
  BY DEF AplayState
<1>3. SessionState' = SessionState
  BY <1>1, <1>2 DEF SessionState
<1>4. Stopping' = Stopping
  BY DEF Stopping
<1> QED BY <1>3, <1>4

\* Every step of Aplay maps to a step or a stutter of AplaySession.
LEMMA SessionSteps ==
  ASSUME Button = {}, TypeInv, OneSession, NoStaleStopInv, RequestInv, Next
  PROVE  SessionStep
<1> USE OneCaller DEF Command, CallerGoes, PlayerGoes, DecoderGoes, SetBits,
           SetDecodeBits, SameBits, TypeInv, TypeOK, Starting, StartLabels, StopLabels
<1>1. ASSUME NEW c \in Callers, \/ \E k \in Kinds : PlayCommand(c, k)
                               \/ StopCommand(c) \/ SuspendCommand(c)
      PROVE  SessionStep
  BY <1>1, Unseen DEF PlayCommand, StopCommand, SuspendCommand, SessionStep
<1>2. ASSUME NEW c \in Callers, AplayStop(c) PROVE SessionStep
  <2>1. /\ SessionState' = SessionState
        /\ Stopping' = ("PLAY" \notin bits)
        /\ ~Stopping
    BY <1>2 DEF AplayStop, SessionState, AplayState, Stopping
  <2>2. CASE "PLAY" \in bits
    BY <2>1, <2>2 DEF SessionStep, Stopping
  <2>3. CASE "PLAY" \notin bits
    <3>1. SessionState \in {"start", "suspend"}
      BY <1>2, <2>3 DEF AplayStop, RequestInv, SessionState, AplayState
    <3> QED BY <2>1, <2>3, <3>1 DEF SessionStep, Session!Next, Session!AskToStop
  <2> QED BY <2>2, <2>3
<1>3. ASSUME NEW c \in Callers, AplayStopNotify(c) \/ AplayStopWait(c)
      PROVE  SessionStep
  <2>1. CASE AplayStopNotify(c)
    BY <2>1, Unseen DEF AplayStopNotify, SessionStep
  <2>2. CASE AplayStopWait(c)
    BY <2>2, Unseen DEF AplayStopWait, SessionStep
  <2> QED BY <1>3, <2>1, <2>2
<1>4. ASSUME NEW c \in Callers, DecodeDestroy(c) PROVE SessionStep
  <2>1. "PLAY" \in bits
    BY <1>4 DEF DecodeDestroy, NoStaleStopInv
  <2>2. UNCHANGED <<SessionState, Stopping>>
    BY <1>4, <2>1 DEF DecodeDestroy, SessionState, AplayState, Stopping
  <2> QED BY <2>2 DEF SessionStep
<1>5. ASSUME NEW c \in Callers, AplayStartWait(c) PROVE SessionStep
  <2>1. "PLAY" \in bits
    BY <1>5 DEF AplayStartWait, NoStaleStopInv
  <2>2. SessionState = "stop" /\ SessionState' = "request"
    BY <1>5, <2>1 DEF AplayStartWait, SessionState, AplayState
  <2>3. Stopping' = Stopping
    BY <1>5, <2>1 DEF AplayStartWait, Stopping
  <2> QED BY <2>2, <2>3 DEF SessionStep, Session!Next, Session!Request
<1>6. ASSUME NEW c \in Callers, \/ AplayStartClearSuspend(c) \/ AplayStartClearStop(c)
                               \/ AplayStartSetRequest(c)
      PROVE  SessionStep
  <2>1. /\ Starting(c) /\ Starting(c)'
        /\ cpc[c] \notin StopLabels /\ cpc'[c] \notin StopLabels
    BY <1>6 DEF AplayStartClearSuspend, AplayStartClearStop, AplayStartSetRequest
  <2>2. SessionState' = "request" /\ SessionState = "request"
    BY <2>1 DEF SessionState
  <2>3. Stopping' = FALSE /\ Stopping = FALSE
    BY <2>1 DEF Stopping
  <2> QED BY <2>2, <2>3 DEF SessionStep
<1>7. ASSUME NEW c \in Callers, AplayStartCreate(c) PROVE SessionStep
  <2>1. "REQUEST" \in bits /\ "PLAY" \notin bits
    BY <1>7 DEF AplayStartCreate, RequestInv, OneSession
  <2>2. SessionState' = "request" /\ SessionState = "request"
    BY <1>7, <2>1 DEF AplayStartCreate, SessionState, AplayState
  <2>3. Stopping' = Stopping
    BY <1>7 DEF AplayStartCreate, Stopping
  <2> QED BY <2>2, <2>3 DEF SessionStep
<1>8. ASSUME NEW c \in Callers, AplaySuspendCheck(c) \/ AplayPauseDecoder(c)
                               \/ AplayResumeDecoder(c)
      PROVE  SessionStep
  BY <1>8, Unseen DEF AplaySuspendCheck, AplayPauseDecoder, AplayResumeDecoder, SessionStep
<1>9. ASSUME NEW c \in Callers, AplaySuspendToggle(c) PROVE SessionStep
  <2>1. Stopping' = FALSE /\ Stopping = FALSE
    BY <1>9 DEF AplaySuspendToggle, Stopping
  <2>2. \/ SessionState = "start" /\ SessionState' = "suspend"
        \/ SessionState' = SessionState
    BY <1>9 DEF AplaySuspendToggle, RequestInv, SessionState, AplayState
  <2> QED BY <2>1, <2>2 DEF SessionStep, Session!Next, Session!Pause
<1>10. ASSUME NEW c \in Callers, AplayResumePlayer(c) PROVE SessionStep
  <2>1. Stopping' = FALSE /\ Stopping = FALSE
    BY <1>10 DEF AplayResumePlayer, Stopping
  <2>2. \/ SessionState = "suspend" /\ SessionState' = "start"
        \/ SessionState' = SessionState
    BY <1>10 DEF AplayResumePlayer, SessionState, AplayState
  <2> QED BY <2>1, <2>2 DEF SessionStep, Session!Next, Session!Resume
<1>11. ASSUME NEW p \in Players, FileClearRequest(p) \/ WebReceive(p) PROVE SessionStep
  <2>1. /\ bits' \in {bits, bits \ {"REQUEST"}}
        /\ cpc' = cpc
        /\ Alive(p)
    BY <1>11 DEF FileClearRequest, WebReceive, callerVars, Alive
  <2>2. Stopping' = Stopping
    BY <2>1 DEF Stopping
  <2>3. \/ SessionState = "request" /\ SessionState' = "start"
        \/ SessionState' = SessionState
    <3>1. "PLAY" \notin bits /\ \A c \in Callers : ~Starting(c)
      BY <2>1 DEF OneSession
    <3> QED BY <2>1, <3>1 DEF RequestInv, SessionState, AplayState
  <2> QED BY <2>2, <2>3 DEF SessionStep, Session!Next, Session!Begin
<1>12. ASSUME NEW p \in Players, PlayerExit(p) PROVE SessionStep
  <2>1. "PLAY" \notin bits /\ \A c \in Callers : ~Starting(c)
    BY <1>12 DEF PlayerExit, OneSession, Alive
  <2>2. /\ "PLAY" \in bits'
        /\ \A c \in Callers : ~Starting(c)'
    BY <1>12, <2>1 DEF PlayerExit, SetPlayBit, RequestInv
  <2>3. SessionState # "stop" /\ SessionState' = "stop"
    BY <2>1, <2>2 DEF SessionState, AplayState
  <2>4. Stopping' = FALSE
    BY <2>2 DEF Stopping
  <2> QED BY <2>3, <2>4 DEF SessionStep, Session!Next, Session!Finish
<1>13. ASSUME NEW p \in Players, \/ OpenFile(p) \/ WebTake(p) \/ FileStopCheck(p)
                                \/ FilePauseCheck(p) \/ FileRead(p) \/ WebConnect(p)
                                \/ WebClosed(p) \/ WebBody(p) \/ WebPoll(p) \/ DecodeSend(p)
       PROVE  SessionStep
  <2>1. UNCHANGED <<bits, cpc>>
    BY <1>13 DEF OpenFile, WebTake, FileStopCheck, FilePauseCheck, FileRead, WebConnect,
       WebClosed, WebBody, WebPoll, DecodeSend, callerVars
  <2> QED BY <2>1, Unseen DEF SessionStep
<1>14. ASSUME NEW p \in Players, \/ DecodeStartWait(p) \/ DecodeStartClearSuspend(p)
                                \/ DecodeStartClearDestroy(p) \/ DecodeStartCreate(p)
       PROVE  SessionStep
  <2>1. UNCHANGED <<bits, cpc>>
    BY <1>14 DEF DecodeStartWait, DecodeStartClearSuspend, DecodeStartClearDestroy,
       DecodeStartCreate, callerVars
  <2> QED BY <2>1, Unseen DEF SessionStep
<1>15. ASSUME NEW d \in Decoders, DecoderStep(d) PROVE SessionStep
  <2>1. UNCHANGED <<bits, cpc>>
    BY <1>15 DEF DecoderStep, DecoderInit, DecoderDestroyCheck, DecoderPauseCheck,
       DecoderDecode, DecoderDelete, DecoderExit, callerVars
  <2> QED BY <2>1, Unseen DEF SessionStep
<1> QED
  BY <1>1, <1>2, <1>3, <1>4, <1>5, <1>6, <1>7, <1>8, <1>9, <1>10, <1>11, <1>12, <1>13, <1>14,
     <1>15
     DEF Next, CallerStep, PlayerStep

\* With commands from one task, the player of aplay.c is a session of AplaySession: nobody
\* sees it go from one state of aplay_get_state() to another but by those steps.
THEOREM SessionImplemented ==
  ASSUME Button = {}
  PROVE  Spec => Session!Init /\ [][Session!Next]_(Session!vars)
<1>1. Init => RequestInv
  BY DEF Init, RequestInv, StopLabels, Callers
<1>2. TypeInv /\ OneSession /\ NoStaleStopInv /\ RequestInv /\ [Next]_vars => RequestInv'
  <2>1. RequestInv /\ UNCHANGED vars => RequestInv'
    BY DEF RequestInv, Starting, vars, callerVars, playerVars, decoderVars
  <2> QED BY RequestStep, <2>1
<1>3. Init => Session!Init
  BY DEF Init, Session!Init, SessionState, Stopping, AplayState, Starting, StartLabels,
     Callers
<1>4. TypeInv /\ OneSession /\ NoStaleStopInv /\ RequestInv /\ [Next]_vars
        => [Session!Next]_(Session!vars)
  <2>1. ASSUME UNCHANGED vars PROVE UNCHANGED <<SessionState, Stopping>>
    BY <2>1, Unseen DEF Starting, vars, callerVars
  <2>2. SessionStep => [Session!Next]_(Session!vars)
    BY DEF SessionStep, Session!vars
  <2>3. TypeInv /\ OneSession /\ NoStaleStopInv /\ RequestInv /\ Next => SessionStep
    BY SessionSteps
  <2> QED BY <2>1, <2>2, <2>3 DEF Session!vars
<1> QED BY <1>1, <1>2, <1>3, <1>4, TypeInvariant, OneSessionAlways, NoStaleStopInvariant,
           PTL DEF Spec

============================================================================
