------------------------------- MODULE Codec --------------------------------
(***************************************************************************)
(* The audio codec as the program uses it: components/bsp/audio.c over the *)
(* setters of Wm8978.  A write reads the cache, stores the new value there *)
(* and sends it over I2C; several tasks do this with no lock.              *)
(*                                                                         *)
(* part = "api": one caller, any setters in any order.                     *)
(* part = "paths": the board after at_cmd_init(), with the task of the AT  *)
(* commands (volume) and that of the buttons (microphone).                 *)
(* part = "rates": the same board, with the task of the WAV player or      *)
(* recorder and that of the MP3 decoder; they share no register with the   *)
(* other two, so the two pairs are looked at apart.                        *)
(***************************************************************************)
EXTENDS Wm8978, FiniteSets, SequencesExt

CONSTANTS
  MaxCalls,   \* setter calls of the "api" part
  Rates,      \* indices of SAMPLE_RATE_CFG that streams come in
  Volumes,    \* volumes that AT+VOL sets
  VolumeRequests, MicRequests,   \* how often the command and the button task are asked
  Lost        \* how many I2C writes may fail

ASSUME CodecAssumption == Rates \subseteq {0, 1, 2, 3, 4, 5, 8} /\ Volumes \subseteq 0..63

VARIABLES
  part,
  cache,     \* WM8978_REGVAL_TBL
  chip,      \* the registers of the WM8978
  claims,    \* "api": for each setter called, the bits it put and what it put there
  calls,     \* setter calls ("api"), and requests to the command and button tasks, so far
  todo,      \* the others: the writes each task has still to make
  hand,      \* the value a task has read and changed, and whether it is in the cache yet
  i2s,       \* the I2S driver: clock (an index of SAMPLE_RATE_CFG) and the channel received
  lost,      \* registers whose last I2C write failed
  crossed,   \* registers that two tasks wrote at the same time
  mic,       \* the last record_setChannel()
  session,   \* what the player task plays
  decoder,   \* the MP3 decoder task: off, on, or on after DECODE_DESTROY_BIT
  prevRate,  \* mp3_decode.c's, an index of SAMPLE_RATE_CFG, 9 for none
  late       \* did a destroyed decoder set the rate of this session?
vars == <<part, cache, chip, claims, calls, todo, hand, i2s, lost, crossed, mic, session,
          decoder, prevRate, late>>

Tasks == {"command", "button", "player", "decoder"}
Nothing == [reg |-> 99, value |-> {}, stored |-> FALSE]
NoRate == 9
None == <<"none", NoRate>>

----------------------------------------------------------------------------
(* audio.c: what each function writes; the I2S driver's settings are ops   *)
(* of their own.                                                           *)

SAMPLE_RATE_CFG == <<48000, 32000, 24000, 16000, 12000, 8000, 0, 0, 44100>>
WORD_LEN_CFG == <<16, 20, 24, 32>>
Stereo == "I2S_CHANNEL_FMT_RIGHT_LEFT"
Mono == "I2S_CHANNEL_FMT_ONLY_LEFT"

I2s(what, setting) == [reg |-> what, keep |-> {}, put |-> {setting}]
Clock == 100
RxChannel == 101

\* Audio_setSampleRates(), without CONFIG_PLL_SUPPORT.
SetSampleRates(rate) == SampleRate(rate % 8) \o <<I2s(Clock, rate)>>
\* Audio_setTxclk(): a rate that is not in the table changes nothing.
SetTxclk(rate) == IF rate < NoRate THEN SetSampleRates(rate) ELSE <<>>
LeftMic(on) == IF on THEN InpPGAL(2) \o BoostL(TRUE, 1, 0, 0) ELSE InpPGAL(0) \o BoostL(FALSE, 0, 0, 0)
\* Seeded fault in RightMic: it stays on.
RightMicStaysOn(on) == InpPGAR(2) \o BoostR(TRUE, 1, 0, 0)
RightMic(on) == IF on THEN InpPGAR(2) \o BoostR(TRUE, 1, 0, 0) ELSE InpPGAR(0) \o BoostR(FALSE, 0, 0, 0)
EarphoneVolume(mute, vol) == LOUT1Volume(mute, vol) \o ROUT1Volume(mute, vol)
SpeakerVolume(mute, vol) == LOUT2Volume(mute, vol) \o ROUT2Volume(mute, vol)
EarphoneSpeaker(vol) ==
  OUT1Enable(TRUE, TRUE) \o OUT2Enable(TRUE, TRUE) \o SpkBoost(TRUE) \o
  EarphoneVolume(FALSE, vol) \o SpeakerVolume(FALSE, vol) \o
  SlowClkEnable(TRUE) \o JDen(1, 32) \o JDSel(0, TRUE)
\* Audio_i2s_init() after the reset, with CONFIG_GPIO_SUPPORT.
I2sInit(rate) ==
  SampleRate(rate % 8) \o ClockControl(FALSE, 0, 0, 0) \o I2SInterface(2, 0) \o
  VMID(TRUE, 3) \o MicBias(TRUE, 1) \o TSDEnable(TRUE) \o MIXEnable(TRUE, TRUE) \o
  DACEnable(TRUE, TRUE) \o DACMode(1, TRUE, FALSE) \o LeftMixer(TRUE, FALSE, FALSE, 0, 0) \o
  RightMixer(TRUE, FALSE, FALSE, 0, 0) \o InvROUT2(TRUE, FALSE) \o ADCEnable(TRUE, TRUE) \o
  ADCMode(1) \o EQ3DMode(1)
\* record_setChannel()
SetChannel(m) ==
  IF m = "MIC_BOARD"
  THEN <<I2s(RxChannel, 4)>> \o LeftMic(FALSE) \o RightMic(TRUE) \o PGAGainR(FALSE, 45)
  ELSE <<I2s(RxChannel, 3)>> \o RightMic(FALSE) \o LeftMic(TRUE) \o PGAGainL(FALSE, 45)

\* waveheader_init() and waveheader_read(), on the fields of the header that vary;
\* before is what the caller left in i2s_params.
HeaderOf(p) ==
  [channels |-> IF p.channel = Stereo THEN 2 ELSE 1,
   rate |-> SAMPLE_RATE_CFG[p.rate + 1], bits |-> WORD_LEN_CFG[p.wlen + 1]]
\* Seeded fault in ReadHeader: the last rate of the table is not looked at.
ReadHeaderShort(h, before) ==
  LET rates == {i \in 0..7 : SAMPLE_RATE_CFG[i + 1] = h.rate}
  IN  IF rates = {} THEN [ok |-> FALSE, params |-> before]
      ELSE [ok |-> TRUE, params |-> [channel |-> IF h.channels > 1 THEN Stereo ELSE Mono,
                                     rate |-> CHOOSE i \in rates : \A j \in rates : i <= j,
                                     wlen |-> CHOOSE i \in 0..3 : WORD_LEN_CFG[i + 1] = h.bits]]
ReadHeader(h, before) ==
  LET rates == {i \in 0..8 : SAMPLE_RATE_CFG[i + 1] = h.rate}
      lengths == {i \in 0..3 : WORD_LEN_CFG[i + 1] = h.bits}
      rate == IF rates = {} THEN before.rate ELSE CHOOSE i \in rates : \A j \in rates : i <= j
      wlen == IF lengths = {} THEN before.wlen ELSE CHOOSE i \in lengths : TRUE
  IN  [ok |-> (rates # {} \/ before.rate = 9) /\ (lengths # {} \/ before.wlen = 4),
       params |-> [channel |-> IF h.channels > 1 THEN Stereo ELSE Mono, rate |-> rate, wlen |-> wlen]]

----------------------------------------------------------------------------
(* Setters called one after the other.                                     *)

\* Every setter, for a switch b and numbers v (an enumeration's value is v within its size).
ApiCalls(b, v) ==
  LET E == Beside(InterfaceEnum, GainEnum)
      e(name) == v % E[name]
  IN  [Sleep |-> Sleep(b), I2SInterface |-> I2SInterface(e("i2s_mode"), e("word_len")),
       Loopback |-> Loopback(b), ClockControl |-> ClockControl(b, e("clk"), e("bclk"), e("mclk")),
       VMID |-> VMID(b, e("vmid")), PLLEnable |-> PLLEnable(b),
       PLLClock |-> PLLClock(b, v, 65793 * v), SampleRate |-> SampleRate(e("rate")),
       ADCEnable |-> ADCEnable(b, b), ADCMode |-> ADCMode(e("osr")), ADCVolume |-> ADCVolume(v, v),
       InpPGAL |-> InpPGAL(e("inp")), InpPGAR |-> InpPGAR(e("inp")), PGAGainL |-> PGAGainL(b, v),
       PGAGainR |-> PGAGainR(b, v), BoostL |-> BoostL(b, v, v, v), BoostR |-> BoostR(b, v, v, v),
       MicBias |-> MicBias(b, e("mbv")), ALCGain |-> ALCGain(e("alc_on"), v, v),
       ALCMode |-> ALCMode(e("alc_mode"), v, v, v, v), ALCNoiseGate |-> ALCNoiseGate(b, v),
       EQ3DMode |-> EQ3DMode(e("eq3d")), EQ1 |-> EQ1(v, e("cutoff")), EQ2 |-> EQ2(v, e("cutoff"), b),
       EQ3 |-> EQ3(v, e("cutoff"), b), EQ4 |-> EQ4(v, e("cutoff"), b), EQ5 |-> EQ5(v, e("cutoff")),
       Depth3D |-> Depth3D(v), NotchFilter |-> NotchFilter(b, v * 64, v * 64),
       DACEnable |-> DACEnable(b, b), DACMode |-> DACMode(e("osr"), b, b),
       DACVolume |-> DACVolume(v, v), DACLimiter |-> DACLimiter(b, v, v, v, v),
       OUT1Enable |-> OUT1Enable(b, b), OUT2Enable |-> OUT2Enable(b, b),
       OUT3Enable |-> OUT3Enable(b), OUT4Enable |-> OUT4Enable(b), MIXEnable |-> MIXEnable(b, b),
       LeftMixer |-> LeftMixer(b, b, b, v, v), RightMixer |-> RightMixer(b, b, b, v, v),
       OUT3MIXEnable |-> OUT3MIXEnable(b), OUT3Mixer |-> OUT3Mixer(b, b, b, b, b),
       OUT4MIXEnable |-> OUT4MIXEnable(b), OUT4Mixer |-> OUT4Mixer(b, b, b, b, b, b),
       LOUT1Volume |-> LOUT1Volume(b, v), ROUT1Volume |-> ROUT1Volume(b, v),
       SpkBoost |-> SpkBoost(b), OUT3Boost |-> OUT3Boost(b), OUT4Boost |-> OUT4Boost(b),
       InvROUT2 |-> InvROUT2(b, b), BeepVol |-> BeepVol(b, v), LOUT2Volume |-> LOUT2Volume(b, v),
       ROUT2Volume |-> ROUT2Volume(b, v), TSDEnable |-> TSDEnable(b), BufIO |-> BufIO(b, e("vroi")),
       SlowClkEnable |-> SlowClkEnable(b), GPIO1 |-> GPIO1(e("gpio"), b),
       JDSel |-> JDSel(e("jd"), b), JDen |-> JDen(v, v)]

CallSet ==
  UNION {{[name |-> n, writes |-> ApiCalls(b, v)[n]] : n \in DOMAIN ApiCalls(b, v)}
         : b \in BOOLEAN, v \in {0, 15, 255}}

\* All writes of a call, one after the other.
OneWrite(regs, w) == IF w.reg \in Registers THEN [regs EXCEPT ![w.reg] = NewValue(regs, w)] ELSE regs
After(regs, writes) ==
  LET after[n \in 0..Len(writes)] == IF n = 0 THEN regs ELSE OneWrite(after[n - 1], writes[n])
  IN  after[Len(writes)]
SentAfter(regs, writes) ==
  [r \in Registers |-> IF \E i \in DOMAIN writes : writes[i].reg = r
                       THEN Sent(After(cache, writes)[r]) ELSE regs[r]]

\* What the caller of the setter may count on from now on.
Claimed(c) ==
  {[reg |-> w.reg, bits |-> NineBits \ w.keep, put |-> Sent(w.put)] : w \in Range(c.writes)}
  \cup {old \in (IF c.name \in DOMAIN claims THEN claims[c.name] ELSE {}) :
          \A w \in Range(c.writes) : w.reg # old.reg}
Unclaimed == [r \in {} |-> {}]
ApiSet ==
  /\ part = "api" /\ calls.api < MaxCalls
  /\ \E c \in CallSet :
       /\ cache' = After(cache, c.writes)
       /\ chip' = SentAfter(chip, c.writes)
       /\ claims' = [n \in DOMAIN claims \cup {c.name} |->
                       IF n = c.name THEN Claimed(c) ELSE claims[n]]
  /\ calls' = [calls EXCEPT !.api = @ + 1]
  /\ UNCHANGED <<part, todo, hand, i2s, lost, crossed, mic, session, decoder, prevRate, late>>

\* WM8978_Reset(): the register write resets the chip, the table is copied over the cache.
ApiReset ==
  /\ part = "api" /\ calls.api < MaxCalls
  /\ cache' = ResetCache /\ chip' = PowerOn
  /\ claims' = Unclaimed /\ calls' = [calls EXCEPT !.api = @ + 1]
  /\ UNCHANGED <<part, todo, hand, i2s, lost, crossed, mic, session, decoder, prevRate, late>>

----------------------------------------------------------------------------
(* Tasks: one step per access to the cache, the chip or the I2S driver.    *)

Idle(t) == todo[t] = <<>>
Give(t, writes) == todo' = [todo EXCEPT ![t] = @ \o writes]

\* WM8978_readReg() and the setter's change of the value, in a local variable.
ReadReg(t) ==
  /\ ~Idle(t) /\ Head(todo[t]).reg \in Registers /\ hand[t] = Nothing
  /\ hand' = [hand EXCEPT ![t] = [reg |-> Head(todo[t]).reg,
                                  value |-> NewValue(cache, Head(todo[t])), stored |-> FALSE]]
  /\ crossed' = crossed \cup {r \in {Head(todo[t]).reg} : \E u \in Tasks \ {t} : hand[u].reg = r}
  /\ UNCHANGED <<part, cache, chip, claims, calls, todo, i2s, lost, mic, session, decoder,
                 prevRate, late>>

\* WM8978_writeReg() up to the store.
StoreReg(t) ==
  /\ hand[t] # Nothing /\ ~hand[t].stored
  /\ cache' = [cache EXCEPT ![hand[t].reg] = hand[t].value]
  /\ hand' = [hand EXCEPT ![t].stored = TRUE]
  /\ UNCHANGED <<part, chip, claims, calls, todo, i2s, lost, crossed, mic, session, decoder,
                 prevRate, late>>

\* I2C_writeByte(): its result is not looked at.
SendReg(t) ==
  /\ hand[t].stored
  /\ LET r == hand[t].reg
     IN  \/ chip' = [chip EXCEPT ![r] = Sent(hand[t].value)] /\ lost' = lost \ {r}
         \/ Cardinality(lost) < Lost /\ lost' = lost \cup {r} /\ UNCHANGED chip
  /\ hand' = [hand EXCEPT ![t] = Nothing]
  /\ todo' = [todo EXCEPT ![t] = Tail(@)]
  /\ UNCHANGED <<part, cache, claims, calls, i2s, crossed, mic, session, decoder, prevRate, late>>

\* i2s_set_sample_rates(), or the channel register of the I2S peripheral.
SetI2s(t) ==
  /\ ~Idle(t) /\ Head(todo[t]).reg \notin Registers
  /\ i2s' = [i2s EXCEPT ![Head(todo[t]).reg] = Head(todo[t]).put]
  /\ todo' = [todo EXCEPT ![t] = Tail(@)]
  /\ UNCHANGED <<part, cache, chip, claims, calls, hand, lost, crossed, mic, session, decoder,
                 prevRate, late>>

\* AT+VOL
parse_Vol ==
  /\ part = "paths" /\ calls.command < VolumeRequests /\ Idle("command")
  /\ \E volume \in Volumes :
       Give("command", EarphoneVolume(volume = 0, volume) \o SpeakerVolume(volume = 0, volume))
  /\ calls' = [calls EXCEPT !.command = @ + 1]
  /\ UNCHANGED <<part, cache, chip, claims, hand, i2s, lost, crossed, mic, session, decoder,
                 prevRate, late>>

\* jack_dect_cb(): the two levels of the pin in turn.
jack_dect_cb ==
  /\ part = "paths" /\ calls.button < MicRequests /\ Idle("button")
  /\ mic' = IF mic = "MIC_BOARD" THEN "MIC_JACK" ELSE "MIC_BOARD"
  /\ Give("button", SetChannel(mic'))
  /\ calls' = [calls EXCEPT !.button = @ + 1]
  /\ UNCHANGED <<part, cache, chip, claims, hand, i2s, lost, crossed, session, decoder, prevRate,
                 late>>

\* wav_aplay_task() and the recorders set their rate at the start; the stream of an MP3 that was
\* stopped may still be in the decoder.
WavStart ==
  /\ part = "rates" /\ session = None /\ Idle("player")
  /\ \E rate \in Rates : session' = <<"wav", rate>> /\ Give("player", SetSampleRates(rate))
  /\ late' = ~Idle("decoder")
  /\ UNCHANGED <<part, cache, chip, claims, calls, hand, i2s, lost, crossed, mic, decoder, prevRate>>

\* decode_start() waits for the previous decoder; the new one forgets its rate.
\* Seeded fault in Mp3Start: prevRate is left as it was.
Mp3StartKeepsRate ==
  /\ part = "rates" /\ session = None /\ decoder = "off"
  /\ session' = <<"mp3", NoRate>> /\ decoder' = "on" /\ late' = FALSE
  /\ UNCHANGED <<part, cache, chip, claims, calls, todo, hand, i2s, lost, crossed, mic, prevRate>>
Mp3Start ==
  /\ part = "rates" /\ session = None /\ decoder = "off"
  /\ session' = <<"mp3", NoRate>> /\ decoder' = "on" /\ prevRate' = NoRate /\ late' = FALSE
  /\ UNCHANGED <<part, cache, chip, claims, calls, todo, hand, i2s, lost, crossed, mic>>

\* A frame, and set_dac_sample_rate().
Frame ==
  /\ decoder \in {"on", "doomed"} /\ Idle("decoder")
  /\ \E rate \in Rates \cup {NoRate + 1} :
       /\ rate # prevRate
       /\ prevRate' = rate
       /\ Give("decoder", SetTxclk(rate))
       /\ late' = (late \/ (rate < NoRate /\ session[1] = "wav"))
  /\ UNCHANGED <<part, cache, chip, claims, calls, hand, i2s, lost, crossed, mic, session, decoder>>

\* aplay_stop(): the player task has ended, the decoder is only told to.
Stop ==
  /\ part = "rates" /\ session # None /\ Idle("player")
  /\ decoder' = IF decoder = "on" THEN "doomed" ELSE decoder
  /\ session' = None
  /\ UNCHANGED <<part, cache, chip, claims, calls, todo, hand, i2s, lost, crossed, mic, prevRate,
                 late>>

\* The decoder sees DECODE_DESTROY_BIT.
DecoderExit ==
  /\ decoder = "doomed" /\ Idle("decoder")
  /\ decoder' = "off"
  /\ UNCHANGED <<part, cache, chip, claims, calls, todo, hand, i2s, lost, crossed, mic, session,
                 prevRate, late>>

----------------------------------------------------------------------------

\* at_cmd_init(), in the main task before the others exist, at 16 kHz and volume 30.
BoardInit == I2sInit(3) \o EarphoneSpeaker(30) \o SetChannel("MIC_BOARD")

Init ==
  /\ calls = [api |-> 0, command |-> 0, button |-> 0]
  /\ claims = Unclaimed /\ lost = {} /\ crossed = {} /\ late = FALSE
  /\ hand = [t \in Tasks |-> Nothing] /\ todo = [t \in Tasks |-> <<>>]
  /\ mic = "MIC_BOARD" /\ session = None /\ decoder = "off" /\ prevRate = NoRate
  /\ i2s = [driver \in {Clock, RxChannel} |-> IF driver = Clock THEN {3} ELSE {4}]
  /\ \/ part = "api" /\ cache = PowerOn /\ chip = PowerOn
     \/ /\ part \in {"paths", "rates"}
        /\ cache = After(ResetCache, BoardInit)
        /\ chip = [r \in Registers |-> IF \E i \in DOMAIN BoardInit : BoardInit[i].reg = r
                                       THEN Sent(cache[r]) ELSE PowerOn[r]]

Next ==
  \/ ApiSet \/ ApiReset
  \/ parse_Vol \/ jack_dect_cb
  \/ WavStart \/ Mp3Start \/ Frame \/ Stop \/ DecoderExit
  \/ \E t \in Tasks : ReadReg(t) \/ StoreReg(t) \/ SendReg(t) \/ SetI2s(t)

Spec == Init /\ [][Next]_vars

----------------------------------------------------------------------------
(* Properties.                                                             *)

\* What a setter asked for stands until the same setter is called again or the codec is reset:
\* no other setter's mask or shift takes a bit of it along.
SettingsStand ==
  \A s \in DOMAIN claims : \A c \in claims[s] : chip[c.reg] \cap c.bits = c.put

\* The cache, which is all the program can read, shows the chip: no value has a bit the chip
\* has not (but those of the PLL's fraction, cut on purpose), and while nobody writes a register
\* the two agree, unless its last write failed or two tasks wrote it at once.
ShadowTrue ==
  \A r \in Registers :
    /\ r \notin {38, 39} => cache[r] \subseteq NineBits
    /\ ~(\E t \in Tasks : hand[t].reg = r) /\ r \notin lost \cup crossed /\ (r = 14 => cache[14] # {})
       => chip[r] = Sent(cache[r])

\* Both: the chip is set as the setters say, and the cache tells it.
RegistersHold == SettingsStand /\ ShadowTrue

\* A recording, and a WAV file, goes at its own rate in the codec and on the I2S bus, and an MP3
\* at the rate of its last frame, whatever was played before; a destroyed decoder that is still
\* running when a WAV file starts is the only thing that may disturb it.
RateOfSession ==
  LET runs(rate) == i2s[Clock] = {rate} /\ chip[7] \cap 1..3 = Bits(rate % 8, 1)
  IN  ~late /\ 7 \notin lost =>
        /\ session[1] = "wav" /\ Idle("player") => runs(session[2])
        /\ session[1] = "mp3" /\ Idle("decoder") /\ prevRate < NoRate => runs(prevRate)

\* The header of a recording is read back as the recorder's parameters, whatever the reader's
\* uninitialized i2s_params held.
HeaderRoundTrip ==
  part = "rates" /\ session = None =>
  \A p \in [channel : {Stereo, Mono}, rate : {0, 1, 2, 3, 4, 5, 8}, wlen : 0..3],
     before \in [channel : {Mono}, rate : {0, 8, 9}, wlen : {0, 3, 4}] :
    ReadHeader(HeaderOf(p), before) = [ok |-> TRUE, params |-> p]

\* Both: a file tells its rate, and a session goes at its own.
RateKept == RateOfSession /\ HeaderRoundTrip

\* Once the button task is back from jack_dect_cb(), the microphone asked for is the one that is
\* powered, boosted, routed and received, the other one is off, and the converters and earphone
\* outputs, which share its register, are as at_cmd_init() left them.
MicPath ==
  LET left == mic = "MIC_JACK"
      powered == IF left THEN {2, 4} ELSE {3, 5}
  IN  part = "paths" /\ Idle("button") /\ lost \cap {2, 44, 47, 48} = {} =>
        /\ chip[2] = {0, 1, 7, 8} \cup powered
        /\ (IF left THEN {0, 1} ELSE {4, 5}) \cup {8} \subseteq chip[44]
        /\ chip[47] = (IF left THEN {8} ELSE {}) /\ chip[48] = (IF left THEN {} ELSE {8})
        /\ i2s[RxChannel] = {IF left THEN 3 ELSE 4}
=============================================================================
