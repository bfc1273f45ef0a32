# Verification of the MicroAi firmware (esp32_ai)

These TLA+ modules model the firmware's own code (`src/components`, `src/main`): an ESP32
board that a host drives with AT commands over a UART. It plays MP3 and WAV files and web
streams, records, sends voice requests to a server, is a Bluetooth speaker, a BLE serial
link, an MQTT client and a camera server. Code that is linked but not part of the tree (the
Bluetooth and TCP/IP stacks, FreeRTOS, `http_parser`, TLS) is modelled only as this code uses
it. The MP3 decoder `libhelix`, whose source is in the tree and compiled in, is modelled.

`PROJECT.json` maps every definition to the lines it stands for, and lists the components,
the runs with their properties, seeded faults for each property, the hazards, the findings
and the theorems.

## The system

The firmware is a set of FreeRTOS tasks on two cores. They meet in event groups, queues, one
ring buffer, task notifications and plain global variables; none of them uses a mutex.

| Task | Code | State it owns or shares | Meets |
|---|---|---|---|
| command task (`uart_task`) | `app/at_cmd.c`, `hal/uartdev.c` | `dev_mode`, `rest_flag`, volume, rate | everything |
| button task | `bsp/button.c`, `buttonRest_cb` | eight samples, a level | player, recorders, BLE, codec |
| main loop | `main.c`, `at_process()` | takes `rest_code`, clears `rest_flag` | uploader |
| player | `app/aplay.c` | `aplay_event_group` | callers, decoder, codec |
| decoder | `mp3_decode/mp3_decode.c`, `helix/*` | `decode_event_group`, ring buffer `rb`, the reservoir and overlap of the frames before | player, callers, codec |
| file recorder, voice recorder | `app/wav_record.c` | `record_event_group`, `record_time` | callers, uploader, flash, codec |
| uploader | `http/mcotton_rest.c`, `http/http_client.c` | `rest_event_group`, flash partition | recorder, server |
| system event task | `hal/wifi.c` | `station_event_group` | commands, main loop |
| MQTT client tasks | `app/mCotton.c` | `mqtt_connected`, `mqtt_data` | commands |
| `BtAppT` | `bt_speaker/*` | queue of events, connection and audio state | Bluetooth stack, commands |
| Bluetooth task | `ble/gattc.c`, `ble/gatts_table.c` | link state, UART mode | `uart_task`, the other board |
| HTTP server | `http/http_server.c`, `app/camera_photo.c` | one connection context | clients, camera |
| `dma_filter_task` and two interrupt handlers | `camera/camera.c` | counters, `data_ready`, frame buffer | `camera_run()` |
| `imu_task` | `euler/imu.c` over `bsp/mpu6050.c` | offsets, attitude | I2C |

The codec (`bsp/audio.c`, `bsp/wm8978.c`) has no task: the command task sets its volume, the
button task its microphone, the player, the recorder and the decoder its sample rate, all of
them through one cache of its registers.

What makes it hard:

* Most requests are bits that some other task sees later: stop, pause, destroy, connect, send.
  The same bit of an event group (`PLAY`) serves as a lock, handed from one task to another,
  and a set bit wakes all the tasks that wait for it.
* Guards (`rest_flag`, `aplay_get_state()`) are read well before they are acted upon, by two
  tasks.
* A voice request crosses five tasks, and every failure on the way must still clear the busy
  flag, give the recorders' lock back and leave the flash erased.
* The camera's counters are shared by interrupt handlers and a task; the frame buffer is
  shared with TCP.
* The BLE link switches the UART between AT lines and raw bytes while another task reads it.
* Registers are written a few bits at a time, from a cache or after a read over a bus that may
  fail.
* The decoder is arithmetic on positions: caches of bits refilled at different widths, a
  reservoir that reaches back over frames, bounds that let later stages skip zeros, a FIFO
  written one block ahead, and pieces of a stream cut wherever a ring buffer wraps.

## Modules

| Module | Models | State → code |
|---|---|---|
| `AplaySession` | what the player promises (abstract) | `state` is `Aplay_State_E`, `stopping` a caller inside `aplay_stop()` |
| `Aplay` | `aplay.c`, the life of the decoder in `mp3_decode.c`, the callers in `at_cmd.c` | `bits`, `dbits` the event groups; `cpc`, `ppc`, `dpc` the tasks; `ring`, `level` the ring buffer |
| `VoiceSession` | `wav_record.c`, `mcotton_rest.c`, `sysfat.c`, commands, main loop | `rbits`, `ubits` event groups; `todo` the calls a command has still to make; `programmed` the flash |
| `HttpRequest` | `url_parser.c`, `http_client.c` as it sends | `held` memory and connections; `sent` the parts written; `announced` is Content-Length |
| `Wm8978` | register writes of `wm8978.c` | constants only: what each setter writes |
| `Codec` | `audio.c` and the tasks that use the codec | `cache` is `WM8978_REGVAL_TBL`, `chip` the registers; `claims` what each setter was last asked for |
| `Mp3Tables` | frame lengths and bands of `mp3tabs.c` | constants only |
| `Mp3Bits` | `bitstream.c`, `scalfact.c` | a bit is its position; `bsi` is the reader, `toRead` and `fields` what it is to read and has read |
| `Mp3Huffman` | `huffman.c`, tables of each kind of `hufftabs.c` | one block of codes and what becomes of it |
| `Mp3Spectrum` | `dequant.c`, `dqchan.c`, `stproc.c`, `imdct.c` | which coefficients can differ from zero, the bounds, the overlap |
| `Mp3Filterbank` | `subband.c`, the outputs of `dct32.c`, the taps of `polyphase.c` | `vbuf`, `vindex` |
| `Mp3Stream` | `helix_decode_task()`, `mp3dec.c` | the input buffer as an interval of the stream; `mainBuf` the positions of its bytes |
| `Camera` | frame pipeline of `camera.c` | `cur`, `received`, `filtered`, `queue` the counters and `data_ready`; `fb` holds what was copied where |
| `CameraFormat` | arithmetic of `camera.c` | lines, descriptors, filters |
| `HttpServer` | `http_server.c`, `camera_photo.c` | `ctx` is `connection_context`; `pending` what the parser has still to call back; `wire` the response, `held` the pictures TCP still needs |
| `Button` | `button.c` | `filter`, `value`; `told` the last report |
| `BtSpeaker` | `bt_speaker/*`, `parse_Bta` | `queue`, `m_con_state`, `m_audio_state`; the phone is the environment |
| `Mpu6050` | `mpu6050.c`, `I2Cdev.c`, `imu.c` | `regs` the registers as sets of bits; what the setters were asked for |
| `Fft` | `fft.c` | `config` the plan, `input`, `output`, `blocks` the memory in use |
| `BleSerial` | `gattc.c`, `gatts_table.c`, `uartdev.c` on two boards | `ring`, `events`, `size` the UART; `btq` the Bluetooth task; `out` what a host received |
| `AtModes` | modes, rate, volume, Wi-Fi and MQTT of `at_cmd.c`, `wifi.c`, `mCotton.c` | `dev_mode`, `temp_mode`, `gotip`, `mqtt_data` |
| `X_proofs` | theorems about `X`, for `Aplay` (also its refinement of `AplaySession`), `VoiceSession`, `Camera` (also `CameraFormat` and `HttpServer`), `BleSerial`, `AtModes`, `Codec` | |
| `Audio_proofs`, `Controls_proofs` | theorems about `Mp3Stream`, `Mp3Filterbank`, `Mp3Spectrum` and `Mp3Bits`; about `BtSpeaker`, `Button`, `HttpRequest` and `Mpu6050` | |

One step of a module is one access to state that another task can see; in `Aplay`,
`VoiceSession`, `Camera`, `Codec` and `BleSerial` the tasks interleave at that grain. Commands
that one task carries out alone are one step (`AtModes`, `BtSpeaker`, the API halves of
`Codec` and `Mpu6050`). The stages of the decoder and `Fft` are pure computations: a step
runs one of them on an input from a small set.

Composition: `Aplay` is shown to implement `AplaySession` (run `aplay_one`, property
`SessionSpec`; `Aplay_proofs` proves its safety half), and `VoiceSession` uses
`AplaySession`, as an instance over its own variables, in the place of the whole player. The
two share no other state, so what `VoiceSession` shows about recording and playback holds of
the player of `aplay.c` under the conditions of that run. `Codec` composes the codec with the
player, the recorder and the decoder as far as they set it. `Mp3Stream` takes up where the
ring buffer of `Aplay` ends, with bytes in the place of chunks.

`MCAplay`, `MCVoiceSession`, `MCHttpServer`, `MCBleSerial` and `MCMp3Stream` give the instances
their sets. `MCCamera`, `MCAudio` and `MCControls` check several modules that share no state,
one of them in each execution: a variable `subject`, chosen in `Init`, says which, and the
others stay in an initial state. The definitions whose comment says *seeded fault* are variants
of code definitions in which a plausible bug has been put; no behaviour specification uses
them. `PROJECT.json` names the one that each property catches.

## Components and what makes them correct

| Component | Must hold | Property |
|---|---|---|
| player, decoder task | one session, one decoder; stop, pause and destroy reach the session they were meant for; chunks go into a living ring; a stopped session ends | `OneSession`, `OneDecoder`, `NoStaleStop`, `NoStalePause`, `SendOnLiveRing`, `SessionSpec` |
| recorders, uploader, flash, main loop | one recording, none while something plays; a recording that does not overtake the erase of the last one is written on erased flash and posted whole; its result is taken; every request and command ends; the lock is never lost | `OneUser`, `FlashHoldsRecording`, `ResultNotLost`, `EveryRequestEnds`, `PlayBitComesBack` |
| HTTP client, URL parser | the server that was meant is asked for the path that was meant; a body is as long as announced; whatever fails, what was taken is given back | `RequestWhole` |
| codec | no setter takes a bit of another along, and the cache shows the chip; a session goes at its own rate; the microphone asked for is the one that is on | `RegistersHold`, `RateKept`, `MicPath` |
| MP3 decoder | the bits reach the fields in order; codes are what the tables say; no stage leaves a coefficient behind or uses an overlap twice; the filter gets the last sixteen blocks; a frame has its own main data, which fit; a sound stream is played whole | `FieldsInOrder`, `CodesExact`, `SpectrumKept`, `TapsInOrder`, `MainDataKept`, `EveryFramePlayed` |
| camera driver | a frame is whole and in order, leaves nothing behind, and arrives; lines are cut so that every pixel is filled once | `FrameWhole`, `QuietWhenIdle`, `RunReturns`, `LinesWhole` |
| HTTP server, camera pages | the handler of the request answers it, and is told of it as it was sent; a response is made of its own headers; a connection ends and leaves nothing | `RequestHandled`, `RequestTold`, `HeadersOwn`, `ConnectionEnds` |
| buttons | reports alternate, bouncing does not count, a held button does | `Debounces`, `HeldIsReported` |
| Bluetooth speaker | state and visibility follow the phone, texts are freed, changes of track keep coming | `PhoneKnown` |
| motion sensor | a getter tells what its setter or the sensor has put there; a board at rest is level | `TransfersAgree`, `Levelled` |
| Fourier transforms | every transform is exact, and a plan gives back its memory | `TransformExact` |
| BLE serial link, UART | bytes stay in order and the UART is in the mode of the link; bytes arrive, boards find each other again | `LinkTransparent`, `LinkLives` |
| modes, Wi-Fi, MQTT | nothing is left half done and a message is answered with its own contents; no stack starts without its memory; the station comes back | `CommandsWhole`, `StackInPlace`, `WifiComesBack` |

Many of these are conjunctions of named parts, which the modules state one by one (for
instance `OneUser` of `OneRecording` and `NeverPlayAndRecord`).

## Runs

| Run | Bounds | Distinct states |
|---|---|---|
| `aplay_one` | one caller, two slots for players and for decoders, two chunks, a ring of one | 217,896 |
| `aplay_two` | two callers, one chunk, a ring of one, decoders out of memory | 505,352 |
| `voice_one` | all commands, two file recorders and recordings of one block, or voice requests only and up to three blocks in sectors of two; two codes of the server | 235,648 |
| `voice_two` | recordings of one block and early closes; button A asks, and files are recorded and played or bytes follow the answers | 1,111,876 |
| `camera` | frames of seven buffers, JPEG frames of two to six, three descriptors, a queue of four; every width of `resolution[]` in every format but fast grayscale; the server with three handlers, seven requests, two connections, two frames, four pieces in `parse_buffer` | 122,945 |
| `http_matching` | the server with one connection and one frame (violation, below) | |
| `http_frames` | the server with one connection (violation, below) | |
| `audio` | two setter calls of any kind, two volumes, seven rates, one lost write; fields of up to 31 bits in buffers of up to six bytes; tables of each kind; two granules of three bands; forty blocks; sixteen streams | 144,637 |
| `mp3_underflow` | the same streams (violation, below) | |
| `controls` | two setter calls and one lost transfer; a queue of three, two texts per track, three tracks, six changes of the phone; all eight bits of the button's filter; transforms of 4 to 32 elements; a recording of four pieces | 141,341 |
| `ble` | one host that sends three bytes or two that send one, a ring of two, two links | 151,506 |
| `at_modes` | four commands, one lost connection, two messages | 50,480 |

Why these bounds are enough:

* `aplay_*`: two slots make a second player or decoder visible next to the first; two chunks and
  a ring of one make the player block in `decode_send()` and the source last longer than the
  ring. `aplay_one` has a prompt decoder, `aplay_two` a decoder that is late or fails.
* `voice_*`: the flag may be cleared at every point of the uploader. An execution of `voice_one`
  has either all the commands, with recordings of one block, for who holds the `PLAY` bit and what
  is called next does not depend on their length; or voice requests only, with three blocks in
  sectors of two, which make "erased", "programmed" and "being overwritten" differ within one
  recording, let a long one follow a short one, and let a new one meet an erase between its
  sectors. Two codes tell a lost result from a kept one. `voice_two` adds button A, with the
  command task as a second caller, or with a parser that fails late: both together grow past
  what TLC can enumerate, and `PlayBitComesBackAlways` proves it of both. Its states are
  compared by `LockView`, without what is in flash, on which no step depends while a recording
  has one sector.
* `camera`: seven buffers through a ring of three and a queue of four make all the counters
  wrap; frames are taken for ever, so that each meets what the one before has left.
  URIs, names and values have one or two pieces, which is what makes the parser call back more
  than once for an element; a second connection meets what the first has left behind, and its
  request overruns `parse_buffer` when the first was broken off in its URI.
* `audio`: two calls make any setter meet any other. Fields of 0 to 31 bits from six bytes
  cross the reader's four-byte cache and its tail of one to three bytes. Codes start at bits 0
  and 5 and are cut off everywhere; there is a table of each kind (none, one lookup, several
  lookups, with escapes of 4 and 13 bits). Two granules suffice for the overlap, which lasts
  for one; forty blocks run through the FIFO of sixteen more than twice, in both parities. The
  streams are of all three versions, with the largest and the smallest reservoirs and frames,
  spoilt, cut, late, behind other bytes, begun in the middle, and of free bitrate, and they
  are several times as long as the ring buffer.
* `controls`: six changes fill a queue of three. Eight bits are the whole filter. A size of 32
  is the first in which every stage of the split radix occurs with both of its bases; the
  stages are linear, so vectors with a single 1 determine them. Two pieces and a header show
  both ends of the loop that sends a recording.
* `ble`: three bytes into a ring of two overrun it; an event of two bytes and writes of one give
  a chunk and a rest; the second link meets what the first has left.
* `at_modes`: a mode, a connection, a query, and a restart or a refused command after them.

### Regimes and what the properties leave out

Where the world may be kind or unkind for a whole execution, a variable chosen in `Init` says so
and the property names it. Where the code gives up a guarantee, a history variable remembers
exactly the case, and the property leaves out that case and no other.

| Name | Kind | Meaning |
|---|---|---|
| `prompt`, `jpeg` (`Camera`) | `Init` | an interrupt is served before the next event; the format. `FrameWhole` and `RunReturns` are stated for prompt interrupts, `QuietWhenIdle` for all. |
| `bounces` (`Button`) | `Init` | the pin may bounce in the sample right after eight equal ones. |
| `calm`, `load` (`BleSerial`) | `Init` | connections open, no write is dropped, hosts wait for room and the rate stays; the bytes the hosts send. |
| `prompt` of a stream (`Mp3Stream`) | `Init` | the ring buffer is full whenever the decoder reads, or it brings any of `Portions`. |
| `skipped` (`Mp3Stream`) | history | bytes were thrown away, so that the reservoir may lack what a frame refers to. |
| `freeBitrateFlag` (`Mp3Stream`) | code | the bitrate was found by search: no table bounds the frame any more. |
| `skipped` (`VoiceSession`) | history | a failed connection has left a recording in flash, and not all of the flash was erased since. |
| `overtaken` (`VoiceSession`) | history | a recording was written while the uploader had still to erase the one before, and since then the flash was not all erased with nothing waiting to be posted. |
| `cut` (`VoiceSession`) | history | an answer was cut off and no callback was made. |
| `lost`, `crossed` (`Codec`) | history | registers whose last write failed on the bus, whose result nobody looks at; registers that two tasks wrote at the same time. |
| `late` (`Codec`) | history | a decoder that was told to end has set the rate of the session after its own. |
| `spoiled` (`Mpu6050`) | history | registers that were written after their read had failed, from an uninitialized byte. |
| `forgotten`, `whole` (`HttpRequest`) | history | a return that frees nothing (a refused connection or timeout); a write that the peer took in part, and the code for the whole. |
| `lost` (`Fft`) | history | `fft_init()` has returned `NULL` and kept memory. |
| `overwritten` (`AtModes`) | history | a packet came between a message and its answer. |
| `known` (`HttpServer`) | history | when the request began, its handler was registered and `parse_buffer` was empty. |
| `PromptDecoder`, `MallocFails` (`Aplay`) | constant | a new decoder has created its ring buffer before the player has read a chunk (it has priority 5 and the second core); it may run out of memory. |
| `EarlyClose`, `Trailing` (`VoiceSession`) | constant | the server closes before the answer is complete; the parser fails on bytes behind it. |
| `Lost` (`Codec`), `Failures` (`Mpu6050`), `Failing` (`HttpRequest`) | constant | how many transfers may fail, and which calls. |

Other assumptions sit in the guards and are commented there: no voice request is answered between
the two assignments with which `at_process()` takes the last result, the camera's filter is less
than one ring behind the DMA, JPEG frames have at least two buffers, and `BtAppT` makes room in a
full queue within 10 ms. Of the delay of 2 s in `at_process()` nothing is assumed: it may be over
before the uploader's callback has returned or the flash is erased.

### Fairness

Weak fairness of the tasks: FreeRTOS schedules every ready task (the tasks sleep in each cycle),
and each module's fairness says what else it supposes. `Aplay`: files and streams end or their
reads return. `VoiceSession`: the server answers or the read times out, and a session that is
asked to stop ends (this is `SessionSpec`). `Camera`: the sensor runs free. `HttpServer`: a client
sends the request it began and leaves some day. `BleSerial`: a slave in reach is found and opened.
`AtModes`: the access point answers. `Button`: samples keep being taken. No fairness is assumed of
commands, of the fingers on the buttons, of phones, brokers or hosts.

`CHECK_DEADLOCK FALSE` is set where the bounded environment ends (connections, links, commands,
tracks, setter calls, one computation of an execution) and the system rightly waits for ever:
`camera`, `audio`, `mp3_underflow`, `controls`, `http_matching`, `http_frames`, `ble`, `at_modes`;
and in `voice_two`, where an answer that is cut off leaves a busy flag that nobody clears. The
other runs check deadlock.

## Proofs

TLAPS checks the theorems below for every value of the constants that the modules' assumptions
allow; TLC evaluates each of these in a run. Each property is implied by an inductive invariant
whose parts have names, and each lemma of invariance has one step per action of `Next` and below it
one per part that the action can disturb. The invariants start from `TypeOK`, which no run lists as
a property: being proved, it would tell TLC nothing more.

What is assumed beyond the types of the constants:

* `RingFits` (`Camera`): the ring has no more buffers than `data_ready` has places. The lemma
  `RingOfSixteen` proves it of the buffers that `dma_desc_init()` makes for any picture.
* `HttpAssumption`: handlers are registered without a query, and none keeps the response from a
  later one for the same address and method, as `camera_photo_task()` has them.
* `RequestAssumption`: recordings are of whole pieces, as `sys_data_write()` programs them.
* `SlotsFit`, `RingAssumption` (`Mp3Stream`): the largest reservoir and the slots of a frame fit in
  the buffer, as `mp3dec.h` says at `MAINBUF_SIZE`; the ring buffer is no smaller than it.
* `SpectraAssumption`: what the Huffman decoder leaves of a channel lies below the bound it gives,
  which is within the granule, as `DecodeHuffman()` counts it.
* `ReaderAssumption`: fields have 0 to 31 bits, as the comment on `GetBits()` asks (`bitstream.c:139`);
  codes of scale factor lengths have nine bits, and a block begins at one of the eight bits of a byte.
* `CodecAssumption`: rates are those of the table in `wm8978.c`.
* The others (`AplayAssumption`, `VoiceAssumption`, `CameraAssumption`, `ModesAssumption`,
  `StreamsAssumption`, `SerialAssumption`, `SpeakerAssumption`, `SensorAssumption`,
  `FormatAssumption`) say only what kind of values the constants are.

The library's induction theorems take an operator, which no installed prover can instantiate. Where
a proof needs induction it uses `UpTo` (in `Audio_proofs` and `Codec_proofs`), which is about a set
instead of an operator, and for recursive functions `ByRecursion`, which builds them. The prover
cannot expand `@@` and `:>` either, so tables that are joined are written as functions.

`Aplay_proofs`
* `TypeCorrect`: `Spec => []TypeOK`. `TypeOK` is not inductive: a caller that is to start a player
  must know which kind. `TypeInv == TypeOK /\ JobInv` adds this.
* `OneSessionAlways`: also with the button task. The third conjunct makes it inductive: the bit
  `PLAY` is set exactly when no player is alive and none is being created, so taking the bit
  excludes all others. The interesting step is `SetPlayBit`, in which the bit passes straight to
  the callers that wait for it.
* `OneDecoderAlways`: the same for the decoder, using `OneSession`: only one player can be in
  `decode_start()`.
* `NoStaleStopAlways` and `NoStalePauseAlways`, for commands from one task (`Button = {}`):
  `NoStaleStopInv` adds that once `aplay_stop()` has seen `PLAY` the bit stays until the same
  task's start function, and that `STOP` is clear when a player is created; `NoStalePauseInv`,
  that the decoder of a feeding player is paused only while the player is.
* `SendOnLiveRingAlways`, for commands from one task, a prompt decoder and memory for it: `RingInv`
  says that the decoder of a feeding player runs and has not been destroyed, that a decoder past
  its initialisation has a live ring, and that a player that has something to send has a
  decoder past its initialisation.
* `SessionImplemented`, for commands from one task:
  `Spec => Session!Init /\ [][Session!Next]_(Session!vars)`, where `Session` is the instance of
  `AplaySession` under the refinement mapping of `Aplay`. Each step is a step of the session or a
  stutter; `RequestInv` says what a command knows of the session while it is at work on it.

`VoiceSession_proofs`
* `PlayBitComesBackAlways`, whoever calls: the owner of the recorders' lock is read off the
  program counters, the requests to the uploader and the callbacks.
* `OneUserAlways`, `FlashHoldsRecordingAlways`, `ResultNotLostAlways`, under
  `OneCaller == Button = {} /\ ~Trailing`, the conditions of run `voice_one`. The invariant
  `VoiceInv` says: until its result is taken, a request is in the hands of one task and
  `rest_flag` keeps the next one out (`RequestInv`); there is one recording, of a task that has seen the lock (`LockInv`); nothing plays meanwhile
  (`SilenceInv`). `rest_flag` does not keep the next request out until the flash is erased, so
  `FlashInv` speaks of the executions, or the stretches of one, in which no recording has overtaken
  the erase: then the uploader erases while there is no recording, and each block programmed is
  part of the recording or of a sector still to be erased (`Accounted`, with the lemma
  `ErasedCovers` about sectors).

`Camera_proofs`
* `FrameWholeAlways`, for the same: what each place that data pass through holds. `InMemory` says it
  of the DMA buffers that are filled and not yet filtered, `Queued` of `data_ready`, `Arriving` of the
  frame buffer, whose lines up to `filtered` are the frame's own. The arithmetic of the ring (two
  numbers less than a ring apart are in different buffers) is in `ModApart` and `ModNext`.
* `LinesWholeAlways`, for every format but the fast grayscale (which leaves the last two pixels of a
  line blank, below) and every resolution: `LineCut` says how `dma_desc_init()` cuts a line,
  `BufferWritten` that the filter of a buffer writes its share of the line and nothing else.
* `QuietWhenIdleAlways`, for any geometry, ring and queue, both formats, prompt interrupts or not:
  `QuietInv` says that while the call runs the counters are behind what was received, that the
  end marker is the last item of the queue, and that a JPEG frame raises fewer interrupts than it
  has buffers.

`AtModes_proofs`
* `CommandsWholeAlways`, `StackInPlaceAlways`: `CommandInv` joins what each half-way point of a
  command knows (`StepInv`), which stacks have their memory in each mode (`BluetoothInv`), and
  where a message and its length belong together (`MessageInv`).

`Camera_proofs`, its second half, for any handlers, requests and sizes, with segments cut anywhere:
* `HttpTypeCorrect`, `RequestHandledAlways`, `RequestToldAlways`, `HeadersOwnAlways`, all from
  `IInv == ServerTypeOK /\ Parsing /\ Settled /\ Blocks`. `Stage`, in `Parsing`, is the invariant of the
  parser: for each state of the context (in the address, behind it, in a name, behind it, in a
  value, behind it, behind the headers) it says which callbacks are still to come, how much of the
  text of the current one is in `parse_buffer`, which headers are in the list, and which events the
  handler was told of. That a name that ends in one segment and a value that starts in the next meet
  in one header is the step `InHeadersStep`. `Blocks` says the same of the response: what can stand
  on the wire and what is collected at each point of a page.

`Audio_proofs`
* `MainBufHoldsAlways`: `mainBuf` is never written past its end, for all songs whose frames obey
  `SlotsFit`: the reservoir a header can ask for and the slots of any frame fit together, as
  long as the bitrate is not free.
* `EveryFramePlayedAlways`, for songs and buffers of any length, with the hypotheses of the
  property itself (a sound stream in time). `PlayInv` says that the buffer holds half its size or
  the rest of the song, or else that the ring has just wrapped (`Fed`), and that exactly the frames
  before the one at its start were played (`PlayedTo`). The lemmas follow a call of `MP3Decode()`:
  the next sync word is that of the next frame (`NextFrame`), it is there whole (`FrameReady`), its
  parts are found (`PartsFound`) and its main data are no longer than what was kept
  (`SoundDecode`).
* `MainDataKeptAlways`, for songs that are `InOrder`: their frames have a bitrate of the table and
  each starts where the one before ends. Nothing is asked of the parts, of what is spoilt, or of the
  portions in which the ring brings the bytes. `KeptInv` says that while no byte was thrown away
  `mainBuf` is an end of the main data received so far (`Kept`); `EndOfEnd`, `EndJoins` and
  `DataGrows` are what is needed of ends of sequences.
* `TapsInOrderAlways`, for any number of blocks: `FilterInv` says that the last 16 blocks of each
  channel are where they were written (`Unspoilt`), and that nothing is where no block was.
  `AtSteps` gives the offset of every block, `OnePhase` that two blocks for the same place are at
  least 16 apart, and `TapWritten` that each tap reads the place of the block that is due there.
* `SpectrumKeptAlways`, for any spectra, run of block types and number of granules, and the three band
  tables: `DequantKeeps` follows the coefficients of short and mixed blocks through their sorting,
  `StereoKeeps` through joint stereo and `TransformBounds` and `AliasBelow` through the transform.
  `SpectrumInv` adds to the property that a second half still to be added was made with the window
  that the next transform takes it for (`OverlapDue`).
* `FieldsInOrderAlways`, for buffers of any length, any draws, every side information, and every
  code of scale factor lengths from any bit on. `ReaderIInv` says where the reader stands: its cache
  holds the bits behind those that were read, down to a whole byte, and zeros past the end
  (`Standing`); `RefillReads` and the lemmas on `GetBits` keep this. For the side information it adds
  that the lengths to come add up to the rest of it (`Sums`, which needs no recursion), and for scale
  factors that the block's steps name each band once (`Lists`) and are at most `MaxFactors` of at most
  five bits, so the reader does not come to the end of the 40 bytes.

`Codec_proofs`
* `RegistersHoldAlways`. The invariant has two cases. While the setters are called one by one
  (`ApiInv`), every claim stands (`Stands`) because a setter writes only bits it owns: `Owner` says
  which setter each bit of each register belongs to, `EverySetter` that each call of
  `CallSet` keeps to its own, and `AfterCall` that such a call leaves the bits of other owners as
  they were. While tasks write at the same time (`TaskInv`), each of them holds at most one
  register, its value in the cache or not yet (`Holding`), and a register nobody holds shows the
  cache unless its writes were lost or crossed. The two writes of `WM8978_PLLClock()` to the rest of
  the fraction have more than nine bits: `TidySet` says that no task makes them.
* `MicPathAlways`, for any number of volume commands and jack changes, interleaved at each read,
  cache and bus access: `MicInv` says that the writes of `SetChannel` are a fixed list of nine
  (`MicWrites`), that the button task has done the first `n` of them, and that these are in the
  cache (`Placed`). They stay there because the volume's registers are other ones (`EarSet`) and
  because a later write of the list leaves the bits of the earlier ones alone (`PlacedStill`). What
  the converters and outputs keep (`BoardKept`) is established by the start of the board: `Leaves`
  says of a list of writes which bits it sets and that it spares the others, and `BoardLeaves` joins
  the steps of `at_cmd_init()`.
* `RateKeptAlways`, for any volumes and number of sessions, with the tasks interleaved at each
  register: `RateInv` says who is playing (`WhoPlays`), which task has writes in hand (`Busy`), and
  that what it has still to write makes register, clock and cache agree with the rate of the session
  (`Setting`).

`BleSerial_proofs`
* `LinkTransparentAlways`, for any sizes of buffers, queues and writes and any number of bytes:
  `OrderInv` lists the places where bytes of one host can be (received, in the queues, read, in
  the ring) as one chain without repetition, `SwitchInv` ties the UART's mode to the flag of the
  connection, `LinkInv` the flag to the last event of the link in the queue, and `SetupInv` says
  that what the set-up of a link has reached stays until it is closed.

`Controls_proofs`
* `PhoneKnownAlways`, for a queue of any size and any number of texts, tracks and changes:
  `SpeakerInv` says that the last event of a kind in the queue tells what the phone is like now
  (`Known`), so that what was taken before does not matter; that a registration that is missing
  has an event in the queue that renews it; that before the first phone there is only the start
  of the stack; and that the texts allocated are those in the queue.
* `DebouncesAlways`: a level changes only after eight equal samples, and a release is reported once
  and only after a press, however the pin bounces; a press once until the release, if the pin keeps
  its new level for the sample after the eight. `ButtonInv` ties the last report to the level, and
  the level to a filter that is all ones or all zeros where the pin does not bounce.
* `RequestWholeAlways`, for any addresses, bodies, fields and recordings, and whatever fails:
  `RequestInv` says what was sent (`Progress`), what is held (`Holding`) and for whom (`Calling`) at
  each label. The bytes sent are a sum over `sent`, which `TotalAppend` extends by one part.
* `LevelledAlways`, for any number of readings and any unit of g: `ImuInv` says that the scale that
  `imu_task()` divides by is the one the sensor was set to (`SensorReady`), and that the sum of a
  calibration is a multiple of what the board has at rest (`Calibrating`).
* `TransfersAgreeAlways`, for any number of calls in any order, whatever transfers fail:
  `BitOwner` gives each bit of a register the setting or status that it belongs to, and the lemmas
  `...Owned` show of each table of `mpu6050.h` that its fields keep to their own bits; joined, no
  two fields of all tables have a bit in common (`Apart`). `TransferInv` says that what a getter
  reads is what its setter was last given (`SettingsAgree`), registers that were written unread
  excepted, and that a status is told when it was raised (`StatusesAgree`); each call has a lemma.

Only model-checked:
* liveness, and the fairness half of the refinement, which need `ENABLED` or fairness in the
  proof: `EveryRequestEnds`, `RunReturns`, `ConnectionEnds`, `HeldIsReported`, `LinkLives`,
  `WifiComesBack`, and the liveness of `SessionSpec`;
* the computations over bounded inputs: `CodesExact` and `TransformExact` (their modules use
  `RECURSIVE` operators);
* `MainDataKept` for streams of free bitrate, or whose frames overlap or have gaps between them.

## Disagreements found

* Run `http_matching`: `http_server.h:91-92` says that a handler "will be called when a client
  makes a request with matching URI and HTTP method", but the URI is only recognised when the
  first header name arrives (`http_server.c:316-328`), so a complete request without headers is
  answered with 404 (`MatchingHandled`; `RequestHandled` is what holds instead).
* Run `http_frames`: `data_is_persistent` is for "data in constant RAM" (`http_server.h:193`) and
  makes TCP send from where the data are. `camera_photo.c:30` sets it for the frame buffer, into
  which `camera_run()` takes the next picture of the stream, or of the next connection, while
  bytes of the last one are still to be sent or have to be sent again (`FrameConstant`).
* Run `mp3_underflow`: `mp3dec.c:343` says of a frame whose main data are not all there "out of
  data - assume last or truncated frame". `helix_decode_task()` calls it with one piece of the
  ring buffer, which ends where the ring wraps (`mp3_decode.c:81`), and throws away what it has
  when it fails (`mp3_decode.c:268`). At 320 kbit/s and 44.1 kHz a frame in the middle of a stream
  in time is lost so (`UnderflowAtEnd`); `EveryFramePlayed` is what holds, of frames of at most
  half the input buffer.

Seen while modelling, and reproduced by no run:

* `camera.c:709`: a JPEG frame that compresses less than guessed (`camera.c:248-257`) is written
  behind the frame buffer before the assertion is reached.
* `camera.c:750`: the last two pixels of each line of fast grayscale stay blank; the comment says
  that they get special handling.
* `camera.c:782`: `in2 & 0b11100000 >> 5` is `in2 & 0b111`, so low bits of green are those of blue.
* `http_server.c:697`: a malformed request is answered before its end, contrary to
  `http_server.h:39`.
* `http_server.c:407`: the arguments of a form are parsed into the wrong object and never stored,
  contrary to `http_server.h:114-116`.
* `at_cmd.c:573`: `AT+BTA=3` is the next track and `4` the previous one; the command table
  (`src/MicroAi _command.xlsx`, rows 14 and 15) has them the other way round.
* `at_cmd.c:329`: in BLE mode `AT+CWJAP=` answers 1 although the station has been stopped.
* `mCotton.c:84` and `mCotton.c:50`: a second `AT+MQCON=` starts a second client that shares the
  connection flag of the first; `AT+MQQER?` reads a buffer that may have been overwritten.
* `http_client.c:98`, `mcotton_rest.c:63`: an answer that is cut off leaves the busy flag set and
  the recorders' `PLAY` bit taken; bytes behind an answer deliver a second result.
* `mcotton_rest.c:54`: an `err_no` of 0 in an answer is delivered as code 0, which `at_process()`
  takes for "no result yet".
* `mcotton_rest.c:111`: a failed connection leaves its recording in flash, and the next one is
  written over it.
* `at_cmd.c:1133-1135`: the busy flag is cleared two seconds after a result, whether or not the
  uploader has erased the flash. A request that is accepted meanwhile may be written on blocks that
  are not erased, or be erased before it is posted. `FlashHoldsRecording` leaves them out
  until all the flash has been erased; `OneUser`, `ResultNotLost` and `EveryRequestEnds` hold with them.
* `http_client.c:132-135`, `146-149`, `231-234`: a refused connection or timeout returns past the
  exit that frees what was allocated; `esp_tls_conn_write()` is taken to have written all it was
  given. `http_client.c:140`: the `Host` header lacks the port of the address.
* `url_parser.c:114`: after `calloc()` the wrong pointer is checked. Other allocations are not
  checked at all.
* `fft.c:57-61`, `93`, `109`: a plan that is refused, for its size or for want of memory, keeps
  what was allocated before. Sizes below 4, or below 8 for real transforms, recurse without end.
* `gattc.c:101`: a board whose connection fails to open never scans again.
* `button.c:36`: a press may be reported twice if the pin bounces right after it.
* `mp3dec.c:311` and `352`: while the bitrate is free a frame may be reckoned shorter than its
  head, and a length of -1 goes to `memcpy()`.
* `mp3_decode.c:272`: a header of layer 1 or 2 is accepted, and its sample rate of 0 may be set.
* `mp3_decode.c:257`: a last byte 0xff that begins the next sync word is thrown away.
* `huffman.c:419`: the sum of the two region counts may index past the end of the table of long
  bands. Codes that the data cut off are accepted when they end behind a jump between tables.
* `stproc.c:147`: with intensity stereo a scale factor above 6 that is not 7 indexes past its table.
* `I2Cdev.c:226`: `I2C_writeBit()` goes on after a failed read with an uninitialized byte.
* `wm8978.c:62`: the cached value of R14 differs from the chip's after reset.
* `audio.c:52`: a header that is cut short leaves the I2S parameters uninitialized.

## Not modelled

* The text of commands and answers, JSON, the wording of WAV and multipart headers, the values of
  samples and pixels, settings in NVS: formats without control of their own.
* TLS, DNS, FreeRTOS, the stacks, `http_parser`: outside the tree, modelled where this code meets
  them. The libmad variant of the decoder is not compiled in.
* Of `libhelix`, the arithmetic on values (`DequantBlock`, butterflies of the IMDCT and the DCT,
  products of the polyphase filter, clipping) and all but one Huffman table of each kind: TLC
  would compare numbers with numbers of the same formula.
* The PLL fraction of `wm8978.c`, the attitude filters of `euler/`, the rounding of `fft.c`: floating
  point. The other base cases of `fft.c` are not compiled.
* The register tables of the camera's sensors and its probing: writes in a fixed order to a device
  whose reaction is not in the tree.
* `http_server_stop()`, which nothing calls; failed allocations outside the decoder task,
  `HttpRequest` and `fft_init()`; lights and delays; the header of the AT library; built binaries.

## Plan

Done, in this order: the player and its abstract session, the voice request, the camera, the HTTP
server, the button, the Bluetooth speaker, the BLE link, modes and MQTT; then the codec, the motion
sensor, the stages and the stream of the MP3 decoder, the Fourier transforms, the HTTP requests;
and the theorems about the player and its refinement, the voice request, the camera, the modes,
the BLE link and the Bluetooth speaker; then those about the HTTP server, the frames and lines of the
camera, the stream of the MP3 decoder, the codec's registers, rate and microphones, the button, the
HTTP requests, the calibration of the motion sensor and the settings it was given, and the filter
bank, the spectrum and the reader of bits of the MP3 decoder.

Next:

1. `HttpServer`: out-of-memory paths (headers left in the list) and `http_server_stop()`.
2. A composition of `AtModes` with `VoiceSession`: loss of the network during a voice request, with
   `at_process()` that takes results only while connected.
3. `CodesExact` with recursive functions in place of `RECURSIVE` operators, so that it can be proved
   that a code takes its own bits and no more.
