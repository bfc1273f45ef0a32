----------------------------- MODULE BtSpeaker -----------------------------
(***************************************************************************)
(* The Bluetooth speaker: components/bt_speaker.  The Bluetooth stack's    *)
(* task calls bt_app_a2d_cb() and bt_app_rc_ct_cb(), which send a copy of  *)
(* the event through a queue to the task BtAppT, whose handlers keep what  *)
(* the AT commands and the lights look at; parse_Bta() of app/at_cmd.c     *)
(* sends the keys of a remote control to the phone.                        *)
(***************************************************************************)
EXTENDS Integers, Sequences, FiniteSets

CONSTANTS
  QueueSize,  \* of bt_app_task_queue
  Attributes, \* texts a phone answers to one request for metadata: title, artist, album, genre
  Tracks,     \* bound: tracks of the phone's list
  Switches    \* bound: changes of the phone's link and playback

ASSUME SpeakerAssumption ==
  /\ QueueSize \in Nat \ {0}
  /\ Attributes \in Nat \ {0} /\ Tracks \in Nat \ {0} /\ Switches \in Nat

VARIABLES
  dev_name,       \* is it set?
  link, avrc,     \* the phone: A2DP connection, remote control connection
  playing,        \* does the phone play?
  track, asked,   \* the phone's track, and the texts about it requested and not answered yet
  registered,     \* has the phone been asked to report the next change of track?
  queue,          \* bt_app_task_queue
  m_con_state, m_audio_state,
  scan,           \* esp_bt_gap_set_scan_mode
  texts,          \* metadata texts allocated and not freed
  switches        \* counts the bounded changes

phone == <<link, avrc, playing, track, asked, registered>>
state == <<m_con_state, m_audio_state, scan>>
vars == <<dev_name, phone, queue, state, texts, switches>>

----------------------------------------------------------------------------
(* bt_app_work_dispatch() and bt_app_send_msg().                           *)

\* Seeded fault in Send: the message goes to the front of the queue.
SendFirst(msg) == Len(queue) < QueueSize /\ queue' = <<msg>> \o queue
\* bt_app_send_msg() waits 10 ms in a full queue and then loses the message: BtAppT
\* makes room before that.
Send(msg) == Len(queue) < QueueSize /\ queue' = Append(queue, msg)

\* AT+BTA=0,"name": bt_speaker_init().  The name stays set when the stack fails.
bt_speaker_init ==
  /\ ~dev_name /\ dev_name' = TRUE
  /\ Send([event |-> "stackUp"]) \/ UNCHANGED queue
  /\ UNCHANGED <<phone, state, texts, switches>>

----------------------------------------------------------------------------
(* The phone and the stack's callbacks.                                    *)

Switch == switches < Switches /\ switches' = switches + 1

\* ESP_A2D_CONNECTION_STATE_EVT
LinkChanges(from, to) ==
  /\ Switch /\ link = from /\ link' = to /\ Send([event |-> "link", state |-> to])
  /\ UNCHANGED <<dev_name, playing, track, asked, state, texts>>

\* A phone finds and connects to a discoverable speaker.
Connect ==
  \/ scan = "discoverable" /\ LinkChanges("disconnected", "connecting") /\ UNCHANGED <<avrc, registered>>
  \/ LinkChanges("connecting", "connected") /\ UNCHANGED <<avrc, registered>>

\* A phone stops its playback and its remote control before it gives up the link.
Disconnect ==
  /\ \/ LinkChanges("connected", "disconnecting") \/ LinkChanges("disconnecting", "disconnected")
     \/ LinkChanges("connecting", "disconnected") \/ LinkChanges("connected", "disconnected")
  /\ ~avrc /\ ~playing /\ UNCHANGED <<avrc, registered>>

\* ESP_A2D_AUDIO_STATE_EVT
Plays(on) ==
  IF playing = on THEN UNCHANGED <<playing, queue>>
  ELSE playing' = on /\ Send([event |-> "audio", state |-> on])
PlaybackChanges ==
  /\ IF playing THEN UNCHANGED switches ELSE link = "connected" /\ Switch
  /\ Plays(~playing)
  /\ UNCHANGED <<dev_name, link, avrc, track, asked, registered, state, texts>>

\* ESP_AVRC_CT_CONNECTION_STATE_EVT
RemoteChanges ==
  /\ IF avrc THEN UNCHANGED switches ELSE link = "connected" /\ Switch
  /\ avrc' = ~avrc /\ registered' = FALSE /\ asked' = 0
  /\ Send([event |-> "remote", state |-> ~avrc])
  /\ UNCHANGED <<dev_name, link, playing, track, state, texts>>

\* The phone's list moves on, by itself or by a key: ESP_AVRC_CT_CHANGE_NOTIFY_EVT.
TrackChanges ==
  /\ Switch /\ avrc /\ registered /\ registered' = FALSE
  /\ \E t \in 0..Tracks - 1 : track' = t
  /\ Send([event |-> "track"])
  /\ UNCHANGED <<dev_name, link, avrc, playing, asked, state, texts>>

\* bt_app_rc_ct_cb allocates the text of a metadata response.
MetadataAnswers ==
  /\ asked > 0 /\ asked' = asked - 1 /\ texts' = texts + 1
  /\ Send([event |-> "metadata"])
  /\ UNCHANGED <<dev_name, link, avrc, playing, track, registered, state, switches>>

----------------------------------------------------------------------------
(* BtAppT: bt_av_hdl_stack_evt(), bt_av_hdl_a2d_evt(), bt_av_hdl_avrc_evt() *)

\* bt_av_new_track(): the phone hears of it only if the remote control is still there.
bt_av_new_track ==
  IF avrc THEN asked' = asked + Attributes /\ registered' = TRUE ELSE UNCHANGED <<asked, registered>>

Handle(event) ==
  /\ queue # <<>> /\ Head(queue).event = event /\ queue' = Tail(queue)
  /\ UNCHANGED <<dev_name, link, avrc, playing, track, switches>>

HandleStackUp ==
  /\ Handle("stackUp") /\ scan' = "discoverable"
  /\ UNCHANGED <<asked, registered, m_con_state, m_audio_state, texts>>

HandleLink ==
  /\ Handle("link") /\ m_con_state' = Head(queue).state
  /\ scan' = CASE m_con_state' = "disconnected" -> "discoverable"
               [] m_con_state' = "connected" -> "none"
               [] OTHER -> scan
  /\ UNCHANGED <<asked, registered, m_audio_state, texts>>

HandleAudio ==
  /\ Handle("audio") /\ m_audio_state' = Head(queue).state
  /\ UNCHANGED <<asked, registered, m_con_state, scan, texts>>

HandleRemote ==
  /\ Handle("remote") /\ IF Head(queue).state THEN bt_av_new_track ELSE UNCHANGED <<asked, registered>>
  /\ UNCHANGED <<state, texts>>

\* Seeded fault in HandleTrack: the metadata is requested, but not the next change.
HandleTrackOnce ==
  /\ Handle("track") /\ asked' = (IF avrc THEN asked + Attributes ELSE asked)
  /\ UNCHANGED <<registered, state, texts>>
HandleTrack == Handle("track") /\ bt_av_new_track /\ UNCHANGED <<state, texts>>

\* Seeded fault in HandleMetadata: the text is not freed.
HandleMetadataKeeps ==
  Handle("metadata") /\ UNCHANGED <<asked, registered, state, texts>>
HandleMetadata ==
  /\ Handle("metadata") /\ texts' = texts - 1
  /\ UNCHANGED <<asked, registered, state>>

BtAppT == HandleStackUp \/ HandleLink \/ HandleAudio \/ HandleRemote \/ HandleTrack \/ HandleMetadata

----------------------------------------------------------------------------
(* parse_Bta(): the keys of AT+BTA=1 to AT+BTA=4, as the phone's player    *)
(* takes them.                                                             *)

Key == avrc /\ Switch /\ UNCHANGED <<dev_name, link, avrc, asked, state, texts>>

PlayOrPause == Key /\ Plays(~m_audio_state) /\ UNCHANGED <<track, registered>>
Stop == Key /\ Plays(FALSE) /\ UNCHANGED <<track, registered>>

\* FORWARD is a step of 1 in the phone's list, BACKWARD one of -1.
Skip(by) ==
  /\ Key /\ track' = (track + by) % Tracks
  /\ IF registered THEN Send([event |-> "track"]) ELSE UNCHANGED queue
  /\ registered' = FALSE /\ UNCHANGED playing

parse_Bta == PlayOrPause \/ Stop \/ Skip(1) \/ Skip(-1)

----------------------------------------------------------------------------

Init ==
  /\ dev_name = FALSE /\ link = "disconnected" /\ avrc = FALSE /\ playing = FALSE /\ track = 0 /\ asked = 0
  /\ registered = FALSE /\ queue = <<>> /\ m_con_state = "disconnected"
  /\ m_audio_state = FALSE /\ scan = "off" /\ texts = 0
  /\ switches = 0

Next ==
  \/ bt_speaker_init \/ Connect \/ Disconnect \/ PlaybackChanges \/ RemoteChanges \/ TrackChanges
  \/ MetadataAnswers \/ BtAppT \/ parse_Bta

Spec == Init /\ [][Next]_vars

----------------------------------------------------------------------------
(* Properties.                                                             *)

\* Once the queue is empty, the state the commands look at is the phone's, and the speaker
\* is visible exactly when no phone is connected or about to be.
CaughtUp ==
  queue = <<>> =>
    /\ m_con_state = link /\ m_audio_state = playing
    /\ link = "connected" => scan = "none"
    /\ link = "disconnected" /\ switches > 0 => scan = "discoverable"

\* The text of every metadata response that is not waiting in the queue has been freed.
TextsFreed == texts = Cardinality({i \in DOMAIN queue : queue[i].event = "metadata"})

\* While the remote control is connected and the queue empty, the next change of track will
\* be reported: the registration, good for one report, is always renewed.
ChangesReported == avrc /\ queue = <<>> => registered

\* All three: the speaker knows its phone, and hears of it.
PhoneKnown == CaughtUp /\ TextsFreed /\ ChangesReported
=============================================================================
