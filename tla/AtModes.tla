------------------------------ MODULE AtModes ------------------------------
(***************************************************************************)
(* The AT commands that choose the board's mode and its radios             *)
(* (components/app/at_cmd.c), with the Wi-Fi station of components/hal/    *)
(* wifi.c and the MQTT client of components/app/mCotton.c.  uart_task      *)
(* parses one command at a time and, once it has answered OK, sets the     *)
(* mode up and changes the rate; the system's event task and the tasks of  *)
(* the MQTT clients run beside it.  Playback and recording are in Aplay    *)
(* and VoiceSession.                                                       *)
(***************************************************************************)
EXTENDS Integers, Sequences

CONSTANTS
  MaxVolume,   \* 63
  Commands,    \* bound: commands
  Losses,      \* bound: lost or failed connections
  Messages     \* bound: messages the MQTT broker sends

ASSUME ModesAssumption ==
  /\ MaxVolume \in Nat \ {0}
  /\ {Commands, Losses, Messages} \subseteq Nat

VARIABLES
  dev_mode, temp_mode, \* the mode asked for, the mode modeSetup() has set up
  ble_mode, volume,
  bt,                  \* Bluetooth: "idle" since boot, "released", "speaker" or "ble"
  baudrate, rate,      \* the rate to change to after the answer, the UART's rate
  step,                \* of uart_task
  cmds,                \* commands so far
  on, link,            \* the station is started; its state
  events,              \* of the system's event task
  gotip,               \* STA_GOTIP_BIT
  losses,
  clients, online,     \* MQTT clients created since boot, those the broker has accepted
  mqtt_connected,
  inbox,               \* what the receive buffer of a client holds
  mqtt_data,           \* [len, client]: the length, and the client whose buffer data points to
  len,                 \* parse_MqttQuery's
  overwritten,         \* history: a packet arrived while a message had not been answered
  answer,              \* the last message answered: [len, content, intact]
  msgs

at == <<dev_mode, temp_mode, ble_mode, bt, baudrate, rate, volume>>
wifi == <<on, link, events, gotip, losses>>
mqtt == <<clients, online, mqtt_connected, inbox, mqtt_data, len, overwritten, answer, msgs>>
vars == <<at, step, cmds, wifi, mqtt>>

Modes == {"wifi", "bt", "mqtt", "ble", "test"}
NoRate == 255
Rates == 0..1  \* 0 to 4 in the code

\* Message m, of length m, is the m-th message; a packet of another kind has content 0.
Packet == 0

----------------------------------------------------------------------------
(* components/hal/wifi.c                                                   *)

\* esp_wifi_connect() does nothing while the station is connected or connecting.
Connecting == IF on /\ link = "none" THEN "connecting" ELSE link

Lost == losses < Losses /\ losses' = losses + 1

\* The driver: an access point answers, or does not, or is lost.
Answers ==
  /\ link = "connecting" /\ link' = "ip" /\ events' = Append(events, "gotip")
  /\ UNCHANGED <<at, step, cmds, on, gotip, losses, mqtt>>
Loses ==
  /\ link # "none" /\ Lost /\ link' = "none" /\ events' = Append(events, "disconnected")
  /\ UNCHANGED <<at, step, cmds, on, gotip, mqtt>>

\* Seeded fault in net_event_handler: no new attempt after a loss.
EventForgetsConnect ==
  /\ events # <<>> /\ events' = Tail(events)
  /\ link' = IF Head(events) = "start" THEN Connecting ELSE link
  /\ gotip' = (Head(events) = "gotip" \/ (gotip /\ Head(events) # "disconnected"))
  /\ UNCHANGED <<at, step, cmds, on, losses, mqtt>>
net_event_handler ==
  /\ events # <<>> /\ events' = Tail(events)
  /\ link' = IF Head(events) \in {"start", "disconnected"} THEN Connecting ELSE link
  /\ gotip' = (Head(events) = "gotip" \/ (gotip /\ Head(events) # "disconnected"))
  /\ UNCHANGED <<at, step, cmds, on, losses, mqtt>>

\* esp_wifi_disconnect(), esp_wifi_set_config(), esp_wifi_connect().
wifi_set_config ==
  /\ link' = IF on THEN "connecting" ELSE link
  /\ events' = IF on /\ link # "none" THEN Append(events, "disconnected") ELSE events
  /\ UNCHANGED <<on, gotip, losses>>

wifi_sta_deinit ==
  /\ on' = FALSE /\ link' = "none" /\ UNCHANGED <<gotip, losses>>
  /\ \/ UNCHANGED events
     \/ link # "none" /\ events' = Append(events, "disconnected")

----------------------------------------------------------------------------
(* components/app/mCotton.c                                                *)

\* mqtt_event_handler(): all the clients share one flag.
MqttConnected ==
  /\ \E c \in 1..clients \ online : online' = online \cup {c}
  /\ on /\ link = "ip" /\ mqtt_connected' = TRUE
  /\ UNCHANGED <<at, step, cmds, wifi, clients, inbox, mqtt_data, len, overwritten, answer, msgs>>
MqttDisconnected ==
  /\ Lost /\ \E c \in online : online' = online \ {c}
  /\ mqtt_connected' = FALSE
  /\ UNCHANGED <<at, step, cmds, on, link, events, gotip, clients, inbox, mqtt_data, len, overwritten, answer, msgs>>

\* A packet fills the client's buffer; of a message the handler keeps the length and the
\* pointer into the buffer.
MqttReceives ==
  /\ overwritten' = (overwritten \/ mqtt_data.len > 0 \/ len > 0)
  /\ \E c \in online :
       \/ inbox' = [inbox EXCEPT ![c] = Packet] /\ UNCHANGED <<mqtt_data, msgs>>
       \/ /\ msgs < Messages /\ msgs' = msgs + 1 /\ inbox' = [inbox EXCEPT ![c] = msgs']
          /\ mqtt_data' = [len |-> msgs', client |-> c]
  /\ UNCHANGED <<at, step, cmds, wifi, clients, online, mqtt_connected, len, answer>>

----------------------------------------------------------------------------
(* components/app/at_cmd.c                                                 *)

\* uart_task takes a command; it goes on to "ok" if the parser returns true.
Command(ok) ==
  /\ step = "idle" /\ cmds < Commands /\ cmds' = cmds + 1
  /\ step' = IF ok THEN "ok" ELSE "idle"

\* Seeded faults in parse_Mode: a mode can be chosen again, or an unknown one stays.
ModeAgain ==
  /\ \E m \in Modes \cup {"unknown"} :
       /\ Command(m \in Modes) /\ dev_mode' = IF m \in Modes THEN m ELSE "base"
  /\ UNCHANGED <<temp_mode, ble_mode, bt, baudrate, rate, volume, wifi, mqtt>>
ModeUnknown ==
  /\ \E m \in Modes \cup {"unknown"} :
       LET free == dev_mode = "base"
       IN Command(free /\ m \in Modes) /\ dev_mode' = IF free THEN m ELSE dev_mode
  /\ UNCHANGED <<temp_mode, ble_mode, bt, baudrate, rate, volume, wifi, mqtt>>
\* AT+MODE=: chosen once.
parse_Mode ==
  /\ \E m \in Modes \cup {"unknown"} :
       LET ok == dev_mode = "base" /\ m \in Modes
       IN Command(ok) /\ dev_mode' = IF ok THEN m ELSE dev_mode
  /\ UNCHANGED <<temp_mode, ble_mode, bt, baudrate, rate, volume, wifi, mqtt>>

\* AT+BAUD=
parse_Baud ==
  /\ Command(TRUE) /\ baudrate' \in Rates
  /\ UNCHANGED <<dev_mode, temp_mode, ble_mode, bt, rate, volume, wifi, mqtt>>

\* AT+CWJAP=
parse_CWJAP ==
  /\ IF dev_mode = "bt" THEN Command(FALSE) /\ UNCHANGED wifi ELSE Command(TRUE) /\ wifi_set_config
  /\ UNCHANGED <<at, mqtt>>

\* AT+BTA=0: bt_speaker_init()
parse_Bta ==
  LET ok == dev_mode = "bt" /\ bt # "speaker"
  IN /\ Command(ok) /\ bt' = IF ok THEN "speaker" ELSE bt
     /\ UNCHANGED <<dev_mode, temp_mode, ble_mode, baudrate, rate, volume, wifi, mqtt>>

\* AT+BLE=1, AT+BLE=2
parse_Ble ==
  /\ \E m \in 0..2 :
       LET ok == dev_mode = "ble" /\ ble_mode = 0 /\ m > 0
       IN Command(ok) /\ ble_mode' = IF ok THEN m ELSE ble_mode
  /\ UNCHANGED <<dev_mode, temp_mode, bt, baudrate, rate, volume, wifi, mqtt>>

InRange(v) == IF v < 0 THEN 0 ELSE IF v > MaxVolume THEN MaxVolume ELSE v
\* AT+VOL=: one more, one less or a number.
parse_Vol ==
  /\ Command(TRUE)
  /\ \E v \in {volume - 1, volume + 1} \cup 0..MaxVolume + 2 : volume' = InRange(v)
  /\ UNCHANGED <<dev_mode, temp_mode, ble_mode, bt, baudrate, rate, wifi, mqtt>>

\* AT+MQCON=: mCotton_init() creates one more client.
parse_MqttCon ==
  LET ok == dev_mode = "mqtt" /\ gotip
  IN /\ Command(ok)
     /\ IF ok
        THEN clients' = clients + 1 /\ inbox' = Append(inbox, Packet)
        ELSE UNCHANGED <<clients, inbox>>
     /\ UNCHANGED <<at, wifi, online, mqtt_connected, mqtt_data, len, overwritten, answer, msgs>>

\* AT+MQQER?: mCotton_available(), and later mCotton_read().
parse_MqttQuery ==
  /\ Command(TRUE) /\ len' = mqtt_data.len
  /\ UNCHANGED <<at, wifi, clients, online, mqtt_connected, inbox, mqtt_data, overwritten, answer, msgs>>
mCotton_read == mqtt_data' = [mqtt_data EXCEPT !.len = 0]
\* Seeded fault in MqttAnswer: the length is asked for after mCotton_read().
MqttAnswerSwapped ==
  /\ step = "ok" /\ len > 0 /\ len' = 0
  /\ mCotton_read /\ answer' = [len |-> mqtt_data'.len, content |-> inbox[mqtt_data.client],
                                intact |-> ~overwritten] /\ overwritten' = FALSE
  /\ UNCHANGED <<at, step, cmds, wifi, clients, online, mqtt_connected, inbox, msgs>>
MqttAnswer ==
  /\ step = "ok" /\ len > 0 /\ len' = 0
  /\ mCotton_read /\ answer' = [len |-> len, content |-> inbox[mqtt_data.client],
                                intact |-> ~overwritten] /\ overwritten' = FALSE
  /\ UNCHANGED <<at, step, cmds, wifi, clients, online, mqtt_connected, inbox, msgs>>

\* AT+RST: esp_restart(), in any mode; wifi_sta_init() starts the station again.
Restart ==
  /\ step = "idle" /\ cmds < Commands /\ cmds' = cmds + 1
  /\ dev_mode' = "base" /\ temp_mode' = "base" /\ ble_mode' = 0 /\ bt' = "idle"
  /\ baudrate' = NoRate /\ rate' = 0 /\ volume' = MaxVolume - 1
  /\ on' = TRUE /\ link' = "none" /\ events' = <<"start">> /\ gotip' = FALSE
  /\ clients' = 0 /\ online' = {} /\ mqtt_connected' = FALSE /\ inbox' = <<>>
  /\ mqtt_data' = [len |-> 0, client |-> 0]
  /\ overwritten' = FALSE /\ UNCHANGED <<step, losses, len, answer, msgs>>

\* modeSetup(), after the answer.
modeSetup ==
  /\ step = "ok" /\ len = 0 /\ step' = "baud" /\ temp_mode' = dev_mode
  /\ IF dev_mode = temp_mode THEN UNCHANGED <<bt, wifi>>
     ELSE /\ bt' = CASE dev_mode \in {"wifi", "mqtt", "test"} -> "released"
                     [] dev_mode = "ble" -> "ble" [] OTHER -> bt
          /\ IF dev_mode \in {"bt", "ble"} THEN wifi_sta_deinit ELSE UNCHANGED wifi
  /\ UNCHANGED <<dev_mode, ble_mode, baudrate, rate, volume, cmds, mqtt>>

uart_dev_baudrate ==
  /\ step = "baud" /\ step' = "idle" /\ baudrate' = NoRate
  /\ rate' = IF baudrate = NoRate THEN rate ELSE baudrate
  /\ UNCHANGED <<dev_mode, temp_mode, ble_mode, bt, volume, cmds, wifi, mqtt>>

Finish == MqttAnswer \/ modeSetup \/ uart_dev_baudrate

----------------------------------------------------------------------------

Init ==
  /\ dev_mode = "base" /\ temp_mode = "base" /\ ble_mode = 0 /\ bt = "idle"
  /\ baudrate = NoRate /\ rate = 0 /\ volume = MaxVolume - 1 /\ step = "idle" /\ cmds = 0
  /\ on = TRUE /\ link = "none" /\ events = <<"start">> /\ gotip = FALSE /\ losses = 0
  /\ clients = 0 /\ online = {} /\ mqtt_connected = FALSE /\ inbox = <<>>
  /\ mqtt_data = [len |-> 0, client |-> 0] /\ len = 0 /\ overwritten = FALSE
  /\ answer = [len |-> 0, content |-> 0, intact |-> TRUE] /\ msgs = 0

Next ==
  \/ parse_Mode \/ parse_Baud \/ parse_CWJAP \/ parse_Bta \/ parse_Ble \/ parse_Vol
  \/ parse_MqttCon \/ parse_MqttQuery \/ Restart \/ Finish
  \/ Answers \/ Loses \/ net_event_handler \/ MqttConnected \/ MqttDisconnected \/ MqttReceives

Spec == Init /\ [][Next]_vars

\* The tasks run, and an access point in reach answers in the end.
FairSpec == Spec /\ WF_vars(Finish) /\ WF_vars(net_event_handler) /\ WF_vars(Answers)

----------------------------------------------------------------------------
(* Properties.                                                             *)

\* Between two commands nothing is half done: the mode that AT+MODE? reports is set up, also
\* after a refused command, and no change of the rate is left for a later command.
NothingHalfDone == step = "idle" => temp_mode = dev_mode /\ baudrate = NoRate

\* A Bluetooth stack is started only while its memory has not been released, and the BLE
\* roles only on the stack that ble_init() has started: a mode is for good.
StackInPlace ==
  [][/\ bt' = "speaker" /\ bt # "speaker" => bt = "idle"
     /\ ble_mode' # ble_mode /\ ble_mode' > 0 => bt = "ble"]_vars

\* However often the connection is lost or the access point changed, the station ends with
\* an address again, unless Bluetooth takes the radio.
WifiComesBack == <>[](gotip \/ ~on)

\* AT+MQQER? answers what MQTT has received, with its length, unless another packet has come
\* into the client's buffer before it was answered: "MicroAi _command.xlsx", row 31.
AnswersMessage == answer.intact => answer.len = answer.content

\* Both: commands are whole, and so are their answers.
CommandsWhole == NothingHalfDone /\ AnswersMessage

=============================================================================
