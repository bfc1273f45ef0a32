--------------------------- MODULE AtModes_proofs ---------------------------
(***************************************************************************)
(* Proofs about AtModes, for any number of commands, losses and messages:  *)
(* commands leave nothing half done, Bluetooth is started only while its   *)
(* memory is there, and AT+MQQER? answers the message it announced.        *)
(***************************************************************************)
EXTENDS AtModes, SequenceTheorems, TLAPS

\* uart_task: behind modeSetup() the mode is set up, behind uart_dev_baudrate() the rate is.
\* MqttAnswer has been made before modeSetup().
StepInv ==
  /\ step \in {"idle", "ok", "baud"}
  /\ step # "ok" => temp_mode = dev_mode /\ len = 0
  /\ step = "idle" => baudrate = NoRate

\* A mode that is set up has left Bluetooth as it needs it, and one that is not yet set up was
\* chosen when Bluetooth was untouched: a mode is chosen once.
BluetoothInv ==
  /\ dev_mode \in Modes \cup {"base"}
  /\ temp_mode # dev_mode => temp_mode = "base" /\ bt = "idle"
  /\ dev_mode = "base" => bt = "idle"
  /\ dev_mode = "bt" => bt \in {"idle", "speaker"}
  /\ dev_mode = "ble" /\ temp_mode = "ble" => bt = "ble"

\* The clients and their buffers, and the message that waits: while no packet has overwritten
\* it, the buffer of its client holds the message of that length.
MessageInv ==
  /\ clients \in Nat /\ online \subseteq 1..clients
  /\ inbox \in Seq(Nat) /\ Len(inbox) = clients
  /\ msgs \in Nat /\ mqtt_data \in [len : Nat, client : Nat] /\ len \in Nat
  /\ overwritten \in BOOLEAN
  /\ mqtt_data.len > 0 => mqtt_data.client \in 1..clients
  /\ len > 0 => mqtt_data.client \in 1..clients
  /\ ~overwritten /\ mqtt_data.len > 0 => inbox[mqtt_data.client] = mqtt_data.len
  /\ ~overwritten /\ len > 0 => inbox[mqtt_data.client] = len
  /\ AnswersMessage

\* The three of them.
CommandInv == StepInv /\ BluetoothInv /\ MessageInv

\* After a start no command is under way, and no stack runs.
LEMMA InitCommandInv ==
  ASSUME Init
  PROVE  CommandInv
<1> USE DEF Init
<1>1. StepInv
  BY DEF StepInv
<1>2. BluetoothInv
  BY DEF BluetoothInv
<1>3. MessageInv
  <2>1. <<>> \in Seq(Nat) /\ Len(<<>>) = 0
    BY EmptySeq
  <2>2. AnswersMessage
    BY DEF AnswersMessage
  <2>3. online \subseteq 1..clients /\ clients \in Nat /\ msgs \in Nat /\ len = 0 /\ overwritten \in BOOLEAN
    OBVIOUS
  <2>4. mqtt_data \in [len : Nat, client : Nat] /\ mqtt_data.len = 0
    OBVIOUS
  <2> QED BY <2>1, <2>2, <2>3, <2>4 DEF MessageInv
<1> QED BY <1>1, <1>2, <1>3 DEF CommandInv

\* Each step keeps uart_task's part.
LEMMA StepInvStep ==
  ASSUME CommandInv, Next
  PROVE  StepInv'
<1> USE DEF CommandInv, StepInv, Command, at, wifi, mqtt
<1>1. CASE parse_Mode
  BY <1>1 DEF parse_Mode
<1>2. CASE parse_Baud \/ parse_CWJAP \/ parse_Bta \/ parse_Ble \/ parse_Vol
  BY <1>2 DEF parse_Baud, parse_CWJAP, parse_Bta, parse_Ble, parse_Vol
<1>3. CASE parse_MqttCon \/ parse_MqttQuery
  BY <1>3 DEF parse_MqttCon, parse_MqttQuery
<1>4. CASE Restart
  BY <1>4 DEF Restart
<1>5. CASE Finish
  BY <1>5 DEF Finish, MqttAnswer, mCotton_read, modeSetup, uart_dev_baudrate
<1>6. CASE Answers \/ Loses \/ net_event_handler
  BY <1>6 DEF Answers, Loses, net_event_handler
<1>7. CASE MqttConnected \/ MqttDisconnected \/ MqttReceives
  BY <1>7 DEF MqttConnected, MqttDisconnected, MqttReceives
<1> QED BY <1>1, <1>2, <1>3, <1>4, <1>5, <1>6, <1>7 DEF Next

\* Each step keeps the Bluetooth part: what is released is not started again.
LEMMA BluetoothInvStep ==
  ASSUME CommandInv, Next
  PROVE  BluetoothInv'
<1> USE DEF CommandInv, StepInv, BluetoothInv, Command, Modes, at, wifi, mqtt
<1>1. CASE parse_Mode
  BY <1>1 DEF parse_Mode
<1>2. CASE parse_Baud \/ parse_CWJAP \/ parse_Bta \/ parse_Ble \/ parse_Vol
  BY <1>2 DEF parse_Baud, parse_CWJAP, parse_Bta, parse_Ble, parse_Vol
<1>3. CASE parse_MqttCon \/ parse_MqttQuery
  BY <1>3 DEF parse_MqttCon, parse_MqttQuery
<1>4. CASE Restart
  BY <1>4 DEF Restart
<1>5. CASE modeSetup
  BY <1>5 DEF modeSetup
<1>6. CASE MqttAnswer \/ uart_dev_baudrate
  BY <1>6 DEF MqttAnswer, uart_dev_baudrate
<1>7. CASE Answers \/ Loses \/ net_event_handler
  BY <1>7 DEF Answers, Loses, net_event_handler
<1>8. CASE MqttConnected \/ MqttDisconnected \/ MqttReceives
  BY <1>8 DEF MqttConnected, MqttDisconnected, MqttReceives
<1> QED BY <1>1, <1>2, <1>3, <1>4, <1>5, <1>6, <1>7, <1>8 DEF Next, Finish

\* A new client leaves the buffers of the others as they are.
LEMMA AppendedInbox ==
  ASSUME NEW s \in Seq(Nat), NEW e \in Nat
  PROVE  /\ Append(s, e) \in Seq(Nat) /\ Len(Append(s, e)) = Len(s) + 1
         /\ \A i \in 1..Len(s) : Append(s, e)[i] = s[i]
BY AppendProperties

\* A packet that arrives replaces the contents of one buffer.
LEMMA FilledInbox ==
  ASSUME NEW s \in Seq(Nat), NEW c \in 1..Len(s), NEW e \in Nat
  PROVE  /\ [s EXCEPT ![c] = e] \in Seq(Nat) /\ Len([s EXCEPT ![c] = e]) = Len(s)
         /\ [s EXCEPT ![c] = e][c] = e
BY ExceptSeq

\* Each step keeps the part of messages: an answer is made of the length that was taken and
\* of the contents of the buffer that mqtt_data points to.
LEMMA MessageInvStep ==
  ASSUME CommandInv, Next
  PROVE  MessageInv'
<1> USE DEF CommandInv, MessageInv, AnswersMessage, at, wifi, mqtt
<1>1. CASE parse_Mode \/ parse_Baud \/ parse_CWJAP \/ parse_Bta \/ parse_Ble \/ parse_Vol
  BY <1>1 DEF parse_Mode, parse_Baud, parse_CWJAP, parse_Bta, parse_Ble, parse_Vol
<1>2. CASE parse_MqttCon
  <2>1. CASE inbox' = Append(inbox, Packet) /\ clients' = clients + 1
    BY <1>2, <2>1, AppendedInbox DEF parse_MqttCon, Packet
  <2>2. CASE UNCHANGED <<inbox, clients>>
    BY <1>2, <2>2 DEF parse_MqttCon
  <2> QED BY <1>2, <2>1, <2>2 DEF parse_MqttCon
<1>3. CASE parse_MqttQuery
  BY <1>3 DEF parse_MqttQuery
<1>4. CASE Restart
  <2>1. <<>> \in Seq(Nat) /\ Len(<<>>) = 0
    BY EmptySeq
  <2> USE <1>4 DEF Restart
  <2>2. online' \subseteq 1..clients' /\ clients' \in Nat /\ msgs' \in Nat /\ len' = 0 /\ overwritten' \in BOOLEAN
    BY DEF StepInv
  <2>3. mqtt_data' \in [len : Nat, client : Nat] /\ mqtt_data'.len = 0
    OBVIOUS
  <2>4. AnswersMessage'
    OBVIOUS
  <2> QED BY <2>1, <2>2, <2>3, <2>4
<1>5. CASE MqttAnswer
  <2> USE <1>5 DEF MqttAnswer, mCotton_read
  <2>1. mqtt_data' \in [len : Nat, client : Nat] /\ mqtt_data'.len = 0 /\ len' = 0 /\ overwritten' \in BOOLEAN
    OBVIOUS
  <2>2. ~overwritten => inbox[mqtt_data.client] = len
    OBVIOUS
  <2>3. AnswersMessage'
    BY <2>2, Zenon
  <2>4. AnswersMessage' => MessageInv'
    BY <2>1
  <2> QED BY <2>3, <2>4
<1>6. CASE modeSetup \/ uart_dev_baudrate
  BY <1>6 DEF modeSetup, uart_dev_baudrate
<1>7. CASE Answers \/ Loses \/ net_event_handler
  BY <1>7 DEF Answers, Loses, net_event_handler
<1>8. CASE MqttConnected \/ MqttDisconnected
  BY <1>8 DEF MqttConnected, MqttDisconnected
<1>9. CASE MqttReceives
  <2>1. PICK c \in online :
          \/ inbox' = [inbox EXCEPT ![c] = Packet] /\ UNCHANGED <<mqtt_data, msgs>>
          \/ /\ msgs' = msgs + 1 /\ inbox' = [inbox EXCEPT ![c] = msgs']
             /\ mqtt_data' = [len |-> msgs', client |-> c]
    BY <1>9 DEF MqttReceives
  <2>2. c \in 1..Len(inbox)
    BY <2>1
  <2>3. CASE inbox' = [inbox EXCEPT ![c] = Packet] /\ UNCHANGED <<mqtt_data, msgs>>
    BY <1>9, <2>2, <2>3, FilledInbox DEF MqttReceives, Packet
  <2>4. CASE /\ msgs' = msgs + 1 /\ inbox' = [inbox EXCEPT ![c] = msgs']
             /\ mqtt_data' = [len |-> msgs', client |-> c]
    <3>1. msgs' \in Nat
      BY <2>4
    <3>2. inbox' \in Seq(Nat) /\ Len(inbox') = clients /\ inbox'[c] = msgs'
      BY <2>2, <2>4, <3>1, FilledInbox
    <3>3. overwritten' \in BOOLEAN /\ (~overwritten' => ~(len > 0))
      BY <1>9, Zenon DEF MqttReceives
    <3> QED BY <1>9, <2>2, <2>4, <3>1, <3>2, <3>3 DEF MqttReceives
  <2> QED BY <2>1, <2>3, <2>4
<1> QED BY <1>1, <1>2, <1>3, <1>4, <1>5, <1>6, <1>7, <1>8, <1>9 DEF Next, Finish

\* The invariant holds in every reachable state.
LEMMA CommandInvAlways == Spec => []CommandInv
<1>1. CommandInv /\ [Next]_vars => CommandInv'
  <2>1. CASE Next
    BY <2>1, StepInvStep, BluetoothInvStep, MessageInvStep DEF CommandInv
  <2>2. CASE UNCHANGED vars
    BY <2>2 DEF CommandInv, StepInv, BluetoothInv, MessageInv, AnswersMessage, vars, at, wifi, mqtt
  <2> QED BY <2>1, <2>2
<1> QED BY InitCommandInv, <1>1, PTL DEF Spec

\* Between two commands nothing is half done, also after refused ones and restarts; and
\* AT+MQQER? answers the message whose length it has taken, unless a packet came between
\* (at_cmd.c: parse_Mode(), modeSetup(), parse_MqttQuery(); mCotton.c).
THEOREM CommandsWholeAlways == Spec => []CommandsWhole
<1>1. CommandInv => CommandsWhole
  BY DEF CommandInv, StepInv, MessageInv, CommandsWhole, NothingHalfDone
<1> QED BY CommandInvAlways, <1>1, PTL

\* However modes are asked for, the speaker is only started on Bluetooth that has not been
\* released, and a BLE role is only taken on a stack that runs (at_cmd.c: modeSetup(), parse_Bta(), parse_Ble()).
THEOREM StackInPlaceAlways == Spec => StackInPlace
<1> DEFINE Kept == /\ bt' = "speaker" /\ bt # "speaker" => bt = "idle"
                   /\ ble_mode' # ble_mode /\ ble_mode' > 0 => bt = "ble"
<1>1. ASSUME CommandInv, Next PROVE Kept
  <2> USE <1>1 DEF CommandInv, StepInv, BluetoothInv, Modes, at, wifi, mqtt
  <2>1. CASE parse_Bta
    BY <2>1 DEF parse_Bta
  <2>2. CASE parse_Ble
    BY <2>2 DEF parse_Ble, Command
  <2>3. CASE modeSetup
    BY <2>3 DEF modeSetup
  <2>4. CASE Restart
    BY <2>4 DEF Restart
  <2>5. CASE parse_Mode \/ parse_Baud \/ parse_CWJAP \/ parse_Vol \/ parse_MqttCon \/ parse_MqttQuery
    BY <2>5 DEF parse_Mode, parse_Baud, parse_CWJAP, parse_Vol, parse_MqttCon, parse_MqttQuery
  <2>6. CASE MqttAnswer \/ uart_dev_baudrate
    BY <2>6 DEF MqttAnswer, uart_dev_baudrate
  <2>7. CASE Answers \/ Loses \/ net_event_handler \/ MqttConnected \/ MqttDisconnected \/ MqttReceives
    BY <2>7 DEF Answers, Loses, net_event_handler, MqttConnected, MqttDisconnected, MqttReceives
  <2> QED BY <2>1, <2>2, <2>3, <2>4, <2>5, <2>6, <2>7 DEF Next, Finish
<1>2. CommandInv /\ [Next]_vars => [Kept]_vars
  BY <1>1
<1> QED BY CommandInvAlways, <1>2, PTL DEF Spec, StackInPlace
=============================================================================
