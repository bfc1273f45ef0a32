----------------------------- MODULE BleSerial -----------------------------
(***************************************************************************)
(* The transparent serial link of the BLE mode: two boards, a master       *)
(* (components/ble/gattc.c) and a slave (components/ble/gatts_table.c),    *)
(* each with a host on its UART (components/hal/uartdev.c).  On each board *)
(* the Bluetooth task handles the events of the stack one at a time and    *)
(* switches the UART between AT lines and raw bytes, while uart_task reads *)
(* the bytes the UART driver announces and writes them to the other board. *)
(***************************************************************************)
EXTENDS Integers, Sequences, SequencesExt

CONSTANTS
  Chunk,      \* bytes of one write: 20
  RingSize,   \* bytes of the UART driver's buffer: 200
  EventSlots, \* of esp_uart_queue: 10
  Loads,      \* bounds: how many bytes the two hosts may send, [Boards -> Nat]
  Links       \* bound: connections

ASSUME SerialAssumption ==
  /\ {Chunk, RingSize, EventSlots, Links} \subseteq Nat \ {0}
  /\ Loads \subseteq [{"master", "slave"} -> Nat]

VARIABLES
  calm,                \* the world, for good: each connection opens, the stack drops no
                       \* write, the hosts wait for room and the rate is left alone
  up, links,           \* the link of the two controllers, and the number of them so far
  adv, scan, opening,  \* the slave advertises; the master scans, waits for the OPEN event
  conn,                \* gatts_connected, gattc_connected
  send_callback, rx,   \* uartdev.c: is the callback set, the receive interrupt enabled?
  step,                \* of uart_dev_intr_enable() or _disable() in the Bluetooth task
  btq,                 \* the events of the Bluetooth task
  found,               \* trans_handle and trans_cccd_handle, which no disconnect resets
  registered,          \* the stack passes notifications of this link on to the master
  notif,               \* trans_notification_enabled
  ring, events,        \* the UART driver's buffer and esp_uart_queue
  size,                \* event.size in uart_task's loop
  fast,                \* has uart_baudrate been changed to 4?
  load,                \* bytes the hosts send, for good
  typed, out           \* bytes the host has sent, and the bytes the host has received

air == <<calm, load, up, links, adv, scan, opening>>
gatt == <<found, registered, notif>>
mode == <<conn, send_callback, rx, step>>
uart == <<ring, events, size, fast, typed>>
vars == <<air, gatt, mode, btq, uart, out>>

Boards == {"master", "slave"}
Far(b) == IF b = "master" THEN "slave" ELSE "master"
Event(e) == [event |-> e, data |-> <<>>]
Write(d) == [event |-> "data", data |-> d]

Room == 0  \* the size that stands for UART_FIFO_OVF and UART_BUFFER_FULL
Flush(b) == ring' = [ring EXCEPT ![b] = <<>>]

----------------------------------------------------------------------------
(* The controllers.                                                        *)

\* gap_event_handler of the master: the slave is found and opened.
ScanResult ==
  /\ scan /\ adv /\ scan' = FALSE /\ opening' = TRUE
  /\ UNCHANGED <<calm, load, up, links, adv, gatt, mode, btq, uart, out>>

\* A failed OPEN event is logged only.
Open ==
  /\ opening /\ opening' = FALSE /\ links < Links
  /\ \/ ~calm /\ UNCHANGED <<up, links, adv, btq>>
     \/ /\ adv /\ up' = TRUE /\ adv' = FALSE /\ links' = links + 1
        /\ btq' = [b \in Boards |-> Append(btq[b], Event("connect"))]
  /\ UNCHANGED <<calm, load, scan, gatt, mode, uart, out>>

\* The link is lost, or closed by gattc_connection_close() (button B of the master).
Disconnect ==
  /\ up /\ up' = FALSE /\ registered' = FALSE
  /\ btq' = [master |-> btq.master \o <<Event("disconnect"), Event("close")>>,
             slave |-> Append(btq.slave, Event("disconnect"))]
  /\ UNCHANGED <<calm, load, links, adv, scan, opening, found, notif, mode, uart, out>>

----------------------------------------------------------------------------
(* The Bluetooth tasks.                                                    *)

Next1(b, rest) == btq' = [btq EXCEPT ![b] = Tail(@) \o rest]

\* The head of the queue is an event of this kind, and no switch of the UART is under way.
Got(b, e) == step[b] = "none" /\ btq[b] # <<>> /\ Head(btq[b]).event = e

\* ESP_GATTC_CONNECT_EVT and ESP_GATTS_CONNECT_EVT set the flag, then call
\* uart_dev_intr_enable().  The other two switch the UART back.
HandleConnect(b) ==
  /\ Got(b, "connect") /\ conn' = [conn EXCEPT ![b] = TRUE] /\ step' = [step EXCEPT ![b] = "enable"]
  /\ UNCHANGED <<air, gatt, send_callback, rx, btq, uart, out>>

\* The handler's last step: the master asks for the MTU, the slave advertises again.
Continue(b) ==
  /\ step' = [step EXCEPT ![b] = "none"]
  /\ Next1(b, IF Head(btq[b]).event = "connect" /\ b = "master" /\ up THEN <<Event("mtu")>> ELSE <<>>)
  /\ adv' = (adv \/ (b = "slave" /\ Head(btq[b]).event = "disconnect"))

uart_dev_intr_enable(b) ==
  \/ /\ step[b] = "enable" /\ send_callback' = [send_callback EXCEPT ![b] = TRUE]
     /\ step' = [step EXCEPT ![b] = "enabled"] /\ UNCHANGED <<adv, rx, btq>>
  \/ step[b] = "enabled" /\ rx' = [rx EXCEPT ![b] = TRUE] /\ Continue(b) /\ UNCHANGED send_callback

HandleDisconnect(b) ==
  /\ Got(b, "disconnect") /\ conn' = [conn EXCEPT ![b] = FALSE] /\ step' = [step EXCEPT ![b] = "disable"]
  /\ UNCHANGED <<air, gatt, send_callback, rx, btq, uart, out>>

\* Seeded fault in uart_dev_intr_disable: the callback stays set.
DisableHalf(b) ==
  /\ step[b] = "disable" /\ rx' = [rx EXCEPT ![b] = FALSE] /\ Continue(b) /\ UNCHANGED send_callback
uart_dev_intr_disable(b) ==
  \/ /\ step[b] = "disable" /\ rx' = [rx EXCEPT ![b] = FALSE]
     /\ step' = [step EXCEPT ![b] = "disabled"] /\ UNCHANGED <<adv, send_callback, btq>>
  \/ /\ step[b] = "disabled" /\ send_callback' = [send_callback EXCEPT ![b] = FALSE]
     /\ Continue(b) /\ UNCHANGED rx

Switch(b) ==
  /\ uart_dev_intr_enable(b) \/ uart_dev_intr_disable(b)
  /\ UNCHANGED <<calm, load, up, links, scan, opening, gatt, conn, uart, out>>

\* Seeded fault in HandleClose: the scan is not started again.
HandleCloseIdle ==
  Got("master", "close") /\ Next1("master", <<>>) /\ UNCHANGED <<air, gatt, mode, uart, out>>
\* ESP_GATTC_CLOSE_EVT
HandleClose ==
  /\ Got("master", "close") /\ scan' = TRUE /\ Next1("master", <<>>)
  /\ UNCHANGED <<calm, load, up, links, adv, opening, gatt, mode, uart, out>>

\* ESP_GATTC_CFG_MTU_EVT: the service is searched for.
HandleMtu ==
  /\ Got("master", "mtu") /\ Next1("master", IF up THEN <<Event("search")>> ELSE <<>>)
  /\ UNCHANGED <<air, gatt, mode, uart, out>>

\* ESP_GATTC_SEARCH_RES_EVT, ESP_GATTC_SEARCH_CMPL_EVT: the handles, and the registration.
HandleSearch ==
  /\ Got("master", "search") /\ found' = (found \/ up) /\ registered' = up
  /\ Next1("master", IF up THEN <<Event("registered")>> ELSE <<>>)
  /\ UNCHANGED <<air, notif, mode, uart, out>>

\* ESP_GATTC_REG_FOR_NOTIFY_EVT: gattc_trans_notify(true) writes the slave's descriptor.
HandleRegistered ==
  /\ Got("master", "registered")
  /\ btq' = [master |-> Tail(btq.master),
             slave |-> btq.slave \o (IF conn.master /\ up THEN <<Event("notify")>> ELSE <<>>)]
  /\ UNCHANGED <<air, gatt, mode, uart, out>>

\* gatts_on_write_event(): the descriptor.
HandleNotify ==
  /\ Got("slave", "notify") /\ notif' = TRUE /\ Next1("slave", <<>>)
  /\ UNCHANGED <<air, found, registered, mode, uart, out>>

\* uart_dev_baudrate(4) returns if nothing changes, and else drops what the driver holds.
uart_dev_baudrate(b) ==
  /\ fast' = [fast EXCEPT ![b] = TRUE]
  /\ IF fast[b] THEN UNCHANGED ring ELSE Flush(b)

\* gatts_on_write_event(): mSerial_baud_handler().
HandleBaud ==
  /\ Got("slave", "baud") /\ uart_dev_baudrate("slave") /\ Next1("slave", <<>>)
  /\ UNCHANGED <<air, gatt, mode, events, size, typed, out>>

\* mSerial_trans_handler(), ESP_GATTC_NOTIFY_EVT: the bytes go out on the UART.
HandleData(b) ==
  /\ Got(b, "data") /\ out' = [out EXCEPT ![b] = @ \o Head(btq[b]).data] /\ Next1(b, <<>>)
  /\ UNCHANGED <<air, gatt, mode, uart>>

BluetoothTask(b) ==
  \/ HandleConnect(b) \/ HandleDisconnect(b) \/ Switch(b) \/ HandleData(b)
  \/ b = "master" /\ (HandleClose \/ HandleMtu \/ HandleSearch \/ HandleRegistered)
  \/ b = "slave" /\ (HandleNotify \/ HandleBaud)

----------------------------------------------------------------------------
(* uart_task, the driver and the buttons.                                  *)

\* The driver announces k bytes; it drops the event if the queue is full.
Receive(b) ==
  \E k \in 1..load[b] - typed[b] :
    /\ rx[b] /\ typed' = [typed EXCEPT ![b] = @ + k]
    /\ LET fits == Len(ring[b]) + k =< RingSize
           new == [i \in 1..k |-> typed[b] + i]
       IN /\ calm => fits /\ Len(events[b]) < EventSlots
          /\ ring' = IF fits THEN [ring EXCEPT ![b] = @ \o new] ELSE ring
          /\ events' = IF Len(events[b]) < EventSlots
                       THEN [events EXCEPT ![b] = Append(@, IF fits THEN k ELSE Room)] ELSE events
    /\ UNCHANGED <<air, gatt, mode, btq, size, fast, out>>

\* The next event: a size, or a full buffer, which drops the buffer and the queue.
TakeEvent(b) ==
  /\ size[b] = 0 /\ events[b] # <<>>
  /\ IF Head(events[b]) = Room
     THEN Flush(b) /\ events' = [events EXCEPT ![b] = <<>>] /\ UNCHANGED size
     ELSE /\ size' = [size EXCEPT ![b] = Head(events[b])]
          /\ events' = [events EXCEPT ![b] = Tail(@)] /\ UNCHANGED ring
  /\ UNCHANGED <<air, gatt, mode, btq, fast, typed, out>>

\* gattc_trans_send() and gatts_trans_send(); without a link the stack drops the bytes, and
\* it passes a notification on only once the master has registered.
Passes(b) == conn[b] /\ up /\ IF b = "master" THEN found ELSE notif /\ registered
trans_send(b, data) ==
  \/ (Passes(b) => ~calm) /\ UNCHANGED btq
  \/ Passes(b) /\ btq' = [btq EXCEPT ![Far(b)] = Append(@, Write(data))]

\* uart_read_bytes() waits for all the bytes it is asked for.
Read(b, n, left, taken) ==
  /\ Len(ring[b]) >= n
  /\ ring' = [ring EXCEPT ![b] = SubSeq(@, taken + 1, Len(@))]
  /\ size' = [size EXCEPT ![b] = left]
  /\ IF send_callback[b] THEN trans_send(b, SubSeq(ring[b], 1, n)) ELSE UNCHANGED btq
  /\ UNCHANGED <<air, gatt, mode, events, fast, typed, out>>

Least(a, b) == IF a < b THEN a ELSE b

\* Seeded faults in ReadChunk: one byte is read again; the rest of an event is forgotten.
ReadAgain(b) == LET n == Least(Chunk, size[b]) IN size[b] > 0 /\ Read(b, n, size[b] - n, n - 1)
ReadFirst(b) == LET n == Least(Chunk, size[b]) IN size[b] > 0 /\ Read(b, n, 0, n)
ReadChunk(b) == LET n == Least(Chunk, size[b]) IN size[b] > 0 /\ Read(b, n, size[b] - n, n)

uart_task(b) == TakeEvent(b) \/ ReadChunk(b)

\* Button A of the master: uart_dev_baudrate(4) and gattc_set_baudrate(1152).
gattc_btnA_cb ==
  /\ ~calm /\ ~fast.master /\ uart_dev_baudrate("master")
  /\ btq' = IF conn.master /\ up /\ found THEN [btq EXCEPT !.slave = Append(@, Event("baud"))] ELSE btq
  /\ UNCHANGED <<air, gatt, mode, events, size, typed, out>>

----------------------------------------------------------------------------

\* AT+BLE=1 and AT+BLE=2 have been answered on the two boards.
Init ==
  /\ calm \in BOOLEAN /\ load \in Loads
  /\ up = FALSE /\ links = 0 /\ adv = TRUE /\ scan = TRUE /\ opening = FALSE
  /\ conn = [b \in Boards |-> FALSE] /\ send_callback = conn /\ rx = conn /\ fast = conn
  /\ step = [b \in Boards |-> "none"] /\ found = FALSE /\ registered = FALSE /\ notif = FALSE
  /\ btq = [b \in Boards |-> <<>>] /\ ring = btq /\ events = btq /\ out = btq
  /\ size = [b \in Boards |-> 0] /\ typed = size

Next ==
  \/ ScanResult \/ Open \/ Disconnect \/ gattc_btnA_cb
  \/ \E b \in Boards : BluetoothTask(b) \/ Receive(b) \/ uart_task(b)

Spec == Init /\ [][Next]_vars

\* The tasks run, and a slave in reach is found and opened.
FairSpec ==
  /\ Spec /\ WF_vars(ScanResult) /\ WF_vars(Open)
  /\ \A b \in Boards : WF_vars(BluetoothTask(b)) /\ WF_vars(uart_task(b))

----------------------------------------------------------------------------
(* Properties.                                                             *)

\* The link is transparent: a host receives bytes of the other host in the order they were
\* sent in and none of them twice, through reconnections, overruns and changes of the rate.
InOrder ==
  \A b \in Boards : \A i \in 1..Len(out[b]) - 1 : out[b][i] < out[b][i + 1]

\* The bytes the host of board b may send.
Bytes(b) == 1..Max({l[b] : l \in Loads})

Settled == \A b \in Boards : step[b] = "none" /\ btq[b] = <<>>

\* Once the events are handled, each UART is in the mode of the link, and a link that is up
\* carries bytes both ways: the service is found and notifications are on.
ModeOfLink ==
  Settled =>
    /\ \A b \in Boards : conn[b] = up /\ send_callback[b] = up /\ rx[b] = up
    /\ up => Passes("master") /\ Passes("slave")

\* Both: the link is transparent, and open while it is up.
LinkTransparent == InOrder /\ ModeOfLink

\* In a calm world, a byte that is received on a settled link reaches the other host, unless
\* the link goes down before: nothing is left behind in the driver's buffer.
Delivered ==
  \A b \in Boards : \A n \in Bytes(b) :
    (calm /\ Settled /\ up /\ Contains(ring[b], n)) ~> (Contains(out[Far(b)], n) \/ ~up)

\* In a calm world, boards that have lost each other find each other again.
ScansAgain == calm /\ ~up /\ links < Links ~> up

\* Both: in a calm world the link carries what it is given, again and again.
LinkLives == Delivered /\ ScansAgain
=============================================================================
