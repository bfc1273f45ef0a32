---------------------------- MODULE MCBleSerial ----------------------------
(***************************************************************************)
(* TLC instance of BleSerial: one host that sends more than the driver's   *)
(* buffer holds, and both hosts at a time.                                 *)
(***************************************************************************)
EXTENDS BleSerial

Sends(m, s) == [b \in Boards |-> IF b = "master" THEN m ELSE s]
MCLoads == {Sends(0, 3), Sends(1, 1)}
=============================================================================
