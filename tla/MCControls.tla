------------------------------ MODULE MCControls ----------------------------
(***************************************************************************)
(* TLC instance of the smaller parts of the board, one of them at a time:  *)
(* motion sensor, Bluetooth speaker, buttons, Fourier transforms and the   *)
(* requests of the HTTP client.                                            *)
(***************************************************************************)
EXTENDS Mpu6050, BtSpeaker, Button, Fft, HttpRequest

\* Addresses with and without a port, a path and a query, and one without a host.
At(schema, host, port, path, query) ==
  [schema |-> schema, host |-> host, port |-> port, path |-> path, query |-> query]
MCUris == {At("http", "host", 8080, <<"/", "a">>, <<"x", "y">>),
           At("https", "host", 0, <<"/", "a">>, <<>>),
           At("http", "host", 0, <<>>, <<"x", "y">>), At("https", "", 0, <<>>, <<>>)}
MCRecordings == {[data_size |-> d, hdr_size |-> h] : d \in {0, 8}, h \in {0, 1}}

VARIABLE subject
controlVars == <<subject, sensorVars, vars, buttonVars, fftVars, requestVars>>

\* The parts that are not looked at stay in one of their initial states.
MCInit ==
  /\ subject \in {"sensor", "speaker", "button", "fft", "request"}
  /\ SensorInit /\ (subject # "sensor" => half = "api" /\ regs[0] = {})
  /\ Init
  /\ ButtonInit /\ (subject # "button" => bounces)
  /\ FftInit
  /\ RequestInit

OnButton(A) == subject = "button" /\ A /\ UNCHANGED <<subject, sensorVars, vars, fftVars, requestVars>>

MCNext ==
  \/ subject = "sensor" /\ SensorNext /\ UNCHANGED <<subject, vars, buttonVars, fftVars, requestVars>>
  \/ subject = "speaker" /\ Next /\ UNCHANGED <<subject, sensorVars, buttonVars, fftVars, requestVars>>
  \/ OnButton(ButtonNext)
  \/ subject = "fft" /\ FftNext /\ UNCHANGED <<subject, sensorVars, vars, buttonVars, requestVars>>
  \/ /\ subject = "request" /\ RequestNext
     /\ UNCHANGED <<subject, sensorVars, vars, buttonVars, fftVars>>

MCSpec == MCInit /\ [][MCNext]_controlVars /\ WF_controlVars(OnButton(Sample))
=============================================================================
