------------------------------- MODULE MCCamera -----------------------------
(***************************************************************************)
(* TLC instance of the camera's parts, one of them at a time: the capture  *)
(* of pictures, the server that sends them, and the cut of a line into     *)
(* buffers for every format and speed but grayscale at high speed, whose   *)
(* filter leaves bytes of a line blank.                                    *)
(***************************************************************************)
EXTENDS Camera, CameraFormat, MCHttpServer

MCModes == (Formats \X BOOLEAN) \ {<<"grayscale", TRUE>>}

VARIABLE subject
partVars == <<subject, vars, formatVars, httpVars>>

\* The parts that are not looked at stay in one of their initial states.
MCInit ==
  /\ subject \in {"capture", "format", "server"}
  /\ Init /\ (subject # "capture" => jpeg /\ prompt)
  /\ FormatInit /\ (subject # "format" => width = 320 /\ mode = <<"jpeg", FALSE>>)
  /\ HttpInit

Captures(A) == subject = "capture" /\ A /\ UNCHANGED <<subject, formatVars, httpVars>>
Serves(A) == subject = "server" /\ A /\ UNCHANGED <<subject, vars, formatVars>>
MCNext ==
  \/ Captures(Next)
  \/ Serves(HttpNext)
  \/ subject = "format" /\ FormatNext /\ UNCHANGED <<subject, vars, httpVars>>

MCSpec == MCInit /\ [][MCNext]_partVars

\* The fairness of Camera's FairSpec and of HttpServer's.
MCFair ==
  /\ WF_partVars(Captures(I2sRun \/ Return)) /\ WF_partVars(Captures(Receive \/ Vsync))
  /\ WF_partVars(Captures(I2sIsr)) /\ WF_partVars(Captures(GpioIsr))
  /\ WF_partVars(Captures(FilterTake \/ FilterWrite))
  /\ WF_partVars(Serves(Parse)) /\ WF_partVars(Serves(Respond))
  /\ WF_partVars(Serves(Responding)) /\ WF_partVars(Serves(Close)) /\ WF_partVars(Serves(Leave))
MCFairSpec == MCSpec /\ MCFair
=============================================================================
