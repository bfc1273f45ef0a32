--------------------------- MODULE AplaySession ---------------------------
(***************************************************************************)
(* What the audio player promises its users: one session at a time, whose  *)
(* state is the Aplay_State_E that aplay_get_state() returns (aplay.h).    *)
(* A session is requested, begins, may be paused and resumed any number of *)
(* times, and ends by itself or because it was asked to.  It is only asked *)
(* to stop once it has begun (the BUSY guard of the commands), and a       *)
(* session that was asked to stop does end.                                *)
(***************************************************************************)

VARIABLES
  state,     \* what aplay_get_state() reports
  stopping   \* somebody has asked the session to end and waits for it

vars == <<state, stopping>>

Init == state = "stop" /\ stopping = FALSE

Request == /\ state = "stop"
           /\ state' = "request"
           /\ UNCHANGED stopping

Begin == /\ state = "request"
         /\ state' = "start"
         /\ UNCHANGED stopping

Pause == /\ state = "start" /\ ~stopping
         /\ state' = "suspend"
         /\ UNCHANGED stopping

Resume == /\ state = "suspend" /\ ~stopping
          /\ state' = "start"
          /\ UNCHANGED stopping

AskToStop == /\ state \in {"start", "suspend"}
             /\ stopping' = TRUE
             /\ UNCHANGED state

\* The end of the session also answers the request to stop it.
Finish == /\ state # "stop"
          /\ state' = "stop"
          /\ stopping' = FALSE

Next == Request \/ Begin \/ Pause \/ Resume \/ AskToStop \/ Finish

Spec == Init /\ [][Next]_vars /\ WF_vars(stopping /\ Finish)

===========================================================================
