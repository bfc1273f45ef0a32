--------------------------- MODULE MCVoiceSession ---------------------------
(***************************************************************************)
(* TLC instances of VoiceSession.  Each of them has two scenes, of which   *)
(* an execution keeps to one: with the command task alone, all commands    *)
(* and short recordings, or voice requests of any length; and with the     *)
(* button, either the command task too, or a parser that fails late.       *)
(***************************************************************************)
EXTENDS VoiceSession, TLC

CONSTANTS w1, w2

MCWriters == {w1, w2}
MCUart == {"uart"}
MCCommands == DOMAIN Calls
MCFileCommands == {"record", "recStop", "play"}
MCButton == {"button"}
MCNoButton == {}
MCCodes == {200, 500}
MCErrorCode == {NotFound}
WriterSymmetry == Permutations(MCWriters)

VARIABLE scene
mcVars == <<vars, scene>>

Requests(c) == todo[c] # <<>> => todo[c][Len(todo[c])] = "give"

InScene ==
  CASE scene = "commands" -> rpc = "rec" => written = 0
    [] scene = "requests" -> \A c \in Callers : Requests(c)
    [] scene = "callers" -> uret # "again"
    [] scene = "trailing" -> \A c \in Uart : todo[c] = <<>>

MCNext == Next /\ UNCHANGED scene /\ InScene'

OneInit == Init /\ scene \in {"commands", "requests"}
TwoInit == Init /\ scene \in {"callers", "trailing"}

OneSpec == OneInit /\ [][MCNext]_mcVars /\ Fairness
TwoSpec == TwoInit /\ [][MCNext]_mcVars

\* Who holds the PLAY bit does not depend on what is in flash, as long as a recording has but one
\* sector to erase.
LockView == <<scene, commandVars, playerVars, rbits, notified, rpc, fileVars, written, toErase,
              uploadVars>>
=============================================================================
