------------------------------ MODULE MCAplay ------------------------------
(***************************************************************************)
(* TLC instances of Aplay: one command task alone, and the command task    *)
(* together with the button task.  Two slots of each kind are enough to    *)
(* show a second player or decoder next to the first.                      *)
(***************************************************************************)
EXTENDS Aplay, TLC

CONSTANTS p1, p2, d1, d2

MCPlayers == {p1, p2}
MCDecoders == {d1, d2}
MCUart == {"uart"}
MCButton == {"button"}
MCNoButton == {}

\* Slots are interchangeable: for the run without liveness.
SlotSymmetry == Permutations(MCPlayers) \cup Permutations(MCDecoders)
============================================================================
