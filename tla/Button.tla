------------------------------- MODULE Button -------------------------------
(***************************************************************************)
(* The debouncing of components/bsp/button.c: every 30 ms button_task      *)
(* samples the pin (1 is released, the pin is pulled up), button_filter()  *)
(* keeps the last eight samples and a byte whose low half is the debounced *)
(* level and whose high half is the one before, and the callback is told   *)
(* when the two differ.                                                    *)
(***************************************************************************)
EXTENDS Integers

OFF == 0
RELEASE == 1
PRESS == 16
ON == 17

VARIABLES
  bounces,  \* the world: may the pin bounce right after eight equal samples?
  pin,      \* the level of the pin at the last sample
  filter,   \* button_val[i].filter, the last eight samples
  value,    \* button_val[i].value
  told,     \* the action the callback was last called with
  tick      \* alternates with each turn of the task's loop
buttonVars == <<bounces, pin, filter, value, told, tick>>

LowByte(n) == n % 256

\* Seeded fault in Debounced: the first low sample counts.
DebouncedAtOnce(f, old) == IF f = 255 THEN 1 ELSE IF f % 2 = 0 THEN 0 ELSE old
\* The value's new low half, and with it the old high half while the filter is mixed.
Debounced(f, old) == CASE f = 255 -> 1 [] f = 0 -> 0 [] OTHER -> old

\* Bitwise or of bytes that use bits 0 and 4 only.
Or(a, b) ==
  (IF a % 16 = 0 /\ b % 16 = 0 THEN 0 ELSE 1) + (IF a < 16 /\ b < 16 THEN 0 ELSE 16)

\* Seeded faults in button_filter: the old level is not moved up, or not kept.
FilterNotMoved(level) ==
  /\ pin' = level
  /\ filter' = LowByte(2 * filter + level)
  /\ value' = Or(Debounced(filter', value), 16 * (value \div 16))
FilterForgets(level) ==
  /\ pin' = level
  /\ filter' = LowByte(2 * filter + level)
  /\ value' = Debounced(filter', value)
\* button_filter()
button_filter(level) ==
  /\ pin' = level
  /\ filter' = LowByte(2 * filter + level)
  /\ value' = Or(Debounced(filter', value), LowByte(16 * (value % 16)))

\* button_task's loop; the level it finds is the world's.
Sample ==
  /\ tick' = ~tick /\ UNCHANGED bounces
  /\ \E level \in {0, 1} :
       /\ ~bounces /\ value \in {PRESS, RELEASE} => level = value % 2
       /\ button_filter(level)
       /\ told' = IF value' > OFF /\ value' < ON THEN value' ELSE told

ButtonInit ==
  /\ bounces \in BOOLEAN
  /\ pin = 1 /\ filter = 255 /\ value = ON /\ told = RELEASE /\ tick = FALSE
ButtonNext == Sample
ButtonSpec == ButtonInit /\ [][ButtonNext]_buttonVars
ButtonFairSpec == ButtonSpec /\ WF_buttonVars(Sample)

----------------------------------------------------------------------------
(* Properties.                                                             *)

\* Presses and releases are reported in turn: a release once, and only after a press, however
\* the pin bounces; a press once, until the release, if the pin keeps a new level for the one
\* sample that follows the eight.
ReportsAlternate ==
  [][/\ value' = RELEASE => told = PRESS
     /\ ~bounces /\ value' = PRESS => told = RELEASE]_buttonVars

\* However the pin bounces, only eight equal samples in a row change the level.
EightSamples == [][value' % 16 # value % 16 => filter' \in {0, 255}]_buttonVars

\* Both: what is reported is what was done to the button.
Debounces == ReportsAlternate /\ EightSamples

\* A pin that is held is reported.
HeldIsReported == [](([](pin = 0) => <>(told = PRESS)) /\ ([](pin = 1) => <>(told = RELEASE)))
=============================================================================
