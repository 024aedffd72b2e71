----------------------------- MODULE MCTimerList -----------------------------
(* Three timers, so that one has a neighbour on either side; durations that    *)
(* coincide and that do not; 0 for a timer that goes on with what it had.      *)
EXTENDS TimerList
MCDurations == 0 .. 3
=============================================================================
