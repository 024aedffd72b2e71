------------------------------ MODULE Deadlines ------------------------------
(* What the handlers of PALMA rely on in their timers: each counts down on its *)
(* own, whatever happens to the others, and fires once, not before its time    *)
(* and not before one that is due earlier.                                     *)
EXTENDS Integers

CONSTANTS Timers, Durations
VARIABLES running,  \* the timers that count down
          left      \* the time each has left, or had when it last ran

vars == <<running, left>>

Init == running = {} /\ left = [t \in Timers |-> 0]

(* A timer that is started for no time goes on with what it had left.          *)
Start(t, n) ==
    /\ t \notin running
    /\ running' = running \cup {t}
    /\ left' = IF n = 0 THEN left ELSE [left EXCEPT ![t] = n]

Stop(t) == t \in running /\ running' = running \ {t} /\ UNCHANGED left

Fire(t) ==
    /\ t \in running /\ left[t] <= 0
    /\ \A s \in running : left[t] <= left[s]
    /\ running' = running \ {t} /\ UNCHANGED left

Pass == left' = [t \in Timers |-> IF t \in running THEN left[t] - 1 ELSE left[t]]
        /\ UNCHANGED running

Next == Pass \/ \E t \in Timers : Stop(t) \/ Fire(t) \/ \E n \in Durations : Start(t, n)
Spec == Init /\ [][Next]_vars
=============================================================================
