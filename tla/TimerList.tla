------------------------------ MODULE TimerList ------------------------------
(* TimerList (src/common/timer.cpp): the timers that run, in the order they    *)
(* are due, each with its time after the one before; only the first counts     *)
(* down, when refresh reads the clock.  The time unit is left open.            *)
EXTENDS Integers, Sequences, FiniteSets, FiniteSetsExt, SequencesExt

CONSTANTS Timers,
          Durations,  \* what startTimer is called with
          MaxOverdue  \* bound: how late the first timer may fire

ASSUME TimersAssumption ==
    Durations \subseteq Nat /\ Durations # {} /\ IsFiniteSet(Durations) /\ MaxOverdue \in Nat

VARIABLES list,      \* from m_first.m_next on: <<[timer, d]>>
          duration,  \* m_duration of the timers that are not active
          elapsed    \* time since m_ref, not yet taken off the first timer

vars == <<list, duration, elapsed>>

Active == {list[i].timer : i \in DOMAIN list}

Init == list = <<>> /\ duration = [t \in Timers |-> 0] /\ elapsed = 0

(* What refresh makes of the list, as it moves m_ref to now.                   *)
Refreshed == IF list = <<>> THEN list ELSE [list EXCEPT ![1].d = @ - elapsed]

(* Until(l)[i]: the time from m_ref until entry i of l is due.                 *)
Until(l) == LET sum[i \in 0 .. Len(l)] == IF i = 0 THEN 0 ELSE sum[i - 1] + l[i].d IN sum
PlaceOf(l, t) == CHOOSE i \in DOMAIN l : l[i].timer = t

(* Slips: the timer after one that leaves keeps its time after the one before; *)
(* add goes on to the end.                                                     *)
DelUncorrected(l, i) == RemoveAt(l, i)
AddLate(l, t, n) ==
    Append(l, [timer |-> t, d |-> n - Until(l)[Len(l)]])

(* add: before the first timer that is due later, which then counts from the   *)
(* new one.                                                                    *)
Add(l, t, n) ==
    LET at == SelectInSeq([i \in DOMAIN l |-> Until(l)[i]], LAMBDA due : n < due)
        before == Until(l)[IF at = 0 THEN Len(l) ELSE at - 1]
        new == [timer |-> t, d |-> n - before]
    IN  IF at = 0 THEN Append(l, new)
        ELSE InsertAt([l EXCEPT ![at].d = @ - new.d], at, new)

(* The timer after one that leaves the list counts from the one before.        *)
Del(l, i) == RemoveAt(IF i < Len(l) THEN [l EXCEPT ![i + 1].d = @ + l[i].d] ELSE l, i)

(* EventLoop::startTimer.  Every handler starts timers that do not run.        *)
StartTimer(t, n) ==
    /\ t \notin Active
    /\ list' = Add(Refreshed, t, IF n # 0 THEN n ELSE duration[t])
    /\ elapsed' = 0
    /\ UNCHANGED duration

(* EventLoop::stopTimer: m_duration is what was left.                          *)
StopTimer(t) ==
    /\ t \in Active
    /\ LET i == PlaceOf(list, t)
       IN  /\ list' = Del(Refreshed, i)
           /\ duration' = [duration EXCEPT ![t] = Until(Refreshed)[i]]
    /\ elapsed' = 0

(* One round of the loop in check, up to the call of timeout().                *)
Check ==
    /\ list # <<>> /\ Refreshed[1].d <= 0
    /\ list' = Del(Refreshed, 1)
    /\ duration' = [duration EXCEPT ![list[1].timer] = Refreshed[1].d]
    /\ elapsed' = 0

(* Slip: refresh leaves m_ref where it was.                                    *)
RefreshAgain == elapsed # 0 /\ list' = Refreshed /\ UNCHANGED <<duration, elapsed>>

(* readTimer, and every call that refreshes without a change.                  *)
Refresh == elapsed # 0 /\ list' = Refreshed /\ elapsed' = 0 /\ UNCHANGED duration

Pass ==
    /\ list # <<>> => list[1].d - elapsed > -MaxOverdue
    /\ elapsed' = IF list = <<>> THEN 0 ELSE elapsed + 1
    /\ UNCHANGED <<list, duration>>

Next ==
    \/ \E t \in Timers : StopTimer(t) \/ \E n \in Durations : StartTimer(t, n)
    \/ Check \/ Refresh \/ Pass

Spec == Init /\ [][Next]_vars

----------------------------------------------------------------------------
(* readTimer: 0 for a timer that is not active.                                *)
Read(t) == IF t \in Active THEN Until(Refreshed)[PlaceOf(list, t)] ELSE 0

(* What is written down stays within the durations and the lateness: no time   *)
(* is taken off twice.                                                         *)
TypeInvariant ==
    LET span == Max(Durations) + MaxOverdue
    IN  /\ list \in Seq([timer : Timers, d : -MaxOverdue .. span])
        /\ duration \in [Timers -> -MaxOverdue .. span]
        /\ elapsed \in 0 .. span

(* No timer is in the list twice, and after the first none is due before the   *)
(* one before it, so that check may stop at the first that is not due.         *)
ListInOrder ==
    /\ \A i, j \in DOMAIN list : list[i].timer = list[j].timer => i = j
    /\ \A i \in 2 .. Len(list) : list[i].d >= 0

(* The list of differences does for every timer what a deadline of its own     *)
(* would: no start, stop or timeout of another timer shifts it.                *)
Single == INSTANCE Deadlines WITH
    running <- Active,
    left <- [t \in Timers |-> IF t \in Active THEN Read(t) ELSE duration[t]]
KeepsDeadlines == Single!Spec
=============================================================================
