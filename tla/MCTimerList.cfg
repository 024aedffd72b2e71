SPECIFICATION Spec
CONSTANTS
  Timers = {s, t, u}
  Durations <- MCDurations
  MaxOverdue = 1
INVARIANTS TypeInvariant ListInOrder
PROPERTIES KeepsDeadlines
