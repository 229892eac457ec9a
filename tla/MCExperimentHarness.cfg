SPECIFICATION Spec
CONSTANTS
  Experiments = {"a", "b", "c"}
  Requests = {r1, r2}
  Series = {s1, s2}
  MaxPending = 1
  MaxPolls = 2
INVARIANTS OkIsEarned NothingLeftRunning
PROPERTY RunEnds
