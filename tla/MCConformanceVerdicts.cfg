SPECIFICATION RecordSpec
CONSTANTS
  Values = {v1, v2}
  Allowed = {v1}
  Deadline = 5
  Retention = 5
  Bound = 1
  Interval = 3
  LastTime = 6
  RecordLimit = 4
  Errors <- Extremes
  Clocks <- OneOrTwoNodes
INVARIANTS PassIsTrue FailIsTrue
CHECK_DEADLOCK FALSE
