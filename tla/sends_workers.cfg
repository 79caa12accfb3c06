SPECIFICATION Spec
CONSTANTS
  Schedules = {s1, s2}
  Drafts = {d1}
  Workers = {w1, w2}
  MaxAttempts = 2
  NoSchedule = NoSchedule
  Horizon = 1
  MaxCancels = 1
  MaxFaults = 1
SYMMETRY Symmetry
INVARIANTS TypeOK AttemptsWithinBound NeverEarly SentMeansQueued
PROPERTIES CancelHolds RetriesEnd
CHECK_DEADLOCK FALSE
