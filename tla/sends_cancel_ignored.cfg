SPECIFICATION Spec
CONSTANTS
  Schedules = {s1}
  Drafts = {d1}
  Workers = {w1}
  MaxAttempts = 2
  NoSchedule = NoSchedule
  Horizon = 1
  MaxCancels = 1
  MaxFaults = 0
PROPERTY CancelledIsFinal
CHECK_DEADLOCK FALSE
