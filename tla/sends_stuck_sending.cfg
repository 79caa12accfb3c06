SPECIFICATION FairSpec
CONSTANTS
  Schedules = {s1}
  Drafts = {d1}
  Workers = {w1}
  MaxAttempts = 2
  NoSchedule = NoSchedule
  Horizon = 1
  MaxCancels = 0
  MaxFaults = 1
PROPERTY EventuallySettled
CHECK_DEADLOCK FALSE
