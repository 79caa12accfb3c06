SPECIFICATION FairSpec
CONSTANTS
  Schedules = {s1, s2}
  Drafts = {d1}
  Workers = {w1}
  MaxAttempts = 2
  NoSchedule = NoSchedule
  Horizon = 1
  MaxCancels = 0
  MaxFaults = 2
PROPERTIES ImplementsSendLifecycle SettledOrOrphaned
CHECK_DEADLOCK FALSE
