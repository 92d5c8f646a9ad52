CONSTANTS
  t1 = t1
  t2 = t2
  Tasks = {t1, t2}
  MaxWorkers = 1
  Subscribed = FALSE
  MaxCrashes = 0
  MaxFaults = 0
SPECIFICATION FairSpec
PROPERTIES
  SubmittedSettles
CHECK_DEADLOCK FALSE
