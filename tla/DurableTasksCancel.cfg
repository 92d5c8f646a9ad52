CONSTANTS
  t1 = t1
  t2 = t2
  Tasks = {t1}
  MaxWorkers = 1
  Subscribed = TRUE
  MaxCrashes = 0
  MaxFaults = 0
SPECIFICATION Spec
PROPERTIES
  CancelNeverBecomesSuccess
CHECK_DEADLOCK FALSE
