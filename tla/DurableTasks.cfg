CONSTANTS
  t1 = t1
  t2 = t2
  Tasks = {t1, t2}
  MaxWorkers = 1
  Subscribed = TRUE
  MaxCrashes = 1
  MaxFaults = 1
SPECIFICATION Spec
SYMMETRY TaskSymmetry
INVARIANTS
  TypeOK
  FileMatchesMemory
  FinalStatusAnnounced
  AtMostOnce
  CancelledInQueueNeverRuns
PROPERTIES
  DiskOnlyAdvances
CHECK_DEADLOCK FALSE
