SPECIFICATION Spec
CONSTANTS
    p1 = p1  p2 = p2  p3 = p3  r1 = r1  r2 = r2
    build = build  check = check  look = look
    Procs = {p1, p2}
    Runs = {r1, r2}
    Tasks = {build}
    Writes = {build}
    Deps <- NoDeps
    ReactTask = ReactTask
    NoProc = NoProc  NoRun = NoRun  NoTask = NoTask
    Modes = {"plan"}
    Policy = "ask"
    SnapshotModes = {TRUE}
    MaxWorkers = 1
    KeepLast = 0
    Sharing = "one_run"
    EarlyFaults = FALSE
    MaxTries = 2
    MaxSnaps = 7
SYMMETRY RecoverySymmetry
CHECK_DEADLOCK FALSE
INVARIANTS WorkerOwnsRow RecoverableHasSnapshots
