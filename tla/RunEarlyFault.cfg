SPECIFICATION Spec
CONSTANTS
    p1 = p1  p2 = p2  p3 = p3  r1 = r1  r2 = r2
    build = build  check = check  look = look
    Procs = {p1, p2, p3}
    Runs = {r1}
    Tasks = {build, look}
    Writes = {build}
    Deps <- Fan
    ReactTask = ReactTask
    NoProc = NoProc  NoRun = NoRun  NoTask = NoTask
    Modes = {"plan"}
    Policy = "never"
    SnapshotModes = {TRUE}
    MaxWorkers = 1
    KeepLast = 0
    Sharing = "one_process"
    EarlyFaults = TRUE
    MaxTries = 3
    MaxSnaps = 6
SYMMETRY ProcSymmetry
CHECK_DEADLOCK FALSE
INVARIANT CompletedEffectsPresent
