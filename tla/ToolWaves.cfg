SPECIFICATION Spec
CONSTANTS
    Agents = {"worker", "analyst"}
    ReadOnlyAgents = {"analyst"}
    Tools <- MCTools
    Batches <- MCBatches
    Files <- MCFiles
    MaxCalls = 3
    MaxParallel = 2
INVARIANTS
    TypeOK
    ConflictingCallsNeverOverlap
    InCallOrder
PROPERTIES
    ImplementsCallOrder
    BatchReturns
CHECK_DEADLOCK FALSE
