SPECIFICATION SessionSpec
CONSTANTS
    Batches <- MCBatches
    Views = {"text"}
    Costs = {0, 1}
    Paths = {"f"}
    MaxPrompts = 2
    MaxFirstTurns = 1
    MaxIterations = 4
    Window = 3
    TokenBudget = 1
    MaxAttempts = 2
    MaxRunTokens = 1
    MaxToolCalls = 5
    RetainRounds = 1
    MinTail = 2
    Trigger = 5
    HardLimit = 8
    Helpers = {"w", "v"}
    Prices = {2}
    TokenLimit = 1
    CallLimit = 4
    ToolLimit = 3
    BatchSizes = {2}
    MaxExecutions = 2
    MaxStoreErrors = 1
    MaxRequests = 3
    MaxThreads = 2
    MaxStray = 1
    KeptNotes = 1
    Texts = {"old", "new"}
    LongTexts = {"new"}
    MaxDiagnoses = 2
    MaxTextChanges = 1
    MaxMessages = 2
    Stores = {"a", "b"}
    Facts = {"f", "g"}
    Sources = {"S", "T"}
    Versions = {"old", "new"}
    EarlierRows <- MCEarlierRows
    Losers <- MCLosers
    MaxOps = 2
    Sessions = {"s", "t"}
    CallBatches <- MCCallBatches
    SafeTools = {"read"}
    Invalid <- MCInvalid
    Blocked <- MCBlocked
    HandRules <- MCHandRules
    MaxBatches = 2
    MaxHandEdits = 1
    MaxIoErrors = 1
    Programs = {"p", "q"}
    Files = {"f"}
    Contents = {"old", "new"}
    MaxChanges = 2
    MaxBuildErrors = 1
    MaxSearches = 1
INVARIANTS
    SessionTypeOK
    BatchAnswered
    SentPairs
    StopsAtStreak
    CancelIsPrompt
    NoSuccessOverErrors
    OverrunBounded
    TraceTells
    DiagnosisOfRead
    McpOwnAnswer
    TrustIsVouched
    RulesKept
    AdmissionAsAnswered
    IndexLagExcused
PROPERTIES
    SessionSettles
CHECK_DEADLOCK FALSE
