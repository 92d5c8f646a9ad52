SPECIFICATION Spec
CONSTANTS
    Ids = {1}
    Files = {"a", "b"}
    Proposals <- MCWriter
    Resumable = {}
    MaxWorkers = 2
    MaxPlanRepairs = 1
    MaxPlanRevisions = 1
    MaxReviewRetries = 1
    MaxReviewRepairs = 1
INVARIANTS
    EveryArtifactRead
CHECK_DEADLOCK FALSE
