SPECIFICATION Spec
CONSTANTS
    Ids = {1, 2, 3}
    Files = {"a"}
    Proposals <- MCProposals
    Resumable <- MCResumable
    MaxWorkers = 2
    MaxPlanRepairs = 1
    MaxPlanRevisions = 1
    MaxReviewRetries = 1
    MaxReviewRepairs = 1
INVARIANTS
    TypeOK
    PlansAndSchedules
    DependenciesHold
    MutatorsRunAlone
    SkippedBehindFailure
    CompletedByReview
    ResultsMatchTheirTask
PROPERTIES
    RunEnds
CHECK_DEADLOCK FALSE
