SPECIFICATION FairSpec
CONSTANTS
    Calls <- PlannedCalls
    Unresolved = Unresolved
    Clauses = 3
    MaxReplans = 1
    RetryMax = 1
INVARIANTS
    RepeatsAreSafe
    OnlyTrustedSteps
    HistoryIsThePlan
    RecordsFollowRuns
    StaleHasCause
PROPERTY
    PlanEnds
