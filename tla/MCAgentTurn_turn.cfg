SPECIFICATION FairSpec
CONSTANTS
    Calls <- TwoCalls
    MaxRounds = 2
    Batch = 2
    MaxTurns = 1
    MaxFaults = 1
    FaultKinds = {"audit", "connection", "death"}
    NoCall = NoCall
INVARIANTS
    RanWithConsent
    TextNeedsAttempt
    NeverSilent
PROPERTY
    TurnProgress
    TurnDescends
