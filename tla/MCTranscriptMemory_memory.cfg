SPECIFICATION Spec
CONSTANTS
    KeepRecent = 2
    Threshold = 7
    Output = 2
    MaxRounds = 2
    MaxCalls = 2
    MaxTurns = 3
    MaxReplies = 4
INVARIANTS
    ShownIsAnswered
    RemembersReturnedTurns
    ShownIsRecent
    ForgetsForTheBudget
