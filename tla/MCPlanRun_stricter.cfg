SPECIFICATION Spec
CONSTANTS
    Calls <- DisputedCalls
    Unresolved = Unresolved
    Clauses = 3
    MaxReplans = 1
    RetryMax = 1
INVARIANT
    StricterWins
