SPECIFICATION FairSpec
CONSTANTS
    Threads = {one, two}
    Domains = 2
    TTLs = {0, 2}
    Free = Free
    Cold = Cold
    MaxTime = 3
    MaxChanges = 1
    Missing = Missing
    MaxCalls = 3
INVARIANTS
    FreshWithinTTL
    InvalidateIsABarrier
PROPERTY
    GetReturns
