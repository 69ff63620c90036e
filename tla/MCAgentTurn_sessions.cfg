SPECIFICATION Spec
CONSTANTS
    Calls <- DisputedCalls
    MaxRounds = 1
    Batch = 1
    MaxTurns = 2
    MaxFaults = 2
    FaultKinds = {"audit", "connection", "death"}
    NoCall = NoCall
INVARIANTS
    AuditInOrder
    GapsAreFaults
    RememberedIsRecorded
    StaleHasCause
PROPERTY
    ImplementsGatedExecution
