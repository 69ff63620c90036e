SPECIFICATION Spec
CONSTANTS
    Writers = {w1, w2}
    MaxRecords = 4
    MaxFaults = 3
    Tears <- AllTears
INVARIANTS
    DurableOnReturn
    LossBounded
