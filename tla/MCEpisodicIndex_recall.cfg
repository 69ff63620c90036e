SPECIFICATION Spec
CONSTANTS
    Sessions = {s1, s2}
    Nobody = Nobody
    Delta = 2
    MaxLog = 4
    MaxRecalls = 3
    MaxFaults = 1
SYMMETRY Symmetry
INVARIANTS
    LagIsBounded
    NothingHasCause
