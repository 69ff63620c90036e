SPECIFICATION FairSpec
CONSTANTS
    Operations = {"list", "stop", "copy"}
    Slots = {"unit", "source", "target"}
    Required <- ShownRequired
    Modes = {"native", "decomposed", "fast-then-decompose"}
    Backends = {"model", "embedder"}
    Counts = {0, 2}
    TopK = 2
    NoOp = NoOp
    Null = Null
    MaxRounds = 2
    MaxFaults = 2
INVARIANTS
    CallIsWhole
    OnlyServiceErrorsEscape
    EscalationOnlyAdds
PROPERTY
    ProposalEnds
