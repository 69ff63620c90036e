SPECIFICATION FairSpec
CONSTANTS
    Tty = {FALSE, TRUE}
    MaxSteps = 3
    MaxRounds = 2
    MaxLines = 3
    MaxFaults = 2
INVARIANTS
    MarkIsTrue
    StrayFrameHasCause
    PromptIsQuiet
PROPERTIES
    LineIsHandled
    FallsBack
