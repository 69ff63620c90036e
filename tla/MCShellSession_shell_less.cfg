SPECIFICATION Spec
CONSTANTS
    Tty = {TRUE}
    MaxSteps = 1
    MaxRounds = 1
    MaxLines = 1
    MaxFaults = 0
INVARIANT
    NeverShellLess
