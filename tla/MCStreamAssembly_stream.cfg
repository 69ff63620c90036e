SPECIFICATION StreamSpec
CONSTANTS
    Calls = {c1, c2}
    Indexes = {0, 1}
    Parts = 3
    None = None
    MaxTokens = 2
    MaxTroubles = 1
INVARIANTS
    ResponseIsWhatWasHeard
    CallsAreTheServices
    ShownIsABeginning
