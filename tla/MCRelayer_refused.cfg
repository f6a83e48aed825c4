CONSTANTS
    Steem <- mcSteemShort
    LocalStart = 0
    ChainStart = 3
    SavedCursors = {0}
    MinRegistration = 3
    FlagChoices <- mcFlagsOn
    MaxBlocksPerPoll = 2
    MaxMsgsPerTx = 2
    MaxFaults = 0
SPECIFICATION Spec
PROPERTIES AlwaysCatchesUp
CHECK_DEADLOCK FALSE
