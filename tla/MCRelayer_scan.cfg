CONSTANTS
    Steem <- mcSteem
    LocalStart = 0
    ChainStart = 3
    SavedCursors = {0, 1}
    MinRegistration = 3
    FlagChoices <- mcFlags
    MaxBlocksPerPoll = 2
    MaxMsgsPerTx = 2
    MaxFaults = 2
SPECIFICATION Spec
INVARIANTS NothingMissed OnlySettled
PROPERTIES CatchesUp
CHECK_DEADLOCK FALSE
