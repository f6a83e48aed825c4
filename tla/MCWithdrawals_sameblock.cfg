CONSTANTS
    v1 = v1  v2 = v2  v3 = v3
    alice = alice  c1 = c1  c2 = c2
    Precision = 1000
    Val = {v1, v2, v3}
    TokenChoices <- mcTokens
    BondedChoices <- mcBonded
    ParamChoices <- mcParamsStop
    Users = {alice}
    Blocked = {}
    Factor = 10
    UintMod = 1000000
    SweepLimit = 1
    MaxHeight = 9
    Requests <- mcRequestsAll
    InvalidAccounts = {"X"}
    InvalidMemos = {"ctl"}
    Candidates = {c1, c2}
    SteemBlocks = {1, 2}
    PayoutFacts <- mcFacts
    PayoutMargin = 1
    Unbridged <- mcUnbridged
    Bridged <- mcBridged
    TxFee = 5
    AttestLag = 1
    Faulty = {v1, v2, v3}
    LastRequest = 4
    MaxWithdrawals = 2
SPECIFICATION ChainSpec
INVARIANT SameBlockCredited
CHECK_DEADLOCK FALSE
