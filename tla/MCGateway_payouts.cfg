SPECIFICATION Spec
CONSTANTS
    Accounts = {1, 2, 3, 4}
    TotalWeight = 100
    ThresholdPercent = 75
    MaxAccountAuths = 3
    StakeSamples <- MCStakeSamples
    Wids = {0}
    StakeHistories <- MCStakeHistories
    Fleets <- MCFleets
    Life = 2
    MaxAhead = 2
    MaxSpan = 1
    Distorted <- MCDistorted
    PruneAfter = 0
    PayoutMarginBlocks = 9
    Timeout = 12
    SnapshotEvery = 2
    SnapshotMaxAge = 5
    SnapshotLag = 0
    ReweightTolerance = 5
    OwnerCooldown = 2
    Funds = 2
    OverCap = {}
    HandMade <- MCHandMade
    Speeds = {3}
    Speed = 3
    MaxTime = 5
    MaxProposals = 2
    LastIntent = 1
    LastRequest = 0
INVARIANTS
    TypeOK PaidOnce JournalSound DeniedForGood Proportional FollowsStakes

    
