CONSTANTS
    v1 = v1  v2 = v2
    Precision = 100
    Val = {v1, v2}
    Faulty = {v2}
    BondedChoices <- mcBonded
    TokenChoices <- mcTokens
    OracleParams <- mcOracle
    FeedParams <- mcFeed
    Ballots <- mcBallots
    Market <- mcMarket
    BridgeReports <- mcReports
    MaxHeight = 5
SPECIFICATION Spec
PROPERTIES MedianOfMajority JudgedFairly AgreeingMajorityScores CommitWindow
CHECK_DEADLOCK FALSE
