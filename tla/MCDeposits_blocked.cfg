CONSTANTS
    v1 = v1  v2 = v2  v3 = v3
    k1 = k1  k2 = k2
    alice = alice  modacc = modacc  none = none
    Precision = 1000
    Val = {v1, v2, v3}
    TokenChoices <- mcTokensFixed
    BondedChoices <- mcBondedFixed
    ParamChoices <- mcParamsSlow
    Users = {alice}
    Blocked = {modacc}
    Factor = 10
    UintMod = 1000000
    SweepLimit = 1
    MaxHeight = 3
    Keys = {k1}
    DepositFacts <- mcStuck
    NoDest = none
    Truth <- mcTruthStuck
    Faulty = {}
    MaxDeposits = 1
SPECIFICATION FairSpec
PROPERTIES HonestFactsResolve
CHECK_DEADLOCK FALSE
