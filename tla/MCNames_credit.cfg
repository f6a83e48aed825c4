CONSTANTS
    v1 = v1  v2 = v2  v3 = v3
    k1 = k1  k2 = k2  k3 = k3
    alice = alice  dave = dave  none = none
    Precision = 1000
    Val = {v1, v2}
    TokenChoices <- mcTokens
    BondedChoices <- mcBondedFixed
    ParamChoices <- mcParamsFixed
    Users = {alice, dave}
    Blocked = {}
    Factor = 10
    UintMod = 1000000
    SweepLimit = 1
    MaxHeight = 6
    Keys = {k1}
    NameFacts <- mcFacts
    NoDest = none
    Truth <- mcTruthOne
    Faulty = {}
    LastAttest = 6
    MaxRegistrations = 3
SPECIFICATION Spec
INVARIANTS FeeCreditedOnce
CHECK_DEADLOCK FALSE
