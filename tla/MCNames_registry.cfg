CONSTANTS
    v1 = v1  v2 = v2  v3 = v3
    k1 = k1  k2 = k2  k3 = k3
    alice = alice  dave = dave  none = none
    Precision = 1000
    Val = {v1, v2}
    TokenChoices <- mcTokensBoth
    BondedChoices <- mcBondedFixed
    ParamChoices <- mcParams
    Users = {alice, dave}
    Blocked = {}
    Factor = 10
    UintMod = 1000000
    SweepLimit = 1
    MaxHeight = 8
    Keys = {k1, k2, k3}
    NameFacts <- mcFacts
    NoDest = none
    Truth <- mcTruth
    Faulty = {v2}
    LastAttest = 4
    MaxRegistrations = 2
SPECIFICATION Spec
INVARIANTS StoreConsistent LinksTrue FullWindow ClosedInTime
CHECK_DEADLOCK FALSE
