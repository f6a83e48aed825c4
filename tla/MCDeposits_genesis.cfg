CONSTANTS
    v1 = v1  v2 = v2  v3 = v3
    k1 = k1  k2 = k2
    alice = alice  modacc = modacc  none = none
    Precision = 1000
    Val = {v1, v2, v3}
    TokenChoices <- mcTokens
    BondedChoices <- mcBondedFixed
    ParamChoices <- mcParams
    Users = {alice}
    Blocked = {modacc}
    Factor = 10
    UintMod = 1000000
    SweepLimit = 1
    MaxHeight = 4
    Keys = {k1}
    DepositFacts <- mcFacts
    NoDest = none
    Truth <- mcTruthOne
    Faulty = {v1, v2, v3}
    MaxDeposits = 2
SPECIFICATION GenesisSpec
INVARIANTS TypeOK MintedOnce StoreConsistent
PROPERTIES ResolvedIsFinal RestoresIndexes
