CONSTANTS
    v1 = v1  v2 = v2  v3 = v3
    k1 = k1  k2 = k2
    alice = alice  modacc = modacc  none = none
    Precision = 1000
    Val = {v1, v2, v3}
    TokenChoices <- mcTokensFixed
    BondedChoices <- mcBondedHonest
    ParamChoices <- mcParamsFixed
    Users = {alice}
    Blocked = {modacc}
    Factor = 10
    UintMod = 1000000
    SweepLimit = 1
    MaxHeight = 4
    Keys = {k1, k2}
    DepositFacts <- mcFactsFew
    NoDest = none
    Truth <- mcTruth
    Faulty = {v2}
    MaxDeposits = 3
SPECIFICATION FairSpec
INVARIANTS MintedFactsTrue CoinsConserved DutyAccounting HonestVotesDecide
PROPERTIES SweepKeepsUp HonestFactsResolve ImplementsLedger
CHECK_DEADLOCK FALSE
