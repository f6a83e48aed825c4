------------------------------ MODULE MCDeposits ------------------------------
(***************************************************************************)
(* Instances of Deposits for TLC.                                          *)
(***************************************************************************)
EXTENDS Deposits, TLC

CONSTANTS v1, v2, v3, k1, k2, alice, modacc, none

\* Fact-sets: a good one, a rival for the same transfer, one whose memo names
\* nobody, one too small, one whose memo names a module account, one from before
\* the anchor.
Fact(blk, snd, ast, amt, dst) ==
    [gateway |-> GatewayAccount, block |-> blk, sender |-> snd, asset |-> ast,
     amount |-> amt, dest |-> dst]

Good == Fact(5, "s", "STEEM", 4, alice)
Rival == Fact(5, "s", "SBD", 9, alice)
Lost == Fact(5, "s", "SBD", 2, none)
Small == Fact(5, "s", "SBD", 2, alice)
Stuck == Fact(5, "s", "STEEM", 3, modacc)
Old == Fact(1, "s", "STEEM", 3, alice)

\* 667 of 1000 stands for the default threshold 0.666666666666666667.
Defaults ==
    [BridgeEnabled |-> TRUE, BridgeOutEnabled |-> FALSE,
     NameServiceEnabled |-> FALSE, BridgeConfirmationThreshold |-> 667,
     MinimumBridgeAmount |-> 3, MaximumBridgeAmount |-> 0,
     DepositTimeoutBlocks |-> 1, WithdrawalTimeoutBlocks |-> 0,
     NamePendingTimeoutBlocks |-> 0, NameRegistrationMinMillisteem |-> 1,
     BridgeFeeBps |-> 2500, RelayerStartBlock |-> 2]

OneToken == [v \in Val |-> 1]
HeavyV1 == [v \in Val |-> IF v = v1 THEN 2 ELSE 1]

mcTokens == {OneToken, HeavyV1}
mcTokensFixed == {OneToken}
mcBonded == {Val, Val \ {v3}}
\* The faulty v2 may leave.
mcBondedHonest == {Val, Val \ {v2}}
mcBondedFixed == {Val}

\* Governance may pause the bridge, or raise the minimum above the good amount.
mcParams == {Defaults, [Defaults EXCEPT !.BridgeEnabled = FALSE],
             [Defaults EXCEPT !.MinimumBridgeAmount = 5]}
mcParamsFixed == {Defaults}
mcParamsSlow == {[Defaults EXCEPT !.DepositTimeoutBlocks = 100]}

mcFacts == {Good, Rival, Lost, Old}
mcFactsFew == {Good, Small, Old}
mcTruth == (k1 :> Good) @@ (k2 :> Small)
mcTruthOne == (k1 :> Good)
mcStuck == {Stuck}
mcTruthStuck == (k1 :> Stuck)

=============================================================================
