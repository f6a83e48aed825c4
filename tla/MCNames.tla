------------------------------- MODULE MCNames -------------------------------
(***************************************************************************)
(* Instances of Names for TLC.                                             *)
(***************************************************************************)
EXTENDS Names, TLC

CONSTANTS v1, v2, v3, k1, k2, k3, alice, dave, none

Fact(acct, amt, dst) ==
    [gateway |-> GatewayAccount, block |-> 5, account |-> acct, amount |-> amt,
     dest |-> dst]

\* Two registrations of the same Steem account, one of another whose memo names
\* no address, one below the minimum.
ToAlice == Fact("bob", 4, alice)
ToDave == Fact("bob", 3, dave)
Lost == Fact("carol", 3, none)
Small == Fact("bob", 1, alice)

Defaults ==
    [BridgeEnabled |-> TRUE, BridgeOutEnabled |-> FALSE,
     NameServiceEnabled |-> TRUE, BridgeConfirmationThreshold |-> 667,
     MinimumBridgeAmount |-> 1, MaximumBridgeAmount |-> 0,
     DepositTimeoutBlocks |-> 1, WithdrawalTimeoutBlocks |-> 0,
     NamePendingTimeoutBlocks |-> 1, NameRegistrationMinMillisteem |-> 2,
     BridgeFeeBps |-> 2500, RelayerStartBlock |-> 2]

mcParams == {Defaults, [Defaults EXCEPT !.NameServiceEnabled = FALSE]}
mcParamsFixed == {Defaults}
mcTokens == {[v \in Val |-> 1]}
\* v1 needs v2's vote to reach the threshold, or just reaches it alone.
mcTokensBoth == mcTokens \cup {[v \in Val |-> IF v = v1 THEN 2 ELSE 1]}
mcBondedFixed == {Val}

mcFacts == {ToAlice, ToDave, Lost, Small}
mcTruth == (k1 :> ToAlice) @@ (k2 :> ToDave) @@ (k3 :> Lost)
mcTruthOne == (k1 :> ToAlice)

=============================================================================
