----------------------------- MODULE MCWithdrawals -----------------------------
(***************************************************************************)
(* Instances of Withdrawals for TLC.                                       *)
(***************************************************************************)
EXTENDS Withdrawals, TLC

CONSTANTS v1, v2, v3, alice, c1, c2

Ask(to, ast, amt, mem) ==
    [sender |-> alice, to |-> to, asset |-> ast, amount |-> amt, memo |-> mem]

\* Fee 1 of 4 at 2500 bps.
mcRequests ==
    {Ask("bob", "STEEM", 40, "m"), Ask("carol", "SBD", 40, "m")}

\* Refused: the gateway, a bad name, a bad memo, a fraction, too small, too much.
mcRefused ==
    {Ask(GatewayAccount, "STEEM", 40, "m"), Ask("X", "STEEM", 40, "m"),
     Ask("bob", "STEEM", 40, "ctl"), Ask("bob", "STEEM", 45, "m"),
     Ask("bob", "STEEM", 10, "m"), Ask("bob", "SBD", 90, "m")}

mcRequestsAll == mcRequests \cup mcRefused

Pays(to, ast, amt) == [to |-> to, asset |-> ast, amount |-> amt, memo |-> "m"]

mcFacts == {Pays("bob", "STEEM", 3), Pays("carol", "STEEM", 3)}

\* 667 of 1000 stands for the default threshold 0.666666666666666667.
Defaults ==
    [BridgeEnabled |-> TRUE, BridgeOutEnabled |-> TRUE,
     NameServiceEnabled |-> FALSE, BridgeConfirmationThreshold |-> 667,
     MinimumBridgeAmount |-> 2, MaximumBridgeAmount |-> 3,
     DepositTimeoutBlocks |-> 1, WithdrawalTimeoutBlocks |-> 1,
     NamePendingTimeoutBlocks |-> 0, NameRegistrationMinMillisteem |-> 1,
     BridgeFeeBps |-> 2500, RelayerStartBlock |-> 2]

Stopped == [Defaults EXCEPT !.BridgeOutEnabled = FALSE]

mcParamsStop == {Defaults, Stopped}

OneToken == [v \in Val |-> 1]
HeavyV1 == [v \in Val |-> IF v = v1 THEN 2 ELSE 1]
mcTokens == {OneToken, HeavyV1}
mcTokensFixed == {OneToken}
mcBonded == {Val, Val \ {v3}}
mcBondedFixed == {Val}

Hold(steem, sbd) == [u \in Users |-> ("STEEM" :> steem @@ "SBD" :> sbd)]
mcBridged == Hold(40, 40)
mcUnbridged == Hold(40, 50)

=============================================================================
