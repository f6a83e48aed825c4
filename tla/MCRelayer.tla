------------------------------ MODULE MCRelayer ------------------------------
(***************************************************************************)
(* Instances of Relayer for TLC: five blocks of Steem, two of them before  *)
(* the chain's anchor.                                                     *)
(***************************************************************************)
EXTENDS Relayer, Sequences

ASSUME StartAssumption == KnownStart

Deposit(id) ==
    [op |-> "transfer", id |-> id, memo |-> "svm-deposit", asset |-> "STEEM", amount |-> 5]
Registration(id, asset, amount) ==
    [op |-> "transfer", id |-> id, memo |-> "svm-register", asset |-> asset, amount |-> amount]
Blocked(id) ==
    [op |-> "transfer", id |-> id, memo |-> "blocked", asset |-> "STEEM", amount |-> 5]
Note(id) ==
    [op |-> "transfer", id |-> id, memo |-> "note", asset |-> "STEEM", amount |-> 5]
Payout(id, matches) == [op |-> "payout", id |-> id, matches |-> matches]

On == [BridgeEnabled |-> TRUE, NameServiceEnabled |-> TRUE, BridgeOutEnabled |-> TRUE]

mcSteem ==
    << {},
       {Deposit(1)},
       {Deposit(2), Registration(3, "STEEM", 3)},
       {Registration(4, "SBD", 3), Payout(5, TRUE), Note(6)},
       {Blocked(7), Payout(8, FALSE)} >>

\* A registration one below the minimum.
mcSteemShort == << {}, {Deposit(1)}, {Registration(2, "STEEM", 2)}, {Deposit(3)} >>

mcFlags == {On, [On EXCEPT !.BridgeEnabled = FALSE],
                [On EXCEPT !.NameServiceEnabled = FALSE, !.BridgeOutEnabled = FALSE]}
mcFlagsOn == {On}

=============================================================================
