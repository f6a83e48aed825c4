-------------------------- MODULE MCDepositsMinority --------------------------
(***************************************************************************)
(* Deposits with a minority of faulty validators: v2 never holds the       *)
(* threshold, whatever the stake and the bonded set.                       *)
(***************************************************************************)
EXTENDS MCDeposits

ASSUME MinorityAssumption == FaultyAreMinority
ASSUME HonestAssumption == HonestSuffice
ASSUME DeadlinesAssumption == DeadlinesFit

=============================================================================
