------------------------ MODULE MCWithdrawalsMinority ------------------------
(***************************************************************************)
(* Withdrawals with a minority of faulty validators: v3 never holds the    *)
(* threshold, whatever the stake and the bonded set.                       *)
(***************************************************************************)
EXTENDS MCWithdrawals

ASSUME MinorityAssumption == FaultyAreMinority
ASSUME SteadyAssumption == SteadyChain

=============================================================================
