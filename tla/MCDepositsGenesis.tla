--------------------------- MODULE MCDepositsGenesis ---------------------------
(***************************************************************************)
(* Instances of DepositsGenesis for TLC.                                   *)
(***************************************************************************)
EXTENDS MCDeposits, DepositsGenesis

=============================================================================
