----------------------------- MODULE MCPriceFeeder -----------------------------
(***************************************************************************)
(* An instance of PriceFeeder for TLC.                                     *)
(***************************************************************************)
EXTENDS PriceFeeder

mcVotePeriods == {2, 3}

=============================================================================
