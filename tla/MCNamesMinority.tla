--------------------------- MODULE MCNamesMinority ---------------------------
(***************************************************************************)
(* Names with a minority of faulty validators: v2 never holds the          *)
(* threshold, whatever the bonded set.  Governance never changes the       *)
(* window of a registration.                                               *)
(***************************************************************************)
EXTENDS MCNames

ASSUME MinorityAssumption == FaultyAreMinority
ASSUME WindowAssumption == SteadyWindow

=============================================================================
