------------------------------ MODULE LegacyDec ------------------------------
(***************************************************************************)
(* The fixed-point decimals (cosmossdk.io/math.LegacyDec) in which the     *)
(* chain compares voting power with a threshold.  A decimal d is stored as *)
(* the integer d * Precision; the library's Precision is 10^18, and the    *)
(* models use a smaller power of ten so that TLC's integers can hold the   *)
(* products.  The rounding is the library's.                               *)
(***************************************************************************)
EXTENDS Integers

CONSTANT Precision

ASSUME PrecisionAssumption == Precision \in Nat /\ Precision > 0

(***************************************************************************)
(* chopPrecisionAndRound: drop one factor Precision, rounding a half to    *)
(* the even neighbour.                                                     *)
(***************************************************************************)
ChopPrecisionAndRound(x) ==
    LET quo == x \div Precision
        rem == x % Precision
    IN  IF 2 * rem < Precision \/ (2 * rem = Precision /\ quo % 2 = 0)
          THEN quo
          ELSE quo + 1

(***************************************************************************)
(* LegacyNewDecFromInt(a).Quo(LegacyNewDecFromInt(b)): the quotient is     *)
(* computed with twice the precision, truncated, then rounded.             *)
(***************************************************************************)
QuoInt(a, b) == ChopPrecisionAndRound((a * Precision * Precision) \div b)

(***************************************************************************)
(* x.Mul(y) and x.Quo(y) of two decimals.                                  *)
(***************************************************************************)
MulDec(x, y) == ChopPrecisionAndRound(x * y)

QuoDec(x, y) == QuoInt(x, y)

=============================================================================
