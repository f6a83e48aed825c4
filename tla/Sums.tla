--------------------------------- MODULE Sums ---------------------------------
(***************************************************************************)
(* Sums over finite sets, in which stake and coins are counted.            *)
(***************************************************************************)
EXTENDS Integers, FiniteSets, FiniteSetsExt

\* The sum of f[x] over the x in S.
Sum(f, S) == MapThenSumSet(LAMBDA x : f[x], S)

=============================================================================
