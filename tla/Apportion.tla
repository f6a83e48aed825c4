------------------------------- MODULE Apportion -------------------------------
(***************************************************************************)
(* The authority of the gateway account svm.bank as a function of the      *)
(* validators' stakes (oracle/go/multisig/apportion.go): largest-remainder *)
(* apportionment of a fixed total weight in integer arithmetic.  Accounts  *)
(* are numbers in the order of their names.                                *)
(***************************************************************************)
EXTENDS Integers, FiniteSets, FiniteSetsExt

CONSTANTS
    Accounts,          \* the validators' Steem accounts
    TotalWeight,
    ThresholdPercent,
    MaxAccountAuths

ASSUME ApportionAssumption ==
    /\ Accounts \subseteq Nat /\ IsFiniteSet(Accounts)
    /\ TotalWeight \in Nat \ {0}
    /\ ThresholdPercent \in 1 .. 100
    /\ MaxAccountAuths \in 1 .. TotalWeight

\* The sum of f over S.
Total(f, S) == MapThenSumSet(LAMBDA a : f[a], S)

\* How many of S come before a when the largest f comes first, ties by name.
Place(f, S, a) == Cardinality({b \in S : f[b] > f[a] \/ (f[b] = f[a] /\ b < a)})

(***************************************************************************)
(* Positive stakes, the largest MaxAccountAuths of them.                   *)
(***************************************************************************)
Kept(stake) ==
    LET vals == {a \in Accounts : stake[a] > 0}
    IN  {a \in vals : Place(stake, vals, a) < MaxAccountAuths}

(***************************************************************************)
(* Quotients, and one more for the largest remainders.                     *)
(***************************************************************************)
Rounded(stake) ==
    LET T == Total(stake, Kept(stake))
        quo == [a \in Kept(stake) |-> (TotalWeight * stake[a]) \div T]
        rem == [a \in Kept(stake) |-> (TotalWeight * stake[a]) % T]
        deficit == TotalWeight - Total(quo, Kept(stake))
    IN  [a \in Kept(stake) |->
            quo[a] + IF Place(rem, Kept(stake), a) < deficit THEN 1 ELSE 0]

\* Variant: the unit for a weight of 0 comes from nobody.
RaiseUnpaid(w, a) == IF w[a] = 0 THEN [w EXCEPT ![a] = 1] ELSE w

(***************************************************************************)
(* A weight of 0 becomes 1 at the cost of the largest, ties by name.       *)
(***************************************************************************)
Raise(w, a) ==
    IF w[a] # 0 THEN w
    ELSE LET u == [w EXCEPT ![a] = 1]
             donor == CHOOSE d \in DOMAIN u : Place(u, DOMAIN u, d) = 0
         IN  [u EXCEPT ![donor] = @ - 1]

\* Weights are raised in the order of the names.
Weights(stake) ==
    LET nth(k) == CHOOSE a \in Kept(stake) : Cardinality({b \in Kept(stake) : b < a}) = k - 1
        raised[k \in 0 .. Cardinality(Kept(stake))] ==
            IF k = 0 THEN Rounded(stake) ELSE Raise(raised[k - 1], nth(k))
    IN  raised[Cardinality(Kept(stake))]

(***************************************************************************)
(* Apportion.  An account without a place in the authority has weight 0.   *)
(* Without any stake there is no authority.                                *)
(***************************************************************************)
Authority(stake) ==
    LET w == Weights(stake)
    IN  [weight |-> [a \in Accounts |-> IF a \in Kept(stake) THEN w[a] ELSE 0],
         threshold |-> (TotalWeight * ThresholdPercent + 99) \div 100]

Members(auth) == {a \in Accounts : auth.weight[a] > 0}

Abs(x) == IF x < 0 THEN -x ELSE x

ExceedsTolerance(current, desired, tolerance) ==
    \/ current.threshold # desired.threshold
    \/ Members(current) # Members(desired)
    \/ \E a \in Members(desired) : Abs(current.weight[a] - desired.weight[a]) > tolerance

=============================================================================
