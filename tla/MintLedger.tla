------------------------------ MODULE MintLedger ------------------------------
(***************************************************************************)
(* What the bridge-in side promises: every Steem transfer is credited at   *)
(* most once, under one set of facts, and the running total grows with     *)
(* each credit by exactly the credited amount and at no other time.        *)
(***************************************************************************)
EXTENDS Integers

CONSTANTS Keys, Facts, Assets, Factor

VARIABLES credited,   \* set of <<key, facts>>
          minted      \* base units credited so far, per asset

Init ==
    /\ credited = {}
    /\ minted = [a \in Assets |-> 0]

Credit(k, f) ==
    /\ \A g \in Facts : <<k, g>> \notin credited
    /\ credited' = credited \cup {<<k, f>>}
    /\ minted' = [minted EXCEPT ![f.asset] = @ + f.amount * Factor]

Next == \E k \in Keys, f \in Facts : Credit(k, f)

Spec == Init /\ [][Next]_<<credited, minted>>

=============================================================================
