------------------------------- MODULE MCGateway -------------------------------
(***************************************************************************)
(* Three members of which any quorum holds two; two of them run signers    *)
(* that fail, overlap or linger, or all three run one after the other.     *)
(* The first member's stake moves to the second from height 1 on.  The     *)
(* chain makes three blocks in a unit of Steem's time, and a snapshot of   *)
(* every other one.  By hand the third may propose the right payout, even  *)
(* before it is due, to expire soon or only after the refund; a wrong one; *)
(* or an authority that is all its own.                                    *)
(***************************************************************************)
EXTENDS Gateway

MCStakeHistories == {[n \in 0 .. MaxHeight |-> IF n = 0 THEN <<2, 1, 1, 0>>
                                             ELSE <<1, 2, 1, 0>>]}

MCFleets ==
    {[signers |-> {1, 2}, passes |-> 1, span |-> 0, faults |-> 1],
     [signers |-> {1, 2}, passes |-> 2, span |-> 0, faults |-> 0],
     [signers |-> {1, 2}, passes |-> 1, span |-> 1, faults |-> 0],
     [signers |-> {1, 2, 3}, passes |-> 1, span |-> 0, faults |-> 0]}

MCStakeSamples == [Accounts -> {0, 1, 5, 40, 300, 301}]

MCHandMade ==
    {3} \X ([kind : {"payout"}, of : {0}, exact : {TRUE}, at : {0}, exp : {1, 6}]
            \cup [kind : {"payout"}, of : {0}, exact : {FALSE}, at : {0}, exp : {2}]
            \cup [kind : {"update"}, of : {2}, exact : {FALSE}, at : {1}, exp : {3}])

MCDistorted ==
    [weight |-> [a \in Accounts |-> IF a = 3 THEN TotalWeight ELSE 0], threshold |-> TotalWeight]

=============================================================================
