-------------------------------- MODULE Payouts --------------------------------
(***************************************************************************)
(* What the gateway's signers promise the chain, whoever of them does what *)
(* and whatever is lost, delayed or repeated on the way: a withdrawal is   *)
(* paid on Steem at most once, only while the chain owes it, only with     *)
(* what it asked for, and early enough to leave Slack blocks before its    *)
(* refund.  Withdrawals!PayWithdrawal takes this promise as given.         *)
(***************************************************************************)
EXTENDS Naturals

CONSTANTS Wids, Timeout, Slack

VARIABLES
    height,  \* the chain's height
    owed,    \* the chain's withdrawals: [status, createdAt]
    paid     \* the transfers out of the gateway: [id, exact]

vars == <<height, owed, paid>>

Init ==
    /\ \A id \in Wids : owed[id].status = "NONE"
    /\ paid = {}

\* The chain goes on, records, settles and refunds withdrawals as it will.
Chain ==
    /\ height' >= height
    /\ \A id \in Wids : owed[id].status # "NONE" => owed'[id].createdAt = owed[id].createdAt
    /\ paid' = paid

Pay(id) ==
    /\ owed[id].status = "REQUESTED"
    /\ height + Slack <= owed[id].createdAt + Timeout
    /\ \A p \in paid : p.id # id
    /\ paid' = paid \cup {[id |-> id, exact |-> TRUE]}
    /\ UNCHANGED <<height, owed>>

Next == Chain \/ \E id \in Wids : Pay(id)

Spec == Init /\ [][Next]_vars

=============================================================================
