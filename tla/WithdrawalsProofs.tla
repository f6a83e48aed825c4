--------------------------- MODULE WithdrawalsProofs ---------------------------
(***************************************************************************)
(* Theorems about Withdrawals, for every number of validators, requests,   *)
(* payouts, blocks and parameter choices, and for both specifications: the *)
(* chain alone, where Faulty may be everyone, and the chain with the       *)
(* gateway.                                                                *)
(***************************************************************************)
EXTENDS Withdrawals, BridgeBaseProofs, FiniteSetTheorems, TLAPS

-----------------------------------------------------------------------------
(* The inductive invariant. *)

(***************************************************************************)
(* The shape of the records and their indexes.                             *)
(***************************************************************************)
Shape ==
    /\ height \in Nat
    /\ params \in ParamChoices
    /\ bonded \in BondedChoices
    /\ tokens \in TokenChoices
    /\ withdrawalSeq \in Nat
    /\ withdrawal \in [Ids(withdrawalSeq) -> WithdrawalRecords]
    /\ withdrawalByStatus \subseteq WithdrawalStatuses \X Ids(withdrawalSeq)
    /\ withdrawalConfirmedBy \subseteq Ids(withdrawalSeq) \X Val
    /\ withdrawalPayoutVote \subseteq Ids(withdrawalSeq) \X Candidates \X Val
    /\ \A p \in steemPayouts : p.cand \in Candidates

VotesOf(i, v) == {c \in Candidates : <<i, c, v>> \in withdrawalPayoutVote}

(***************************************************************************)
(* A record is in the bucket of its status and in no other.                *)
(***************************************************************************)
Indexed ==
    \A i \in DOMAIN withdrawal : \A s \in WithdrawalStatuses :
        <<s, i>> \in withdrawalByStatus <=> s = withdrawal[i].status

(***************************************************************************)
(* A marker stands for one confirmation and one vote.                      *)
(***************************************************************************)
OneVote ==
    \A i \in DOMAIN withdrawal : \A v \in Val :
        IF <<i, v>> \in withdrawalConfirmedBy
          THEN /\ withdrawal[i].confirmations[v] = 1
               /\ \E c \in Candidates : VotesOf(i, v) = {c}
          ELSE /\ withdrawal[i].confirmations[v] = 0
               /\ VotesOf(i, v) = {}

IInv == Shape /\ Indexed /\ OneVote

-----------------------------------------------------------------------------
(* What the handlers do to the records. *)

LEMMA ParamTypes ==
    ASSUME Shape
    PROVE  params.BridgeFeeBps \in Nat
  BY Zenon, BaseAssumption DEF Shape, ParamRecords

(***************************************************************************)
(* BridgeOut appends one requested record without votes and touches no     *)
(* other.                                                                  *)
(***************************************************************************)
LEMMA RequestEffect ==
    ASSUME Shape, NEW r \in Requests, BridgeOut(r),
           NEW x, x = withdrawal'[withdrawalSeq]
    PROVE  /\ withdrawalSeq' = withdrawalSeq + 1
           /\ withdrawal' \in [Ids(withdrawalSeq + 1) -> WithdrawalRecords]
           /\ \A i \in DOMAIN withdrawal : withdrawal'[i] = withdrawal[i]
           /\ x.status = "REQUESTED" /\ x.confirmations = [v \in Val |-> 0]
           /\ x.sender = r.sender /\ x.createdAt = height /\ x.facts.asset = r.asset
           /\ [net |-> x.facts.amount, fee |-> x.fee]
                 = ApplyBridgeFee(r.amount \div Factor, params.BridgeFeeBps)
           /\ r.amount \div Factor \in Nat
<1> DEFINE gross == r.amount \div Factor
           split == ApplyBridgeFee(gross, params.BridgeFeeBps)
           new == [sender |-> r.sender,
                   facts |-> [to |-> r.to, asset |-> r.asset,
                              amount |-> split.net, memo |-> r.memo],
                   fee |-> split.fee, status |-> "REQUESTED", createdAt |-> height,
                   confirmations |-> [v \in Val |-> 0], payout |-> NoPayout]
<1>1. r \in RequestRecords
  BY Zenon, WithdrawalAssumption
<1>2. gross \in Nat
  <2>1. r.amount \in Int /\ r.amount > 0
    BY Zenon, <1>1 DEF RequestRecords, BridgeOut, ValidAmount
  <2>2. QED
    BY <2>1, BaseAssumption
<1>3. split.net \in Nat /\ split.fee \in Nat
  BY Zenon, <1>2, ParamTypes, FeeConserved
<1>4. /\ withdrawalSeq' = withdrawalSeq + 1
      /\ withdrawal' = [i \in Ids(withdrawalSeq + 1) |->
                          IF i # withdrawalSeq THEN withdrawal[i] ELSE new]
  BY Zenon DEF BridgeOut
<1> HIDE DEF gross, split
<1>5. new \in WithdrawalRecords
  <2>1. [to |-> r.to, asset |-> r.asset, amount |-> split.net, memo |-> r.memo]
          \in PayoutFactRecords
    BY Zenon, <1>1, <1>3 DEF RequestRecords, PayoutFactRecords
  <2>2. [v \in Val |-> 0] \in [Val -> Nat]
    BY Zenon
  <2>3. height \in Nat
    BY Zenon DEF Shape
  <2>4. QED
    BY Zenon, <1>1, <1>3, <2>1, <2>2, <2>3
    DEF RequestRecords, WithdrawalRecords, WithdrawalStatuses, NoPayout
<1>6. /\ new.status = "REQUESTED" /\ new.confirmations = [v \in Val |-> 0]
      /\ new.sender = r.sender /\ new.createdAt = height /\ new.facts.asset = r.asset
      /\ new.facts.amount = split.net /\ new.fee = split.fee
  BY Zenon
<1> HIDE DEF new
<1>9. [net |-> split.net, fee |-> split.fee] = split
  BY DEF split, ApplyBridgeFee
<1>7. /\ withdrawalSeq \in Nat
      /\ withdrawal \in [Ids(withdrawalSeq) -> WithdrawalRecords]
      /\ Ids(withdrawalSeq + 1) = Ids(withdrawalSeq) \cup {withdrawalSeq}
      /\ withdrawalSeq \notin Ids(withdrawalSeq)
  BY DEF Shape, Ids
<1>10. /\ withdrawal'[withdrawalSeq] = new
       /\ withdrawal' \in [Ids(withdrawalSeq + 1) -> WithdrawalRecords]
       /\ \A i \in DOMAIN withdrawal : withdrawal'[i] = withdrawal[i]
  BY Zenon, <1>4, <1>5, <1>7
<1>11. QED
  BY Zenon, <1>2, <1>4, <1>6, <1>9, <1>10 DEF gross, split

\* What a withdrawal is about never changes.
SameTerms(x, y) ==
    x.facts = y.facts /\ x.fee = y.fee /\ x.sender = y.sender /\ x.createdAt = y.createdAt

(***************************************************************************)
(* AttestWithdrawalPayout touches one record, a requested one: it gains a  *)
(* confirmation of v, and is processed if the threshold is reached.        *)
(***************************************************************************)
AttestChanges(v, id, cand) ==
    /\ id \in DOMAIN withdrawal
    /\ withdrawal[id].status = "REQUESTED"
    /\ withdrawalSeq' = withdrawalSeq
    /\ withdrawal' \in [Ids(withdrawalSeq) -> WithdrawalRecords]
    /\ \A i \in DOMAIN withdrawal : i # id => withdrawal'[i] = withdrawal[i]
    /\ SameTerms(withdrawal'[id], withdrawal[id])
    /\ withdrawal'[id].confirmations = [withdrawal[id].confirmations EXCEPT ![v] = @ + 1]
    /\ withdrawal'[id].status \in {"REQUESTED", "PROCESSED"}
    /\ withdrawal'[id].status = "PROCESSED" =>
          /\ withdrawal'[id].payout = cand
          /\ ReachesThreshold(PayoutVoters(id, cand) \cup {v})
    /\ withdrawal'[id].status = "REQUESTED" =>
          ~ReachesThreshold(PayoutVoters(id, cand) \cup {v})
    /\ withdrawalByStatus' =
          IF withdrawal'[id].status = "REQUESTED" THEN withdrawalByStatus
          ELSE (withdrawalByStatus \ {<<"REQUESTED", id>>}) \cup {<<"PROCESSED", id>>}

LEMMA AttestEffect ==
    ASSUME Shape, NEW v \in Val, NEW id, NEW cand \in Candidates, NEW block, NEW facts,
           AttestWithdrawalPayout(v, id, cand, block, facts)
    PROVE  AttestChanges(v, id, cand)
<1> DEFINE w == [withdrawal[id] EXCEPT !.confirmations[v] = @ + 1]
           done == [w EXCEPT !.status = "PROCESSED", !.payout = cand]
<1>1. /\ id \in DOMAIN withdrawal /\ withdrawal[id].status = "REQUESTED"
      /\ withdrawalSeq' = withdrawalSeq
      /\ \/ /\ ~ReachesThreshold(PayoutVoters(id, cand) \cup {v})
            /\ withdrawal' = [withdrawal EXCEPT ![id] = w]
            /\ UNCHANGED withdrawalByStatus
         \/ /\ ReachesThreshold(PayoutVoters(id, cand) \cup {v})
            /\ withdrawal' = [withdrawal EXCEPT ![id] = done]
            /\ withdrawalByStatus' = (withdrawalByStatus \ {<<"REQUESTED", id>>})
                                        \cup {<<"PROCESSED", id>>}
  BY Zenon DEF AttestWithdrawalPayout, Attestable
<1>2. withdrawal \in [Ids(withdrawalSeq) -> WithdrawalRecords]
  BY Zenon DEF Shape
<1>3. withdrawal[id] \in WithdrawalRecords
  BY Zenon, <1>1, <1>2
<1>4. /\ w \in WithdrawalRecords /\ SameTerms(w, withdrawal[id])
      /\ w.status = "REQUESTED"
      /\ w.confirmations = [withdrawal[id].confirmations EXCEPT ![v] = @ + 1]
  BY <1>1, <1>3 DEF WithdrawalRecords, SameTerms
<1> HIDE DEF w
<1>5. /\ done \in WithdrawalRecords /\ SameTerms(done, w) /\ done.status = "PROCESSED"
      /\ done.confirmations = w.confirmations /\ done.payout = cand
  BY Zenon, <1>4 DEF WithdrawalRecords, WithdrawalStatuses, SameTerms
<1> HIDE DEF done
<1>6. CASE /\ ~ReachesThreshold(PayoutVoters(id, cand) \cup {v})
           /\ withdrawal' = [withdrawal EXCEPT ![id] = w] /\ UNCHANGED withdrawalByStatus
  BY Zenon, <1>1, <1>2, <1>4, <1>6 DEF AttestChanges
<1>7. CASE /\ ReachesThreshold(PayoutVoters(id, cand) \cup {v})
           /\ withdrawal' = [withdrawal EXCEPT ![id] = done]
           /\ withdrawalByStatus' = (withdrawalByStatus \ {<<"REQUESTED", id>>})
                                        \cup {<<"PROCESSED", id>>}
  BY Zenon, <1>1, <1>2, <1>4, <1>5, <1>7 DEF AttestChanges, SameTerms
<1>8. QED
  BY Zenon, <1>1, <1>6, <1>7

(***************************************************************************)
(* The sweep touches nothing but the status of requested records.          *)
(***************************************************************************)
LEMMA RefundEffect ==
    ASSUME Shape, Indexed, RefundExpiredWithdrawals
    PROVE  /\ withdrawalSeq' = withdrawalSeq
           /\ withdrawal' \in [Ids(withdrawalSeq) -> WithdrawalRecords]
           /\ RefundingWithdrawals \subseteq DOMAIN withdrawal
           /\ \A i \in RefundingWithdrawals : withdrawal[i].status = "REQUESTED"
           /\ \A i \in DOMAIN withdrawal :
                 /\ i \notin RefundingWithdrawals => withdrawal'[i] = withdrawal[i]
                 /\ i \in RefundingWithdrawals => withdrawal'[i].status = "REFUNDED"
                 /\ SameTerms(withdrawal'[i], withdrawal[i])
                 /\ withdrawal'[i].confirmations = withdrawal[i].confirmations
<1> DEFINE R == RefundingWithdrawals
<1>1. /\ R \subseteq DOMAIN withdrawal
      /\ \A i \in R : <<"REQUESTED", i>> \in withdrawalByStatus
  BY Zenon DEF RefundingWithdrawals, RequestedWithdrawals, Oldest
<1>2. \A i \in R : withdrawal[i].status = "REQUESTED"
  BY Zenon, <1>1 DEF Indexed, WithdrawalStatuses
<1>3. /\ withdrawalSeq' = withdrawalSeq
      /\ withdrawal' = [i \in DOMAIN withdrawal |->
              IF i \in R THEN [withdrawal[i] EXCEPT !.status = "REFUNDED"]
                         ELSE withdrawal[i]]
  BY Zenon DEF RefundExpiredWithdrawals
<1> HIDE DEF R
<1>4. /\ withdrawal \in [Ids(withdrawalSeq) -> WithdrawalRecords]
      /\ DOMAIN withdrawal = Ids(withdrawalSeq)
  BY Zenon DEF Shape
<1>5. ASSUME NEW i \in DOMAIN withdrawal
      PROVE  LET x == [withdrawal[i] EXCEPT !.status = "REFUNDED"]
             IN  /\ x \in WithdrawalRecords /\ x.status = "REFUNDED"
                 /\ SameTerms(x, withdrawal[i])
                 /\ x.confirmations = withdrawal[i].confirmations
  BY <1>4 DEF WithdrawalRecords, WithdrawalStatuses, SameTerms
<1>6. \A i \in DOMAIN withdrawal : SameTerms(withdrawal[i], withdrawal[i])
  BY Zenon DEF SameTerms
<1>7. QED
  BY Zenon, <1>1, <1>2, <1>3, <1>4, <1>5, <1>6 DEF R

-----------------------------------------------------------------------------
(* The invariant holds. *)

LEMMA RequestKeepsIInv ==
    ASSUME IInv, Request
    PROVE  IInv'
<1>1. PICK r \in Requests : BridgeOut(r)
  BY Zenon DEF Request
<1>2. /\ withdrawalSeq' = withdrawalSeq + 1
      /\ withdrawal' \in [Ids(withdrawalSeq + 1) -> WithdrawalRecords]
      /\ \A i \in DOMAIN withdrawal : withdrawal'[i] = withdrawal[i]
      /\ withdrawal'[withdrawalSeq].status = "REQUESTED"
      /\ withdrawal'[withdrawalSeq].confirmations = [v \in Val |-> 0]
  <2> DEFINE x == withdrawal'[withdrawalSeq]
  <2>1. x = withdrawal'[withdrawalSeq]
    OBVIOUS
  <2> HIDE DEF x
  <2>2. QED
    BY Zenon, <1>1, <2>1, RequestEffect DEF IInv
<1>3. /\ withdrawalByStatus' = withdrawalByStatus \cup {<<"REQUESTED", withdrawalSeq>>}
      /\ withdrawalConfirmedBy' = withdrawalConfirmedBy
      /\ withdrawalPayoutVote' = withdrawalPayoutVote
      /\ UNCHANGED <<height, params, bonded, tokens, steemPayouts>>
  BY Zenon, <1>1 DEF Request, BridgeOut, stakeVars, worldVars
<1>4. /\ withdrawalSeq \in Nat /\ DOMAIN withdrawal = Ids(withdrawalSeq)
      /\ DOMAIN withdrawal' = DOMAIN withdrawal \cup {withdrawalSeq}
      /\ Ids(withdrawalSeq + 1) = Ids(withdrawalSeq) \cup {withdrawalSeq}
      /\ withdrawalSeq \notin DOMAIN withdrawal
  BY <1>2 DEF IInv, Shape, Ids
<1>5. Shape'
  BY <1>2, <1>3, <1>4 DEF IInv, Shape, WithdrawalStatuses
<1>6. Indexed'
  <2> SUFFICES ASSUME NEW i \in DOMAIN withdrawal', NEW s \in WithdrawalStatuses
               PROVE  <<s, i>> \in withdrawalByStatus' <=> s = withdrawal'[i].status
    BY Zenon DEF Indexed
  <2>1. CASE i = withdrawalSeq
    <3>1. <<s, i>> \notin withdrawalByStatus
      BY Zenon, <1>4, <2>1 DEF IInv, Shape
    <3>2. QED
      BY Zenon, <3>1, <1>2, <1>3, <2>1
  <2>2. CASE i \in DOMAIN withdrawal
    BY Zenon, <1>2, <1>3, <1>4, <2>2 DEF IInv, Indexed
  <2>3. QED
    BY Zenon, <1>4, <2>1, <2>2
<1>7. OneVote'
  <2> SUFFICES ASSUME NEW i \in DOMAIN withdrawal', NEW v \in Val
               PROVE  IF <<i, v>> \in withdrawalConfirmedBy'
                        THEN /\ withdrawal'[i].confirmations[v] = 1
                             /\ \E c \in Candidates : VotesOf(i, v)' = {c}
                        ELSE /\ withdrawal'[i].confirmations[v] = 0
                             /\ VotesOf(i, v)' = {}
    BY Zenon DEF OneVote
  <2>1. VotesOf(i, v)' = VotesOf(i, v)
    BY Zenon, <1>3 DEF VotesOf
  <2>2. CASE i = withdrawalSeq
    <3>1. <<i, v>> \notin withdrawalConfirmedBy /\ VotesOf(i, v) = {}
      BY Zenon, <1>4, <2>2 DEF IInv, Shape, VotesOf
    <3>2. QED
      BY Zenon, <3>1, <2>1, <1>2, <1>3, <2>2
  <2>3. CASE i \in DOMAIN withdrawal
    BY <1>2, <1>3, <2>1, <2>3 DEF IInv, OneVote
  <2>4. QED
    BY Zenon, <1>4, <2>2, <2>3
<1>8. QED
  BY Zenon, <1>5, <1>6, <1>7 DEF IInv

LEMMA AttestKeepsIInv ==
    ASSUME IInv, NEW v \in Val, NEW id, NEW cand \in Candidates, NEW block, NEW facts,
           AttestWithdrawalPayout(v, id, cand, block, facts), UNCHANGED worldVars
    PROVE  IInv'
<1>1. /\ id \in DOMAIN withdrawal
      /\ withdrawal[id].status = "REQUESTED"
      /\ withdrawalSeq' = withdrawalSeq
      /\ withdrawal' \in [Ids(withdrawalSeq) -> WithdrawalRecords]
      /\ \A i \in DOMAIN withdrawal : i # id => withdrawal'[i] = withdrawal[i]
      /\ withdrawal'[id].confirmations = [withdrawal[id].confirmations EXCEPT ![v] = @ + 1]
      /\ withdrawal'[id].status \in {"REQUESTED", "PROCESSED"}
      /\ withdrawalByStatus' =
            IF withdrawal'[id].status = "REQUESTED" THEN withdrawalByStatus
            ELSE (withdrawalByStatus \ {<<"REQUESTED", id>>}) \cup {<<"PROCESSED", id>>}
  <2>1. AttestChanges(v, id, cand)
    BY Zenon, AttestEffect DEF IInv
  <2>2. QED
    BY Zenon, <2>1 DEF AttestChanges
<1>2. /\ <<id, v>> \notin withdrawalConfirmedBy
      /\ withdrawalConfirmedBy' = withdrawalConfirmedBy \cup {<<id, v>>}
      /\ withdrawalPayoutVote' = withdrawalPayoutVote \cup {<<id, cand, v>>}
      /\ UNCHANGED <<height, params, bonded, tokens, steemPayouts>>
  BY Zenon DEF AttestWithdrawalPayout, MayAttest, stakeVars, worldVars
<1>3. /\ DOMAIN withdrawal = Ids(withdrawalSeq) /\ DOMAIN withdrawal' = DOMAIN withdrawal
      /\ withdrawal[id].confirmations \in [Val -> Nat]
  BY Zenon, <1>1 DEF IInv, Shape, WithdrawalRecords
<1>4. Shape'
  BY <1>1, <1>2, <1>3 DEF IInv, Shape, WithdrawalStatuses
<1>5. Indexed'
  <2> SUFFICES ASSUME NEW i \in DOMAIN withdrawal, NEW s \in WithdrawalStatuses
               PROVE  <<s, i>> \in withdrawalByStatus' <=> s = withdrawal'[i].status
    BY Zenon, <1>3 DEF Indexed
  <2>1. <<s, i>> \in withdrawalByStatus <=> s = withdrawal[i].status
    BY Zenon DEF IInv, Indexed
  <2>2. CASE i = id
    BY Zenon, <1>1, <2>1, <2>2 DEF WithdrawalStatuses
  <2>3. CASE i # id
    BY Zenon, <1>1, <2>1, <2>3
  <2>4. QED
    BY Zenon, <2>2, <2>3
<1>6. OneVote'
  <2> SUFFICES ASSUME NEW i \in DOMAIN withdrawal, NEW u \in Val
               PROVE  IF <<i, u>> \in withdrawalConfirmedBy'
                        THEN /\ withdrawal'[i].confirmations[u] = 1
                             /\ \E c \in Candidates : VotesOf(i, u)' = {c}
                        ELSE /\ withdrawal'[i].confirmations[u] = 0
                             /\ VotesOf(i, u)' = {}
    BY Zenon, <1>3 DEF OneVote
  <2>1. IF <<i, u>> \in withdrawalConfirmedBy
          THEN /\ withdrawal[i].confirmations[u] = 1
               /\ \E c \in Candidates : VotesOf(i, u) = {c}
          ELSE /\ withdrawal[i].confirmations[u] = 0
               /\ VotesOf(i, u) = {}
    BY Zenon DEF IInv, OneVote
  <2>2. CASE i = id /\ u = v
    <3>1. VotesOf(i, u) = {}
      BY Zenon, <1>2, <2>1, <2>2
    <3>2. VotesOf(i, u)' = {cand}
      BY Zenon, <3>1, <1>2, <2>2 DEF VotesOf
    <3>3. withdrawal'[i].confirmations[u] = 1
      BY <1>1, <1>2, <1>3, <2>1, <2>2
    <3>4. QED
      BY Zenon, <3>2, <3>3, <1>2, <2>2
  <2>3. CASE i # id \/ u # v
    <3>1. VotesOf(i, u)' = VotesOf(i, u)
      BY Zenon, <1>2, <2>3 DEF VotesOf
    <3>2. withdrawal'[i].confirmations[u] = withdrawal[i].confirmations[u]
      BY Zenon, <1>1, <1>3, <2>3
    <3>3. <<i, u>> \in withdrawalConfirmedBy' <=> <<i, u>> \in withdrawalConfirmedBy
      BY Zenon, <1>2, <2>3
    <3>4. QED
      BY Zenon, <3>1, <3>2, <3>3, <2>1
  <2>4. QED
    BY Zenon, <2>2, <2>3
<1>7. QED
  BY Zenon, <1>4, <1>5, <1>6 DEF IInv

LEMMA BlockKeepsIInv ==
    ASSUME IInv, NextBlock
    PROVE  IInv'
<1> DEFINE R == RefundingWithdrawals
<1>1. /\ withdrawalSeq' = withdrawalSeq
      /\ withdrawal' \in [Ids(withdrawalSeq) -> WithdrawalRecords]
      /\ R \subseteq DOMAIN withdrawal
      /\ \A i \in R : withdrawal[i].status = "REQUESTED"
      /\ \A i \in DOMAIN withdrawal :
            /\ i \notin R => withdrawal'[i] = withdrawal[i]
            /\ i \in R => withdrawal'[i].status = "REFUNDED"
            /\ withdrawal'[i].confirmations = withdrawal[i].confirmations
  BY Zenon, RefundEffect DEF IInv, NextBlock
<1>2. /\ withdrawalByStatus' = (withdrawalByStatus \ {<<"REQUESTED", i>> : i \in R})
                                  \cup {<<"REFUNDED", i>> : i \in R}
      /\ UNCHANGED <<withdrawalConfirmedBy, withdrawalPayoutVote, params, tokens, steemPayouts>>
      /\ height' = height + 1 /\ bonded' \in BondedChoices
  BY Zenon DEF NextBlock, RefundExpiredWithdrawals, AdvanceBlock, worldVars
<1> HIDE DEF R
<1>3. DOMAIN withdrawal = Ids(withdrawalSeq) /\ DOMAIN withdrawal' = DOMAIN withdrawal
  BY Zenon, <1>1 DEF IInv, Shape
<1>4. Shape'
  BY <1>1, <1>2, <1>3 DEF IInv, Shape, WithdrawalStatuses
<1>5. Indexed'
  <2> SUFFICES ASSUME NEW i \in DOMAIN withdrawal, NEW s \in WithdrawalStatuses
               PROVE  <<s, i>> \in withdrawalByStatus' <=> s = withdrawal'[i].status
    BY Zenon, <1>3 DEF Indexed
  <2>1. <<s, i>> \in withdrawalByStatus <=> s = withdrawal[i].status
    BY Zenon DEF IInv, Indexed
  <2>2. CASE i \in R
    BY Zenon, <1>1, <1>2, <2>1, <2>2 DEF WithdrawalStatuses
  <2>3. CASE i \notin R
    BY Zenon, <1>1, <1>2, <2>1, <2>3
  <2>4. QED
    BY Zenon, <2>2, <2>3
<1>6. OneVote'
  <2>1. \A i \in DOMAIN withdrawal, v \in Val : VotesOf(i, v)' = VotesOf(i, v)
    BY Zenon, <1>2 DEF VotesOf
  <2> SUFFICES ASSUME NEW i \in DOMAIN withdrawal, NEW v \in Val
               PROVE  IF <<i, v>> \in withdrawalConfirmedBy
                        THEN /\ withdrawal'[i].confirmations[v] = 1
                             /\ \E c \in Candidates : VotesOf(i, v)' = {c}
                        ELSE /\ withdrawal'[i].confirmations[v] = 0
                             /\ VotesOf(i, v)' = {}
    BY Zenon, <1>2, <1>3 DEF OneVote
  <2>2. QED
    BY <1>1, <2>1 DEF IInv, OneVote
<1>7. QED
  BY Zenon, <1>4, <1>5, <1>6 DEF IInv

(***************************************************************************)
(* A transfer on Steem, a change of parameters or of stake leaves the      *)
(* records alone.                                                          *)
(***************************************************************************)
LEMMA RestKeepsIInv ==
    ASSUME IInv, Pay \/ Stray \/ Govern \/ Restake \/ UNCHANGED vars
    PROVE  IInv' /\ UNCHANGED withdrawalVars /\ steemPayouts \subseteq steemPayouts'
<1>1. CASE Pay \/ Stray
  <2>1. PICK cand \in Candidates : \E id, block, f :
            steemPayouts' = steemPayouts \cup
               {[id |-> id, cand |-> cand, block |-> block, facts |-> f, at |-> height]}
    <3>1. CASE Pay
      BY Zenon, <3>1 DEF Pay, PayWithdrawal
    <3>2. CASE Stray
      BY Zenon, <3>2 DEF Stray, StrayPayout
    <3>3. QED
      BY Zenon, <1>1, <3>1, <3>2
  <2>2. UNCHANGED <<baseVars, withdrawalVars>>
    BY Zenon, <1>1 DEF Pay, Stray
  <2>3. \A p \in steemPayouts' : p.cand \in Candidates
    BY <2>1 DEF IInv, Shape
  <2>4. QED
    BY <2>1, <2>2, <2>3
    DEF IInv, Shape, Indexed, OneVote, VotesOf, baseVars, withdrawalVars
<1>2. CASE Govern
  <2>1. params' \in ParamChoices
    BY Zenon, <1>2 DEF Govern, UpdateParams
  <2>2. UNCHANGED <<withdrawalVars, steemPayouts, height, bonded, tokens>>
    BY Zenon, <1>2 DEF Govern, stakeVars
  <2>3. QED
    BY Zenon, <2>1, <2>2 DEF IInv, Shape, Indexed, OneVote, VotesOf, withdrawalVars
<1>3. CASE Restake
  <2>1. tokens' \in TokenChoices
    BY Zenon, <1>3 DEF Restake, ChangeTokens
  <2>2. UNCHANGED <<withdrawalVars, steemPayouts, height, bonded, params>>
    BY Zenon, <1>3 DEF Restake, worldVars
  <2>3. QED
    BY Zenon, <2>1, <2>2 DEF IInv, Shape, Indexed, OneVote, VotesOf, withdrawalVars
<1>4. CASE UNCHANGED vars
  BY <1>4 DEF IInv, Shape, Indexed, OneVote, VotesOf, vars, baseVars, withdrawalVars, worldVars
<1>5. QED
  BY Zenon, <1>1, <1>2, <1>3, <1>4

(***************************************************************************)
(* Whoever attests, attests a candidate.                                   *)
(***************************************************************************)
AttestBy(v, id, cand, block, facts) ==
    /\ AttestWithdrawalPayout(v, id, cand, block, facts)
    /\ UNCHANGED worldVars
    /\ \/ v \in Faulty
       \/ \E p \in steemPayouts : p.id = id /\ p.cand = cand /\ p.facts = facts

LEMMA AttestCases ==
    ASSUME IInv, Attest
    PROVE  \E v \in Val, cand \in Candidates : \E id, block, facts :
              AttestBy(v, id, cand, block, facts)
<1>1. CASE \E v \in Val \ Faulty : AttestSeen(v)
  <2>1. PICK v \in Val \ Faulty, p \in steemPayouts :
            AttestWithdrawalPayout(v, p.id, p.cand, p.block, p.facts)
    BY Zenon, <1>1 DEF AttestSeen
  <2>2. p.cand \in Candidates
    BY Zenon DEF IInv, Shape
  <2>3. AttestBy(v, p.id, p.cand, p.block, p.facts)
    BY Zenon, <2>1 DEF Attest, AttestBy
  <2>4. QED
    BY Zenon, <2>1, <2>2, <2>3
<1>2. CASE \E v \in Faulty : AttestAny(v)
  <2>1. PICK v \in Faulty, id \in DOMAIN withdrawal, cand \in Candidates,
             block \in SteemBlocks, facts \in PayoutFacts :
            AttestWithdrawalPayout(v, id, cand, block, facts)
    BY Zenon, <1>2 DEF AttestAny
  <2>2. AttestBy(v, id, cand, block, facts)
    BY Zenon, <2>1 DEF Attest, AttestBy
  <2>3. v \in Val
    BY Zenon, WithdrawalAssumption
  <2>4. QED
    BY Zenon, <2>1, <2>2, <2>3
<1>3. QED
  BY Zenon, <1>1, <1>2 DEF Attest

LEMMA NextKeepsIInv == IInv /\ [Next \/ ChainNext]_vars => IInv'
<1> SUFFICES ASSUME IInv, [Next \/ ChainNext]_vars PROVE IInv'
  BY Zenon
<1>1. CASE Attest
  BY Zenon, <1>1, AttestCases, AttestKeepsIInv DEF AttestBy
<1>2. QED
  BY Zenon, <1>1, RequestKeepsIInv, BlockKeepsIInv, RestKeepsIInv DEF Next, ChainNext

(***************************************************************************)
(* The invariant holds throughout, with and without the gateway.           *)
(***************************************************************************)
THEOREM Invariance == Spec \/ ChainSpec => []IInv
<1>1. Init => IInv
  BY DEF Init, BaseInit, IInv, Shape, Indexed, OneVote, Ids
<1>2. IInv /\ [Next]_vars => IInv'
  BY Zenon, NextKeepsIInv
<1>3. IInv /\ [ChainNext]_vars => IInv'
  BY Zenon, NextKeepsIInv
<1>4. QED
  BY <1>1, <1>2, <1>3, PTL DEF Spec, ChainSpec

(***************************************************************************)
(* Markers, confirmations, votes and the status index agree in every       *)
(* reachable state, whoever attests what: nobody's stake counts for two    *)
(* candidates of one withdrawal (AttestWithdrawalPayout).                  *)
(***************************************************************************)
THEOREM OneVotePerValidator == Spec \/ ChainSpec => []VotesAgree
<1>1. IInv => VotesAgree
  <2> SUFFICES ASSUME IInv, NEW i \in DOMAIN withdrawal
               PROVE  /\ {s \in WithdrawalStatuses : <<s, i>> \in withdrawalByStatus}
                           = {withdrawal[i].status}
                      /\ \A v \in Val :
                           LET marked == IF <<i, v>> \in withdrawalConfirmedBy THEN 1 ELSE 0
                           IN  /\ withdrawal[i].confirmations[v] = marked
                               /\ Cardinality(VotesOf(i, v)) = marked
    BY Zenon DEF VotesAgree, VotesOf
  <2>1. withdrawal[i].status \in WithdrawalStatuses
    BY Zenon DEF IInv, Shape, WithdrawalRecords
  <2>2. {s \in WithdrawalStatuses : <<s, i>> \in withdrawalByStatus} = {withdrawal[i].status}
    BY Zenon, <2>1 DEF IInv, Indexed
  <2>3. ASSUME NEW v \in Val, <<i, v>> \in withdrawalConfirmedBy
        PROVE  withdrawal[i].confirmations[v] = 1 /\ Cardinality(VotesOf(i, v)) = 1
    <3>1. PICK c \in Candidates : VotesOf(i, v) = {c}
      BY Zenon, <2>3 DEF IInv, OneVote
    <3>2. QED
      BY Zenon, <2>3, <3>1, FS_Singleton DEF IInv, OneVote
  <2>4. ASSUME NEW v \in Val, <<i, v>> \notin withdrawalConfirmedBy
        PROVE  withdrawal[i].confirmations[v] = 0 /\ Cardinality(VotesOf(i, v)) = 0
    BY Zenon, <2>4, FS_EmptySet DEF IInv, OneVote
  <2>5. QED
    BY Zenon, <2>2, <2>3, <2>4
<1>2. QED
  BY <1>1, Invariance, PTL

(***************************************************************************)
(* Once processed or refunded, a withdrawal's record never changes again:  *)
(* it is not paid back after it was processed, nor processed after it was  *)
(* paid back.                                                              *)
(***************************************************************************)
THEOREM Finality == Spec \/ ChainSpec => SettledIsFinal
<1>1. IInv /\ [Next \/ ChainNext]_vars =>
        \A i \in DOMAIN withdrawal :
            withdrawal[i].status # "REQUESTED" => withdrawal'[i] = withdrawal[i]
  <2> SUFFICES ASSUME IInv, [Next \/ ChainNext]_vars, NEW i \in DOMAIN withdrawal,
                      withdrawal[i].status # "REQUESTED"
               PROVE  withdrawal'[i] = withdrawal[i]
    BY Zenon
  <2>1. CASE Request
    BY Zenon, <2>1, RequestEffect DEF Request, IInv
  <2>2. CASE Attest
    <3>1. Shape
      BY Zenon DEF IInv
    <3>2. PICK v \in Val, cand \in Candidates : \E id, block, facts :
              AttestBy(v, id, cand, block, facts)
      BY Zenon, <2>2, AttestCases
    <3>3. PICK id, block, facts : AttestWithdrawalPayout(v, id, cand, block, facts)
      BY Zenon, <3>2 DEF AttestBy
    <3>4. AttestChanges(v, id, cand)
      BY Zenon, <3>1, <3>3, AttestEffect
    <3>5. QED
      BY Zenon, <3>4 DEF AttestChanges
  <2>3. CASE NextBlock
    BY Zenon, <2>3, RefundEffect DEF NextBlock, IInv
  <2>4. CASE Pay \/ Stray \/ Govern \/ Restake \/ UNCHANGED vars
    BY Zenon, <2>4, RestKeepsIInv DEF withdrawalVars
  <2>5. QED
    BY Zenon, <2>1, <2>2, <2>3, <2>4 DEF Next, ChainNext
<1>2. IInv /\ [Next \/ ChainNext]_vars =>
        [\A i \in DOMAIN withdrawal :
            withdrawal[i].status # "REQUESTED" =>
                withdrawal'[i] = [withdrawal[i] EXCEPT
                                    !.confirmations = withdrawal'[i].confirmations]]_vars
  <2> SUFFICES ASSUME IInv, [Next \/ ChainNext]_vars, NEW i \in DOMAIN withdrawal,
                      withdrawal[i].status # "REQUESTED"
               PROVE  withdrawal'[i] = [withdrawal[i] EXCEPT
                                          !.confirmations = withdrawal'[i].confirmations]
    BY Zenon
  <2>1. withdrawal'[i] = withdrawal[i]
    BY Zenon, <1>1
  <2>2. withdrawal[i] \in WithdrawalRecords
    BY DEF IInv, Shape
  <2>3. [withdrawal[i] EXCEPT !.confirmations = withdrawal[i].confirmations] = withdrawal[i]
    BY <2>2 DEF WithdrawalRecords
  <2>4. QED
    BY Zenon, <2>1, <2>3
<1>3. IInv /\ [Next]_vars =>
        [\A i \in DOMAIN withdrawal :
            withdrawal[i].status # "REQUESTED" =>
                withdrawal'[i] = [withdrawal[i] EXCEPT
                                    !.confirmations = withdrawal'[i].confirmations]]_vars
  BY Zenon, <1>2
<1>4. IInv /\ [ChainNext]_vars =>
        [\A i \in DOMAIN withdrawal :
            withdrawal[i].status # "REQUESTED" =>
                withdrawal'[i] = [withdrawal[i] EXCEPT
                                    !.confirmations = withdrawal'[i].confirmations]]_vars
  BY Zenon, <1>2
<1>5. QED
  BY <1>3, <1>4, Invariance, PTL DEF Spec, ChainSpec, SettledIsFinal

-----------------------------------------------------------------------------
(* Processed means paid. *)

(***************************************************************************)
(* Whatever a validator outside Faulty voted for happened on Steem, with   *)
(* the facts the withdrawal asks for.                                      *)
(***************************************************************************)
PaidBy(i, cand) ==
    \E p \in steemPayouts : p.id = i /\ p.cand = cand /\ p.facts = withdrawal[i].facts

HonestVotes ==
    \A i \in DOMAIN withdrawal, cand \in Candidates, v \in Val \ Faulty :
        <<i, cand, v>> \in withdrawalPayoutVote => PaidBy(i, cand)

Truth ==
    /\ HonestVotes
    /\ \A i \in DOMAIN withdrawal :
          withdrawal[i].status = "PROCESSED" => PaidBy(i, withdrawal[i].payout)

LEMMA AttestKeepsTruth ==
    ASSUME FaultyAreMinority, IInv, Truth, Attest
    PROVE  Truth'
<1>0. PICK v \in Val, cand \in Candidates : \E id, block, facts :
              AttestBy(v, id, cand, block, facts)
  BY Zenon, AttestCases
<1>1. PICK id, block, facts : AttestBy(v, id, cand, block, facts)
  BY Zenon, <1>0
<1>2. /\ id \in DOMAIN withdrawal
      /\ withdrawal' \in [Ids(withdrawalSeq) -> WithdrawalRecords]
      /\ \A i \in DOMAIN withdrawal : i # id => withdrawal'[i] = withdrawal[i]
      /\ withdrawal'[id].facts = withdrawal[id].facts
      /\ withdrawal'[id].status = "PROCESSED" =>
            /\ withdrawal'[id].payout = cand
            /\ ReachesThreshold(PayoutVoters(id, cand) \cup {v})
  <2>1. Shape /\ AttestWithdrawalPayout(v, id, cand, block, facts)
    BY Zenon, <1>1 DEF IInv, AttestBy
  <2>2. AttestChanges(v, id, cand)
    BY Zenon, <2>1, AttestEffect
  <2>3. QED
    BY Zenon, <2>2 DEF AttestChanges, SameTerms
<1>3. /\ facts = withdrawal[id].facts /\ steemPayouts' = steemPayouts
      /\ withdrawalPayoutVote' = withdrawalPayoutVote \cup {<<id, cand, v>>}
  BY Zenon, <1>1 DEF AttestBy, AttestWithdrawalPayout, PayoutMatches, worldVars
<1>4. DOMAIN withdrawal' = DOMAIN withdrawal
  BY Zenon, <1>2 DEF IInv, Shape
<1>5. \A i \in DOMAIN withdrawal, c \in Candidates : PaidBy(i, c)' <=> PaidBy(i, c)
  BY Zenon, <1>2, <1>3 DEF PaidBy
<1>6. v \in Faulty \/ PaidBy(id, cand)
  BY Zenon, <1>1, <1>3 DEF AttestBy, PaidBy
<1>7. HonestVotes'
  <2> SUFFICES ASSUME NEW i \in DOMAIN withdrawal, NEW c \in Candidates,
                      NEW u \in Val \ Faulty, <<i, c, u>> \in withdrawalPayoutVote'
               PROVE  PaidBy(i, c)
    BY Zenon, <1>4, <1>5 DEF HonestVotes
  <2>1. CASE <<i, c, u>> \in withdrawalPayoutVote
    BY Zenon, <2>1 DEF Truth, HonestVotes
  <2>2. CASE i = id /\ c = cand /\ u = v
    BY Zenon, <1>6, <2>2
  <2>3. QED
    BY Zenon, <1>3, <2>1, <2>2
<1>8. ReachesThreshold(PayoutVoters(id, cand) \cup {v}) => PaidBy(id, cand)
  <2> SUFFICES ASSUME ReachesThreshold(PayoutVoters(id, cand) \cup {v})
               PROVE  PaidBy(id, cand)
    BY Zenon
  <2>1. PayoutVoters(id, cand) \cup {v} \notin SUBSET Faulty
    BY Zenon DEF FaultyAreMinority, ReachesThreshold, IInv, Shape
  <2>2. PICK u \in PayoutVoters(id, cand) \cup {v} : u \notin Faulty
    BY Zenon, <2>1
  <2>3. CASE u = v
    BY Zenon, <1>6, <2>2, <2>3
  <2>4. CASE u \in PayoutVoters(id, cand)
    BY Zenon, <1>2, <2>2, <2>4 DEF PayoutVoters, Truth, HonestVotes
  <2>5. QED
    BY Zenon, <2>2, <2>3, <2>4
<1>9. ASSUME NEW i \in DOMAIN withdrawal, withdrawal'[i].status = "PROCESSED"
      PROVE  PaidBy(i, withdrawal[i].payout)'
  <2>1. CASE i = id
    <3>1. withdrawal'[i].payout = cand /\ PaidBy(i, cand)'
      BY Zenon, <1>2, <1>5, <1>8, <1>9, <2>1
    <3>2. QED
      BY Zenon, <3>1 DEF PaidBy
  <2>2. CASE i # id
    BY <1>2, <1>3, <1>9, <2>2 DEF PaidBy, Truth
  <2>3. QED
    BY Zenon, <2>1, <2>2
<1>10. QED
  BY Zenon, <1>4, <1>7, <1>9 DEF Truth

LEMMA NextKeepsTruth ==
    ASSUME FaultyAreMinority
    PROVE  IInv /\ Truth /\ [Next]_vars => Truth'
<1> SUFFICES ASSUME IInv, Truth, [Next]_vars PROVE Truth'
  BY Zenon
<1>1. CASE Attest
  BY Zenon, <1>1, AttestKeepsTruth
<1>2. CASE Request
  <2>1. PICK r \in Requests : BridgeOut(r)
    BY Zenon, <1>2 DEF Request
  <2>2. /\ withdrawal' \in [Ids(withdrawalSeq + 1) -> WithdrawalRecords]
        /\ \A i \in DOMAIN withdrawal : withdrawal'[i] = withdrawal[i]
        /\ withdrawal'[withdrawalSeq].status = "REQUESTED"
    BY Zenon, <2>1, RequestEffect DEF IInv
  <2>3. UNCHANGED <<steemPayouts, withdrawalPayoutVote>>
    BY Zenon, <1>2, <2>1 DEF Request, BridgeOut, worldVars
  <2>4. /\ DOMAIN withdrawal' = DOMAIN withdrawal \cup {withdrawalSeq}
        /\ \A c, v : <<withdrawalSeq, c, v>> \notin withdrawalPayoutVote
    BY <2>2 DEF IInv, Shape, Ids
  <2>5. QED
    BY <2>2, <2>3, <2>4 DEF Truth, HonestVotes, PaidBy
<1>3. CASE NextBlock
  <2> DEFINE R == RefundingWithdrawals
  <2>1. /\ withdrawal' \in [Ids(withdrawalSeq) -> WithdrawalRecords]
        /\ \A i \in DOMAIN withdrawal :
              /\ i \notin R => withdrawal'[i] = withdrawal[i]
              /\ i \in R => withdrawal'[i].status = "REFUNDED"
              /\ withdrawal'[i].facts = withdrawal[i].facts
    BY Zenon, <1>3, RefundEffect DEF IInv, NextBlock, SameTerms
  <2> HIDE DEF R
  <2>2. UNCHANGED <<steemPayouts, withdrawalPayoutVote>>
    BY Zenon, <1>3 DEF NextBlock, RefundExpiredWithdrawals, worldVars
  <2>3. DOMAIN withdrawal' = DOMAIN withdrawal
    BY Zenon, <2>1 DEF IInv, Shape
  <2>4. QED
    BY <2>1, <2>2, <2>3 DEF Truth, HonestVotes, PaidBy
<1>4. CASE Pay \/ Stray \/ Govern \/ Restake \/ UNCHANGED vars
  <2>1. UNCHANGED withdrawalVars /\ steemPayouts \subseteq steemPayouts'
    BY Zenon, <1>4, RestKeepsIInv
  <2>2. QED
    BY <2>1 DEF withdrawalVars, Truth, HonestVotes, PaidBy
<1>5. QED
  BY Zenon, <1>1, <1>2, <1>3, <1>4 DEF Next

(***************************************************************************)
(* When no set of faulty validators holds the threshold, a processed       *)
(* withdrawal was paid on Steem by the transfer its record names, exactly  *)
(* as it asked (AttestWithdrawalPayout).                                   *)
(***************************************************************************)
THEOREM ProcessedMeansPaid ==
    ASSUME FaultyAreMinority
    PROVE  Spec => []ProcessedWasPaid
<1>1. Init => Truth
  BY Zenon DEF Init, Truth, HonestVotes
<1>2. IInv /\ Truth /\ [Next]_vars => Truth'
  BY Zenon, NextKeepsTruth
<1>3. Truth => ProcessedWasPaid
  BY Zenon DEF Truth, ProcessedWasPaid, PaidBy
<1>4. Spec => []IInv
  BY Invariance, PTL
<1>5. QED
  BY <1>1, <1>2, <1>3, <1>4, PTL DEF Spec

-----------------------------------------------------------------------------
(* Paid and refunded. *)

(***************************************************************************)
(* A payout pays its withdrawal as asked.                                  *)
(***************************************************************************)
Fits(p) == p.facts = withdrawal[p.id].facts

(***************************************************************************)
(* The inductive part of RefundedOnlyIfPaused: a payout that fits is the   *)
(* only one of its withdrawal and kept the margin; as long as the          *)
(* withdrawal is open, somebody honest has not attested it yet.            *)
(***************************************************************************)
PaidInTime(p) ==
    /\ \A q \in steemPayouts : q.id = p.id /\ Fits(q) => q = p
    /\ p.at + PayoutMargin <= withdrawal[p.id].createdAt + params.WithdrawalTimeoutBlocks
    /\ CheckSteemBlock(p.block)
    /\ withdrawal[p.id].status = "REQUESTED" =>
          \E v \in bonded \ Faulty : <<p.id, v>> \notin withdrawalConfirmedBy
    /\ withdrawal[p.id].status = "REFUNDED" =>
          p.at < height /\ (~params.BridgeOutEnabled \/ enabledSince > p.at)

Clock ==
    /\ height \in 1 .. MaxHeight /\ enabledSince \in 0 .. height
    /\ \A i \in DOMAIN withdrawal : withdrawal[i].createdAt \in 0 .. height
    /\ \A p \in steemPayouts : p.id \in DOMAIN withdrawal /\ p.at \in 0 .. height

InTime == \A p \in steemPayouts : Fits(p) => PaidInTime(p)

(***************************************************************************)
(* A validator that confirmed a withdrawal voted for one candidate of it;  *)
(* an honest one, for a payout that fits.                                  *)
(***************************************************************************)
LEMMA HonestConfirmation ==
    ASSUME IInv, Truth, NEW i \in DOMAIN withdrawal, NEW v \in Val \ Faulty,
           <<i, v>> \in withdrawalConfirmedBy
    PROVE  \E p \in steemPayouts : /\ p.id = i /\ Fits(p)
                                   /\ <<i, p.cand, v>> \in withdrawalPayoutVote
<1>1. PICK c \in Candidates : VotesOf(i, v) = {c}
  BY Zenon DEF IInv, OneVote
<1>2. <<i, c, v>> \in withdrawalPayoutVote
  BY Zenon, <1>1 DEF VotesOf
<1>3. PICK p \in steemPayouts : p.id = i /\ p.cand = c /\ p.facts = withdrawal[i].facts
  BY Zenon, <1>2 DEF Truth, HonestVotes, PaidBy
<1>4. QED
  BY Zenon, <1>2, <1>3 DEF Fits

LEMMA SomeHonest ==
    ASSUME FaultyAreMinority, SteadyChain, IInv
    PROVE  /\ bonded \subseteq Val /\ bonded \ Faulty # {}
           /\ \A set \in SUBSET Val : bonded \ Faulty \subseteq set => ReachesThreshold(set)
<1>1. /\ params \in ParamChoices /\ bonded \in BondedChoices /\ tokens \in TokenChoices
      /\ bonded \subseteq Val
  BY Zenon, BaseAssumption DEF IInv, Shape
<1>2. \A set \in SUBSET Val : bonded \ Faulty \subseteq set => ReachesThreshold(set)
  BY Zenon, <1>1 DEF SteadyChain, ReachesThreshold
<1>3. ~ReachesThreshold({})
  BY Zenon, <1>1 DEF FaultyAreMinority, ReachesThreshold
<1>4. bonded \ Faulty # {}
  BY Zenon, <1>2, <1>3
<1>5. QED
  BY Zenon, <1>1, <1>2, <1>4

(***************************************************************************)
(* The last honest attestation of a payout processes the withdrawal.       *)
(***************************************************************************)
LEMMA AttestKeepsInTime ==
    ASSUME FaultyAreMinority, SteadyChain, IInv, Truth, Clock, InTime, Attest
    PROVE  Clock' /\ InTime'
<1>1. PICK v \in Val, cand \in Candidates : \E id, block, facts :
              AttestBy(v, id, cand, block, facts)
  BY Zenon, AttestCases
<1>2. PICK id, block, facts : AttestBy(v, id, cand, block, facts)
  BY Zenon, <1>1
<1>3. AttestChanges(v, id, cand)
  BY Zenon, <1>2, AttestEffect DEF AttestBy, IInv
<1>4. /\ facts = withdrawal[id].facts /\ UNCHANGED <<height, params, bonded, worldVars>>
      /\ withdrawalConfirmedBy' = withdrawalConfirmedBy \cup {<<id, v>>}
  BY Zenon, <1>2 DEF AttestBy, AttestWithdrawalPayout, PayoutMatches, stakeVars
<1>5. /\ DOMAIN withdrawal' = DOMAIN withdrawal /\ id \in DOMAIN withdrawal
      /\ \A i \in DOMAIN withdrawal : i # id => withdrawal'[i] = withdrawal[i]
      /\ \A i \in DOMAIN withdrawal : /\ withdrawal'[i].createdAt = withdrawal[i].createdAt
                                      /\ withdrawal'[i].facts = withdrawal[i].facts
      /\ withdrawal[id].status = "REQUESTED"
      /\ withdrawal'[id].status \in {"REQUESTED", "PROCESSED"}
  BY Zenon, <1>3 DEF AttestChanges, SameTerms, IInv, Shape
<1>6. Clock'
  BY Zenon, <1>4, <1>5 DEF Clock, worldVars
<1>7. \A p \in steemPayouts : p.id \in DOMAIN withdrawal /\ (Fits(p)' <=> Fits(p))
  BY Zenon, <1>5 DEF Clock, Fits
<1>8. ASSUME NEW p \in steemPayouts, Fits(p)
      PROVE  PaidInTime(p)'
  <2>1. PaidInTime(p) /\ p.id \in DOMAIN withdrawal
    BY Zenon, <1>7, <1>8 DEF InTime
  <2>2. /\ \A q \in steemPayouts' : q.id = p.id /\ Fits(q)' => q = p
        /\ p.at + PayoutMargin
              <= withdrawal'[p.id].createdAt + params'.WithdrawalTimeoutBlocks
        /\ CheckSteemBlock(p.block)'
    BY Zenon, <1>4, <1>5, <1>7, <2>1 DEF PaidInTime, CheckSteemBlock, worldVars
  <2>3. withdrawal'[p.id].status = "REFUNDED" =>
          p.at < height' /\ (~params'.BridgeOutEnabled \/ enabledSince' > p.at)
    <3>1. CASE p.id = id
      BY Zenon, <1>5, <3>1
    <3>2. CASE p.id # id
      BY Zenon, <1>4, <1>5, <2>1, <3>2 DEF PaidInTime, worldVars
    <3>3. QED
      BY Zenon, <3>1, <3>2
  <2>4. ASSUME withdrawal'[p.id].status = "REQUESTED",
               \A u \in bonded \ Faulty : <<p.id, u>> \in withdrawalConfirmedBy'
        PROVE  FALSE
    <3>1. withdrawal[p.id].status = "REQUESTED"
      BY Zenon, <1>5, <2>1, <2>4
    <3>2. PICK w \in bonded \ Faulty : <<p.id, w>> \notin withdrawalConfirmedBy
      BY Zenon, <2>1, <3>1 DEF PaidInTime
    <3>3. p.id = id /\ w = v
      <4>1. <<p.id, w>> \in {<<id, v>>}
        BY Zenon, <1>4, <2>4, <3>2
      <4>2. QED
        BY <4>1
    <3>4. cand = p.cand
      <4>1. PICK q \in steemPayouts : q.id = id /\ q.cand = cand /\ q.facts = facts
        BY Zenon, <1>2, <3>2, <3>3 DEF AttestBy
      <4>2. q.id = p.id /\ Fits(q)
        BY Zenon, <1>4, <3>3, <4>1 DEF Fits
      <4>3. q = p
        BY Zenon, <2>1, <4>2 DEF PaidInTime
      <4>4. QED
        BY Zenon, <4>1, <4>3
    <3>5. bonded \ Faulty \subseteq PayoutVoters(id, cand) \cup {v}
      <4> SUFFICES ASSUME NEW u \in bonded \ Faulty, u # v PROVE u \in PayoutVoters(id, cand)
        BY Zenon
      <4>1. u \in Val \ Faulty
        BY Zenon, SomeHonest
      <4>2. <<p.id, u>> \in withdrawalConfirmedBy
        <5>1. <<p.id, u>> \in withdrawalConfirmedBy \cup {<<id, v>>}
          BY Zenon, <1>4, <2>4
        <5>2. QED
          BY <5>1
      <4>3. PICK q \in steemPayouts : /\ q.id = p.id /\ Fits(q)
                                      /\ <<p.id, q.cand, u>> \in withdrawalPayoutVote
        BY Zenon, <2>1, <4>1, <4>2, HonestConfirmation
      <4>4. q = p
        BY Zenon, <2>1, <4>3 DEF PaidInTime
      <4>5. QED
        BY Zenon, <3>3, <3>4, <4>1, <4>3, <4>4 DEF PayoutVoters
    <3>6. PayoutVoters(id, cand) \cup {v} \in SUBSET Val
      BY Zenon DEF PayoutVoters
    <3>7. ReachesThreshold(PayoutVoters(id, cand) \cup {v})
      BY Zenon, <3>5, <3>6, SomeHonest
    <3>8. QED
      BY Zenon, <1>3, <2>4, <3>3, <3>7 DEF AttestChanges
  <2>5. withdrawal'[p.id].status = "REQUESTED" =>
          \E u \in bonded' \ Faulty : <<p.id, u>> \notin withdrawalConfirmedBy'
    BY Zenon, <1>4, <2>4
  <2>6. QED
    BY Zenon, <2>2, <2>3, <2>5 DEF PaidInTime
<1>9. InTime'
  BY Zenon, <1>4, <1>7, <1>8 DEF InTime, worldVars
<1>10. QED
  BY Zenon, <1>6, <1>9

(***************************************************************************)
(* A payout is made before anybody honest has attested it, and only if     *)
(* there is none yet.                                                      *)
(***************************************************************************)
LEMMA PayKeepsInTime ==
    ASSUME FaultyAreMinority, SteadyChain, IInv, Truth, Clock, InTime, Pay \/ Stray
    PROVE  Clock' /\ InTime'
<1>1. UNCHANGED <<height, params, bonded, withdrawal, withdrawalConfirmedBy, enabledSince>>
  BY Zenon DEF Pay, Stray, baseVars, withdrawalVars
<1>2. PICK n : /\ n.id \in DOMAIN withdrawal /\ n.at = height
               /\ steemPayouts' = steemPayouts \cup {n}
               /\ \/ ~Fits(n)
                  \/ /\ \A p \in steemPayouts : p.id # n.id
                     /\ MarginHolds(withdrawal[n.id]) /\ CheckSteemBlock(n.block)
                     /\ withdrawal[n.id].status = "REQUESTED"
  <2>1. CASE Pay
    <3>1. PICK id \in DOMAIN withdrawal, cand \in Candidates, block \in SteemBlocks :
              PayWithdrawal(id, cand, block)
      BY Zenon, <2>1 DEF Pay
    <3> DEFINE n == [id |-> id, cand |-> cand, block |-> block,
                     facts |-> withdrawal[id].facts, at |-> height]
    <3>2. n.id = id /\ n.at = height /\ n.block = block
      BY Zenon
    <3>3. steemPayouts' = steemPayouts \cup {n}
      BY Zenon, <3>1 DEF PayWithdrawal
    <3> HIDE DEF n
    <3>4. QED
      BY Zenon, <3>1, <3>2, <3>3 DEF PayWithdrawal
  <2>2. CASE Stray
    <3>1. PICK id \in DOMAIN withdrawal, cand \in Candidates, block \in SteemBlocks,
               f \in PayoutFacts : StrayPayout(id, cand, block, f)
      BY Zenon, <2>2 DEF Stray
    <3> DEFINE n == [id |-> id, cand |-> cand, block |-> block, facts |-> f, at |-> height]
    <3>2. n.id = id /\ n.at = height /\ n.facts = f
      BY Zenon
    <3>3. steemPayouts' = steemPayouts \cup {n} /\ f # withdrawal[id].facts
      BY Zenon, <3>1 DEF StrayPayout
    <3> HIDE DEF n
    <3>4. QED
      BY Zenon, <3>2, <3>3 DEF Fits
  <2>3. QED
    BY Zenon, <2>1, <2>2
<1>3. height \in 1 .. MaxHeight /\ MaxHeight \in Nat
  BY Zenon DEF Clock, SteadyChain
<1>4. height \in 0 .. height
  BY ONLY <1>3
<1>5. Clock'
  BY Zenon, <1>1, <1>2, <1>4 DEF Clock
<1>6. \A p : /\ Fits(p)' <=> Fits(p)
             /\ CheckSteemBlock(p.block)' <=> CheckSteemBlock(p.block)
  BY Zenon, <1>1 DEF Fits, CheckSteemBlock
<1>7. ASSUME NEW p \in steemPayouts, Fits(p)
      PROVE  PaidInTime(p)'
  <2>1. PaidInTime(p)
    BY Zenon, <1>7 DEF InTime
  <2>2. \A q \in steemPayouts' : q.id = p.id /\ Fits(q)' => q = p
    BY Zenon, <1>2, <1>6, <2>1 DEF PaidInTime
  <2>3. QED
    BY Zenon, <1>1, <1>6, <2>1, <2>2 DEF PaidInTime
<1>8. ASSUME Fits(n)
      PROVE  PaidInTime(n)'
  <2>1. /\ \A p \in steemPayouts : p.id # n.id
        /\ MarginHolds(withdrawal[n.id]) /\ CheckSteemBlock(n.block)
        /\ withdrawal[n.id].status = "REQUESTED"
    BY Zenon, <1>2, <1>8
  <2>2. \A q \in steemPayouts' : q.id = n.id /\ Fits(q)' => q = n
    BY Zenon, <1>2, <2>1
  <2>3. n.at + PayoutMargin
           <= withdrawal'[n.id].createdAt + params'.WithdrawalTimeoutBlocks
    BY Zenon, <1>1, <1>2, <2>1 DEF MarginHolds
  <2>4. PICK v : v \in bonded \ Faulty
    BY Zenon, SomeHonest
  <2>5. v \in Val \ Faulty
    BY Zenon, <2>4, SomeHonest
  <2>6. <<n.id, v>> \notin withdrawalConfirmedBy
    BY Zenon, <1>2, <2>1, <2>5, HonestConfirmation
  <2>7. withdrawal'[n.id].status # "REFUNDED"
    BY Zenon, <1>1, <2>1
  <2>8. QED
    BY Zenon, <1>1, <1>6, <2>1, <2>2, <2>3, <2>4, <2>6, <2>7 DEF PaidInTime
<1>9. InTime'
  BY Zenon, <1>2, <1>6, <1>7, <1>8 DEF InTime
<1>10. QED
  BY Zenon, <1>5, <1>9

(***************************************************************************)
(* A refund comes after the margin has passed, when the honest validators  *)
(* would all have attested the payout.                                     *)
(***************************************************************************)
LEMMA RefundMeansPause ==
    ASSUME FaultyAreMinority, SteadyChain, IInv, Clock, AttestedInTime,
           NEW p \in steemPayouts, Fits(p), PaidInTime(p), p.id \in RefundingWithdrawals,
           withdrawal[p.id].status = "REQUESTED"
    PROVE  ~params.BridgeOutEnabled \/ enabledSince > p.at
<1> DEFINE t == params.WithdrawalTimeoutBlocks
           c == withdrawal[p.id].createdAt
<1>1. params \in ParamChoices
  BY Zenon DEF IInv, Shape
<1>2. t \in Nat
  BY Zenon, <1>1, BaseAssumption DEF ParamRecords
<1>3. MaxHeight \in Nat /\ MaxHeight + t < UintMod
  BY Zenon, <1>1 DEF SteadyChain
<1>4. /\ c \in 0 .. height /\ p.at \in 0 .. height /\ height \in 1 .. MaxHeight
      /\ enabledSince \in 0 .. height
  BY Zenon DEF Clock
<1>5. (c + t) % UintMod < height
  BY Zenon DEF RefundingWithdrawals, WithdrawalOverdue, Overdue
<1>6. UintMod \in Nat /\ UintMod > 0
  BY Zenon, BaseAssumption
<1>7. p.at + PayoutMargin <= c + t
  BY Zenon DEF PaidInTime
<1>8. AttestLag \in Nat /\ PayoutMargin \in Nat /\ AttestLag <= PayoutMargin
  BY Zenon DEF SteadyChain
<1> HIDE DEF t, c
<1>9. c + t < height
  <2>1. c + t \in 0 .. UintMod - 1
    BY ONLY <1>2, <1>3, <1>4, <1>6
  <2>2. \A n \in 0 .. UintMod - 1 : n % UintMod = n
    BY ONLY <1>6
  <2>3. (c + t) % UintMod = c + t
    BY Zenon, <2>1, <2>2
  <2>4. QED
    BY Zenon, <1>5, <2>3
<1>10. SUFFICES ASSUME params.BridgeOutEnabled, ~(enabledSince > p.at) PROVE FALSE
  BY Zenon
<1>11. p.at + AttestLag <= height /\ enabledSince + AttestLag <= height
  BY ONLY <1>2, <1>3, <1>4, <1>7, <1>8, <1>9, <1>10
<1>12. \A v \in bonded \ Faulty : <<p.id, v>> \in withdrawalConfirmedBy
  BY Zenon, <1>10, <1>11 DEF AttestedInTime, Fits, PaidInTime
<1>13. QED
  BY Zenon, <1>12 DEF PaidInTime

LEMMA BlockKeepsInTime ==
    ASSUME FaultyAreMinority, SteadyChain, IInv, Clock, InTime, AttestedInTime, NextBlock
    PROVE  Clock' /\ InTime'
<1> DEFINE R == RefundingWithdrawals
<1>1. /\ DOMAIN withdrawal' = DOMAIN withdrawal
      /\ \A i \in R : withdrawal[i].status = "REQUESTED"
      /\ \A i \in DOMAIN withdrawal :
            /\ i \notin R => withdrawal'[i] = withdrawal[i]
            /\ i \in R => withdrawal'[i].status = "REFUNDED"
            /\ withdrawal'[i].createdAt = withdrawal[i].createdAt
            /\ withdrawal'[i].facts = withdrawal[i].facts
  <2>1. /\ withdrawal' \in [Ids(withdrawalSeq) -> WithdrawalRecords]
        /\ \A i \in R : withdrawal[i].status = "REQUESTED"
        /\ \A i \in DOMAIN withdrawal :
              /\ i \notin R => withdrawal'[i] = withdrawal[i]
              /\ i \in R => withdrawal'[i].status = "REFUNDED"
              /\ SameTerms(withdrawal'[i], withdrawal[i])
    BY Zenon, RefundEffect DEF IInv, NextBlock
  <2>2. QED
    BY Zenon, <2>1 DEF SameTerms, IInv, Shape
<1>2. /\ UNCHANGED <<params, withdrawalConfirmedBy, steemPayouts, enabledSince>>
      /\ height' = height + 1 /\ height < MaxHeight /\ bonded' \in BondedChoices
  BY Zenon DEF NextBlock, RefundExpiredWithdrawals, AdvanceBlock, worldVars
<1>3. bonded' = bonded
  BY Zenon, <1>2 DEF SteadyChain, IInv, Shape
<1>4. height \in 1 .. MaxHeight /\ MaxHeight \in Nat
  BY Zenon DEF Clock, SteadyChain
<1>5. height' \in 1 .. MaxHeight /\ \A n \in 0 .. height : n \in 0 .. height' /\ n < height'
  BY ONLY <1>2, <1>4
<1>6. Clock'
  BY Zenon, <1>1, <1>2, <1>5 DEF Clock
<1>7. \A q \in steemPayouts : q.id \in DOMAIN withdrawal /\ (Fits(q)' <=> Fits(q))
  BY Zenon, <1>1 DEF Clock, Fits
<1>8. ASSUME NEW p \in steemPayouts, Fits(p)
      PROVE  PaidInTime(p)'
  <2>1. PaidInTime(p) /\ p.id \in DOMAIN withdrawal /\ p.at < height'
    BY Zenon, <1>5, <1>8 DEF InTime, Clock
  <2>2. /\ \A q \in steemPayouts' : q.id = p.id /\ Fits(q)' => q = p
        /\ p.at + PayoutMargin
              <= withdrawal'[p.id].createdAt + params'.WithdrawalTimeoutBlocks
        /\ CheckSteemBlock(p.block)'
    BY Zenon, <1>1, <1>2, <1>7, <2>1 DEF PaidInTime, CheckSteemBlock
  <2>3. CASE p.id \in R
    <3>1. ~params.BridgeOutEnabled \/ enabledSince > p.at
      BY Zenon, <1>1, <1>8, <2>1, <2>3, RefundMeansPause
    <3>2. withdrawal'[p.id].status = "REFUNDED"
      BY Zenon, <1>1, <2>1, <2>3
    <3>3. QED
      BY Zenon, <1>2, <2>1, <2>2, <3>1, <3>2 DEF PaidInTime
  <2>4. CASE p.id \notin R
    <3>1. withdrawal'[p.id] = withdrawal[p.id]
      BY Zenon, <1>1, <2>1, <2>4
    <3>2. QED
      BY Zenon, <1>2, <1>3, <2>1, <2>2, <3>1 DEF PaidInTime
  <2>5. QED
    BY Zenon, <2>3, <2>4
<1>9. InTime'
  BY Zenon, <1>2, <1>7, <1>8 DEF InTime
<1>10. QED
  BY Zenon, <1>6, <1>9

(***************************************************************************)
(* A pause that ends after a refund ends in a later block than the payout. *)
(***************************************************************************)
LEMMA GovernKeepsInTime ==
    ASSUME SteadyChain, IInv, Clock, InTime, Govern
    PROVE  Clock' /\ InTime'
<1>1. /\ UNCHANGED <<height, bonded, withdrawal, withdrawalConfirmedBy, steemPayouts>>
      /\ params' \in ParamChoices
      /\ enabledSince' = IF params'.BridgeOutEnabled /\ ~params.BridgeOutEnabled
                            THEN height ELSE enabledSince
  BY Zenon DEF Govern, UpdateParams, withdrawalVars, stakeVars
<1>2. /\ params'.WithdrawalTimeoutBlocks = params.WithdrawalTimeoutBlocks
      /\ params'.RelayerStartBlock = params.RelayerStartBlock
  BY Zenon, <1>1 DEF SteadyChain, IInv, Shape
<1>3. height \in 1 .. MaxHeight /\ MaxHeight \in Nat
  BY Zenon DEF Clock, SteadyChain
<1>4. height \in 0 .. height /\ \A n \in 0 .. height : n < height => height > n
  BY ONLY <1>3
<1>5. Clock'
  BY Zenon, <1>1, <1>4 DEF Clock
<1>6. \A q : Fits(q)' <=> Fits(q)
  BY Zenon, <1>1 DEF Fits
<1>7. ASSUME NEW p \in steemPayouts, Fits(p)
      PROVE  PaidInTime(p)'
  <2>1. PaidInTime(p) /\ p.at \in 0 .. height
    BY Zenon, <1>7 DEF InTime, Clock
  <2>2. /\ \A q \in steemPayouts' : q.id = p.id /\ Fits(q)' => q = p
        /\ p.at + PayoutMargin
              <= withdrawal'[p.id].createdAt + params'.WithdrawalTimeoutBlocks
        /\ CheckSteemBlock(p.block)'
    BY Zenon, <1>1, <1>2, <1>6, <2>1 DEF PaidInTime, CheckSteemBlock
  <2>3. ASSUME withdrawal[p.id].status = "REFUNDED"
        PROVE  p.at < height' /\ (~params'.BridgeOutEnabled \/ enabledSince' > p.at)
    <3>1. p.at < height /\ (~params.BridgeOutEnabled \/ enabledSince > p.at)
      BY Zenon, <2>1, <2>3 DEF PaidInTime
    <3>2. height > p.at
      BY Zenon, <1>4, <2>1, <3>1
    <3>3. CASE params'.BridgeOutEnabled /\ ~params.BridgeOutEnabled
      BY Zenon, <1>1, <3>1, <3>2, <3>3
    <3>4. CASE ~(params'.BridgeOutEnabled /\ ~params.BridgeOutEnabled)
      BY Zenon, <1>1, <3>1, <3>4
    <3>5. QED
      BY Zenon, <3>3, <3>4
  <2>4. QED
    BY Zenon, <1>1, <2>1, <2>2, <2>3 DEF PaidInTime
<1>8. InTime'
  BY Zenon, <1>1, <1>6, <1>7 DEF InTime
<1>9. QED
  BY Zenon, <1>5, <1>8

LEMMA RequestKeepsInTime ==
    ASSUME SteadyChain, IInv, Clock, InTime, Request
    PROVE  Clock' /\ InTime'
<1>1. PICK r \in Requests : BridgeOut(r)
  BY Zenon DEF Request
<1>2. UNCHANGED <<height, params, bonded, withdrawalConfirmedBy, steemPayouts, enabledSince>>
  BY Zenon, <1>1 DEF Request, BridgeOut, worldVars, stakeVars
<1>3. /\ withdrawalSeq \in Nat /\ DOMAIN withdrawal = Ids(withdrawalSeq)
      /\ DOMAIN withdrawal' = Ids(withdrawalSeq + 1)
      /\ \A i \in DOMAIN withdrawal : withdrawal'[i] = withdrawal[i]
      /\ withdrawal'[withdrawalSeq].createdAt = height
  BY Zenon, <1>1, RequestEffect DEF IInv, Shape
<1>4. Ids(withdrawalSeq + 1) = Ids(withdrawalSeq) \cup {withdrawalSeq}
  BY ONLY <1>3 DEF Ids
<1>5. height \in 1 .. MaxHeight /\ MaxHeight \in Nat
  BY Zenon DEF Clock, SteadyChain
<1>6. height \in 0 .. height
  BY ONLY <1>5
<1>7. Clock'
  BY Zenon, <1>2, <1>3, <1>4, <1>6 DEF Clock
<1>8. \A p \in steemPayouts : p.id \in DOMAIN withdrawal /\ withdrawal'[p.id] = withdrawal[p.id]
  BY Zenon, <1>3 DEF Clock
<1>9. InTime'
  <2>1. \A p \in steemPayouts : Fits(p)' <=> Fits(p)
    BY Zenon, <1>8 DEF Fits
  <2>2. \A block : CheckSteemBlock(block)' <=> CheckSteemBlock(block)
    BY Zenon, <1>2 DEF CheckSteemBlock
  <2>3. \A p \in steemPayouts : PaidInTime(p) => PaidInTime(p)'
    BY Zenon, <1>2, <1>8, <2>1, <2>2 DEF PaidInTime
  <2>4. QED
    BY Zenon, <1>2, <2>1, <2>3 DEF InTime
<1>10. QED
  BY Zenon, <1>7, <1>9

LEMMA NextKeepsInTime ==
    ASSUME FaultyAreMinority, SteadyChain
    PROVE  IInv /\ Truth /\ (Clock /\ InTime) /\ [Next]_vars => (Clock /\ InTime)'
<1> SUFFICES ASSUME IInv, Truth, Clock, InTime, [Next]_vars PROVE Clock' /\ InTime'
  BY Zenon
<1>1. CASE Restake \/ UNCHANGED vars
  <2>1. UNCHANGED <<height, params, bonded, withdrawalVars, worldVars>>
    BY Zenon, <1>1 DEF Restake, vars, baseVars
  <2>2. QED
    BY Zenon, <2>1 DEF Clock, InTime, PaidInTime, Fits, CheckSteemBlock, withdrawalVars, worldVars
<1>2. QED
  BY Zenon, <1>1, AttestKeepsInTime, PayKeepsInTime, BlockKeepsInTime, GovernKeepsInTime,
     RequestKeepsInTime DEF Next

(***************************************************************************)
(* A withdrawal that the signers paid in time is refunded as well only if  *)
(* governance paused bridge-out after the payout: for every number of      *)
(* validators, requests and payouts, as long as no faulty set holds the    *)
(* threshold and the chain is steady (payoutFacts' margin, the tally of    *)
(* AttestWithdrawalPayout and RefundExpiredWithdrawals).                   *)
(***************************************************************************)
THEOREM PaidAndRefundedOnlyIfPaused ==
    ASSUME FaultyAreMinority, SteadyChain
    PROVE  Spec => []RefundedOnlyIfPaused
<1>1. Init => Clock /\ InTime
  <2>1. 1 \in 1 .. MaxHeight /\ 1 \in 0 .. 1
    BY DEF SteadyChain
  <2>2. QED
    BY Zenon, <2>1 DEF Init, BaseInit, Clock, InTime
<1>2. Init => Truth
  BY Zenon DEF Init, Truth, HonestVotes
<1>3. IInv /\ Truth /\ [Next]_vars => Truth'
  BY Zenon, NextKeepsTruth
<1>4. IInv /\ Truth /\ (Clock /\ InTime) /\ [Next]_vars => (Clock /\ InTime)'
  BY Zenon, NextKeepsInTime
<1>5. Clock /\ InTime => RefundedOnlyIfPaused
  BY Zenon DEF InTime, PaidInTime, Fits, RefundedOnlyIfPaused
<1>6. Spec => []IInv
  BY Invariance, PTL
<1>7. QED
  BY <1>1, <1>2, <1>3, <1>4, <1>5, <1>6, PTL DEF Spec

-----------------------------------------------------------------------------
(* Sums over withdrawals. *)

\* The withdrawals among ids that are in asset a, and what val adds up to on them.
InAsset(w, ids, a) == {i \in ids : w[i].facts.asset = a}
SumIn(w, val, ids, a) == Sum(val, InAsset(w, ids, a))

NetOf(w) == [i \in DOMAIN w |-> MillisteemToAsteem(w[i].facts.amount)]
FeeOf(w) == [i \in DOMAIN w |-> MillisteemToAsteem(w[i].fee)]

LEMMA InAssetFinite ==
    ASSUME NEW w, NEW ids, IsFiniteSet(ids), NEW a
    PROVE  InAsset(w, ids, a) \subseteq ids /\ IsFiniteSet(InAsset(w, ids, a))
  BY FS_Subset DEF InAsset

LEMMA SumInNat ==
    ASSUME NEW w, NEW ids, IsFiniteSet(ids), NEW val, \A i \in ids : val[i] \in Nat, NEW a
    PROVE  SumIn(w, val, ids, a) \in Nat
<1>1. \A i \in InAsset(w, ids, a) : val[i] \in Nat
  BY Zenon, InAssetFinite
<1>2. QED
  BY Zenon, <1>1, InAssetFinite, SumNat DEF SumIn

\* Only the assets and values of the withdrawals in ids matter.
LEMMA SumInSame ==
    ASSUME NEW ids, IsFiniteSet(ids), NEW w, NEW x, NEW f, NEW g, NEW a,
           \A i \in ids : /\ f[i] \in Nat /\ g[i] = f[i]
                          /\ x[i].facts.asset = w[i].facts.asset
    PROVE  SumIn(x, g, ids, a) = SumIn(w, f, ids, a)
<1>1. InAsset(x, ids, a) = InAsset(w, ids, a)
  BY Zenon DEF InAsset
<1>2. \A i \in InAsset(w, ids, a) : f[i] \in Int /\ g[i] = f[i]
  BY InAssetFinite
<1>3. Sum(g, InAsset(w, ids, a)) = Sum(f, InAsset(w, ids, a))
  BY Zenon, <1>2, InAssetFinite, SumSame
<1>4. QED
  BY Zenon, <1>1, <1>3 DEF SumIn

LEMMA SumInAdd ==
    ASSUME NEW w, NEW ids, IsFiniteSet(ids), NEW n, n \notin ids, NEW a,
           NEW val, \A i \in ids : val[i] \in Nat, val[n] \in Nat
    PROVE  SumIn(w, val, ids \cup {n}, a) =
              SumIn(w, val, ids, a) + (IF w[n].facts.asset = a THEN val[n] ELSE 0)
<1>1. /\ IsFiniteSet(InAsset(w, ids, a)) /\ n \notin InAsset(w, ids, a)
      /\ val[n] \in Int /\ \A i \in InAsset(w, ids, a) : val[i] \in Int
  BY InAssetFinite
<1>2. CASE w[n].facts.asset = a
  <2>1. InAsset(w, ids \cup {n}, a) = InAsset(w, ids, a) \cup {n}
    BY Zenon, <1>2 DEF InAsset
  <2>2. Sum(val, InAsset(w, ids, a) \cup {n}) = Sum(val, InAsset(w, ids, a)) + val[n]
    BY Zenon, <1>1, SumAdd
  <2>3. QED
    BY Zenon, <1>2, <2>1, <2>2 DEF SumIn
<1>3. CASE w[n].facts.asset # a
  <2>1. InAsset(w, ids \cup {n}, a) = InAsset(w, ids, a)
    BY Zenon, <1>3 DEF InAsset
  <2>2. SumIn(w, val, ids, a) \in Nat
    BY Zenon, SumInNat
  <2>3. SumIn(w, val, ids \cup {n}, a) = SumIn(w, val, ids, a)
    BY Zenon, <2>1 DEF SumIn
  <2>4. QED
    BY <1>3, <2>2, <2>3
<1>4. QED
  BY Zenon, <1>2, <1>3

LEMMA SumInUnion ==
    ASSUME NEW w, NEW ids, NEW R, IsFiniteSet(ids), IsFiniteSet(R), ids \cap R = {}, NEW a,
           NEW val, \A i \in ids \cup R : val[i] \in Nat
    PROVE  SumIn(w, val, ids \cup R, a) = SumIn(w, val, ids, a) + SumIn(w, val, R, a)
<1>1. /\ IsFiniteSet(InAsset(w, ids, a)) /\ IsFiniteSet(InAsset(w, R, a))
      /\ InAsset(w, ids, a) \cap InAsset(w, R, a) = {}
      /\ \A i \in InAsset(w, ids, a) \cup InAsset(w, R, a) : val[i] \in Int
  BY InAssetFinite
<1>2. InAsset(w, ids \cup R, a) = InAsset(w, ids, a) \cup InAsset(w, R, a)
  BY Zenon DEF InAsset
<1>3. Sum(val, InAsset(w, ids, a) \cup InAsset(w, R, a))
         = Sum(val, InAsset(w, ids, a)) + Sum(val, InAsset(w, R, a))
  BY Zenon, <1>1, SumUnion
<1>4. QED
  BY Zenon, <1>2, <1>3 DEF SumIn

\* Sender by sender.
LEMMA SumInBySender ==
    ASSUME NEW w, NEW R, IsFiniteSet(R), NEW a, NEW H, IsFiniteSet(H),
           \A i \in R : w[i].sender \in H,
           NEW val, \A i \in R : val[i] \in Nat
    PROVE  Sum([h \in H |-> SumIn(w, val, {i \in R : w[i].sender = h}, a)], H)
              = SumIn(w, val, R, a)
<1> DEFINE S == InAsset(w, R, a)
           key == [i \in R |-> w[i].sender]
           g == [h \in H |-> SumIn(w, val, {i \in R : w[i].sender = h}, a)]
<1>1. S \subseteq R /\ IsFiniteSet(S)
  BY Zenon, InAssetFinite
<1>2. \A i \in S : val[i] \in Int /\ key[i] \in H
  BY <1>1
<1>3. ASSUME NEW h \in H
      PROVE  g[h] = Sum(val, {i \in S : key[i] = h})
  <2>1. InAsset(w, {i \in R : w[i].sender = h}, a) = {i \in S : key[i] = h}
    BY Zenon DEF InAsset
  <2>2. QED
    BY Zenon, <2>1 DEF SumIn
<1> HIDE DEF S, key, g
<1>4. \A i \in S : val[i] \in Int
  BY Zenon, <1>2
<1>5. SumsByKey(val, S, key, H, g)
  BY Zenon, <1>2, <1>3 DEF SumsByKey
<1>6. Sum(g, H) = Sum(val, S)
  BY <1>1, <1>4, <1>5, SumByKey
<1>7. QED
  BY Zenon, <1>6 DEF g, S, SumIn

-----------------------------------------------------------------------------
(* The books. *)

Balances == [Holders -> [Assets -> Nat]]
FeePots == [collector : [Assets -> Nat], community : [Assets -> Nat],
            stakers : [Assets -> Nat]]
Totals == [minted : [Assets -> Nat], burned : [Assets -> Nat]]

(***************************************************************************)
(* No balance, total or pot is negative, no withdrawal is from the future. *)
(***************************************************************************)
Amounts ==
    /\ bank \in Balances /\ fees \in FeePots /\ totals \in Totals
    /\ \A i \in DOMAIN withdrawal : withdrawal[i].createdAt <= height

\* The coins that can be spent: all but those in the black hole.
Spendable(bal, a) == Sum([h \in Holders |-> bal[h][a]], Holders \ {BlackHole})

(***************************************************************************)
(* Asset by asset: the totals differ by what is not owed; the coins, the   *)
(* pots and what was burned add up to what there was at first, less what   *)
(* is owed; the black hole, bridge_reward and the fee collector hold what  *)
(* this block's withdrawals brought and what the last one's fees left; and *)
(* the earlier fees are with the stakers, the community and burned.        *)
(***************************************************************************)
Balanced(a) ==
    LET made == MadeBefore(height)
    IN  /\ totals.burned[a] <= totals.minted[a]
        /\ totals.minted[a] - totals.burned[a] = InitialSum(Bridged, a) - RefundOf(Owing, a)
        /\ Spendable(bank, a) + fees.collector[a] + fees.stakers[a] + 2 * fees.community[a]
              = InitialSum(Bridged, a) + InitialSum(Unbridged, a) - RefundOf(Owing, a)
        /\ bank[BlackHole][a]
              = RefundOf(MadeIn(height), a) + TxFeesOf(MadeIn(height - 1), a) \div 4
        /\ bank[BridgeReward][a] = BridgeFeesOf(MadeIn(height), a)
        /\ fees.collector[a] = TxFeesOf(MadeIn(height), a)
        /\ fees.stakers[a] + 2 * fees.community[a] = BridgeFeesOf(made, a) + TxFeesOf(made, a)
        /\ 4 * fees.community[a] <= TxFeesOf(made, a)

Books == Amounts /\ \A a \in Assets : Balanced(a)

-----------------------------------------------------------------------------
(* What the handlers do to the books. *)

On(a, asset, n) == IF a = asset THEN n ELSE 0

(***************************************************************************)
(* A request x moves its net amount to the black hole, its bridge fee to   *)
(* bridge_reward and the transaction's fee to the collector.               *)
(***************************************************************************)
RequestMoves(x, a) ==
    LET net == On(a, x.facts.asset, MillisteemToAsteem(x.facts.amount))
        fee == On(a, x.facts.asset, MillisteemToAsteem(x.fee))
        tx == On(a, "STEEM", TxFee)
    IN  /\ net \in Nat /\ fee \in Nat /\ tx \in Nat
        /\ totals'.minted[a] = totals.minted[a]
        /\ totals'.burned[a] = totals.burned[a] + net
        /\ net = 0 \/ totals.burned[a] + net <= totals.minted[a]
        /\ tx + net + fee <= bank[x.sender][a]
        /\ bank'[x.sender][a] = bank[x.sender][a] - tx - net - fee
        /\ bank'[BlackHole][a] = bank[BlackHole][a] + net
        /\ bank'[BridgeReward][a] = bank[BridgeReward][a] + fee
        /\ \A h \in Users \ {x.sender} : bank'[h][a] = bank[h][a]
        /\ fees'.collector[a] = fees.collector[a] + tx
        /\ fees'.community[a] = fees.community[a] /\ fees'.stakers[a] = fees.stakers[a]

LEMMA AssetsAndHolders ==
    /\ "STEEM" \in Assets /\ "SBD" \in Assets
    /\ BlackHole \in Holders /\ BridgeReward \in Holders /\ BlackHole # BridgeReward
    /\ Users \subseteq Holders /\ BlackHole \notin Users /\ BridgeReward \notin Users
    /\ Holders \ {BlackHole} = Users \cup {BridgeReward}
    /\ IsFiniteSet(Users) /\ IsFiniteSet(Holders \ {BlackHole}) /\ TxFee \in Nat
<1>1. BlackHole # BridgeReward
  BY DEF BlackHole, BridgeReward
<1>2. IsFiniteSet(Users \cup {BridgeReward})
  BY FS_AddElement, BaseAssumption
<1>3. Holders \ {BlackHole} = Users \cup {BridgeReward}
  BY <1>1, BaseAssumption DEF Holders
<1>4. IsFiniteSet(Holders \ {BlackHole})
  BY Zenon, <1>2, <1>3
<1>5. QED
  BY Zenon, <1>1, <1>3, <1>4, BaseAssumption, WithdrawalAssumption DEF Assets, Holders

LEMMA RequestBooks ==
    ASSUME Shape, Amounts, NEW r \in Requests, BridgeOut(r),
           NEW x, x = withdrawal'[withdrawalSeq]
    PROVE  /\ x.sender \in Users /\ x.createdAt = height
           /\ x.facts.asset \in Assets /\ x.facts.amount \in Nat /\ x.fee \in Nat
           /\ \A a \in Assets : RequestMoves(x, a)
           /\ bank' \in Balances /\ fees' \in FeePots /\ totals' \in Totals
<1> DEFINE gross == r.amount \div Factor
           split == ApplyBridgeFee(gross, params.BridgeFeeBps)
           N == MillisteemToAsteem(split.net)
           F == MillisteemToAsteem(split.fee)
<1>1. r.sender \in Users /\ r.asset \in Assets
  BY Zenon, WithdrawalAssumption DEF RequestRecords
<1>2. /\ x.sender = r.sender /\ x.createdAt = height /\ x.facts.asset = r.asset
      /\ [net |-> x.facts.amount, fee |-> x.fee] = split /\ gross \in Nat
  BY Zenon, RequestEffect
<1>3. split.net \in Nat /\ split.fee \in Nat /\ split.net + split.fee = gross
  BY Zenon, <1>2, ParamTypes, FeeConserved
<1>4. x.facts.amount = split.net /\ x.fee = split.fee
  BY <1>2 DEF ApplyBridgeFee
<1>5. /\ WithinBridged(r.asset, split.net)
      /\ bank[r.sender]["STEEM"] >= TxFee
      /\ FeePaid(r.sender)[r.sender][r.asset] >= MillisteemToAsteem(gross)
      /\ bank' = WithdrawnBank(FeePaid(r.sender), r.sender, r.asset, split)
      /\ fees' = [fees EXCEPT !.collector["STEEM"] = @ + TxFee]
      /\ totals' = [totals EXCEPT !.burned[r.asset] = @ + N]
  BY Zenon DEF BridgeOut
<1> HIDE DEF split, gross
<1>6. N \in Nat /\ F \in Nat /\ MillisteemToAsteem(gross) = N + F
  BY <1>2, <1>3, AsteemType, BaseAssumption DEF MillisteemToAsteem
<1> HIDE DEF N, F
<1> DEFINE paid == FeePaid(r.sender)
<1>7. /\ paid \in [Holders -> [Assets -> Int]]
      /\ \A h \in Holders, a \in Assets :
            paid[h][a] = bank[h][a] - (IF h = r.sender THEN On(a, "STEEM", TxFee) ELSE 0)
  BY <1>1, AssetsAndHolders DEF FeePaid, Amounts, Balances, On
<1> HIDE DEF paid
<1>8. \A h \in Holders, a \in Assets :
         bank'[h][a] = paid[h][a] + On(a, r.asset,
             IF h = r.sender THEN 0 - N - F
             ELSE IF h = BlackHole THEN N ELSE IF h = BridgeReward THEN F ELSE 0)
  BY <1>1, <1>5, <1>6, <1>7, AssetsAndHolders DEF WithdrawnBank, On, N, F, paid
<1>9. bank' \in [Holders -> [Assets -> Int]]
  BY <1>1, <1>5, <1>6, <1>7, AssetsAndHolders DEF WithdrawnBank, N, F, paid
<1>10. fees' \in FeePots /\ totals' \in Totals
  BY <1>1, <1>5, <1>6, AssetsAndHolders DEF Amounts, FeePots, Totals
<1>11. /\ totals.minted[r.asset] \in Nat /\ totals.burned[r.asset] \in Nat
       /\ totals.burned[r.asset] + N <= totals.minted[r.asset]
       /\ paid[r.sender][r.asset] >= N + F
  BY Zenon, <1>1, <1>5, <1>6 DEF Amounts, Totals, WithinBridged, N, paid
<1>12. \A a \in Assets :
          /\ totals'.minted[a] = totals.minted[a]
          /\ totals'.burned[a] = totals.burned[a] + On(a, r.asset, N)
          /\ fees'.collector[a] = fees.collector[a] + On(a, "STEEM", TxFee)
          /\ fees'.community[a] = fees.community[a] /\ fees'.stakers[a] = fees.stakers[a]
  BY <1>1, <1>5, <1>6, AssetsAndHolders DEF Amounts, FeePots, Totals, On
<1>13. ASSUME NEW a \in Assets
       PROVE  RequestMoves(x, a)
  <2> DEFINE net == On(a, r.asset, N)
             fee == On(a, r.asset, F)
             tx == On(a, "STEEM", TxFee)
  <2>1. net \in Nat /\ fee \in Nat /\ tx \in Nat
    BY <1>6, AssetsAndHolders DEF On
  <2>2. net = On(a, x.facts.asset, MillisteemToAsteem(x.facts.amount))
    BY Zenon, <1>2, <1>4 DEF N
  <2>3. fee = On(a, x.facts.asset, MillisteemToAsteem(x.fee))
    BY Zenon, <1>2, <1>4 DEF F
  <2>4. /\ bank[r.sender][a] \in Nat /\ bank[BlackHole][a] \in Nat
        /\ bank[BridgeReward][a] \in Nat /\ \A h \in Users : bank[h][a] \in Nat
    BY Zenon, <1>1, AssetsAndHolders DEF Amounts, Balances
  <2>5. /\ bank'[r.sender][a] = bank[r.sender][a] - tx - net - fee
        /\ bank'[BlackHole][a] = bank[BlackHole][a] + net
        /\ bank'[BridgeReward][a] = bank[BridgeReward][a] + fee
        /\ \A h \in Users \ {r.sender} : bank'[h][a] = bank[h][a]
    BY <1>1, <1>6, <1>7, <1>8, <2>1, <2>4, AssetsAndHolders DEF On
  <2>6. tx + net + fee <= bank[r.sender][a]
    BY <1>1, <1>5, <1>6, <1>7, <1>11, <2>4, AssetsAndHolders DEF On
  <2>7. net = 0 \/ totals.burned[a] + net <= totals.minted[a]
    BY <1>11 DEF On
  <2> HIDE DEF net, fee, tx
  <2>8. /\ totals'.minted[a] = totals.minted[a]
        /\ totals'.burned[a] = totals.burned[a] + net
        /\ fees'.collector[a] = fees.collector[a] + tx
        /\ fees'.community[a] = fees.community[a] /\ fees'.stakers[a] = fees.stakers[a]
    BY Zenon, <1>12 DEF net, tx
  <2>9. tx = On(a, "STEEM", TxFee) /\ x.sender = r.sender
    BY Zenon, <1>2 DEF tx
  <2>10. QED
    BY Zenon, <2>1, <2>2, <2>3, <2>5, <2>6, <2>7, <2>8, <2>9 DEF RequestMoves
<1>14. ASSUME NEW h \in Holders, NEW a \in Assets
       PROVE  bank'[h][a] \in Nat
  <2>1. bank[h][a] \in Nat
    BY Zenon DEF Amounts, Balances
  <2>2. h = r.sender \/ h = BlackHole \/ h = BridgeReward \/ h \in Users \ {r.sender}
    BY Zenon, <1>1 DEF Holders
  <2>3. QED
    BY <1>2, <1>13, <2>1, <2>2 DEF RequestMoves
<1>15. bank' \in Balances
  <2>1. DOMAIN bank' = Holders /\ \A h \in Holders : bank'[h] \in [Assets -> Nat]
    BY <1>9, <1>14
  <2>2. QED
    BY <1>9, <2>1 DEF Balances
<1>16. QED
  BY Zenon, <1>1, <1>2, <1>3, <1>4, <1>10, <1>13, <1>15

-----------------------------------------------------------------------------
(* How the sums move. *)

Terms(w) == \A i \in DOMAIN w : w[i].facts.amount \in Nat /\ w[i].fee \in Nat

LEMMA StoredTerms ==
    ASSUME NEW n \in Nat, NEW w \in [Ids(n) -> WithdrawalRecords]
    PROVE  /\ DOMAIN w = Ids(n) /\ IsFiniteSet(Ids(n)) /\ Terms(w)
           /\ \A i \in Ids(n) : w[i].sender \in Users /\ w[i].createdAt \in Nat
<1>1. IsFiniteSet(Ids(n))
  BY FS_Interval DEF Ids
<1>2. QED
  BY Zenon, <1>1 DEF Terms, WithdrawalRecords, PayoutFactRecords

LEMMA NetFeeTyped ==
    ASSUME NEW w, Terms(w), NEW i \in DOMAIN w
    PROVE  NetOf(w)[i] \in Nat /\ FeeOf(w)[i] \in Nat
  BY Zenon, AsteemType DEF NetOf, FeeOf, Terms

LEMMA SubsetsFinite ==
    ASSUME IsFiniteSet(DOMAIN withdrawal)
    PROVE  /\ Owing \subseteq DOMAIN withdrawal /\ IsFiniteSet(Owing)
           /\ \A h : MadeIn(h) \subseteq DOMAIN withdrawal /\ IsFiniteSet(MadeIn(h))
           /\ \A h : MadeBefore(h) \subseteq DOMAIN withdrawal /\ IsFiniteSet(MadeBefore(h))
<1>1. \A ids \in SUBSET DOMAIN withdrawal : IsFiniteSet(ids)
  BY FS_Subset
<1>2. QED
  BY Zenon, <1>1 DEF Owing, MadeIn, MadeBefore

\* A step that keeps the terms of these withdrawals keeps their sums.
LEMMA SumsKept ==
    ASSUME NEW w, NEW y, NEW ids, IsFiniteSet(ids), ids \subseteq DOMAIN w,
           ids \subseteq DOMAIN y, Terms(w), \A i \in ids : SameTerms(y[i], w[i]), NEW a
    PROVE  /\ SumIn(y, NetOf(y), ids, a) = SumIn(w, NetOf(w), ids, a)
           /\ SumIn(y, FeeOf(y), ids, a) = SumIn(w, FeeOf(w), ids, a)
<1>1. \A i \in ids : /\ NetOf(w)[i] \in Nat /\ NetOf(y)[i] = NetOf(w)[i]
                     /\ FeeOf(w)[i] \in Nat /\ FeeOf(y)[i] = FeeOf(w)[i]
                     /\ y[i].facts.asset = w[i].facts.asset
  BY Zenon, NetFeeTyped DEF NetOf, FeeOf, SameTerms
<1>2. SumIn(y, NetOf(y), ids, a) = SumIn(w, NetOf(w), ids, a)
  BY <1>1, SumInSame
<1>3. SumIn(y, FeeOf(y), ids, a) = SumIn(w, FeeOf(w), ids, a)
  BY <1>1, SumInSame
<1>4. QED
  BY Zenon, <1>2, <1>3

\* One more withdrawal adds its amounts, in its asset.
LEMMA SumsGrow ==
    ASSUME NEW w, NEW y, NEW ids, IsFiniteSet(ids), ids \subseteq DOMAIN w,
           ids \subseteq DOMAIN y, Terms(w), \A i \in ids : SameTerms(y[i], w[i]), NEW a,
           Terms(y), NEW n \in DOMAIN y, n \notin ids
    PROVE  /\ SumIn(y, NetOf(y), ids \cup {n}, a) = SumIn(w, NetOf(w), ids, a)
                 + On(a, y[n].facts.asset, MillisteemToAsteem(y[n].facts.amount))
           /\ SumIn(y, FeeOf(y), ids \cup {n}, a) = SumIn(w, FeeOf(w), ids, a)
                 + On(a, y[n].facts.asset, MillisteemToAsteem(y[n].fee))
<1>1. /\ \A i \in ids : NetOf(y)[i] \in Nat /\ FeeOf(y)[i] \in Nat
      /\ NetOf(y)[n] \in Nat /\ FeeOf(y)[n] \in Nat
  BY Zenon, NetFeeTyped
<1>2. /\ NetOf(y)[n] = MillisteemToAsteem(y[n].facts.amount)
      /\ FeeOf(y)[n] = MillisteemToAsteem(y[n].fee)
  BY Zenon DEF NetOf, FeeOf
<1>3. ASSUME NEW val, \A i \in ids : val[i] \in Nat, val[n] \in Nat
      PROVE  SumIn(y, val, ids \cup {n}, a) = SumIn(y, val, ids, a)
                + (IF y[n].facts.asset = a THEN val[n] ELSE 0)
  BY ONLY <1>3, IsFiniteSet(ids), n \notin ids, SumInAdd
<1>4. /\ SumIn(y, NetOf(y), ids \cup {n}, a) = SumIn(y, NetOf(y), ids, a)
            + (IF y[n].facts.asset = a THEN NetOf(y)[n] ELSE 0)
      /\ SumIn(y, FeeOf(y), ids \cup {n}, a) = SumIn(y, FeeOf(y), ids, a)
            + (IF y[n].facts.asset = a THEN FeeOf(y)[n] ELSE 0)
  BY Zenon, <1>1, <1>3
<1>5. /\ SumIn(y, NetOf(y), ids, a) = SumIn(w, NetOf(w), ids, a)
      /\ SumIn(y, FeeOf(y), ids, a) = SumIn(w, FeeOf(w), ids, a)
  BY SumsKept
<1>6. QED
  BY Zenon, <1>2, <1>4, <1>5 DEF On

LEMMA TxFees ==
    ASSUME NEW ids, IsFiniteSet(ids), NEW a
    PROVE  /\ TxFeesOf(ids, a) \in Nat
           /\ \A n : n \notin ids =>
                 TxFeesOf(ids \cup {n}, a) = TxFeesOf(ids, a) + On(a, "STEEM", TxFee)
<1>1. Cardinality(ids) \in Nat /\ TxFee \in Nat
  BY Zenon, FS_CardinalityType, WithdrawalAssumption
<1>2. ASSUME NEW n, n \notin ids
      PROVE  Cardinality(ids \cup {n}) = Cardinality(ids) + 1
  BY Zenon, <1>2, FS_AddElement
<1>3. QED
  BY <1>1, <1>2 DEF TxFeesOf, On

LEMMA TxFeesUnion ==
    ASSUME NEW ids, IsFiniteSet(ids), NEW R, IsFiniteSet(R), ids \cap R = {}, NEW a
    PROVE  TxFeesOf(ids \cup R, a) = TxFeesOf(ids, a) + TxFeesOf(R, a)
<1>1. /\ Cardinality(ids) \in Nat /\ Cardinality(R) \in Nat /\ TxFee \in Nat
      /\ Cardinality({}) = 0
  BY Zenon, FS_CardinalityType, FS_EmptySet, WithdrawalAssumption
<1>2. Cardinality(ids \cup R) = Cardinality(ids) + Cardinality(R) - Cardinality(ids \cap R)
  BY Zenon, FS_Union
<1>3. Cardinality(ids \cap R) = 0
  BY Zenon, <1>1
<1>4. Cardinality(ids \cup R) = Cardinality(ids) + Cardinality(R)
  BY <1>1, <1>2, <1>3
<1>5. QED
  BY <1>1, <1>4 DEF TxFeesOf

\* The users' coins, and bridge_reward's.
OfUsers(bal, a) == Sum([u \in Users |-> bal[u][a]], Users)

LEMMA SpendableSplit ==
    ASSUME NEW bal \in Balances, NEW a \in Assets
    PROVE  /\ OfUsers(bal, a) \in Nat /\ bal[BridgeReward][a] \in Nat
           /\ Spendable(bal, a) = OfUsers(bal, a) + bal[BridgeReward][a]
<1> DEFINE f == [h \in Holders |-> bal[h][a]]
           g == [u \in Users |-> bal[u][a]]
<1>1. /\ \A u \in Users : f[u] \in Nat /\ g[u] = f[u]
      /\ f[BridgeReward] = bal[BridgeReward][a] /\ f[BridgeReward] \in Nat
  BY Zenon, AssetsAndHolders DEF Balances
<1> HIDE DEF f, g
<1>2. /\ \A u \in Users : f[u] \in Int /\ g[u] = f[u] /\ g[u] \in Nat
      /\ f[BridgeReward] \in Int
  BY <1>1
<1>3. Sum(f, Users \cup {BridgeReward}) = Sum(f, Users) + f[BridgeReward]
  BY Zenon, <1>2, SumAdd, AssetsAndHolders
<1>4. Sum(g, Users) = Sum(f, Users)
  BY Zenon, <1>2, SumSame, AssetsAndHolders
<1>5. Sum(g, Users) \in Nat
  BY Zenon, <1>2, SumNat, AssetsAndHolders
<1>6. Spendable(bal, a) = Sum(f, Users \cup {BridgeReward})
  BY Zenon, AssetsAndHolders DEF Spendable, f
<1>7. QED
  BY Zenon, <1>1, <1>3, <1>4, <1>5, <1>6 DEF OfUsers, g

-----------------------------------------------------------------------------
(* The books stay balanced. *)

LEMMA SumsOf ==
    /\ \A ids, a : RefundOf(ids, a) = SumIn(withdrawal, NetOf(withdrawal), ids, a)
    /\ \A ids, a : BridgeFeesOf(ids, a) = SumIn(withdrawal, FeeOf(withdrawal), ids, a)
    /\ \A ids, a : RefundOf(ids, a)' = SumIn(withdrawal', NetOf(withdrawal'), ids', a')
    /\ \A ids, a : BridgeFeesOf(ids, a)' = SumIn(withdrawal', FeeOf(withdrawal'), ids', a')
  BY Zenon DEF RefundOf, BridgeFeesOf, SumIn, InAsset, NetOf, FeeOf

BookTypes(a) ==
    /\ totals.burned[a] \in Nat /\ totals.minted[a] \in Nat
    /\ fees.collector[a] \in Nat /\ fees.stakers[a] \in Nat /\ fees.community[a] \in Nat
    /\ bank[BlackHole][a] \in Nat /\ bank[BridgeReward][a] \in Nat
    /\ InitialSum(Bridged, a) \in Nat /\ InitialSum(Unbridged, a) \in Nat
    /\ RefundOf(Owing, a) \in Nat /\ RefundOf(MadeIn(height), a) \in Nat
    /\ TxFeesOf(MadeIn(height), a) \in Nat /\ TxFeesOf(MadeIn(height - 1), a) \in Nat
    /\ TxFeesOf(MadeBefore(height), a) \in Nat
    /\ BridgeFeesOf(MadeIn(height), a) \in Nat /\ BridgeFeesOf(MadeBefore(height), a) \in Nat

LEMMA BooksTyped ==
    ASSUME Shape, Amounts, NEW a \in Assets
    PROVE  BookTypes(a)
<1>1. /\ withdrawalSeq \in Nat /\ withdrawal \in [Ids(withdrawalSeq) -> WithdrawalRecords]
  BY Zenon DEF Shape
<1>2. IsFiniteSet(DOMAIN withdrawal) /\ Terms(withdrawal)
  BY Zenon, <1>1, StoredTerms
<1>3. ASSUME NEW ids, ids \subseteq DOMAIN withdrawal, IsFiniteSet(ids)
      PROVE  /\ RefundOf(ids, a) \in Nat /\ BridgeFeesOf(ids, a) \in Nat
             /\ TxFeesOf(ids, a) \in Nat
  <2>1. \A i \in ids : NetOf(withdrawal)[i] \in Nat /\ FeeOf(withdrawal)[i] \in Nat
    BY Zenon, <1>2, <1>3, NetFeeTyped
  <2>2. /\ SumIn(withdrawal, NetOf(withdrawal), ids, a) \in Nat
        /\ SumIn(withdrawal, FeeOf(withdrawal), ids, a) \in Nat
    BY Zenon, <1>3, <2>1, SumInNat
  <2>3. QED
    BY Zenon, <1>3, <2>2, SumsOf, TxFees
<1>4. ASSUME NEW amounts \in [Users -> [Assets -> Nat]]
      PROVE  InitialSum(amounts, a) \in Nat
  <2> DEFINE f == [u \in Users |-> amounts[u][a]]
  <2>1. \A u \in Users : f[u] \in Nat
    BY Zenon
  <2> HIDE DEF f
  <2>2. Sum(f, Users) \in Nat
    BY Zenon, <2>1, SumNat, AssetsAndHolders
  <2>3. QED
    BY Zenon, <2>2 DEF InitialSum, f
<1>5. InitialSum(Bridged, a) \in Nat /\ InitialSum(Unbridged, a) \in Nat
  BY Zenon, <1>4, WithdrawalAssumption
<1>6. /\ totals.burned[a] \in Nat /\ totals.minted[a] \in Nat
      /\ fees.collector[a] \in Nat /\ fees.stakers[a] \in Nat /\ fees.community[a] \in Nat
      /\ bank[BlackHole][a] \in Nat /\ bank[BridgeReward][a] \in Nat
  BY AssetsAndHolders DEF Amounts, Balances, FeePots, Totals
<1>7. QED
  BY Zenon, <1>2, <1>3, <1>5, <1>6, SubsetsFinite DEF BookTypes

LEMMA RequestKeepsBooks ==
    ASSUME IInv, Books, Request
    PROVE  Books'
<1>1. PICK r \in Requests : BridgeOut(r)
  BY Zenon DEF Request
<1>2. PICK x : x = withdrawal'[withdrawalSeq]
  OBVIOUS
<1>3. /\ withdrawalSeq' = withdrawalSeq + 1
      /\ withdrawal' \in [Ids(withdrawalSeq + 1) -> WithdrawalRecords]
      /\ \A i \in DOMAIN withdrawal : withdrawal'[i] = withdrawal[i]
      /\ x.status = "REQUESTED"
  BY Zenon, <1>1, <1>2, RequestEffect DEF IInv
<1>4. /\ x.sender \in Users /\ x.createdAt = height
      /\ \A a \in Assets : RequestMoves(x, a)
      /\ bank' \in Balances /\ fees' \in FeePots /\ totals' \in Totals
  BY Zenon, <1>1, <1>2, RequestBooks DEF IInv, Books
<1>5. /\ withdrawalSeq \in Nat /\ height \in Nat /\ height' = height
      /\ withdrawal \in [Ids(withdrawalSeq) -> WithdrawalRecords]
      /\ Ids(withdrawalSeq + 1) = Ids(withdrawalSeq) \cup {withdrawalSeq}
      /\ withdrawalSeq \notin Ids(withdrawalSeq) /\ withdrawalSeq + 1 \in Nat
  BY <1>1 DEF IInv, Shape, BridgeOut, Ids
<1>6. /\ DOMAIN withdrawal = Ids(withdrawalSeq) /\ IsFiniteSet(DOMAIN withdrawal)
      /\ DOMAIN withdrawal' = DOMAIN withdrawal \cup {withdrawalSeq}
      /\ Terms(withdrawal) /\ Terms(withdrawal')
      /\ \A i \in DOMAIN withdrawal : SameTerms(withdrawal'[i], withdrawal[i])
      /\ \A i \in DOMAIN withdrawal : withdrawal[i].createdAt \in Nat
  BY Zenon, <1>3, <1>5, StoredTerms DEF SameTerms
<1>7. /\ Owing' = Owing \cup {withdrawalSeq} /\ withdrawalSeq \notin Owing
      /\ MadeIn(height)' = MadeIn(height) \cup {withdrawalSeq}
      /\ withdrawalSeq \notin MadeIn(height)
      /\ MadeIn(height - 1)' = MadeIn(height - 1)
      /\ MadeBefore(height)' = MadeBefore(height)
  <2>1. height # height - 1 /\ ~(height < height)
    BY <1>5
  <2>2. Owing' = Owing \cup {withdrawalSeq} /\ withdrawalSeq \notin Owing
    BY <1>2, <1>3, <1>5, <1>6 DEF Owing
  <2>3. /\ MadeIn(height)' = MadeIn(height) \cup {withdrawalSeq}
        /\ withdrawalSeq \notin MadeIn(height)
    BY <1>2, <1>3, <1>4, <1>5, <1>6 DEF MadeIn
  <2>4. MadeIn(height - 1)' = MadeIn(height - 1)
    BY <1>2, <1>3, <1>4, <1>5, <1>6, <2>1 DEF MadeIn
  <2>5. MadeBefore(height)' = MadeBefore(height)
    BY <1>2, <1>3, <1>4, <1>5, <1>6, <2>1 DEF MadeBefore
  <2>6. QED
    BY Zenon, <2>2, <2>3, <2>4, <2>5
<1>8. /\ Owing \subseteq DOMAIN withdrawal /\ MadeIn(height) \subseteq DOMAIN withdrawal
      /\ MadeIn(height - 1) \subseteq DOMAIN withdrawal
      /\ MadeBefore(height) \subseteq DOMAIN withdrawal
      /\ IsFiniteSet(Owing) /\ IsFiniteSet(MadeIn(height))
      /\ IsFiniteSet(MadeIn(height - 1)) /\ IsFiniteSet(MadeBefore(height))
  BY Zenon, <1>6, SubsetsFinite
<1>9. Amounts'
  <2>1. \A i \in DOMAIN withdrawal' : withdrawal'[i].createdAt <= height'
    BY <1>2, <1>3, <1>4, <1>5, <1>6 DEF Books, Amounts
  <2>2. QED
    BY Zenon, <1>4, <2>1 DEF Amounts
<1>10. ASSUME NEW a \in Assets
       PROVE  Balanced(a)'
  <2> DEFINE net == On(a, x.facts.asset, MillisteemToAsteem(x.facts.amount))
             fee == On(a, x.facts.asset, MillisteemToAsteem(x.fee))
             tx == On(a, "STEEM", TxFee)
  <2>1. /\ RefundOf(Owing, a)' = RefundOf(Owing, a) + net
        /\ RefundOf(MadeIn(height), a)' = RefundOf(MadeIn(height), a) + net
        /\ BridgeFeesOf(MadeIn(height), a)' = BridgeFeesOf(MadeIn(height), a) + fee
    <3>1. ASSUME NEW ids, ids \subseteq DOMAIN withdrawal, IsFiniteSet(ids),
                 withdrawalSeq \notin ids
          PROVE  /\ SumIn(withdrawal', NetOf(withdrawal'), ids \cup {withdrawalSeq}, a)
                       = RefundOf(ids, a) + net
                 /\ SumIn(withdrawal', FeeOf(withdrawal'), ids \cup {withdrawalSeq}, a)
                       = BridgeFeesOf(ids, a) + fee
      <4>1. /\ ids \subseteq DOMAIN withdrawal' /\ withdrawalSeq \in DOMAIN withdrawal'
            /\ \A i \in ids : SameTerms(withdrawal'[i], withdrawal[i])
        BY Zenon, <1>6, <3>1
      <4>2. /\ SumIn(withdrawal', NetOf(withdrawal'), ids \cup {withdrawalSeq}, a)
                  = SumIn(withdrawal, NetOf(withdrawal), ids, a)
                       + On(a, withdrawal'[withdrawalSeq].facts.asset,
                            MillisteemToAsteem(withdrawal'[withdrawalSeq].facts.amount))
            /\ SumIn(withdrawal', FeeOf(withdrawal'), ids \cup {withdrawalSeq}, a)
                  = SumIn(withdrawal, FeeOf(withdrawal), ids, a)
                       + On(a, withdrawal'[withdrawalSeq].facts.asset,
                            MillisteemToAsteem(withdrawal'[withdrawalSeq].fee))
        <5>1. Terms(withdrawal) /\ Terms(withdrawal')
          BY Zenon, <1>6
        <5>2. QED
          BY ONLY <3>1, <4>1, <5>1, SumsGrow
      <4>3. QED
        BY Zenon, <1>2, <4>2, SumsOf
    <3>2. QED
      BY Zenon, <1>7, <1>8, <3>1, SumsOf
  <2>2. BridgeFeesOf(MadeBefore(height), a)' = BridgeFeesOf(MadeBefore(height), a)
    <3> DEFINE ids == MadeBefore(height)
    <3>1. /\ ids \subseteq DOMAIN withdrawal /\ IsFiniteSet(ids)
          /\ ids \subseteq DOMAIN withdrawal'
          /\ \A i \in ids : SameTerms(withdrawal'[i], withdrawal[i])
      BY Zenon, <1>6, <1>8
    <3> HIDE DEF ids
    <3>2. SumIn(withdrawal', FeeOf(withdrawal'), ids, a)
             = SumIn(withdrawal, FeeOf(withdrawal), ids, a)
      BY <1>6, <3>1, SumsKept
    <3>3. QED
      BY Zenon, <1>7, <3>2, SumsOf DEF ids
  <2>3. /\ TxFeesOf(MadeIn(height), a)' = TxFeesOf(MadeIn(height), a) + tx
        /\ TxFeesOf(MadeIn(height - 1), a)' = TxFeesOf(MadeIn(height - 1), a)
        /\ TxFeesOf(MadeBefore(height), a)' = TxFeesOf(MadeBefore(height), a)
    <3>1. TxFeesOf(MadeIn(height) \cup {withdrawalSeq}, a) = TxFeesOf(MadeIn(height), a) + tx
      BY Zenon, <1>7, <1>8, TxFees
    <3>2. QED
      BY Zenon, <1>7, <3>1 DEF TxFeesOf
  <2>4. RequestMoves(x, a)
    BY Zenon, <1>4
  <2>5. /\ bank \in Balances /\ bank' \in Balances
        /\ bank[x.sender][a] \in Nat /\ bank'[x.sender][a] \in Nat
        /\ \A u \in Users : bank[u][a] \in Nat
    BY Zenon, <1>4, AssetsAndHolders DEF Books, Amounts, Balances
  <2>6. OfUsers(bank', a) = OfUsers(bank, a) - tx - net - fee
    <3> DEFINE f == [u \in Users |-> bank[u][a]]
               g == [u \in Users |-> bank'[u][a]]
    <3>1. /\ f[x.sender] = bank[x.sender][a] /\ g[x.sender] = bank'[x.sender][a]
          /\ \A u \in Users \ {x.sender} : g[u] = f[u]
      BY Zenon, <1>4, <2>4 DEF RequestMoves
    <3>2. \A u \in Users : f[u] \in Nat
      BY Zenon, <2>5
    <3> HIDE DEF f, g
    <3>3. g[x.sender] \in Int /\ \A u \in Users : f[u] \in Int
      BY <2>5, <3>1, <3>2
    <3>4. Sum(g, Users) = Sum(f, Users) - f[x.sender] + g[x.sender]
      BY <1>4, <3>1, <3>3, SumChange, AssetsAndHolders
    <3>5. Sum(f, Users) \in Nat
      BY Zenon, <3>2, SumNat, AssetsAndHolders
    <3>6. Sum(g, Users) = Sum(f, Users) - tx - net - fee
      <4>1. /\ f[x.sender] \in Nat /\ tx \in Nat /\ net \in Nat /\ fee \in Nat
            /\ g[x.sender] = f[x.sender] - tx - net - fee
        BY Zenon, <2>4, <2>5, <3>1 DEF RequestMoves
      <4> HIDE DEF tx, net, fee
      <4>2. QED
        BY ONLY <3>4, <3>5, <4>1
    <3>7. QED
      BY Zenon, <3>6 DEF OfUsers, f, g
  <2>7. /\ net \in Nat /\ fee \in Nat /\ tx \in Nat
        /\ totals'.minted[a] = totals.minted[a]
        /\ totals'.burned[a] = totals.burned[a] + net
        /\ net = 0 \/ totals.burned[a] + net <= totals.minted[a]
        /\ bank'[BlackHole][a] = bank[BlackHole][a] + net
        /\ bank'[BridgeReward][a] = bank[BridgeReward][a] + fee
        /\ fees'.collector[a] = fees.collector[a] + tx
        /\ fees'.community[a] = fees.community[a] /\ fees'.stakers[a] = fees.stakers[a]
    BY Zenon, <2>4 DEF RequestMoves
  <2> HIDE DEF net, fee, tx
  <2>8. Balanced(a)
    BY Zenon DEF Books
  <2>9. /\ Spendable(bank, a) = OfUsers(bank, a) + bank[BridgeReward][a]
        /\ Spendable(bank', a) = OfUsers(bank', a) + bank'[BridgeReward][a]
        /\ OfUsers(bank, a) \in Nat /\ bank[BridgeReward][a] \in Nat
    BY Zenon, <2>5, SpendableSplit
  <2>10. BookTypes(a)
    BY Zenon, BooksTyped DEF IInv, Books
  <2>11. /\ totals'.burned[a] <= totals'.minted[a]
         /\ totals'.minted[a] - totals'.burned[a]
               = InitialSum(Bridged, a) - RefundOf(Owing, a)'
    <3> DEFINE m == totals.minted[a]
               b == totals.burned[a]
               brought == InitialSum(Bridged, a)
               owed == RefundOf(Owing, a)
               owedNow == RefundOf(Owing, a)'
    <3>1. b <= m /\ m - b = brought - owed
      BY Zenon, <2>8 DEF Balanced
    <3>2. b \in Nat /\ m \in Nat /\ brought \in Nat /\ owed \in Nat
      BY Zenon, <2>10 DEF BookTypes
    <3>3. /\ owedNow = owed + net /\ net \in Nat /\ (net = 0 \/ b + net <= m)
          /\ totals'.minted[a] = m /\ totals'.burned[a] = b + net
      BY Zenon, <2>1, <2>7
    <3> HIDE DEF m, b, brought, owed, owedNow
    <3>4. b + net <= m /\ m - (b + net) = brought - owedNow
      BY ONLY <3>1, <3>2, <3>3
    <3>5. QED
      BY Zenon, <3>3, <3>4 DEF brought, owedNow
  <2>12. Spendable(bank', a) + fees'.collector[a] + fees'.stakers[a] + 2 * fees'.community[a]
            = InitialSum(Bridged, a) + InitialSum(Unbridged, a) - RefundOf(Owing, a)'
    <3> DEFINE users == OfUsers(bank, a)
               reward == bank[BridgeReward][a]
               pot == fees.collector[a]
               staked == fees.stakers[a]
               pool == fees.community[a]
               brought == InitialSum(Bridged, a)
               other == InitialSum(Unbridged, a)
               owed == RefundOf(Owing, a)
               owedNow == RefundOf(Owing, a)'
    <3>1. (users + reward) + pot + staked + 2 * pool = brought + other - owed
      BY Zenon, <2>8, <2>9 DEF Balanced
    <3>2. /\ users \in Nat /\ reward \in Nat /\ pot \in Nat /\ staked \in Nat
          /\ pool \in Nat /\ brought \in Nat /\ other \in Nat /\ owed \in Nat
      BY Zenon, <2>9, <2>10 DEF BookTypes
    <3>3. /\ owedNow = owed + net /\ net \in Nat /\ fee \in Nat /\ tx \in Nat
          /\ Spendable(bank', a) = (users - tx - net - fee) + (reward + fee)
          /\ fees'.collector[a] = pot + tx /\ fees'.stakers[a] = staked
          /\ fees'.community[a] = pool
      BY Zenon, <2>1, <2>6, <2>7, <2>9
    <3> HIDE DEF users, reward, pot, staked, pool, brought, other, owed, owedNow
    <3>4. ((users - tx - net - fee) + (reward + fee)) + (pot + tx) + staked + 2 * pool
             = brought + other - owedNow
      BY ONLY <3>1, <3>2, <3>3
    <3>5. QED
      BY Zenon, <3>3, <3>4 DEF brought, other, owedNow
  <2>13. bank'[BlackHole][a]
            = RefundOf(MadeIn(height), a)' + TxFeesOf(MadeIn(height - 1), a)' \div 4
    <3> DEFINE spent == TxFeesOf(MadeIn(height - 1), a) \div 4
    <3>1. /\ bank[BlackHole][a] = RefundOf(MadeIn(height), a) + spent
          /\ RefundOf(MadeIn(height), a)' = RefundOf(MadeIn(height), a) + net
          /\ TxFeesOf(MadeIn(height - 1), a)' \div 4 = spent
          /\ bank'[BlackHole][a] = bank[BlackHole][a] + net
      BY Zenon, <2>1, <2>3, <2>7, <2>8 DEF Balanced
    <3>2. spent \in Int /\ RefundOf(MadeIn(height), a) \in Nat /\ net \in Nat
      <4>1. /\ TxFeesOf(MadeIn(height - 1), a) \in Nat /\ RefundOf(MadeIn(height), a) \in Nat
            /\ net \in Nat
        BY Zenon, <2>7, <2>10 DEF BookTypes
      <4>2. QED
        BY ONLY <4>1
    <3> HIDE DEF spent
    <3>3. QED
      BY ONLY <3>1, <3>2
  <2>14. /\ bank'[BridgeReward][a] = BridgeFeesOf(MadeIn(height), a)'
         /\ fees'.collector[a] = TxFeesOf(MadeIn(height), a)'
    BY Zenon, <2>1, <2>3, <2>7, <2>8 DEF Balanced
  <2>15. /\ fees'.stakers[a] + 2 * fees'.community[a]
               = BridgeFeesOf(MadeBefore(height), a)' + TxFeesOf(MadeBefore(height), a)'
         /\ 4 * fees'.community[a] <= TxFeesOf(MadeBefore(height), a)'
    BY Zenon, <2>2, <2>3, <2>7, <2>8 DEF Balanced
  <2>16. InitialSum(Bridged, a)' = InitialSum(Bridged, a)
         /\ InitialSum(Unbridged, a)' = InitialSum(Unbridged, a)
         /\ Spendable(bank, a)' = Spendable(bank', a)
    BY Zenon DEF InitialSum, Spendable
  <2>17. QED
    BY Zenon, <2>11, <2>12, <2>13, <2>14, <2>15, <2>16 DEF Balanced
<1>11. QED
  BY Zenon, <1>9, <1>10 DEF Books

(***************************************************************************)
(* The end of a block, and SplitFees at the beginning of the next, asset   *)
(* by asset, with R the withdrawals refunded.                              *)
(***************************************************************************)
PartOf(R, h, a) == RefundOf({i \in R : withdrawal[i].sender = h}, a)

BlockMoves(R, a) ==
    LET quarter == fees.collector[a] \div 4
    IN  /\ totals'.minted[a] = totals.minted[a] + RefundOf(R, a)
        /\ totals'.burned[a] = totals.burned[a]
        /\ bank'[BlackHole][a] = quarter
        /\ bank'[BridgeReward][a] = 0
        /\ \A u \in Users : bank'[u][a] = bank[u][a] + PartOf(R, u, a)
        /\ fees'.collector[a] = 0
        /\ fees'.community[a] = fees.community[a] + quarter
        /\ fees'.stakers[a] = fees.stakers[a] + fees.collector[a] - 2 * quarter
                                 + bank[BridgeReward][a]

LEMMA RefundsTyped ==
    ASSUME Shape, NEW ids, ids \subseteq DOMAIN withdrawal, NEW a
    PROVE  /\ IsFiniteSet(ids) /\ RefundOf(ids, a) \in Nat
           /\ \A i \in ids : /\ NetOf(withdrawal)[i] \in Nat /\ FeeOf(withdrawal)[i] \in Nat
                             /\ withdrawal[i].sender \in Users
<1>1. withdrawalSeq \in Nat /\ withdrawal \in [Ids(withdrawalSeq) -> WithdrawalRecords]
  BY Zenon DEF Shape
<1>2. /\ IsFiniteSet(DOMAIN withdrawal) /\ Terms(withdrawal)
      /\ \A i \in DOMAIN withdrawal : withdrawal[i].sender \in Users
  BY Zenon, <1>1, StoredTerms
<1>3. IsFiniteSet(ids)
  BY <1>2, FS_Subset
<1>4. \A i \in ids : NetOf(withdrawal)[i] \in Nat /\ FeeOf(withdrawal)[i] \in Nat
  BY Zenon, <1>2, NetFeeTyped
<1>5. SumIn(withdrawal, NetOf(withdrawal), ids, a) \in Nat
  BY Zenon, <1>3, <1>4, SumInNat
<1>6. QED
  BY Zenon, <1>2, <1>3, <1>4, <1>5, SumsOf

LEMMA BlockBooks ==
    ASSUME Shape, Amounts, NextBlock, NEW R, R = RefundingWithdrawals,
           R \subseteq DOMAIN withdrawal
    PROVE  /\ \A a \in Assets : BlockMoves(R, a)
           /\ bank' \in Balances /\ fees' \in FeePots /\ totals' \in Totals
<1> DEFINE part == [h \in Holders |-> [a \in Assets |-> PartOf(R, h, a)]]
           gain == [a \in Assets |-> RefundOf(R, a)]
           paid == [h \in Holders |-> [a \in Assets |-> bank[h][a] + part[h][a]]]
           bal == [paid EXCEPT ![BlackHole] = [a \in Assets |-> 0]]
           quarter == [a \in Assets |-> fees.collector[a] \div 4]
<1>1. part \in Balances /\ gain \in [Assets -> Nat]
  <2>1. \A h, a : PartOf(R, h, a) \in Nat /\ RefundOf(R, a) \in Nat
    BY Zenon, RefundsTyped DEF PartOf
  <2>2. QED
    BY Zenon, <2>1 DEF Balances
<1>2. \A a \in Assets : part[BridgeReward][a] = 0
  <2>1. {i \in R : withdrawal[i].sender = BridgeReward} = {}
    BY Zenon, RefundsTyped, AssetsAndHolders
  <2>2. \A a : InAsset(withdrawal, {}, a) = {}
    BY Zenon DEF InAsset
  <2>3. \A a : PartOf(R, BridgeReward, a) = 0
    BY Zenon, <2>1, <2>2, SumEmpty, SumsOf DEF PartOf, SumIn
  <2>4. QED
    BY Zenon, <2>3, AssetsAndHolders
<1>3. /\ totals' = [totals EXCEPT !.minted = [a \in Assets |-> @[a] + gain[a]]]
      /\ bank' = [bal EXCEPT ![BlackHole] = [a \in Assets |-> @[a] + quarter[a]],
                             ![BridgeReward] = [a \in Assets |-> 0]]
      /\ fees' = [collector |-> [a \in Assets |-> 0],
                  community |-> [a \in Assets |-> fees.community[a] + quarter[a]],
                  stakers |-> [a \in Assets |->
                      fees.stakers[a] + fees.collector[a] - 2 * quarter[a]
                         + bal[BridgeReward][a]]]
  <2>1. paid = RefundedBank(R)
    BY Zenon DEF RefundedBank, PartOf
  <2>2. totals' = RefundTotals(R) /\ SplitFees(SweepBlackHole(RefundedBank(R)))
    BY Zenon DEF NextBlock, RefundExpiredWithdrawals
  <2>3. totals' = [totals EXCEPT !.minted = [a \in Assets |-> @[a] + gain[a]]]
    BY <2>2 DEF RefundTotals
  <2>4. bal = SweepBlackHole(RefundedBank(R))
    BY Zenon, <2>1 DEF SweepBlackHole
  <2> HIDE DEF bal, paid, part
  <2>5. QED
    BY Zenon, <2>2, <2>3, <2>4 DEF SplitFees
<1> HIDE DEF part, gain
<1>4. quarter \in [Assets -> Nat]
  BY DEF Amounts, FeePots
<1>5. \A a \in Assets : /\ fees.collector[a] \in Nat /\ quarter[a] = fees.collector[a] \div 4
                        /\ 2 * quarter[a] <= fees.collector[a]
  BY DEF Amounts, FeePots
<1> HIDE DEF quarter
<1>6. /\ bal \in Balances
      /\ \A a \in Assets : bal[BlackHole][a] = 0 /\ bal[BridgeReward][a] = bank[BridgeReward][a]
      /\ \A a \in Assets, u \in Users : bal[u][a] = bank[u][a] + part[u][a]
  BY <1>1, <1>2, AssetsAndHolders DEF Amounts, Balances
<1> HIDE DEF bal
<1>7. /\ bank' \in Balances
      /\ \A a \in Assets : /\ bank'[BlackHole][a] = quarter[a] /\ bank'[BridgeReward][a] = 0
                           /\ \A u \in Users : bank'[u][a] = bal[u][a]
  BY <1>3, <1>4, <1>6, AssetsAndHolders DEF Balances
<1>8. totals' \in Totals /\ \A a \in Assets : /\ totals'.minted[a] = totals.minted[a] + gain[a]
                                              /\ totals'.burned[a] = totals.burned[a]
  BY <1>1, <1>3 DEF Amounts, Totals
<1>9. /\ fees' \in FeePots
      /\ \A a \in Assets : /\ fees'.collector[a] = 0
                           /\ fees'.community[a] = fees.community[a] + quarter[a]
                           /\ fees'.stakers[a] = fees.stakers[a] + fees.collector[a]
                                 - 2 * quarter[a] + bal[BridgeReward][a]
  <2>1. \A a \in Assets : /\ fees.community[a] \in Nat /\ fees.stakers[a] \in Nat
                          /\ bal[BridgeReward][a] \in Nat /\ quarter[a] \in Nat
    BY <1>4, <1>6, AssetsAndHolders DEF Amounts, FeePots, Balances
  <2>2. QED
    BY <1>3, <1>5, <2>1 DEF FeePots
<1>10. \A a \in Assets : /\ gain[a] = RefundOf(R, a)
                         /\ \A u \in Users : part[u][a] = PartOf(R, u, a)
  BY Zenon, AssetsAndHolders DEF gain, part
<1>11. ASSUME NEW a \in Assets
       PROVE  BlockMoves(R, a)
  <2>1. quarter[a] = fees.collector[a] \div 4
    BY Zenon, <1>5
  <2>2. totals'.minted[a] = totals.minted[a] + RefundOf(R, a) /\ totals'.burned[a] = totals.burned[a]
    BY Zenon, <1>8, <1>10
  <2>3. /\ bank'[BlackHole][a] = fees.collector[a] \div 4 /\ bank'[BridgeReward][a] = 0
        /\ \A u \in Users : bank'[u][a] = bank[u][a] + PartOf(R, u, a)
    BY Zenon, <1>6, <1>7, <1>10, <2>1
  <2>4. /\ fees'.collector[a] = 0
        /\ fees'.community[a] = fees.community[a] + fees.collector[a] \div 4
        /\ fees'.stakers[a] = fees.stakers[a] + fees.collector[a]
              - 2 * (fees.collector[a] \div 4) + bank[BridgeReward][a]
    BY Zenon, <1>6, <1>9, <2>1
  <2>5. QED
    BY Zenon, <2>2, <2>3, <2>4 DEF BlockMoves
<1>12. QED
  BY Zenon, <1>7, <1>8, <1>9, <1>11

LEMMA BlockKeepsBooks ==
    ASSUME IInv, Books, NextBlock
    PROVE  Books'
<1>0. PICK R : R = RefundingWithdrawals
  OBVIOUS
<1>1. /\ withdrawal' \in [Ids(withdrawalSeq) -> WithdrawalRecords]
      /\ R \subseteq DOMAIN withdrawal
      /\ \A i \in R : withdrawal[i].status = "REQUESTED"
      /\ \A i \in DOMAIN withdrawal :
            /\ i \notin R => withdrawal'[i] = withdrawal[i]
            /\ i \in R => withdrawal'[i].status = "REFUNDED"
            /\ SameTerms(withdrawal'[i], withdrawal[i])
  BY Zenon, <1>0, RefundEffect DEF IInv, NextBlock
<1>2. /\ \A a \in Assets : BlockMoves(R, a)
      /\ bank' \in Balances /\ fees' \in FeePots /\ totals' \in Totals
  BY Zenon, <1>0, <1>1, BlockBooks DEF IInv, Books
<1>3. /\ withdrawalSeq \in Nat /\ height \in Nat /\ height' = height + 1
      /\ withdrawal \in [Ids(withdrawalSeq) -> WithdrawalRecords]
  BY Zenon DEF IInv, Shape, NextBlock, AdvanceBlock
<1>4. /\ DOMAIN withdrawal' = DOMAIN withdrawal /\ IsFiniteSet(DOMAIN withdrawal)
      /\ Terms(withdrawal)
      /\ \A i \in DOMAIN withdrawal : withdrawal[i].createdAt \in Nat
  BY Zenon, <1>1, <1>3, StoredTerms
<1>5. \A i \in DOMAIN withdrawal : /\ withdrawal[i].createdAt <= height
                                   /\ withdrawal'[i].createdAt = withdrawal[i].createdAt
  BY Zenon, <1>1 DEF Books, Amounts, SameTerms
<1>6. Owing' = Owing \ R /\ R \subseteq Owing /\ Owing = (Owing \ R) \cup R
  BY Zenon, <1>1, <1>4 DEF Owing
<1>7. /\ MadeIn(height)' = {} /\ MadeIn(height - 1)' = MadeIn(height)
      /\ MadeBefore(height)' = MadeBefore(height) \cup MadeIn(height)
      /\ MadeBefore(height) \cap MadeIn(height) = {}
  <2>1. MadeIn(height)' = {}
    BY <1>3, <1>4, <1>5 DEF MadeIn
  <2>2. MadeIn(height - 1)' = MadeIn(height)
    BY <1>3, <1>4, <1>5 DEF MadeIn
  <2>3. /\ MadeBefore(height)' = MadeBefore(height) \cup MadeIn(height)
        /\ MadeBefore(height) \cap MadeIn(height) = {}
    BY <1>3, <1>4, <1>5 DEF MadeIn, MadeBefore
  <2>4. QED
    BY Zenon, <2>1, <2>2, <2>3
<1>8. /\ Owing \subseteq DOMAIN withdrawal /\ IsFiniteSet(Owing)
      /\ MadeIn(height) \subseteq DOMAIN withdrawal /\ IsFiniteSet(MadeIn(height))
      /\ MadeBefore(height) \subseteq DOMAIN withdrawal /\ IsFiniteSet(MadeBefore(height))
  BY Zenon, <1>4, SubsetsFinite
<1>9. Amounts'
  <2>1. \A i \in DOMAIN withdrawal' : withdrawal'[i].createdAt <= height'
    BY <1>3, <1>4, <1>5
  <2>2. QED
    BY Zenon, <1>2, <2>1 DEF Amounts
<1>10. ASSUME NEW ids, ids \subseteq DOMAIN withdrawal, NEW a
       PROVE  /\ SumIn(withdrawal', NetOf(withdrawal'), ids, a) = RefundOf(ids, a)
              /\ SumIn(withdrawal', FeeOf(withdrawal'), ids, a) = BridgeFeesOf(ids, a)
  <2>1. /\ IsFiniteSet(ids) /\ ids \subseteq DOMAIN withdrawal'
        /\ \A i \in ids : SameTerms(withdrawal'[i], withdrawal[i])
    BY Zenon, <1>1, <1>4, <1>10, RefundsTyped DEF IInv
  <2>2. QED
    BY <1>4, <1>10, <2>1, SumsKept, SumsOf
<1>11. ASSUME NEW a \in Assets
       PROVE  Balanced(a)'
  <2>1. /\ RefundOf(Owing, a) = RefundOf(Owing, a)' + RefundOf(R, a)
        /\ RefundOf(Owing, a)' \in Nat /\ RefundOf(R, a) \in Nat
    <3> DEFINE rest == Owing \ R
    <3>1. rest \subseteq DOMAIN withdrawal /\ rest \cap R = {} /\ Owing = rest \cup R
      BY Zenon, <1>6, <1>8
    <3> HIDE DEF rest
    <3>2. /\ IsFiniteSet(rest) /\ IsFiniteSet(R)
          /\ \A i \in rest \cup R : NetOf(withdrawal)[i] \in Nat
          /\ RefundOf(rest, a) \in Nat /\ RefundOf(R, a) \in Nat
      BY Zenon, <1>1, <3>1, RefundsTyped DEF IInv
    <3>3. SumIn(withdrawal, NetOf(withdrawal), rest \cup R, a)
             = SumIn(withdrawal, NetOf(withdrawal), rest, a)
                  + SumIn(withdrawal, NetOf(withdrawal), R, a)
      BY <3>1, <3>2, SumInUnion
    <3>4. RefundOf(Owing, a)' = RefundOf(rest, a)
      BY Zenon, <1>6, <1>10, <3>1, SumsOf DEF rest
    <3>5. QED
      BY Zenon, <3>1, <3>2, <3>3, <3>4, SumsOf
  <2>2. /\ RefundOf(MadeIn(height), a)' = 0 /\ BridgeFeesOf(MadeIn(height), a)' = 0
        /\ TxFeesOf(MadeIn(height), a)' = 0
    <3>1. InAsset(withdrawal', {}, a) = {} /\ TxFeesOf({}, a) = 0
      BY FS_EmptySet, AssetsAndHolders DEF InAsset, TxFeesOf
    <3>2. QED
      BY Zenon, <1>7, <3>1, SumEmpty, SumsOf DEF SumIn, TxFeesOf
  <2>3. /\ TxFeesOf(MadeIn(height - 1), a)' = TxFeesOf(MadeIn(height), a)
        /\ TxFeesOf(MadeBefore(height), a)'
              = TxFeesOf(MadeBefore(height), a) + TxFeesOf(MadeIn(height), a)
    <3>1. TxFeesOf(MadeBefore(height) \cup MadeIn(height), a)
              = TxFeesOf(MadeBefore(height), a) + TxFeesOf(MadeIn(height), a)
      BY <1>7, <1>8, TxFeesUnion
    <3>2. QED
      BY Zenon, <1>7, <3>1 DEF TxFeesOf
  <2>4. BridgeFeesOf(MadeBefore(height), a)'
           = BridgeFeesOf(MadeBefore(height), a) + BridgeFeesOf(MadeIn(height), a)
    <3> DEFINE early == MadeBefore(height)
               now == MadeIn(height)
    <3>1. /\ early \subseteq DOMAIN withdrawal /\ now \subseteq DOMAIN withdrawal
          /\ early \cap now = {} /\ MadeBefore(height)' = early \cup now
          /\ early \cup now \subseteq DOMAIN withdrawal
      BY Zenon, <1>7, <1>8
    <3> HIDE DEF early, now
    <3>2. /\ IsFiniteSet(early) /\ IsFiniteSet(now)
          /\ \A i \in early \cup now : FeeOf(withdrawal)[i] \in Nat
      BY Zenon, <3>1, RefundsTyped DEF IInv
    <3>3. SumIn(withdrawal, FeeOf(withdrawal), early \cup now, a)
             = SumIn(withdrawal, FeeOf(withdrawal), early, a)
                  + SumIn(withdrawal, FeeOf(withdrawal), now, a)
      BY <3>1, <3>2, SumInUnion
    <3>4. BridgeFeesOf(MadeBefore(height), a)' = BridgeFeesOf(early \cup now, a)
      BY Zenon, <1>10, <3>1, SumsOf
    <3>5. QED
      BY Zenon, <3>3, <3>4, SumsOf DEF early, now
  <2>5. BlockMoves(R, a)
    BY Zenon, <1>2
  <2>6. /\ bank \in Balances /\ bank' \in Balances /\ \A u \in Users : bank[u][a] \in Nat
    BY Zenon, <1>2, AssetsAndHolders DEF Books, Amounts, Balances
  <2>7. OfUsers(bank', a) = OfUsers(bank, a) + RefundOf(R, a)
    <3> DEFINE f == [u \in Users |-> bank[u][a]]
               g == [u \in Users |-> PartOf(R, u, a)]
               h == [u \in Users |-> bank'[u][a]]
    <3>1. \A u \in Users : f[u] \in Nat /\ g[u] \in Nat /\ h[u] = f[u] + g[u]
      BY Zenon, <1>1, <2>5, <2>6, RefundsTyped DEF IInv, BlockMoves, PartOf
    <3>2. g = [u \in Users |-> SumIn(withdrawal, NetOf(withdrawal),
                                     {i \in R : withdrawal[i].sender = u}, a)]
      BY Zenon, SumsOf DEF PartOf
    <3>3. /\ IsFiniteSet(R) /\ \A i \in R : withdrawal[i].sender \in Users
          /\ \A i \in R : NetOf(withdrawal)[i] \in Nat
      BY Zenon, <1>1, RefundsTyped DEF IInv
    <3>4. Sum(g, Users) = RefundOf(R, a)
      <4>1. IsFiniteSet(Users)
        BY Zenon, AssetsAndHolders
      <4>2. Sum([u \in Users |-> SumIn(withdrawal, NetOf(withdrawal),
                                       {i \in R : withdrawal[i].sender = u}, a)], Users)
               = SumIn(withdrawal, NetOf(withdrawal), R, a)
        BY <3>3, <4>1, SumInBySender
      <4>3. RefundOf(R, a) = SumIn(withdrawal, NetOf(withdrawal), R, a)
        BY Zenon, SumsOf
      <4>4. QED
        BY Zenon, <3>2, <4>2, <4>3
    <3> HIDE DEF f, g, h
    <3>5. \A u \in Users : f[u] \in Int /\ g[u] \in Int /\ h[u] = f[u] + g[u]
      BY <3>1
    <3>6. Sum(h, Users) = Sum(f, Users) + Sum(g, Users)
      BY Zenon, <3>5, SumPlus, AssetsAndHolders
    <3>7. QED
      BY Zenon, <3>4, <3>6 DEF OfUsers, f, h
  <2>8. Balanced(a)
    BY Zenon DEF Books
  <2>9. /\ Spendable(bank, a) = OfUsers(bank, a) + bank[BridgeReward][a]
        /\ Spendable(bank', a) = OfUsers(bank', a) + bank'[BridgeReward][a]
        /\ OfUsers(bank, a) \in Nat
    BY Zenon, <2>6, SpendableSplit
  <2>10. BookTypes(a)
    BY Zenon, BooksTyped DEF IInv, Books
  <2>11. /\ totals'.burned[a] <= totals'.minted[a]
         /\ totals'.minted[a] - totals'.burned[a]
               = InitialSum(Bridged, a) - RefundOf(Owing, a)'
    <3> DEFINE m == totals.minted[a]
               b == totals.burned[a]
               brought == InitialSum(Bridged, a)
               owed == RefundOf(Owing, a)
               back == RefundOf(R, a)
               owedNow == RefundOf(Owing, a)'
    <3>1. b <= m /\ m - b = brought - owed
      BY Zenon, <2>8 DEF Balanced
    <3>2. b \in Nat /\ m \in Nat /\ brought \in Nat /\ owed \in Nat
      BY Zenon, <2>10 DEF BookTypes
    <3>3. /\ owed = owedNow + back /\ owedNow \in Nat /\ back \in Nat
          /\ totals'.minted[a] = m + back /\ totals'.burned[a] = b
      BY Zenon, <2>1, <2>5 DEF BlockMoves
    <3> HIDE DEF m, b, brought, owed, back, owedNow
    <3>4. b <= m + back /\ (m + back) - b = brought - owedNow
      BY ONLY <3>1, <3>2, <3>3
    <3>5. QED
      BY Zenon, <3>3, <3>4 DEF brought, owedNow
  <2>12. Spendable(bank', a) + fees'.collector[a] + fees'.stakers[a] + 2 * fees'.community[a]
            = InitialSum(Bridged, a) + InitialSum(Unbridged, a) - RefundOf(Owing, a)'
    <3> DEFINE users == OfUsers(bank, a)
               reward == bank[BridgeReward][a]
               pot == fees.collector[a]
               staked == fees.stakers[a]
               pool == fees.community[a]
               brought == InitialSum(Bridged, a)
               other == InitialSum(Unbridged, a)
               owed == RefundOf(Owing, a)
               quarter == fees.collector[a] \div 4
               back == RefundOf(R, a)
               owedNow == RefundOf(Owing, a)'
    <3>1. (users + reward) + pot + staked + 2 * pool = brought + other - owed
      BY Zenon, <2>8, <2>9 DEF Balanced
    <3>2. /\ users \in Nat /\ reward \in Nat /\ pot \in Nat /\ staked \in Nat
          /\ pool \in Nat /\ brought \in Nat /\ other \in Nat /\ owed \in Nat
      BY Zenon, <2>9, <2>10 DEF BookTypes
    <3>3. /\ owed = owedNow + back /\ owedNow \in Nat /\ back \in Nat
          /\ Spendable(bank', a) = (users + back) + 0
          /\ fees'.collector[a] = 0
          /\ fees'.stakers[a] = staked + pot - 2 * quarter + reward
          /\ fees'.community[a] = pool + quarter
      BY Zenon, <2>1, <2>5, <2>7, <2>9 DEF BlockMoves
    <3>4. quarter \in Int
      BY ONLY <3>2
    <3> HIDE DEF users, reward, pot, staked, pool, brought, other, owed, quarter, back, owedNow
    <3>5. ((users + back) + 0) + 0 + (staked + pot - 2 * quarter + reward)
             + 2 * (pool + quarter) = brought + other - owedNow
      BY ONLY <3>1, <3>2, <3>3, <3>4
    <3>6. QED
      BY Zenon, <3>3, <3>5 DEF brought, other, owedNow
  <2>13. bank'[BlackHole][a]
            = RefundOf(MadeIn(height), a)' + TxFeesOf(MadeIn(height - 1), a)' \div 4
    <3> DEFINE quarter == fees.collector[a] \div 4
    <3>1. /\ bank'[BlackHole][a] = quarter /\ RefundOf(MadeIn(height), a)' = 0
          /\ TxFeesOf(MadeIn(height - 1), a)' \div 4 = quarter
      BY Zenon, <2>2, <2>3, <2>5, <2>8 DEF BlockMoves, Balanced
    <3>2. quarter \in Int
      <4>1. fees.collector[a] \in Nat
        BY Zenon, <2>10 DEF BookTypes
      <4>2. QED
        BY ONLY <4>1
    <3> HIDE DEF quarter
    <3>3. QED
      BY ONLY <3>1, <3>2
  <2>14. /\ bank'[BridgeReward][a] = BridgeFeesOf(MadeIn(height), a)'
         /\ fees'.collector[a] = TxFeesOf(MadeIn(height), a)'
    BY Zenon, <2>2, <2>5 DEF BlockMoves
  <2>15. /\ fees'.stakers[a] + 2 * fees'.community[a]
               = BridgeFeesOf(MadeBefore(height), a)' + TxFeesOf(MadeBefore(height), a)'
         /\ 4 * fees'.community[a] <= TxFeesOf(MadeBefore(height), a)'
    <3> DEFINE quarter == fees.collector[a] \div 4
    <3>1. /\ fees'.community[a] = fees.community[a] + quarter
          /\ fees'.stakers[a] = fees.stakers[a] + fees.collector[a] - 2 * quarter
                                   + bank[BridgeReward][a]
      BY Zenon, <2>5 DEF BlockMoves
    <3>2. /\ fees.collector[a] \in Nat /\ fees.community[a] \in Nat
          /\ fees.stakers[a] \in Nat /\ bank[BridgeReward][a] \in Nat
          /\ TxFeesOf(MadeBefore(height), a) \in Nat
          /\ BridgeFeesOf(MadeBefore(height), a) \in Nat
      BY Zenon, <2>10 DEF BookTypes
    <3>3. /\ bank[BridgeReward][a] = BridgeFeesOf(MadeIn(height), a)
          /\ fees.collector[a] = TxFeesOf(MadeIn(height), a)
          /\ fees.stakers[a] + 2 * fees.community[a]
                = BridgeFeesOf(MadeBefore(height), a) + TxFeesOf(MadeBefore(height), a)
          /\ 4 * fees.community[a] <= TxFeesOf(MadeBefore(height), a)
      BY Zenon, <2>8 DEF Balanced
    <3>4. quarter \in Nat /\ 4 * quarter <= fees.collector[a]
      BY ONLY SMTT(40), <3>2
    <3> HIDE DEF quarter
    <3>5. /\ TxFeesOf(MadeBefore(height), a)'
                = TxFeesOf(MadeBefore(height), a) + fees.collector[a]
          /\ BridgeFeesOf(MadeBefore(height), a)'
                = BridgeFeesOf(MadeBefore(height), a) + bank[BridgeReward][a]
      BY Zenon, <2>3, <2>4, <3>3
    <3>6. QED
      <4>1. /\ (fees.stakers[a] + fees.collector[a] - 2 * quarter + bank[BridgeReward][a])
                  + 2 * (fees.community[a] + quarter)
                  = (BridgeFeesOf(MadeBefore(height), a) + bank[BridgeReward][a])
                       + (TxFeesOf(MadeBefore(height), a) + fees.collector[a])
            /\ 4 * (fees.community[a] + quarter)
                  <= TxFeesOf(MadeBefore(height), a) + fees.collector[a]
        <5> DEFINE c == fees.collector[a]
                   b == bank[BridgeReward][a]
                   comm == fees.community[a]
                   st == fees.stakers[a]
                   t == TxFeesOf(MadeBefore(height), a)
                   f == BridgeFeesOf(MadeBefore(height), a)
        <5>1. /\ c \in Nat /\ quarter \in Nat /\ b \in Nat /\ comm \in Nat /\ st \in Nat
              /\ t \in Nat /\ f \in Nat /\ 4 * quarter <= c
              /\ st + 2 * comm = f + t /\ 4 * comm <= t
          BY Zenon, <3>2, <3>3, <3>4
        <5> HIDE DEF c, b, comm, st, t, f
        <5>2. /\ (st + c - 2 * quarter + b) + 2 * (comm + quarter) = (f + b) + (t + c)
              /\ 4 * (comm + quarter) <= t + c
          BY ONLY <5>1
        <5>3. QED
          BY Zenon, <5>2 DEF c, b, comm, st, t, f
      <4>2. QED
        BY Zenon, <3>1, <3>5, <4>1
  <2>16. InitialSum(Bridged, a)' = InitialSum(Bridged, a)
         /\ InitialSum(Unbridged, a)' = InitialSum(Unbridged, a)
         /\ Spendable(bank, a)' = Spendable(bank', a)
    BY Zenon DEF InitialSum, Spendable
  <2>17. QED
    BY Zenon, <2>11, <2>12, <2>13, <2>14, <2>15, <2>16 DEF Balanced
<1>12. QED
  BY Zenon, <1>9, <1>11 DEF Books

(***************************************************************************)
(* A step that leaves coins, pots and totals alone, and of the withdrawals *)
(* at most changes what they do not owe, keeps the books.                  *)
(***************************************************************************)
LEMMA StillBooks ==
    ASSUME IInv, Books, UNCHANGED <<height, bank, fees, totals>>,
           DOMAIN withdrawal' = DOMAIN withdrawal, Owing' = Owing,
           \A i \in DOMAIN withdrawal : SameTerms(withdrawal'[i], withdrawal[i])
    PROVE  Books'
<1>1. /\ withdrawalSeq \in Nat /\ withdrawal \in [Ids(withdrawalSeq) -> WithdrawalRecords]
  BY Zenon DEF IInv, Shape
<1>2. IsFiniteSet(DOMAIN withdrawal) /\ Terms(withdrawal)
  BY Zenon, <1>1, StoredTerms
<1>3. \A i \in DOMAIN withdrawal : withdrawal'[i].createdAt = withdrawal[i].createdAt
  BY Zenon DEF SameTerms
<1>4. /\ MadeIn(height)' = MadeIn(height) /\ MadeIn(height - 1)' = MadeIn(height - 1)
      /\ MadeBefore(height)' = MadeBefore(height)
  BY Zenon, <1>3 DEF MadeIn, MadeBefore
<1>5. ASSUME NEW ids, ids \subseteq DOMAIN withdrawal, NEW a
      PROVE  /\ SumIn(withdrawal', NetOf(withdrawal'), ids, a) = RefundOf(ids, a)
             /\ SumIn(withdrawal', FeeOf(withdrawal'), ids, a) = BridgeFeesOf(ids, a)
  <2>1. /\ IsFiniteSet(ids) /\ ids \subseteq DOMAIN withdrawal'
        /\ \A i \in ids : SameTerms(withdrawal'[i], withdrawal[i])
    BY Zenon, <1>5, RefundsTyped DEF IInv
  <2>2. QED
    BY <1>2, <1>5, <2>1, SumsKept, SumsOf
<1>6. \A a : /\ RefundOf(Owing, a)' = RefundOf(Owing, a)
             /\ RefundOf(MadeIn(height), a)' = RefundOf(MadeIn(height), a)
             /\ BridgeFeesOf(MadeIn(height), a)' = BridgeFeesOf(MadeIn(height), a)
             /\ BridgeFeesOf(MadeBefore(height), a)' = BridgeFeesOf(MadeBefore(height), a)
             /\ TxFeesOf(MadeIn(height), a)' = TxFeesOf(MadeIn(height), a)
             /\ TxFeesOf(MadeIn(height - 1), a)' = TxFeesOf(MadeIn(height - 1), a)
             /\ TxFeesOf(MadeBefore(height), a)' = TxFeesOf(MadeBefore(height), a)
  BY Zenon, <1>2, <1>4, <1>5, SubsetsFinite, SumsOf DEF TxFeesOf
<1>7. Amounts'
  BY Zenon, <1>3 DEF Books, Amounts
<1>8. ASSUME NEW a \in Assets
      PROVE  Balanced(a)'
  <2>1. Balanced(a)
    BY Zenon DEF Books
  <2>2. InitialSum(Bridged, a)' = InitialSum(Bridged, a)
        /\ InitialSum(Unbridged, a)' = InitialSum(Unbridged, a)
        /\ Spendable(bank, a)' = Spendable(bank, a)
    BY Zenon DEF InitialSum, Spendable
  <2>3. QED
    BY Zenon, <1>6, <2>1, <2>2 DEF Balanced
<1>9. QED
  BY Zenon, <1>7, <1>8 DEF Books

LEMMA AttestKeepsBooks ==
    ASSUME IInv, Books, Attest
    PROVE  Books'
<1>1. PICK v \in Val, cand \in Candidates : \E id, block, facts :
          AttestBy(v, id, cand, block, facts)
  BY Zenon, AttestCases
<1>2. PICK id, block, facts : AttestWithdrawalPayout(v, id, cand, block, facts)
  BY Zenon, <1>1 DEF AttestBy
<1>3. AttestChanges(v, id, cand)
  BY Zenon, <1>2, AttestEffect DEF IInv
<1>4. /\ withdrawal' \in [Ids(withdrawalSeq) -> WithdrawalRecords]
      /\ id \in DOMAIN withdrawal /\ withdrawal[id].status = "REQUESTED"
      /\ \A i \in DOMAIN withdrawal : i # id => withdrawal'[i] = withdrawal[i]
      /\ SameTerms(withdrawal'[id], withdrawal[id])
      /\ withdrawal'[id].status \in {"REQUESTED", "PROCESSED"}
  BY Zenon, <1>3 DEF AttestChanges
<1>5. UNCHANGED <<height, bank, fees, totals>>
  BY Zenon, <1>2 DEF AttestWithdrawalPayout, coinVars
<1>6. DOMAIN withdrawal' = DOMAIN withdrawal
  BY Zenon, <1>4 DEF IInv, Shape
<1>7. \A i \in DOMAIN withdrawal : SameTerms(withdrawal'[i], withdrawal[i])
  BY Zenon, <1>4 DEF SameTerms
<1>8. Owing' = Owing
  <2>1. withdrawal'[id].status # "REFUNDED" /\ withdrawal[id].status # "REFUNDED"
    BY Zenon, <1>4
  <2>2. QED
    BY Zenon, <1>4, <1>6, <2>1 DEF Owing
<1>9. QED
  BY Zenon, <1>5, <1>6, <1>7, <1>8, StillBooks

LEMMA RestKeepsBooks ==
    ASSUME IInv, Books, Pay \/ Stray \/ Govern \/ Restake \/ UNCHANGED vars
    PROVE  Books'
<1>1. UNCHANGED <<height, bank, fees, totals, withdrawal>>
  <2>1. CASE Pay \/ Stray
    BY Zenon, <2>1 DEF Pay, Stray, baseVars, withdrawalVars
  <2>2. CASE Govern \/ Restake
    BY Zenon, <2>2 DEF Govern, Restake, withdrawalVars, coinVars
  <2>3. CASE UNCHANGED vars
    BY Zenon, <2>3 DEF vars, baseVars, withdrawalVars
  <2>4. QED
    BY Zenon, <2>1, <2>2, <2>3
<1>2. Owing' = Owing
  BY Zenon, <1>1 DEF Owing
<1>3. DOMAIN withdrawal' = DOMAIN withdrawal
      /\ \A i \in DOMAIN withdrawal : SameTerms(withdrawal'[i], withdrawal[i])
  BY Zenon, <1>1 DEF SameTerms
<1>4. QED
  BY Zenon, <1>1, <1>2, <1>3, StillBooks

-----------------------------------------------------------------------------
(* The books are balanced at first. *)

LEMMA InitialBooks == Init => Books
<1> SUFFICES ASSUME Init PROVE Books
  BY Zenon
<1>1. /\ height = 1
      /\ bank = [h \in Holders |-> [a \in Assets |->
                   IF h \in Users THEN Bridged[h][a] + Unbridged[h][a] ELSE 0]]
      /\ totals = [minted |-> [a \in Assets |-> InitialSum(Bridged, a)],
                   burned |-> [a \in Assets |-> 0]]
      /\ fees = [collector |-> [a \in Assets |-> 0], community |-> [a \in Assets |-> 0],
                 stakers |-> [a \in Assets |-> 0]]
      /\ DOMAIN withdrawal = {}
  BY Zenon DEF Init, BaseInit
<1>2. /\ Owing = {} /\ MadeIn(height) = {} /\ MadeIn(height - 1) = {}
      /\ MadeBefore(height) = {}
  BY Zenon, <1>1 DEF Owing, MadeIn, MadeBefore
<1>3. ASSUME NEW a
      PROVE  RefundOf({}, a) = 0 /\ BridgeFeesOf({}, a) = 0 /\ TxFeesOf({}, a) = 0
  <2>1. InAsset(withdrawal, {}, a) = {}
    BY Zenon DEF InAsset
  <2>2. RefundOf({}, a) = 0 /\ BridgeFeesOf({}, a) = 0
    BY Zenon, <2>1, SumEmpty, SumsOf DEF SumIn
  <2>3. TxFeesOf({}, a) = 0
    BY FS_EmptySet, AssetsAndHolders DEF TxFeesOf
  <2>4. QED
    BY Zenon, <2>2, <2>3
<1>4. ASSUME NEW a \in Assets
      PROVE  /\ InitialSum(Bridged, a) \in Nat /\ InitialSum(Unbridged, a) \in Nat
             /\ bank[BlackHole][a] = 0 /\ bank[BridgeReward][a] = 0
             /\ OfUsers(bank, a) = InitialSum(Bridged, a) + InitialSum(Unbridged, a)
  <2> DEFINE f == [u \in Users |-> Bridged[u][a]]
             g == [u \in Users |-> Unbridged[u][a]]
             h == [u \in Users |-> bank[u][a]]
  <2>1. \A u \in Users : f[u] \in Nat /\ g[u] \in Nat /\ h[u] = f[u] + g[u]
    BY <1>1, WithdrawalAssumption, AssetsAndHolders
  <2>2. bank[BlackHole][a] = 0 /\ bank[BridgeReward][a] = 0
    BY Zenon, <1>1, AssetsAndHolders
  <2> HIDE DEF f, g, h
  <2>3. \A u \in Users : f[u] \in Int /\ g[u] \in Int /\ h[u] = f[u] + g[u]
    BY <2>1
  <2>4. Sum(f, Users) \in Nat /\ Sum(g, Users) \in Nat
    BY Zenon, <2>1, SumNat, AssetsAndHolders
  <2>5. Sum(h, Users) = Sum(f, Users) + Sum(g, Users)
    BY Zenon, <2>3, SumPlus, AssetsAndHolders
  <2>6. QED
    BY Zenon, <2>2, <2>4, <2>5 DEF InitialSum, OfUsers, f, g, h
<1>5. Amounts
  <2>1. bank \in Balances
    <3>1. \A h \in Users, a \in Assets : Bridged[h][a] + Unbridged[h][a] \in Nat
      BY WithdrawalAssumption
    <3>2. QED
      BY <1>1, <3>1 DEF Balances
  <2>2. fees \in FeePots
    BY <1>1 DEF FeePots
  <2>3. totals \in Totals
    BY Zenon, <1>1, <1>4 DEF Totals
  <2>4. QED
    BY Zenon, <1>1, <2>1, <2>2, <2>3 DEF Amounts
<1>6. ASSUME NEW a \in Assets
      PROVE  Balanced(a)
  <2>1. /\ Spendable(bank, a) = OfUsers(bank, a) + bank[BridgeReward][a]
    BY Zenon, <1>5, SpendableSplit DEF Amounts
  <2>2. /\ totals.minted[a] = InitialSum(Bridged, a) /\ totals.burned[a] = 0
        /\ fees.collector[a] = 0 /\ fees.stakers[a] = 0 /\ fees.community[a] = 0
    BY <1>1
  <2>3. QED
    <3>1. /\ RefundOf(Owing, a) = 0 /\ RefundOf(MadeIn(height), a) = 0
          /\ TxFeesOf(MadeIn(height - 1), a) = 0 /\ TxFeesOf(MadeIn(height), a) = 0
          /\ BridgeFeesOf(MadeIn(height), a) = 0 /\ BridgeFeesOf(MadeBefore(height), a) = 0
          /\ TxFeesOf(MadeBefore(height), a) = 0
      BY Zenon, <1>2, <1>3
    <3>2. /\ InitialSum(Bridged, a) \in Nat /\ InitialSum(Unbridged, a) \in Nat
          /\ bank[BlackHole][a] = 0 /\ bank[BridgeReward][a] = 0
          /\ OfUsers(bank, a) = InitialSum(Bridged, a) + InitialSum(Unbridged, a)
      BY Zenon, <1>4
    <3>3. totals.burned[a] <= totals.minted[a]
      BY ONLY <2>2, <3>2
    <3>4. totals.minted[a] - totals.burned[a] = InitialSum(Bridged, a) - RefundOf(Owing, a)
      BY ONLY <2>2, <3>1, <3>2
    <3>5. Spendable(bank, a) = InitialSum(Bridged, a) + InitialSum(Unbridged, a)
      BY ONLY <2>1, <3>2
    <3>6. Spendable(bank, a) + fees.collector[a] + fees.stakers[a] + 2 * fees.community[a]
             = InitialSum(Bridged, a) + InitialSum(Unbridged, a) - RefundOf(Owing, a)
      BY ONLY <2>2, <3>1, <3>2, <3>5
    <3>7. bank[BlackHole][a]
             = RefundOf(MadeIn(height), a) + TxFeesOf(MadeIn(height - 1), a) \div 4
      BY ONLY <3>1, <3>2
    <3>8. /\ bank[BridgeReward][a] = BridgeFeesOf(MadeIn(height), a)
          /\ fees.collector[a] = TxFeesOf(MadeIn(height), a)
      BY Zenon, <2>2, <3>1, <3>2
    <3>9. fees.stakers[a] + 2 * fees.community[a]
             = BridgeFeesOf(MadeBefore(height), a) + TxFeesOf(MadeBefore(height), a)
      BY ONLY <2>2, <3>1
    <3>10. 4 * fees.community[a] <= TxFeesOf(MadeBefore(height), a)
      BY ONLY <2>2, <3>1
    <3>11. QED
      BY Zenon, <3>3, <3>4, <3>6, <3>7, <3>8, <3>9, <3>10 DEF Balanced
<1>7. QED
  BY Zenon, <1>5, <1>6 DEF Books

(***************************************************************************)
(* The books are balanced throughout, with and without the gateway.        *)
(***************************************************************************)
THEOREM BooksBalanced == Spec \/ ChainSpec => []Books
<1>1. IInv /\ Books /\ [Next \/ ChainNext]_vars => Books'
  <2> SUFFICES ASSUME IInv, Books, [Next \/ ChainNext]_vars PROVE Books'
    BY Zenon
  <2>1. CASE Request \/ Attest
    BY Zenon, <2>1, RequestKeepsBooks, AttestKeepsBooks
  <2>2. CASE NextBlock
    BY Zenon, <2>2, BlockKeepsBooks
  <2>3. CASE Pay \/ Stray \/ Govern \/ Restake \/ UNCHANGED vars
    BY Zenon, <2>3, RestKeepsBooks
  <2>4. QED
    BY Zenon, <2>1, <2>2, <2>3 DEF Next, ChainNext
<1>2. IInv /\ Books /\ [Next]_vars => Books'
  BY Zenon, <1>1
<1>3. IInv /\ Books /\ [ChainNext]_vars => Books'
  BY Zenon, <1>1
<1>4. Init => Books
  BY Zenon, InitialBooks
<1>5. QED
  BY <1>2, <1>3, <1>4, Invariance, PTL DEF Spec, ChainSpec

(***************************************************************************)
(* What is owed on Steem or was paid there never exceeds what was bridged  *)
(* in, whatever other coins the users hold: the totals that BridgeOut      *)
(* checks differ by exactly the amount still free.                         *)
(***************************************************************************)
THEOREM OwesNoMore == Spec \/ ChainSpec => []NeverOwesMore
<1>1. IInv /\ Books => NeverOwesMore
  <2> SUFFICES ASSUME IInv, Books, NEW a \in Assets
               PROVE  RefundOf(Owing, a) <= InitialSum(Bridged, a)
    BY Zenon DEF NeverOwesMore
  <2>1. BookTypes(a)
    BY Zenon, BooksTyped DEF IInv, Books
  <2>2. Balanced(a)
    BY Zenon DEF Books
  <2>3. /\ totals.burned[a] \in Nat /\ totals.minted[a] \in Nat
        /\ InitialSum(Bridged, a) \in Nat /\ RefundOf(Owing, a) \in Nat
    BY Zenon, <2>1 DEF BookTypes
  <2>4. /\ totals.burned[a] <= totals.minted[a]
        /\ totals.minted[a] - totals.burned[a] = InitialSum(Bridged, a) - RefundOf(Owing, a)
    BY Zenon, <2>2 DEF Balanced
  <2>5. QED
    BY ONLY <2>3, <2>4
<1>2. QED
  BY <1>1, Invariance, BooksBalanced, PTL

(***************************************************************************)
(* No coin of a withdrawal is lost or made: the net amount is burned by    *)
(* the end of its block, comes back once if it is refunded, and the        *)
(* running totals differ by what is not owed (BridgeOut,                   *)
(* RefundExpiredWithdrawals, SplitFees, SweepBlackHole).                   *)
(***************************************************************************)
THEOREM NoCoinLost == Spec \/ ChainSpec => []CoinsAccounted
<1>1. Books => CoinsAccounted
  BY Zenon DEF Books, Balanced, Spendable, CoinsAccounted
<1>2. QED
  BY <1>1, BooksBalanced, PTL

(***************************************************************************)
(* From the block after it was paid on, a bridge fee is all the stakers',  *)
(* and of the transaction fees a quarter at most goes to the community and *)
(* as much is burned (SplitFees).                                          *)
(***************************************************************************)
THEOREM FeesGoRound == Spec \/ ChainSpec => []FeesShared
<1>1. Books => FeesShared
  BY Zenon DEF Books, Balanced, FeesShared
<1>2. QED
  BY <1>1, BooksBalanced, PTL

-----------------------------------------------------------------------------
(* Type correctness. *)

(***************************************************************************)
(* What x/oracle is told, and what happened on Steem.                      *)
(***************************************************************************)
Outside ==
    /\ tally \in [Val -> [opportunities : Nat, hits : Nat]]
    /\ dutyQueue \subseteq {"withdrawal"} \X Ids(withdrawalSeq)
    /\ steemPayouts \subseteq PayoutRecords
    /\ enabledSince \in Nat

LEMMA BlockKeepsOutside ==
    ASSUME IInv, Outside, NextBlock
    PROVE  Outside'
<1>1. withdrawalSeq \in Nat /\ withdrawalSeq' = withdrawalSeq /\ dutyQueue' = {}
      /\ UNCHANGED worldVars
  BY Zenon DEF IInv, Shape, NextBlock, RefundExpiredWithdrawals, FlushBridgeDuty
<1>2. IsFiniteSet(dutyQueue)
  <2>1. IsFiniteSet({"withdrawal"} \X Ids(withdrawalSeq))
    <3>1. IsFiniteSet(Ids(withdrawalSeq))
      BY <1>1, FS_Interval DEF Ids
    <3>2. IsFiniteSet({"withdrawal"})
      BY Zenon, FS_Singleton
    <3>3. QED
      BY <3>1, <3>2, FS_Product
  <2>2. QED
    BY <2>1, FS_Subset DEF Outside
<1>3. PICK att : FlushBridgeDuty(att)
  BY Zenon DEF NextBlock
<1>4. \A v : IsFiniteSet({e \in dutyQueue : v \in att[e]})
  BY <1>2, FS_Subset
<1>5. /\ Cardinality(dutyQueue) \in Nat
      /\ \A v : Cardinality({e \in dutyQueue : v \in att[e]}) \in Nat
  BY Zenon, <1>2, <1>4, FS_CardinalityType
<1>6. tally' \in [Val -> [opportunities : Nat, hits : Nat]]
  <2> DEFINE n == Cardinality(dutyQueue)
             m == [v \in Val |-> Cardinality({e \in dutyQueue : v \in att[e]})]
  <2>1. n \in Nat /\ m \in [Val -> Nat]
    BY Zenon, <1>5
  <2>2. tally' = [v \in Val |->
          IF v \in bonded'
            THEN [opportunities |-> tally[v].opportunities + n, hits |-> tally[v].hits + m[v]]
            ELSE tally[v]]
    BY <1>3 DEF FlushBridgeDuty
  <2> HIDE DEF n, m
  <2>3. QED
    BY <2>1, <2>2 DEF Outside
<1>7. QED
  BY Zenon, <1>1, <1>6 DEF Outside, worldVars

LEMMA NextKeepsOutside == IInv /\ Outside /\ [Next \/ ChainNext]_vars => Outside'
<1> SUFFICES ASSUME IInv, Outside, [Next \/ ChainNext]_vars PROVE Outside'
  BY Zenon
<1>1. CASE Request
  <2>1. withdrawalSeq \in Nat /\ withdrawalSeq' = withdrawalSeq + 1
        /\ UNCHANGED <<dutyVars, worldVars>>
    BY Zenon, <1>1 DEF IInv, Shape, Request, BridgeOut
  <2>2. Ids(withdrawalSeq) \subseteq Ids(withdrawalSeq')
    BY <2>1 DEF Ids
  <2>3. QED
    BY Zenon, <2>1, <2>2 DEF Outside, dutyVars, worldVars
<1>2. CASE Attest
  <2>1. PICK v \in Val, cand \in Candidates : \E id, block, facts :
            AttestBy(v, id, cand, block, facts)
    BY Zenon, <1>2, AttestCases
  <2>2. PICK id, block, facts : AttestBy(v, id, cand, block, facts)
    BY Zenon, <2>1
  <2>3. /\ id \in Ids(withdrawalSeq) /\ UNCHANGED <<withdrawalSeq, tally, worldVars>>
        /\ dutyQueue' \in {dutyQueue, dutyQueue \cup {<<"withdrawal", id>>}}
    BY Zenon, <2>2 DEF AttestBy, AttestWithdrawalPayout, IInv, Shape
  <2>4. QED
    BY <2>3 DEF Outside, worldVars
<1>3. CASE Pay \/ Stray
  <2>1. PICK id \in DOMAIN withdrawal, cand \in Candidates, block \in SteemBlocks,
             f \in PayoutFactRecords :
            steemPayouts' = steemPayouts \cup
               {[id |-> id, cand |-> cand, block |-> block, facts |-> f, at |-> height]}
    <3>1. CASE Pay
      <4>1. PICK id \in DOMAIN withdrawal, cand \in Candidates, block \in SteemBlocks :
                PayWithdrawal(id, cand, block)
        BY Zenon, <3>1 DEF Pay
      <4>2. withdrawal[id].facts \in PayoutFactRecords
        BY Zenon DEF IInv, Shape, WithdrawalRecords
      <4>3. QED
        BY Zenon, <4>1, <4>2 DEF PayWithdrawal
    <3>2. CASE Stray
      BY Zenon, <3>2, WithdrawalAssumption DEF Stray, StrayPayout
    <3>3. QED
      BY Zenon, <1>3, <3>1, <3>2
  <2>2. id \in Nat /\ height \in Nat
    BY DEF IInv, Shape, Ids
  <2>3. [id |-> id, cand |-> cand, block |-> block, facts |-> f, at |-> height]
           \in PayoutRecords
    BY Zenon, <2>2 DEF PayoutRecords
  <2>4. UNCHANGED <<withdrawalSeq, tally, dutyQueue, enabledSince>>
    BY Zenon, <1>3 DEF Pay, Stray, baseVars, withdrawalVars
  <2>5. QED
    BY Zenon, <2>1, <2>3, <2>4 DEF Outside
<1>4. CASE Govern \/ Restake \/ UNCHANGED vars
  <2>1. /\ UNCHANGED <<withdrawalSeq, tally, dutyQueue, steemPayouts>>
        /\ enabledSince' \in {height, enabledSince}
    BY Zenon, <1>4 DEF Govern, Restake, vars, baseVars, withdrawalVars, dutyVars, worldVars
  <2>2. QED
    BY Zenon, <2>1 DEF Outside, IInv, Shape
<1>5. CASE NextBlock
  BY Zenon, <1>5, BlockKeepsOutside
<1>6. QED
  BY Zenon, <1>1, <1>2, <1>3, <1>4, <1>5 DEF Next, ChainNext

(***************************************************************************)
(* Every variable keeps its shape, and no balance, total or fee pot ever   *)
(* goes below zero, though BridgeOut and SplitFees subtract.               *)
(***************************************************************************)
THEOREM TypeCorrect == Spec \/ ChainSpec => []TypeOK
<1>1. Init => Outside
  <2> SUFFICES ASSUME Init PROVE Outside
    OBVIOUS
  <2>1. /\ tally = [v \in Val |-> [opportunities |-> 0, hits |-> 0]]
        /\ dutyQueue = {} /\ steemPayouts = {} /\ enabledSince = 1
    BY Zenon DEF Init, BaseInit
  <2>2. tally \in [Val -> [opportunities : Nat, hits : Nat]] /\ enabledSince \in Nat
    BY ONLY <2>1
  <2>3. QED
    BY Zenon, <2>1, <2>2 DEF Outside
<1>2. IInv /\ Outside /\ [Next]_vars => Outside'
  BY Zenon, NextKeepsOutside
<1>3. IInv /\ Outside /\ [ChainNext]_vars => Outside'
  BY Zenon, NextKeepsOutside
<1>4. IInv /\ Books /\ Outside => TypeOK
  BY Zenon DEF IInv, Shape, Books, Amounts, Balances, FeePots, Totals, Outside, TypeOK,
     BaseTypeOK
<1>5. QED
  BY <1>1, <1>2, <1>3, <1>4, Invariance, BooksBalanced, PTL DEF Spec, ChainSpec

=============================================================================
