------------------------------ MODULE Withdrawals ------------------------------
(***************************************************************************)
(* Bridge-out of x/oracle/bridge: a user's coins go to the black hole and  *)
(* a withdrawal is recorded; the gateway's signers pay it on Steem; bonded *)
(* validators attest the payout they saw; a withdrawal whose payout is not *)
(* confirmed in time is refunded by the chain itself.                      *)
(*                                                                         *)
(* On Steem a payout is a transfer from the gateway linked to a withdrawal *)
(* id; cand is the (txid, op index) that names it.                         *)
(***************************************************************************)
EXTENDS BridgeBase

CONSTANTS
    Requests,        \* bridge-out messages users may send
    InvalidAccounts, \* destinations that are no Steem account names
    InvalidMemos,    \* memos with control characters or too long
    Candidates,      \* transfers out of the gateway on Steem
    SteemBlocks,     \* Steem blocks they may be in
    PayoutFacts,     \* what such a transfer may pay: [to, asset, amount, memo]
    PayoutMargin,    \* PayoutMarginBlocks of the gateway's signers
    Unbridged,       \* coins that exist without having been bridged in
    Bridged,         \* coins bridged in before the first step, per asset
    TxFee,           \* fee of a bridge-out transaction, in base units of STEEM
    AttestLag,       \* blocks an honest validator takes to attest a payout
    Faulty,          \* validators that may attest payouts that never happened
    LastRequest,     \* bound: the last block with a bridge-out
    MaxWithdrawals   \* bound: the withdrawals requested

PayoutFactRecords == [to : STRING, asset : Assets, amount : Nat, memo : STRING]

RequestRecords ==
    [sender : Users, to : STRING, asset : Assets, amount : Int, memo : STRING]

ASSUME WithdrawalAssumption ==
    /\ Requests \subseteq RequestRecords
    /\ Unbridged \in [Users -> [Assets -> Nat]]
    /\ Bridged \in [Users -> [Assets -> Nat]]
    /\ PayoutFacts \subseteq PayoutFactRecords
    /\ Faulty \subseteq Val
    /\ TxFee \in Nat

VARIABLES
    withdrawal,             \* Keeper.Withdrawal
    withdrawalSeq,          \* Keeper.WithdrawalSeq
    withdrawalByStatus,     \* Keeper.WithdrawalByStatus: set of <<status, id>>
    withdrawalConfirmedBy,  \* Keeper.WithdrawalConfirmedBy: set of <<id, validator>>
    withdrawalPayoutVote,   \* Keeper.WithdrawalPayoutVote: set of <<id, cand, validator>>
    fees,                   \* fee_collector, and what x/distribution has for the
                            \* community pool and for the stakers
    steemPayouts,           \* transfers out of the gateway that happened on Steem
    enabledSince            \* the block that last enabled bridge-out

withdrawalVars == <<withdrawal, withdrawalSeq, withdrawalByStatus,
                    withdrawalConfirmedBy, withdrawalPayoutVote>>
worldVars == <<steemPayouts, enabledSince>>

WithdrawalStatuses == {"REQUESTED", "PROCESSED", "REFUNDED"}
NoPayout == "none"

WithdrawalRecords ==
    [sender : Users, facts : PayoutFactRecords,
     fee : Nat, status : WithdrawalStatuses, createdAt : Nat,
     confirmations : [Val -> Nat], payout : Candidates \cup {NoPayout}]

PayoutRecords ==
    [id : Nat, cand : Candidates, block : SteemBlocks, facts : PayoutFactRecords, at : Nat]

-----------------------------------------------------------------------------
(* Requesting. *)

ValidateWithdrawalDestination(to) == to \notin InvalidAccounts /\ to # GatewayAccount

ValidAmount(amount) ==
    /\ amount > 0
    /\ amount % Factor = 0
    /\ amount \div Factor < UintMod
    /\ params.MinimumBridgeAmount # 0 =>
           amount \div Factor >= params.MinimumBridgeAmount

\* Variant: the requested amount is left out of the comparison.
WithinBridgedStale(asset, net) == totals.burned[asset] < totals.minted[asset]

(***************************************************************************)
(* Never owe more of an asset than came in.                                *)
(***************************************************************************)
WithinBridged(asset, net) ==
    totals.burned[asset] + MillisteemToAsteem(net) <= totals.minted[asset]

\* The ante handler takes the transaction's fee first.
FeePaid(sender) == [bank EXCEPT ![sender]["STEEM"] = @ - TxFee]

WithdrawnBank(bal, sender, asset, split) ==
    [h \in Holders |-> [bal[h] EXCEPT ![asset] =
        IF h = sender THEN @ - MillisteemToAsteem(split.net) - MillisteemToAsteem(split.fee)
        ELSE IF h = BlackHole THEN @ + MillisteemToAsteem(split.net)
        ELSE IF h = BridgeReward THEN @ + MillisteemToAsteem(split.fee)
        ELSE @]]

(***************************************************************************)
(* BridgeOut: the net amount goes to the black hole, where the block's end *)
(* burns it, the fee to bridge_reward, and a withdrawal is recorded.       *)
(***************************************************************************)
BridgeOut(r) ==
    LET gross == r.amount \div Factor
        split == ApplyBridgeFee(gross, params.BridgeFeeBps)
    IN  /\ params.BridgeOutEnabled
        /\ ValidateWithdrawalDestination(r.to)
        /\ r.memo \notin InvalidMemos
        /\ ValidAmount(r.amount)
        /\ WithinBridged(r.asset, split.net)
        /\ bank[r.sender]["STEEM"] >= TxFee
        /\ FeePaid(r.sender)[r.sender][r.asset] >= MillisteemToAsteem(gross)
        /\ withdrawalSeq < MaxWithdrawals
        /\ bank' = WithdrawnBank(FeePaid(r.sender), r.sender, r.asset, split)
        /\ fees' = [fees EXCEPT !.collector["STEEM"] = @ + TxFee]
        /\ totals' = [totals EXCEPT !.burned[r.asset] =
                                        @ + MillisteemToAsteem(split.net)]
        /\ withdrawalSeq' = withdrawalSeq + 1
        /\ withdrawal' = [i \in Ids(withdrawalSeq + 1) |->
              IF i # withdrawalSeq THEN withdrawal[i]
              ELSE [sender |-> r.sender,
                    facts |-> [to |-> r.to, asset |-> r.asset,
                               amount |-> split.net, memo |-> r.memo],
                    fee |-> split.fee, status |-> "REQUESTED", createdAt |-> height,
                    confirmations |-> [v \in Val |-> 0], payout |-> NoPayout]]
        /\ withdrawalByStatus' = withdrawalByStatus \cup {<<"REQUESTED", withdrawalSeq>>}
        /\ UNCHANGED <<withdrawalConfirmedBy, withdrawalPayoutVote>>
        /\ UNCHANGED <<height, params, stakeVars, dutyVars>>

-----------------------------------------------------------------------------
(* Attesting payouts. *)

PayoutMatches(w, facts) == w.facts = facts

\* Variant: votes for any transfer count for the one just attested.
PayoutVotersAny(id, cand) ==
    {v \in Val : \E c \in Candidates : <<id, c, v>> \in withdrawalPayoutVote}

PayoutVoters(id, cand) == {v \in Val : <<id, cand, v>> \in withdrawalPayoutVote}

\* Variant: a validator may vote once per candidate.
MayAttestPerCandidate(v, id, cand) == <<id, cand, v>> \notin withdrawalPayoutVote

MayAttest(v, id, cand) == <<id, v>> \notin withdrawalConfirmedBy

Attestable(w) == w.status = "REQUESTED"

(***************************************************************************)
(* AttestWithdrawalPayout: validator v attests that the transfer cand in   *)
(* Steem block "block" paid withdrawal id with these facts.  Attestations  *)
(* of a settled withdrawal, of other facts than the withdrawal asks for,   *)
(* and repeated ones are no-ops.                                           *)
(***************************************************************************)
AttestWithdrawalPayout(v, id, cand, block, facts) ==
    LET w == [withdrawal[id] EXCEPT !.confirmations[v] = @ + 1]
        paid == ReachesThreshold(PayoutVoters(id, cand) \cup {v})
    IN  /\ params.BridgeOutEnabled
        /\ CheckSteemBlock(block)
        /\ v \in bonded
        /\ id \in DOMAIN withdrawal
        /\ Attestable(withdrawal[id])
        /\ PayoutMatches(withdrawal[id], facts)
        /\ MayAttest(v, id, cand)
        /\ withdrawalConfirmedBy' = withdrawalConfirmedBy \cup {<<id, v>>}
        /\ withdrawalPayoutVote' = withdrawalPayoutVote \cup {<<id, cand, v>>}
        /\ \/ /\ ~paid
              /\ withdrawal' = [withdrawal EXCEPT ![id] = w]
              /\ UNCHANGED <<withdrawalByStatus, dutyQueue>>
           \/ /\ paid
              /\ withdrawal' = [withdrawal EXCEPT ![id] =
                                  [w EXCEPT !.status = "PROCESSED", !.payout = cand]]
              /\ withdrawalByStatus' = (withdrawalByStatus \ {<<"REQUESTED", id>>})
                                          \cup {<<"PROCESSED", id>>}
              /\ dutyQueue' = dutyQueue \cup {<<"withdrawal", id>>}
        /\ UNCHANGED <<withdrawalSeq, fees>>
        /\ UNCHANGED <<height, params, stakeVars, coinVars, tally>>

-----------------------------------------------------------------------------
(* The block's end. *)

\* Variant: the sweep takes whatever was not refunded yet.
UnrefundedWithdrawals == {i \in DOMAIN withdrawal : withdrawal[i].status # "REFUNDED"}

RequestedWithdrawals ==
    {i \in DOMAIN withdrawal : <<"REQUESTED", i>> \in withdrawalByStatus}

WithdrawalOverdue(i) == Overdue(withdrawal[i].createdAt, params.WithdrawalTimeoutBlocks)

\* Variant: nothing is refunded while bridge-out is disabled.
RefundingWhileEnabled ==
    {i \in Oldest(RequestedWithdrawals, SweepLimit) :
        params.BridgeOutEnabled /\ WithdrawalOverdue(i)}

RefundingWithdrawals ==
    {i \in Oldest(RequestedWithdrawals, SweepLimit) :
        params.WithdrawalTimeoutBlocks # 0 /\ WithdrawalOverdue(i)}

RefundOf(ids, asset) ==
    Sum([i \in DOMAIN withdrawal |-> MillisteemToAsteem(withdrawal[i].facts.amount)],
        {i \in ids : withdrawal[i].facts.asset = asset})

\* Variant: the refund pays the fee back as well.
RefundedBankGross(refunding) ==
    [h \in Holders |-> [a \in Assets |-> bank[h][a]
        + Sum([i \in refunding |-> MillisteemToAsteem(withdrawal[i].facts.amount
                                                      + withdrawal[i].fee)],
              {i \in refunding : withdrawal[i].sender = h
                                 /\ withdrawal[i].facts.asset = a})]]

(***************************************************************************)
(* RefundExpiredWithdrawals: each refund mints the net amount into the     *)
(* black hole and sends it to the sender, so the black hole nets to zero.  *)
(***************************************************************************)
RefundedBank(refunding) ==
    [h \in Holders |-> [a \in Assets |->
        bank[h][a] + RefundOf({i \in refunding : withdrawal[i].sender = h}, a)]]

RefundTotals(refunding) ==
    [totals EXCEPT !.minted = [a \in Assets |-> @[a] + RefundOf(refunding, a)]]

\* Variant: the sweep burns the running total, not the balance.
SweepBlackHoleTotal(bal) ==
    [bal EXCEPT ![BlackHole] = [a \in Assets |-> @[a] - totals.burned[a]]]

SweepBlackHole(bal) == [bal EXCEPT ![BlackHole] = [a \in Assets |-> 0]]

RefundExpiredWithdrawals ==
    LET refunding == RefundingWithdrawals
    IN  /\ totals' = RefundTotals(refunding)
        /\ withdrawal' = [i \in DOMAIN withdrawal |->
              IF i \in refunding THEN [withdrawal[i] EXCEPT !.status = "REFUNDED"]
                                 ELSE withdrawal[i]]
        /\ withdrawalByStatus' =
              (withdrawalByStatus \ {<<"REQUESTED", i>> : i \in refunding})
                 \cup {<<"REFUNDED", i>> : i \in refunding}
        /\ UNCHANGED <<withdrawalSeq, withdrawalConfirmedBy, withdrawalPayoutVote>>

\* Variant: bridge fees join the collected fees before the split.
SplitFeesAll(bal) ==
    LET pot == [a \in Assets |-> fees.collector[a] + bal[BridgeReward][a]]
    IN  /\ bank' = [bal EXCEPT ![BlackHole] = [a \in Assets |-> @[a] + pot[a] \div 4],
                               ![BridgeReward] = [a \in Assets |-> 0]]
        /\ fees' = [collector |-> [a \in Assets |-> 0],
                    community |-> [a \in Assets |-> fees.community[a] + pot[a] \div 4],
                    stakers |-> [a \in Assets |->
                        fees.stakers[a] + pot[a] - 2 * (pot[a] \div 4)]]

(***************************************************************************)
(* The next block begins with SplitFees, on the balances bal that the end  *)
(* of this one leaves: a quarter of the collected fees goes to the         *)
(* community pool and one to the black hole, and then the bridge fees join *)
(* what is left.  x/distribution hands that to the stakers at once.        *)
(***************************************************************************)
SplitFees(bal) ==
    LET quarter == [a \in Assets |-> fees.collector[a] \div 4]
    IN  /\ bank' = [bal EXCEPT ![BlackHole] = [a \in Assets |-> @[a] + quarter[a]],
                               ![BridgeReward] = [a \in Assets |-> 0]]
        /\ fees' = [collector |-> [a \in Assets |-> 0],
                    community |-> [a \in Assets |-> fees.community[a] + quarter[a]],
                    stakers |-> [a \in Assets |->
                        fees.stakers[a] + fees.collector[a] - 2 * quarter[a]
                           + bal[BridgeReward][a]]]

WithdrawalAttesters(event) ==
    {v \in Val : withdrawal[event[2]].confirmations[v] > 0}

-----------------------------------------------------------------------------
(* The gateway on Steem. *)

\* Variant: the margin before the refund is not kept.
MarginHoldsNone(w) == TRUE

MarginHolds(w) ==
    height + PayoutMargin <= w.createdAt + params.WithdrawalTimeoutBlocks

(***************************************************************************)
(* The gateway's signers pay withdrawal id: what Policy.payoutFacts        *)
(* approves, executed at once, in a Steem block after the scan's start.    *)
(* The signers check their margin when they approve a payout and when they *)
(* execute it, and Steem may include it later still: PayoutMargin stands   *)
(* for what is sure to be left then, which is the Slack of Gateway.        *)
(***************************************************************************)
PayWithdrawal(id, cand, block) ==
    LET w == withdrawal[id]
    IN  /\ w.status = "REQUESTED"
        /\ \A p \in steemPayouts : p.id # id /\ p.cand # cand
        /\ MarginHolds(w)
        /\ CheckSteemBlock(block)
        /\ steemPayouts' = steemPayouts \cup
               {[id |-> id, cand |-> cand, block |-> block, facts |-> w.facts,
                 at |-> height]}

(***************************************************************************)
(* A transfer out of the gateway that is linked to a withdrawal and does   *)
(* not pay it: to someone else, in another asset, amount or memo.          *)
(***************************************************************************)
StrayPayout(id, cand, block, facts) ==
    /\ facts # withdrawal[id].facts
    /\ \A p \in steemPayouts : p.cand # cand
    /\ steemPayouts' = steemPayouts \cup
           {[id |-> id, cand |-> cand, block |-> block, facts |-> facts, at |-> height]}

-----------------------------------------------------------------------------
(* The component on its own. *)

Request ==
    /\ height <= LastRequest
    /\ \E r \in Requests : BridgeOut(r)
    /\ UNCHANGED worldVars

\* The validators outside Faulty attest the payouts they see on Steem.
AttestSeen(v) ==
    \E p \in steemPayouts : AttestWithdrawalPayout(v, p.id, p.cand, p.block, p.facts)

AttestAny(v) ==
    \E id \in DOMAIN withdrawal, cand \in Candidates, block \in SteemBlocks,
       facts \in PayoutFacts : AttestWithdrawalPayout(v, id, cand, block, facts)

Attest ==
    /\ \/ \E v \in Val \ Faulty : AttestSeen(v)
       \/ \E v \in Faulty : AttestAny(v)
    /\ UNCHANGED worldVars

NextBlock ==
    /\ AdvanceBlock
    /\ FlushBridgeDuty([e \in dutyQueue |-> WithdrawalAttesters(e)])
    /\ RefundExpiredWithdrawals
    /\ SplitFees(SweepBlackHole(RefundedBank(RefundingWithdrawals)))
    /\ UNCHANGED <<params, tokens, worldVars>>

Pay ==
    /\ \E id \in DOMAIN withdrawal, cand \in Candidates, block \in SteemBlocks :
           PayWithdrawal(id, cand, block)
    /\ UNCHANGED <<baseVars, withdrawalVars, fees, enabledSince>>

Stray ==
    /\ \E id \in DOMAIN withdrawal, cand \in Candidates, block \in SteemBlocks,
          facts \in PayoutFacts : StrayPayout(id, cand, block, facts)
    /\ UNCHANGED <<baseVars, withdrawalVars, fees, enabledSince>>

Govern ==
    /\ \E p \in ParamChoices : UpdateParams(p)
    /\ enabledSince' = IF params'.BridgeOutEnabled /\ ~params.BridgeOutEnabled
                          THEN height ELSE enabledSince
    /\ UNCHANGED <<withdrawalVars, fees, steemPayouts, height, stakeVars, coinVars, dutyVars>>

Restake ==
    /\ \E t \in TokenChoices : ChangeTokens(t)
    /\ UNCHANGED <<withdrawalVars, fees, worldVars, height, params, bonded, coinVars, dutyVars>>

InitialSum(amounts, a) == Sum([u \in Users |-> amounts[u][a]], Users)

Init ==
    /\ BaseInit
    /\ bank = [h \in Holders |-> [a \in Assets |->
                  IF h \in Users THEN Bridged[h][a] + Unbridged[h][a] ELSE 0]]
    /\ totals = [minted |-> [a \in Assets |-> InitialSum(Bridged, a)],
                 burned |-> [a \in Assets |-> 0]]
    /\ fees = [collector |-> [a \in Assets |-> 0], community |-> [a \in Assets |-> 0],
                stakers |-> [a \in Assets |-> 0]]
    /\ withdrawal = [i \in {} |-> {}]
    /\ withdrawalSeq = 0
    /\ withdrawalByStatus = {}
    /\ withdrawalConfirmedBy = {}
    /\ withdrawalPayoutVote = {}
    /\ steemPayouts = {}
    /\ enabledSince = 1

\* The chain: what happened on Steem is left to what Faulty attests.
ChainNext == Request \/ Attest \/ NextBlock \/ Govern \/ Restake

(***************************************************************************)
(* Honest validators attest a payout within AttestLag blocks, counted from *)
(* the end of the last pause if bridge-out was paused meanwhile.           *)
(***************************************************************************)
AttestedInTime ==
    \A v \in bonded \ Faulty, p \in steemPayouts :
        /\ params.BridgeOutEnabled
        /\ p.at + AttestLag <= height
        /\ enabledSince + AttestLag <= height
        /\ CheckSteemBlock(p.block)
        /\ withdrawal[p.id].status = "REQUESTED"
        /\ p.facts = withdrawal[p.id].facts
        => <<p.id, v>> \in withdrawalConfirmedBy

\* The chain and the gateway.
Next ==
    \/ Request \/ Attest \/ Pay \/ Stray \/ Govern \/ Restake
    \/ AttestedInTime /\ NextBlock

vars == <<baseVars, withdrawalVars, fees, worldVars>>

Spec == Init /\ [][Next]_vars

ChainSpec == Init /\ [][ChainNext]_vars

-----------------------------------------------------------------------------
(* Properties. *)

(***************************************************************************)
(* Every variable keeps the shape of the store collection it stands for;   *)
(* no balance goes below zero.                                             *)
(***************************************************************************)
TypeOK ==
    /\ BaseTypeOK
    /\ withdrawalSeq \in Nat
    /\ withdrawal \in [Ids(withdrawalSeq) -> WithdrawalRecords]
    /\ withdrawalByStatus \subseteq WithdrawalStatuses \X Ids(withdrawalSeq)
    /\ withdrawalConfirmedBy \subseteq Ids(withdrawalSeq) \X Val
    /\ withdrawalPayoutVote \subseteq Ids(withdrawalSeq) \X Candidates \X Val
    /\ fees \in [collector : [Assets -> Nat], community : [Assets -> Nat],
                 stakers : [Assets -> Nat]]
    /\ steemPayouts \subseteq PayoutRecords
    /\ enabledSince \in Nat
    /\ dutyQueue \subseteq {"withdrawal"} \X Ids(withdrawalSeq)

Owing == {i \in DOMAIN withdrawal : withdrawal[i].status # "REFUNDED"}

(***************************************************************************)
(* What is owed on Steem or has been paid never exceeds what was bridged   *)
(* in, though users hold other coins too, and refunds count as mints (the  *)
(* check against the totals in BridgeOut).                                 *)
(***************************************************************************)
NeverOwesMore ==
    \A a \in Assets : RefundOf(Owing, a) <= InitialSum(Bridged, a)

\* The bridge fees, and the fees of the transactions, that these withdrawals
\* have cost in asset a.
BridgeFeesOf(ids, a) ==
    Sum([i \in DOMAIN withdrawal |-> MillisteemToAsteem(withdrawal[i].fee)],
        {i \in ids : withdrawal[i].facts.asset = a})

TxFeesOf(ids, a) == IF a = "STEEM" THEN TxFee * Cardinality(ids) ELSE 0

MadeIn(h) == {i \in DOMAIN withdrawal : withdrawal[i].createdAt = h}
MadeBefore(h) == {i \in DOMAIN withdrawal : withdrawal[i].createdAt < h}

(***************************************************************************)
(* Each withdrawal's net amount is out of circulation from the request on, *)
(* burned by the end of its block and not later, and is back in exactly    *)
(* once if it is refunded; of the fees nothing is lost but the quarter     *)
(* that is burned, as much as the community pool has; the black hole never *)
(* holds anything else (BridgeOut, RefundExpiredWithdrawals, SplitFees,    *)
(* SweepBlackHole).                                                        *)
(***************************************************************************)
CoinsAccounted ==
    \A a \in Assets :
        LET bridged == InitialSum(Bridged, a)
            owed == RefundOf(Owing, a)
        IN  /\ Sum([h \in Holders |-> bank[h][a]], Holders \ {BlackHole})
                 + fees.collector[a] + fees.stakers[a] + 2 * fees.community[a]
                  = bridged + InitialSum(Unbridged, a) - owed
            /\ totals.minted[a] - totals.burned[a] = bridged - owed
            /\ bank[BlackHole][a]
                  = RefundOf(MadeIn(height), a) + TxFeesOf(MadeIn(height - 1), a) \div 4

(***************************************************************************)
(* The bridge fee is "kept out of the 50/25/25 split": from the block      *)
(* after it was paid on, all of it is the stakers', refunded withdrawals'  *)
(* included, and of the transaction fees no more than a quarter each is    *)
(* burned and the community's (SplitFees, before x/distribution).          *)
(***************************************************************************)
FeesShared ==
    \A a \in Assets :
        LET made == MadeBefore(height)
        IN  /\ fees.stakers[a] + 2 * fees.community[a]
                  = BridgeFeesOf(made, a) + TxFeesOf(made, a)
            /\ 4 * fees.community[a] <= TxFeesOf(made, a)

(***************************************************************************)
(* The status index holds each withdrawal once, under its status; each     *)
(* validator marked as having attested a payout has one confirmation on    *)
(* the record and one vote, for one candidate, and nobody else has any.    *)
(***************************************************************************)
VotesAgree ==
    \A i \in DOMAIN withdrawal :
        /\ {s \in WithdrawalStatuses : <<s, i>> \in withdrawalByStatus}
              = {withdrawal[i].status}
        /\ \A v \in Val :
              LET marked == IF <<i, v>> \in withdrawalConfirmedBy THEN 1 ELSE 0
              IN  /\ withdrawal[i].confirmations[v] = marked
                  /\ Cardinality({c \in Candidates :
                                    <<i, c, v>> \in withdrawalPayoutVote}) = marked

(***************************************************************************)
(* A settled withdrawal is final: once processed it is never refunded,     *)
(* once refunded never processed, and neither what it asked for nor the    *)
(* transfer that paid it changes again (the status check of                *)
(* AttestWithdrawalPayout and the REQUESTED bucket of the refund sweep).   *)
(* Who confirmed it is left out: SameBlockCredited is about that.          *)
(***************************************************************************)
SettledIsFinal ==
    [][\A i \in DOMAIN withdrawal :
          withdrawal[i].status # "REQUESTED" =>
              withdrawal'[i] = [withdrawal[i] EXCEPT
                                  !.confirmations = withdrawal'[i].confirmations]]_vars

(***************************************************************************)
(* "A validator whose attestation landed in the same block but after the   *)
(* threshold was crossed is still credited, not marked a miss": while the  *)
(* settled withdrawal waits in the queue for the block's end, a bonded     *)
(* validator that has not confirmed it can still do so (BridgeDutyQueue,   *)
(* of which the withdrawals are kind 1).                                   *)
(***************************************************************************)
SameBlockCredited ==
    \A i \in DOMAIN withdrawal, v \in bonded, block \in SteemBlocks :
        /\ <<"withdrawal", i>> \in dutyQueue
        /\ params.BridgeOutEnabled /\ CheckSteemBlock(block)
        /\ <<i, v>> \notin withdrawalConfirmedBy
        => ENABLED /\ AttestWithdrawalPayout(v, i, withdrawal[i].payout, block,
                                             withdrawal[i].facts)
                   /\ UNCHANGED worldVars

(***************************************************************************)
(* No set of faulty validators alone ever holds the threshold.             *)
(***************************************************************************)
FaultyAreMinority ==
    \A set \in SUBSET Faulty, t \in TokenChoices, b \in BondedChoices,
       p \in ParamChoices :
        ~(CandidateRatio(set, t, b) >= p.BridgeConfirmationThreshold)

(***************************************************************************)
(* When the faulty validators are a minority, a processed withdrawal was   *)
(* paid on Steem, by the transfer its record names, to the recipient and   *)
(* with the amount, asset and memo it asked for (the check against the     *)
(* record and the per-candidate tally of AttestWithdrawalPayout).          *)
(***************************************************************************)
ProcessedWasPaid ==
    \A i \in DOMAIN withdrawal :
        withdrawal[i].status = "PROCESSED" =>
            \E p \in steemPayouts : /\ p.id = i
                                     /\ p.cand = withdrawal[i].payout
                                     /\ p.facts = withdrawal[i].facts

(***************************************************************************)
(* What it takes for an attested payout to count: the bonded set, the      *)
(* refund timeout and the first Steem block scanned stay as they are, the  *)
(* honest validators hold the threshold, the signers' margin leaves them   *)
(* time to attest, and no deadline wraps the machine word.                 *)
(***************************************************************************)
SteadyChain ==
    /\ \A b, c \in BondedChoices : b = c
    /\ \A p, q \in ParamChoices : /\ p.WithdrawalTimeoutBlocks = q.WithdrawalTimeoutBlocks
                                  /\ p.RelayerStartBlock = q.RelayerStartBlock
    /\ \A set \in SUBSET Val, t \in TokenChoices, b \in BondedChoices, p \in ParamChoices :
          b \ Faulty \subseteq set =>
              CandidateRatio(set, t, b) >= p.BridgeConfirmationThreshold
    /\ AttestLag \in Nat /\ PayoutMargin \in Nat /\ AttestLag <= PayoutMargin
    /\ MaxHeight \in Nat \ {0}
    /\ \A p \in ParamChoices : MaxHeight + p.WithdrawalTimeoutBlocks < UintMod

(***************************************************************************)
(* A payout the signers make outside the margin before the refund, and the *)
(* honest validators attest in time, is followed by the refund of the same *)
(* withdrawal only if bridge-out was paused after the payout (payoutFacts  *)
(* with AttestWithdrawalPayout and RefundExpiredWithdrawals).              *)
(***************************************************************************)
RefundedOnlyIfPaused ==
    \A p \in steemPayouts :
        /\ p.facts = withdrawal[p.id].facts
        /\ withdrawal[p.id].status = "REFUNDED"
        => ~params.BridgeOutEnabled \/ enabledSince > p.at

(***************************************************************************)
(* No withdrawal stays open: a deadline that does not move is followed by  *)
(* the refund at the end of the first block past it, paused or not, unless *)
(* the bounded sweep spent that block, and each one since, on as many      *)
(* older withdrawals as it may examine (RefundExpiredWithdrawals).         *)
(***************************************************************************)
RefundedInTime ==
    \A i \in DOMAIN withdrawal :
        LET due == withdrawal[i].createdAt + params.WithdrawalTimeoutBlocks + 1
            before == {j \in DOMAIN withdrawal : j < i /\ withdrawal[j].status = "REFUNDED"}
        IN  /\ withdrawal[i].status = "REQUESTED"
            /\ params.WithdrawalTimeoutBlocks # 0
            => (height - due) * SweepLimit <= Cardinality(before)

=============================================================================
