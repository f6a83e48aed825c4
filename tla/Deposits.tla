------------------------------- MODULE Deposits -------------------------------
(***************************************************************************)
(* Bridge-in of x/oracle/bridge: bonded validators attest the transfers    *)
(* they saw reach the gateway account on Steem; once one set of facts      *)
(* about a transfer holds enough bonded stake, the deposit is minted or    *)
(* marked unclaimable, exactly once; deposits that do not get there expire *)
(* and free their key.                                                     *)
(*                                                                         *)
(* A key is the (txid, op index) of a Steem transfer.  A fact-set is what  *)
(* an attestation reports about it; the hash the votes are stored under    *)
(* (DepositFactsHash) is taken to be injective, so the votes carry the     *)
(* facts themselves.  f.dest is what DeriveDestination makes of the memo.  *)
(***************************************************************************)
EXTENDS BridgeBase

CONSTANTS
    Keys,          \* Steem transfers that attestations may name
    DepositFacts,  \* fact-sets that attestations may report
    NoDest,        \* DeriveDestination of a memo that holds no address
    Truth,         \* what really happened on Steem, per key
    Faulty,        \* validators that may report anything; the others report Truth
    MaxDeposits    \* bound on the deposit sequence

FactRecords ==
    [gateway : STRING, block : Nat, sender : STRING, asset : Assets,
     amount : Nat, dest : Users \cup Blocked \cup {NoDest}]

ASSUME DepositAssumption ==
    /\ DepositFacts \subseteq FactRecords
    /\ Truth \in [Keys -> DepositFacts]
    /\ Faulty \subseteq Val
    /\ NoDest \notin Users

VARIABLES
    deposit,             \* Keeper.Deposit
    depositSeq,          \* Keeper.DepositSeq
    depositByTxid,       \* Keeper.DepositByTxid: key -> id, or NoId
    depositByStatus,     \* Keeper.DepositByStatus: set of <<status, id>>
    depositConfirmedBy,  \* Keeper.DepositConfirmedBy: set of <<key, validator>>
    depositFactsVote     \* Keeper.DepositFactsVote: set of <<key, facts, validator>>

depositVars == <<deposit, depositSeq, depositByTxid, depositByStatus,
                 depositConfirmedBy, depositFactsVote>>

DepositStatuses == {"PENDING", "MINTED", "UNCLAIMABLE", "EXPIRED"}
ResolvedStatuses == {"MINTED", "UNCLAIMABLE"}

(***************************************************************************)
(* A deposit record.  confirmations is the ValidatorConfirmations list up  *)
(* to order: how often each validator occurs in it.                        *)
(***************************************************************************)
DepositRecords ==
    [key : Keys, facts : DepositFacts, status : DepositStatuses,
     minted : BOOLEAN, createdAt : Nat, confirmations : [Val -> Nat]]

-----------------------------------------------------------------------------

\* Variant: a key is looked up only while its deposit is pending.
AttestedIdPendingOnly(k) ==
    IF depositByTxid[k] = NoId \/ deposit[depositByTxid[k]].status # "PENDING"
      THEN depositSeq ELSE depositByTxid[k]

(***************************************************************************)
(* The record an attestation of key k works on: the one the by-txid index  *)
(* points at, or a fresh PENDING record with the attester's facts.         *)
(***************************************************************************)
AttestedId(k) == IF depositByTxid[k] = NoId THEN depositSeq ELSE depositByTxid[k]

AttestedDeposit(k, f, v) ==
    LET found == IF AttestedId(k) = depositSeq
                   THEN [key |-> k, facts |-> f, status |-> "PENDING",
                         minted |-> FALSE, createdAt |-> height,
                         confirmations |-> [u \in Val |-> 0]]
                   ELSE deposit[AttestedId(k)]
    IN  [found EXCEPT !.confirmations[v] = @ + 1]

\* Variant: every vote under the key counts for the facts just attested.
KeyVoters(k, f) == {u \in Val : \E g \in DepositFacts : <<k, g, u>> \in depositFactsVote}

(***************************************************************************)
(* Attestations are tallied per fact-set: only the votes for the facts     *)
(* just attested count.                                                    *)
(***************************************************************************)
FactsVoters(k, f) == {u \in Val : <<k, f, u>> \in depositFactsVote}

\* Variant: the status is not consulted.
CrossesAgain(k, f, v, d) == ReachesThreshold(FactsVoters(k, f) \cup {v})

\* Variant: the first attester's facts are the only candidate.
CrossesFirstFacts(k, f, v, d) ==
    /\ d.status = "PENDING"
    /\ d.facts = f
    /\ ReachesThreshold(FactsVoters(k, f) \cup {v})

Crosses(k, f, v, d) ==
    /\ d.status = "PENDING"
    /\ ReachesThreshold(FactsVoters(k, f) \cup {v})

(***************************************************************************)
(* d stored under id, and the status index moved along (setDepositStatus). *)
(***************************************************************************)
StoreDeposit(id, d) ==
    /\ deposit' = [i \in DOMAIN deposit \cup {id} |->
                     IF i = id THEN d ELSE deposit[i]]
    /\ depositByStatus' = (depositByStatus \ {<<"PENDING", id>>})
                            \cup {<<d.status, id>>}

WithinRange(f) ==
    /\ params.MinimumBridgeAmount # 0 => f.amount >= params.MinimumBridgeAmount
    /\ params.MaximumBridgeAmount # 0 => f.amount <= params.MaximumBridgeAmount

Claimable(f) == f.dest # NoDest /\ WithinRange(f)

(***************************************************************************)
(* resolveDeposit: the winning facts become the record's; it is minted if  *)
(* the memo names a destination and the amount is within the limits.       *)
(***************************************************************************)
ResolveDeposit(id, d, f) ==
    \/ /\ ~Claimable(f)
       /\ StoreDeposit(id, [d EXCEPT !.facts = f, !.status = "UNCLAIMABLE"])
       /\ UNCHANGED coinVars
    \/ /\ Claimable(f)
       /\ CreditBridged(f.dest, f.asset, f.amount, params.BridgeFeeBps)
       /\ StoreDeposit(id, [d EXCEPT !.facts = f, !.status = "MINTED",
                                     !.minted = TRUE])

(***************************************************************************)
(* AttestDeposit: validator v attests facts f for key k.  A repeated       *)
(* attestation of a key is a no-op.  Attestations that come after the      *)
(* deposit was resolved are still recorded.                                *)
(***************************************************************************)
AttestDeposit(v, k, f) ==
    LET id == AttestedId(k)
        d == AttestedDeposit(k, f, v)
    IN  /\ params.BridgeEnabled
        /\ f.gateway = GatewayAccount
        /\ CheckSteemBlock(f.block)
        /\ v \in bonded
        /\ <<k, v>> \notin depositConfirmedBy
        /\ id < MaxDeposits
        /\ depositSeq' = IF id = depositSeq THEN depositSeq + 1 ELSE depositSeq
        /\ depositByTxid' = [depositByTxid EXCEPT ![k] = id]
        /\ depositConfirmedBy' = depositConfirmedBy \cup {<<k, v>>}
        /\ depositFactsVote' = depositFactsVote \cup {<<k, f, v>>}
        /\ \/ /\ ~Crosses(k, f, v, d)
              /\ StoreDeposit(id, d)
              /\ UNCHANGED <<coinVars, dutyQueue>>
           \/ /\ Crosses(k, f, v, d)
              /\ ResolveDeposit(id, d, f)
              /\ dutyQueue' = dutyQueue \cup {<<"deposit", id>>}
        /\ UNCHANGED <<height, params, stakeVars, tally>>

(***************************************************************************)
(* ExpireDeposits: of the oldest pending deposits, those whose window has  *)
(* elapsed free their key with every confirmation and vote under it; the   *)
(* record stays, marked EXPIRED.                                           *)
(***************************************************************************)
PendingDeposits == {i \in DOMAIN deposit : <<"PENDING", i>> \in depositByStatus}

DepositOverdue(i) == Overdue(deposit[i].createdAt, params.DepositTimeoutBlocks)

\* Variant: the sweep walks every status bucket.
ExpiringAnyStatus == {i \in DOMAIN deposit : DepositOverdue(i)}

ExpiringDeposits ==
    {i \in Oldest(PendingDeposits, SweepLimit) : DepositOverdue(i)}

KeysOf(ids) == {deposit[i].key : i \in ids}

RemainingTxids(expiring) ==
    [k \in Keys |-> IF k \in KeysOf(expiring) THEN NoId ELSE depositByTxid[k]]

\* Variant: the markers of an expired record stay.
RemainingConfirmedByAll(expiring) == depositConfirmedBy

RemainingConfirmedBy(expiring) ==
    {c \in depositConfirmedBy :
        ~ \E i \in expiring : /\ deposit[i].key = c[1]
                              /\ deposit[i].confirmations[c[2]] > 0}

RemainingFactsVotes(expiring) ==
    {x \in depositFactsVote : x[1] \notin KeysOf(expiring)}

ExpireDeposits ==
    LET expiring == ExpiringDeposits
    IN  /\ deposit' = [i \in DOMAIN deposit |->
              IF i \in expiring THEN [deposit[i] EXCEPT !.status = "EXPIRED"]
                                ELSE deposit[i]]
        /\ depositByStatus' =
              (depositByStatus \ {<<"PENDING", i>> : i \in expiring})
                 \cup {<<"EXPIRED", i>> : i \in expiring}
        /\ depositByTxid' = RemainingTxids(expiring)
        /\ depositConfirmedBy' = RemainingConfirmedBy(expiring)
        /\ depositFactsVote' = RemainingFactsVotes(expiring)
        /\ UNCHANGED depositSeq

\* Variant: the whole validator set is reported as attesters.
AllAttesters(event) == Val

DepositAttesters(event) ==
    {v \in Val : deposit[event[2]].confirmations[v] > 0}

-----------------------------------------------------------------------------
(* The component on its own. *)

NextBlock ==
    /\ AdvanceBlock
    /\ FlushBridgeDuty([e \in dutyQueue |-> DepositAttesters(e)])
    /\ ExpireDeposits
    /\ UNCHANGED <<params, tokens, coinVars>>

Reports(v, k) == IF v \in Faulty THEN DepositFacts ELSE {Truth[k]}

Init ==
    /\ BaseInit
    /\ bank = [h \in Holders |-> [a \in Assets |-> 0]]
    /\ totals = [minted |-> [a \in Assets |-> 0], burned |-> [a \in Assets |-> 0]]
    /\ deposit = [i \in {} |-> {}]
    /\ depositSeq = 0
    /\ depositByTxid = [k \in Keys |-> NoId]
    /\ depositByStatus = {}
    /\ depositConfirmedBy = {}
    /\ depositFactsVote = {}

Attest == \E v \in Val, k \in Keys : \E f \in Reports(v, k) : AttestDeposit(v, k, f)

Govern ==
    /\ \E p \in ParamChoices : UpdateParams(p)
    /\ UNCHANGED <<depositVars, height, stakeVars, coinVars, dutyVars>>

Restake ==
    /\ \E t \in TokenChoices : ChangeTokens(t)
    /\ UNCHANGED <<depositVars, height, params, bonded, coinVars, dutyVars>>

Next == Attest \/ NextBlock \/ Govern \/ Restake

vars == <<baseVars, depositVars>>

Spec == Init /\ [][Next]_vars

SteadyNext == Attest \/ NextBlock

\* The transfers an honest validator's relayer attests: those with a destination.
RelayedKeys == {k \in Keys : Truth[k].dest # NoDest}

AttestedOnce(v, k) ==
    \E i \in DOMAIN deposit : deposit[i].key = k /\ deposit[i].confirmations[v] > 0

(***************************************************************************)
(* While parameters and stake stay as they are, the relayer of an honest   *)
(* validator tries to attest a transfer it has seen until the transaction  *)
(* is accepted.  Then its cursor moves past the block for good: it does    *)
(* not attest the transfer again if the record expires.                    *)
(***************************************************************************)
FairSpec ==
    /\ Init /\ [][SteadyNext]_vars
    /\ \A v \in Val \ Faulty, k \in RelayedKeys :
          WF_vars(~AttestedOnce(v, k) /\ AttestDeposit(v, k, Truth[k]))

-----------------------------------------------------------------------------
(* Properties. *)

(***************************************************************************)
(* Every variable keeps the shape of the store collection it stands for.   *)
(***************************************************************************)
TypeOK ==
    /\ BaseTypeOK
    /\ depositSeq \in Nat
    /\ deposit \in [Ids(depositSeq) -> DepositRecords]
    /\ depositByTxid \in [Keys -> Ids(depositSeq) \cup {NoId}]
    /\ depositByStatus \subseteq DepositStatuses \X Ids(depositSeq)
    /\ depositConfirmedBy \subseteq Keys \X Val
    /\ depositFactsVote \subseteq Keys \X DepositFacts \X Val
    /\ dutyQueue \subseteq {"deposit"} \X Ids(depositSeq)

(***************************************************************************)
(* A Steem transfer is minted at most once, however often its key expires  *)
(* and is attested afresh (AttestDeposit with ExpireDeposits).             *)
(***************************************************************************)
MintedOnce ==
    \A i, j \in DOMAIN deposit :
        deposit[i].minted /\ deposit[j].minted /\ deposit[i].key = deposit[j].key
            => i = j

(***************************************************************************)
(* The by-txid index points at the one record of a key that has not        *)
(* expired, and at nothing when there is none; the status index holds each *)
(* record once, under its status (DepositByTxid, DepositByStatus).         *)
(***************************************************************************)
IndexesAgree ==
    /\ \A i \in DOMAIN deposit :
          deposit[i].status # "EXPIRED" <=> depositByTxid[deposit[i].key] = i
    /\ \A k \in Keys :
          depositByTxid[k] # NoId => deposit[depositByTxid[k]].key = k
    /\ \A s \in DepositStatuses, i \in DOMAIN deposit :
          <<s, i>> \in depositByStatus <=> deposit[i].status = s

VotesOf(k, v) == {f \in DepositFacts : <<k, f, v>> \in depositFactsVote}

(***************************************************************************)
(* The confirmation markers, the votes and the confirmation list of a key  *)
(* tell one story: the validators marked as having attested it are those   *)
(* listed on its open record, each listed once and with one vote.  A key   *)
(* that expired keeps no marker and no vote, so everyone can attest it     *)
(* again (DepositConfirmedBy, DepositFactsVote, ExpireDeposits).           *)
(***************************************************************************)
VotesAgree ==
    \A k \in Keys, v \in Val :
        IF <<k, v>> \in depositConfirmedBy
          THEN /\ depositByTxid[k] # NoId
               /\ deposit[depositByTxid[k]].confirmations[v] = 1
               /\ \E f \in DepositFacts : VotesOf(k, v) = {f}
          ELSE /\ depositByTxid[k] # NoId =>
                     deposit[depositByTxid[k]].confirmations[v] = 0
               /\ VotesOf(k, v) = {}

(***************************************************************************)
(* The store has one story: indexes, markers and votes all agree with the  *)
(* records, whatever expires and is attested again (the Keeper's           *)
(* collections, which AttestDeposit and ExpireDeposits update one by one). *)
(***************************************************************************)
StoreConsistent == IndexesAgree /\ VotesAgree

(***************************************************************************)
(* No set of faulty validators alone ever holds the threshold.             *)
(***************************************************************************)
FaultyAreMinority ==
    \A set \in SUBSET Faulty, t \in TokenChoices, b \in BondedChoices,
       p \in ParamChoices :
        ~(CandidateRatio(set, t, b) >= p.BridgeConfirmationThreshold)

(***************************************************************************)
(* When the faulty validators are a minority, whatever they report and in  *)
(* whatever order, only true facts are ever minted, and a record that was  *)
(* resolved holds the true facts (the per-fact-set tally of AttestDeposit, *)
(* and the adoption of the winning facts over the first attester's).       *)
(***************************************************************************)
MintedFactsTrue ==
    \A i \in DOMAIN deposit :
        deposit[i].status \in ResolvedStatuses =>
            deposit[i].facts = Truth[deposit[i].key]

(***************************************************************************)
(* A resolved deposit is final: no later attestation, expiry sweep or      *)
(* change of parameters or stake alters its status or its facts (the       *)
(* PENDING guard of AttestDeposit, the PENDING bucket of ExpireDeposits).  *)
(***************************************************************************)
ResolvedIsFinal ==
    [][\A i \in DOMAIN deposit :
          deposit[i].status \in ResolvedStatuses =>
              /\ deposit'[i].status = deposit[i].status
              /\ deposit'[i].facts = deposit[i].facts]_vars

(***************************************************************************)
(* Heights and deadlines stay below the modulus of the machine word, 2^64  *)
(* on the chain.  A deadline that wraps is overdue at once, ahead of older *)
(* ones that are not.                                                      *)
(***************************************************************************)
DeadlinesFit ==
    /\ MaxHeight \in Nat \ {0}
    /\ \A p \in ParamChoices : MaxHeight + p.DepositTimeoutBlocks < UintMod

(***************************************************************************)
(* The bounded sweep never idles: when a deposit that is overdue survives  *)
(* the end of a block, the sweep has expired as many others as it may      *)
(* examine (MaxExpirySweepPerBlock, ids in order of expiry).               *)
(***************************************************************************)
SweepKeepsUp ==
    [][height' # height =>
          LET expired == {i \in DOMAIN deposit : deposit'[i].status # deposit[i].status}
          IN  (\E i \in DOMAIN deposit :
                  deposit'[i].status = "PENDING" /\ DepositOverdue(i))
                  => Cardinality(expired) = SweepLimit]_vars

(***************************************************************************)
(* Every coin in circulation is the credit of one minted deposit: the      *)
(* balances add up to the total minted, the total to the minted deposits,  *)
(* and the black hole nets to zero (creditBridged).                        *)
(***************************************************************************)
CoinsConserved ==
    \A a \in Assets :
        LET credits == {i \in DOMAIN deposit :
                          deposit[i].minted /\ deposit[i].facts.asset = a}
        IN  /\ Sum([h \in Holders |-> bank[h][a]], Holders) = totals.minted[a]
            /\ Sum([i \in credits |-> MillisteemToAsteem(deposit[i].facts.amount)], credits)
                  = totals.minted[a]
            /\ bank[BlackHole][a] = 0

(***************************************************************************)
(* Every finalized deposit is reported to x/oracle once: a validator that  *)
(* stays bonded has one opportunity per finalized deposit whose block has  *)
(* ended, others at most that, and no validator has more hits than         *)
(* finalized deposits it attested (enqueueBridgeDuty, FlushBridgeDuty).    *)
(***************************************************************************)
DutyAccounting ==
    LET final == {i \in DOMAIN deposit : deposit[i].status \in ResolvedStatuses}
        ended == {i \in final : <<"deposit", i>> \notin dutyQueue}
    IN  \A v \in Val :
          /\ tally[v].opportunities <= Cardinality(ended)
          /\ (\A b \in BondedChoices : v \in b) =>
                tally[v].opportunities = Cardinality(ended)
          /\ tally[v].hits <=
                Cardinality({i \in ended : deposit[i].confirmations[v] > 0})

(***************************************************************************)
(* Bridge-in implements the ledger of MintLedger.                          *)
(***************************************************************************)
Credited ==
    {<<deposit[i].key, deposit[i].facts>> :
        i \in {j \in DOMAIN deposit : deposit[j].minted}}

Ledger == INSTANCE MintLedger WITH
              Facts <- DepositFacts, credited <- Credited, minted <- totals.minted

ImplementsLedger == Ledger!Spec

\* The honest validators hold the threshold, whatever the stake, the bonded set
\* and the parameters.
HonestSuffice ==
    \A set \in SUBSET Val, t \in TokenChoices, b \in BondedChoices, p \in ParamChoices :
        Val \ Faulty \subseteq set =>
            CandidateRatio(set, t, b) >= p.BridgeConfirmationThreshold

ResolvedTruly(i) ==
    /\ deposit[i].status \in ResolvedStatuses
    /\ deposit[i].facts = Truth[deposit[i].key]

(***************************************************************************)
(* A transfer that all honest validators are marked as having attested is  *)
(* resolved, with the true facts, in whatever order the attestations came, *)
(* whatever was reported first and whatever expired before: no honest      *)
(* validator is shut out by a marker whose vote no longer counts           *)
(* (AttestDeposit, ExpireDeposits).                                        *)
(***************************************************************************)
HonestVotesDecide ==
    \A k \in Keys :
        (\A v \in Val \ Faulty : <<k, v>> \in depositConfirmedBy) =>
            depositByTxid[k] # NoId /\ ResolvedTruly(depositByTxid[k])

(***************************************************************************)
(* With a faulty minority, every transfer with a destination is eventually *)
(* resolved with the true facts, by one attestation of each honest         *)
(* validator, or one of its records has expired: then validators whose     *)
(* cursor is past the block do not come back, and nothing more is promised *)
(* (AttestDeposit, ExpireDeposits, the cursor of runCycle).                *)
(***************************************************************************)
HonestFactsResolve ==
    \A k \in RelayedKeys :
        <>(\E i \in DOMAIN deposit :
              deposit[i].key = k /\ (ResolvedTruly(i) \/ deposit[i].status = "EXPIRED"))

=============================================================================
