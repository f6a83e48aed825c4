--------------------------------- MODULE Names ---------------------------------
(***************************************************************************)
(* The name service of x/oracle/bridge: bonded validators attest transfers *)
(* that register a Steem account name for an address; once one set of      *)
(* facts holds enough bonded stake, the fee is credited to the address and *)
(* the registration waits for the address to confirm it; the confirmed     *)
(* link replaces an older one of the same Steem account.  Registrations    *)
(* that do not get on in time expire and free their key.                   *)
(*                                                                         *)
(* Keys, fact-sets and f.dest are as in Deposits; the keys are a namespace *)
(* of their own.                                                           *)
(***************************************************************************)
EXTENDS BridgeBase

CONSTANTS
    Keys,             \* Steem transfers that attestations may name
    NameFacts,        \* fact-sets that attestations may report
    NoDest,           \* DeriveDestination of a memo that holds no address
    Truth,            \* what really happened on Steem, per key
    Faulty,           \* validators that may report anything; the others report Truth
    LastAttest,       \* bound: the last block with an attestation
    MaxRegistrations  \* bound on the registration sequence

Accounts == {f.account : f \in NameFacts}

NameFactRecords ==
    [gateway : STRING, block : Nat, account : STRING, amount : Nat,
     dest : Users \cup Blocked \cup {NoDest}]

ASSUME NameAssumption ==
    /\ NameFacts \subseteq NameFactRecords
    /\ Truth \in [Keys -> NameFacts]
    /\ Faulty \subseteq Val
    /\ NoDest \notin Users \cup Blocked

VARIABLES
    registration,      \* Keeper.NameRegistration
    registrationSeq,   \* Keeper.NameRegistrationSeq
    nameByTxid,        \* Keeper.NameRegistrationByTxid: key -> id, or NoId
    nameByStatus,      \* Keeper.NameRegistrationByStatus: set of <<status, id>>
    nameByAccount,     \* Keeper.NameRegistrationByAccount: set of <<account, id>>
    nameConfirmedBy,   \* Keeper.NameRegistrationConfirmedBy: set of <<key, validator>>
    nameFactsVote,     \* Keeper.NameRegistrationFactsVote: set of <<key, facts, validator>>
    awaitingByDest,    \* Keeper.NameRegistrationAwaitingByDest: set of <<address, id>>
    activeName,        \* Keeper.ActiveName: account -> registration id, or NoId
    activeNameByAddress  \* Keeper.ActiveNameByAddress: set of <<address, account>>

attestVars == <<registrationSeq, nameByTxid, nameConfirmedBy, nameFactsVote>>
linkVars == <<activeName, activeNameByAddress>>
nameVars == <<registration, nameByStatus, nameByAccount, awaitingByDest,
              attestVars, linkVars>>

NameStatuses ==
    {"PENDING", "AWAITING", "ACTIVE", "UNCLAIMABLE", "SUPERSEDED", "EXPIRED"}

RegistrationRecords ==
    [key : Keys, facts : NameFacts, status : NameStatuses, createdAt : Nat,
     awaitingSince : Nat, confirmations : [Val -> Nat]]

-----------------------------------------------------------------------------
(* Attesting. *)

RegistrationId(k) == IF nameByTxid[k] = NoId THEN registrationSeq ELSE nameByTxid[k]

AttestedRegistration(k, f, v) ==
    LET found == IF nameByTxid[k] = NoId
                   THEN [key |-> k, facts |-> f, status |-> "PENDING",
                         createdAt |-> height, awaitingSince |-> 0,
                         confirmations |-> [u \in Val |-> 0]]
                   ELSE registration[nameByTxid[k]]
    IN  [found EXCEPT !.confirmations[v] = @ + 1]

\* Variant: every vote under the key counts for the facts just attested.
NameKeyVoters(k, f) == {u \in Val : \E g \in NameFacts : <<k, g, u>> \in nameFactsVote}

NameVoters(k, f) == {u \in Val : <<k, f, u>> \in nameFactsVote}

(***************************************************************************)
(* ValidateNameRegistrationAcceptance.  Its "already attested" and         *)
(* "already resolved" outcomes are no-ops.                                 *)
(***************************************************************************)
NameAcceptable(v, k, f) ==
    /\ params.NameServiceEnabled
    /\ f.gateway = GatewayAccount
    /\ f.amount >= params.NameRegistrationMinMillisteem
    /\ CheckSteemBlock(f.block)
    /\ <<k, v>> \notin nameConfirmedBy
    /\ nameByTxid[k] # NoId => registration[nameByTxid[k]].status = "PENDING"

\* r stored under id, with the status index moved along.
StoreRegistration(id, r) ==
    /\ registration' = [i \in DOMAIN registration \cup {id} |->
                          IF i = id THEN r ELSE registration[i]]
    /\ nameByStatus' = (nameByStatus \ {<<"PENDING", id>>}) \cup {<<r.status, id>>}

\* The by-account history, with registration id under its canonical account.
MovedHistory(id, r, account) ==
    (nameByAccount \ {<<r.facts.account, id>>}) \cup {<<account, id>>}

NameClaimable(f) == f.dest # NoDest /\ f.amount >= params.NameRegistrationMinMillisteem

CreditFee(f) == CreditBridged(f.dest, "STEEM", f.amount, 0)

(***************************************************************************)
(* resolveNameRegistration: with a destination, the fee is credited to it  *)
(* in full and the registration awaits its confirmation.                   *)
(***************************************************************************)
ResolveNameRegistration(id, r, f) ==
    \/ /\ ~NameClaimable(f)
       /\ StoreRegistration(id, [r EXCEPT !.facts = f, !.status = "UNCLAIMABLE"])
       /\ UNCHANGED <<coinVars, awaitingByDest>>
    \/ /\ NameClaimable(f)
       /\ CreditFee(f)
       /\ StoreRegistration(id, [r EXCEPT !.facts = f, !.status = "AWAITING",
                                          !.awaitingSince = height])
       /\ awaitingByDest' = awaitingByDest \cup {<<f.dest, id>>}

SubmitNameRegistration(v, k, f) ==
    LET id == RegistrationId(k)
        r == AttestedRegistration(k, f, v)
        crosses == ReachesThreshold(NameVoters(k, f) \cup {v})
    IN  /\ v \in bonded
        /\ NameAcceptable(v, k, f)
        /\ id < MaxRegistrations
        /\ registrationSeq' = IF id = registrationSeq THEN id + 1 ELSE registrationSeq
        /\ nameByTxid' = [nameByTxid EXCEPT ![k] = id]
        /\ nameConfirmedBy' = nameConfirmedBy \cup {<<k, v>>}
        /\ nameFactsVote' = nameFactsVote \cup {<<k, f, v>>}
        /\ \/ /\ ~crosses
              /\ StoreRegistration(id, r)
              /\ nameByAccount' = nameByAccount \cup {<<r.facts.account, id>>}
              /\ UNCHANGED <<coinVars, awaitingByDest>>
           \/ /\ crosses
              /\ ResolveNameRegistration(id, r, f)
              /\ nameByAccount' = MovedHistory(id, r, f.account)
        /\ UNCHANGED <<linkVars, height, params, stakeVars, dutyVars>>

-----------------------------------------------------------------------------
(* Confirming. *)

(***************************************************************************)
(* The registration whose link the confirmation of id replaces.            *)
(***************************************************************************)
Superseded(id) ==
    {i \in DOMAIN registration : /\ activeName[registration[id].facts.account] = i
                                 /\ registration[i].status = "ACTIVE"}

\* Variant: the old address keeps its entry.
KeptAddressesAll(account) == activeNameByAddress

KeptAddresses(account) ==
    activeNameByAddress \
        {<<registration[i].facts.dest, account>> :
            i \in DOMAIN registration \cap {activeName[account]}}

(***************************************************************************)
(* ValidateNameConfirmationAcceptance.                                     *)
(***************************************************************************)
NameConfirmable(confirmer, id) ==
    /\ params.NameServiceEnabled
    /\ registration[id].status = "AWAITING"
    /\ confirmer = registration[id].facts.dest

(***************************************************************************)
(* ConfirmName: the destination of an awaiting registration accepts it;    *)
(* the Steem account's older link, if any, is replaced in the same step.   *)
(***************************************************************************)
ConfirmName(confirmer, id) ==
    LET account == registration[id].facts.account
        old == Superseded(id)
    IN  /\ NameConfirmable(confirmer, id)
        /\ registration' = [i \in DOMAIN registration |->
              IF i = id THEN [registration[i] EXCEPT !.status = "ACTIVE"]
              ELSE IF i \in old THEN [registration[i] EXCEPT !.status = "SUPERSEDED"]
              ELSE registration[i]]
        /\ nameByStatus' =
              (nameByStatus \ ({<<"AWAITING", id>>} \cup {<<"ACTIVE", i>> : i \in old}))
                 \cup {<<"ACTIVE", id>>} \cup {<<"SUPERSEDED", i>> : i \in old}
        /\ activeName' = [activeName EXCEPT ![account] = id]
        /\ activeNameByAddress' = KeptAddresses(account) \cup {<<confirmer, account>>}
        /\ awaitingByDest' = awaitingByDest \ {<<confirmer, id>>}
        /\ UNCHANGED <<nameByAccount, attestVars, height, params, stakeVars, coinVars, dutyVars>>

-----------------------------------------------------------------------------
(* Expiry. *)

NameBucket(status) == {i \in DOMAIN registration : <<status, i>> \in nameByStatus}

\* Variant: both phases are measured from the creation of the record.
PhaseStartCreated(r) == r.createdAt

PhaseStart(r) == IF r.status = "AWAITING" THEN r.awaitingSince ELSE r.createdAt

NameOverdue(i) == Overdue(PhaseStart(registration[i]), params.NamePendingTimeoutBlocks)

\* Variant: only attested registrations have a window.
SweptPendingOnly == Oldest(NameBucket("PENDING"), SweepLimit)

(***************************************************************************)
(* The records one sweep examines: pending ones first, awaiting ones with  *)
(* what is left of the same budget.                                        *)
(***************************************************************************)
SweptRegistrations ==
    LET pending == Oldest(NameBucket("PENDING"), SweepLimit)
    IN  pending \cup Oldest(NameBucket("AWAITING"), SweepLimit - Cardinality(pending))

ExpiringRegistrations == {i \in SweptRegistrations : NameOverdue(i)}

NameKeysOf(ids) == {registration[i].key : i \in ids}

RemainingNameVotes(expiring) ==
    {x \in nameFactsVote : x[1] \notin NameKeysOf(expiring)}

(***************************************************************************)
(* ExpireNameRegistrations.                                                *)
(***************************************************************************)
ExpireNameRegistrations ==
    LET expiring == ExpiringRegistrations
    IN  /\ registration' = [i \in DOMAIN registration |->
              IF i \in expiring THEN [registration[i] EXCEPT !.status = "EXPIRED"]
                                ELSE registration[i]]
        /\ nameByStatus' =
              (nameByStatus \ {<<registration[i].status, i>> : i \in expiring})
                 \cup {<<"EXPIRED", i>> : i \in expiring}
        /\ nameByTxid' =
              [k \in Keys |-> IF k \in NameKeysOf(expiring) THEN NoId ELSE nameByTxid[k]]
        /\ nameConfirmedBy' =
              {c \in nameConfirmedBy :
                  ~ \E i \in expiring : /\ registration[i].key = c[1]
                                        /\ registration[i].confirmations[c[2]] > 0}
        /\ nameFactsVote' = RemainingNameVotes(expiring)
        /\ awaitingByDest' = {a \in awaitingByDest : a[2] \notin expiring}
        /\ UNCHANGED <<registrationSeq, nameByAccount, linkVars>>

-----------------------------------------------------------------------------
(* The component on its own. *)

Reports(v, k) == IF v \in Faulty THEN NameFacts ELSE {Truth[k]}

Init ==
    /\ BaseInit
    /\ bank = [h \in Holders |-> [a \in Assets |-> 0]]
    /\ totals = [minted |-> [a \in Assets |-> 0], burned |-> [a \in Assets |-> 0]]
    /\ registration = [i \in {} |-> {}]
    /\ registrationSeq = 0
    /\ nameByTxid = [k \in Keys |-> NoId]
    /\ nameByStatus = {}
    /\ nameByAccount = {}
    /\ nameConfirmedBy = {}
    /\ nameFactsVote = {}
    /\ awaitingByDest = {}
    /\ activeName = [a \in Accounts |-> NoId]
    /\ activeNameByAddress = {}

Attest ==
    /\ height <= LastAttest
    /\ \E v \in Val, k \in Keys : \E f \in Reports(v, k) : SubmitNameRegistration(v, k, f)

Confirm == \E u \in Users, id \in DOMAIN registration : ConfirmName(u, id)

NextBlock ==
    /\ AdvanceBlock
    /\ ExpireNameRegistrations
    /\ UNCHANGED <<params, tokens, coinVars, dutyVars>>

Govern ==
    /\ \E p \in ParamChoices : UpdateParams(p)
    /\ UNCHANGED <<nameVars, height, stakeVars, coinVars, dutyVars>>

Restake ==
    /\ \E t \in TokenChoices : ChangeTokens(t)
    /\ UNCHANGED <<nameVars, height, params, bonded, coinVars, dutyVars>>

Next == Attest \/ Confirm \/ NextBlock \/ Govern \/ Restake

vars == <<baseVars, nameVars>>

Spec == Init /\ [][Next]_vars

-----------------------------------------------------------------------------
(* Properties. *)

(***************************************************************************)
(* Every variable keeps the shape of the store collection it stands for.   *)
(***************************************************************************)
TypeOK ==
    /\ BaseTypeOK
    /\ registrationSeq \in Nat
    /\ registration \in [Ids(registrationSeq) -> RegistrationRecords]
    /\ nameByTxid \in [Keys -> Ids(registrationSeq) \cup {NoId}]
    /\ nameByStatus \subseteq NameStatuses \X Ids(registrationSeq)
    /\ nameByAccount \subseteq Accounts \X Ids(registrationSeq)
    /\ nameConfirmedBy \subseteq Keys \X Val
    /\ nameFactsVote \subseteq Keys \X NameFacts \X Val
    /\ awaitingByDest \subseteq Users \X Ids(registrationSeq)
    /\ activeName \in [Accounts -> Ids(registrationSeq) \cup {NoId}]
    /\ activeNameByAddress \subseteq Users \X Accounts

(***************************************************************************)
(* A Steem account's link, the one ACTIVE registration of that account and *)
(* the reverse index by address always say the same: however often names   *)
(* are confirmed, superseded, expired and registered afresh (ConfirmName). *)
(***************************************************************************)
LinksAgree ==
    /\ \A i \in DOMAIN registration :
          registration[i].status = "ACTIVE"
              <=> activeName[registration[i].facts.account] = i
    /\ \A a \in Accounts :
          activeName[a] # NoId => registration[activeName[a]].facts.account = a
    /\ activeNameByAddress =
          {<<registration[activeName[a]].facts.dest, a>> :
              a \in {b \in Accounts : activeName[b] # NoId}}

(***************************************************************************)
(* Every index over the registrations agrees with the records: by txid for *)
(* the ones that have not expired, by status, by the canonical account,    *)
(* and by destination for the awaiting ones; a key has votes and markers   *)
(* of exactly the validators listed on its open record.                    *)
(***************************************************************************)
NameIndexesAgree ==
    /\ \A i \in DOMAIN registration :
          LET r == registration[i]
          IN  /\ r.status # "EXPIRED" <=> nameByTxid[r.key] = i
              /\ {s \in NameStatuses : <<s, i>> \in nameByStatus} = {r.status}
              /\ {a \in Accounts : <<a, i>> \in nameByAccount} = {r.facts.account}
              /\ {u \in Users : <<u, i>> \in awaitingByDest}
                    = IF r.status = "AWAITING" THEN {r.facts.dest} ELSE {}
    /\ \A k \in Keys, v \in Val :
          LET open == nameByTxid[k] # NoId
              marked == IF <<k, v>> \in nameConfirmedBy THEN 1 ELSE 0
          IN  /\ Cardinality({f \in NameFacts : <<k, f, v>> \in nameFactsVote}) = marked
              /\ marked = IF open THEN registration[nameByTxid[k]].confirmations[v] ELSE 0

(***************************************************************************)
(* The store has one story: links, indexes, markers and votes all agree    *)
(* with the records, though SubmitNameRegistration, ConfirmName and the    *)
(* sweep update them one by one.                                           *)
(***************************************************************************)
StoreConsistent == LinksAgree /\ NameIndexesAgree

(***************************************************************************)
(* No set of faulty validators alone ever holds the threshold.             *)
(***************************************************************************)
FaultyAreMinority ==
    \A set \in SUBSET Faulty, t \in TokenChoices, b \in BondedChoices,
       p \in ParamChoices :
        ~(CandidateRatio(set, t, b) >= p.BridgeConfirmationThreshold)

(***************************************************************************)
(* Governance leaves the timeout alone, and no height plus timeout reaches *)
(* the modulus of the chain's unsigned arithmetic.                         *)
(***************************************************************************)
SteadyWindow ==
    /\ MaxHeight \in Nat /\ MaxHeight > 0
    /\ \A p \in ParamChoices : MaxHeight + p.NamePendingTimeoutBlocks < UintMod
    /\ \A p, q \in ParamChoices : p.NamePendingTimeoutBlocks = q.NamePendingTimeoutBlocks

(***************************************************************************)
(* With a faulty minority, a Steem account is only ever linked to the      *)
(* address that its transfer really named, whatever was attested first,    *)
(* and whatever expired in between (the per-fact-set tally, the adoption   *)
(* of the winning facts, and ConfirmName).                                 *)
(***************************************************************************)
LinksTrue ==
    \A a \in Accounts :
        activeName[a] # NoId =>
            LET r == registration[activeName[a]]
            IN  r.facts = Truth[r.key] /\ r.facts.account = a

(***************************************************************************)
(* Reaching the threshold restarts the clock: while the timeout stays the  *)
(* same, a destination has the whole window to confirm, however late in    *)
(* the first window the threshold was reached (ExpireNameRegistrations).   *)
(* The clock runs on through a pause of the service, in which ConfirmName  *)
(* is refused: the window is one of blocks, not of chances.                *)
(***************************************************************************)
FullWindow ==
    \A i \in DOMAIN registration :
        /\ registration[i].awaitingSince # 0
        /\ height <= registration[i].awaitingSince + params.NamePendingTimeoutBlocks
        => registration[i].status # "EXPIRED"

(***************************************************************************)
(* Coins are only created for registrations that reached the threshold,    *)
(* and the full fee each time, with nothing held back as a bridge fee.     *)
(***************************************************************************)
FeesCredited ==
    LET credited == {i \in DOMAIN registration : registration[i].awaitingSince # 0}
        fee == [i \in credited |-> MillisteemToAsteem(registration[i].facts.amount)]
        owed == [u \in Users |-> Sum(fee, {i \in credited : registration[i].facts.dest = u})]
    IN  /\ \A u \in Users : bank[u]["STEEM"] = owed[u]
        /\ totals.minted["STEEM"] = Sum(owed, Users)
        /\ bank[BridgeReward]["STEEM"] = 0

(***************************************************************************)
(* No registration outstays its window for ever.  While the timeout stays  *)
(* the same, a pending one waits past the end of its window only for older *)
(* ones, each examined once; one that awaits confirmation waits for any    *)
(* other, which a sweep may examine in each block of its two phases before *)
(* it closes.  The bound grows with the number of registrations: as long   *)
(* as new pending ones use up the budget, an overdue one that awaits       *)
(* confirmation stays open, and its key taken (ExpireNameRegistrations).   *)
(***************************************************************************)
ClosedInTime ==
    \A i \in DOMAIN registration :
        LET timeout == params.NamePendingTimeoutBlocks
            due == PhaseStart(registration[i]) + timeout + 1
            waited == (height - due) * SweepLimit
        IN  /\ registration[i].status = "PENDING" => waited <= i
            /\ registration[i].status = "AWAITING" =>
                  waited <= (registrationSeq - 1) * 2 * (timeout + 2)

(***************************************************************************)
(* As the comment on the credit in resolveNameRegistration has it, the     *)
(* credited fee is backed 1:1 by the transfer, as a deposit is: no         *)
(* transfer is credited twice.                                             *)
(***************************************************************************)
FeeCreditedOnce ==
    \A i, j \in DOMAIN registration :
        /\ registration[i].key = registration[j].key
        /\ registration[i].awaitingSince # 0
        /\ registration[j].awaitingSince # 0
        => i = j

=============================================================================
