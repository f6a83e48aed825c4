---------------------------- MODULE DepositsProofs ----------------------------
(***************************************************************************)
(* Theorems about Deposits, for every number of validators, transfers,     *)
(* blocks and parameter choices.                                           *)
(***************************************************************************)
EXTENDS DepositsGenesis, BridgeBaseProofs, FiniteSetTheorems, TLAPS

-----------------------------------------------------------------------------
(* Type correctness. *)

LEMMA ParamTypes ==
    ASSUME TypeOK
    PROVE  /\ params \in ParamRecords
           /\ params.BridgeFeeBps \in Nat /\ params.DepositTimeoutBlocks \in Nat
  BY Zenon, BaseAssumption DEF TypeOK, BaseTypeOK, ParamRecords

LEMMA FactTypes ==
    ASSUME NEW f \in DepositFacts
    PROVE  f.asset \in Assets /\ f.amount \in Nat
  BY Zenon, DepositAssumption DEF FactRecords

LEMMA ReportsType ==
    ASSUME NEW v \in Val, NEW k \in Keys
    PROVE  Reports(v, k) \subseteq DepositFacts
  BY Zenon, DepositAssumption DEF Reports

(***************************************************************************)
(* The record an attestation works on is a deposit record, and its id is   *)
(* an existing one or the next of the sequence.                            *)
(***************************************************************************)
LEMMA AttestedType ==
    ASSUME TypeOK, NEW v \in Val, NEW k \in Keys, NEW f \in DepositFacts
    PROVE  /\ AttestedId(k) \in Nat
           /\ AttestedId(k) # depositSeq => AttestedId(k) \in Ids(depositSeq)
           /\ AttestedDeposit(k, f, v) \in DepositRecords
<1>1. /\ AttestedId(k) \in Nat
      /\ AttestedId(k) # depositSeq => AttestedId(k) \in Ids(depositSeq)
  BY DEF AttestedId, TypeOK, Ids, NoId
<1> DEFINE fresh == [key |-> k, facts |-> f, status |-> "PENDING",
                     minted |-> FALSE, createdAt |-> height,
                     confirmations |-> [u \in Val |-> 0]]
           found == IF AttestedId(k) = depositSeq THEN fresh
                    ELSE deposit[AttestedId(k)]
<1>2. fresh \in DepositRecords
  BY Zenon DEF TypeOK, BaseTypeOK, DepositRecords, DepositStatuses
<1>3. AttestedId(k) # depositSeq => deposit[AttestedId(k)] \in DepositRecords
  BY Zenon, <1>1 DEF TypeOK
<1>4. found \in DepositRecords
  BY Zenon, <1>2, <1>3
<1>5. AttestedDeposit(k, f, v) = [found EXCEPT !.confirmations[v] = @ + 1]
  BY Zenon DEF AttestedDeposit
<1> HIDE DEF found
<1>6. [found EXCEPT !.confirmations[v] = @ + 1] \in DepositRecords
  BY <1>4 DEF DepositRecords
<1>7. QED
  BY Zenon, <1>1, <1>5, <1>6

(***************************************************************************)
(* Storing a deposit record under the attested id keeps the deposit table  *)
(* a function on the ids below the sequence.                               *)
(***************************************************************************)
LEMMA StoreType ==
    ASSUME TypeOK, NEW id \in Nat, NEW d \in DepositRecords,
           id # depositSeq => id \in Ids(depositSeq),
           depositSeq' = IF id = depositSeq THEN depositSeq + 1 ELSE depositSeq,
           StoreDeposit(id, d)
    PROVE  /\ depositSeq' \in Nat
           /\ id \in Ids(depositSeq') /\ Ids(depositSeq) \subseteq Ids(depositSeq')
           /\ Ids(depositSeq') = Ids(depositSeq) \cup {id}
           /\ deposit' \in [Ids(depositSeq') -> DepositRecords]
           /\ depositByStatus' \subseteq DepositStatuses \X Ids(depositSeq')
<1>1. depositSeq \in Nat /\ deposit \in [Ids(depositSeq) -> DepositRecords]
      /\ depositByStatus \subseteq DepositStatuses \X Ids(depositSeq)
  BY Zenon DEF TypeOK
<1>2. depositSeq' \in Nat /\ Ids(depositSeq') = Ids(depositSeq) \cup {id}
  BY <1>1 DEF Ids
<1>3. deposit' \in [Ids(depositSeq') -> DepositRecords]
  BY Zenon, <1>1, <1>2 DEF StoreDeposit
<1>4. d.status \in DepositStatuses
  BY Zenon DEF DepositRecords
<1>5. depositByStatus' \subseteq DepositStatuses \X Ids(depositSeq')
  BY <1>1, <1>2, <1>4 DEF StoreDeposit
<1>6. QED
  BY Zenon, <1>2, <1>3, <1>5

LEMMA AttestKeepsType ==
    ASSUME TypeOK, NEW v \in Val, NEW k \in Keys, NEW f \in DepositFacts,
           AttestDeposit(v, k, f)
    PROVE  TypeOK'
<1> DEFINE id == AttestedId(k)
           d == AttestedDeposit(k, f, v)
<1>1. /\ id \in Nat /\ d \in DepositRecords
      /\ id # depositSeq => id \in Ids(depositSeq)
  BY Zenon, AttestedType
<1>2. /\ depositSeq' = IF id = depositSeq THEN depositSeq + 1 ELSE depositSeq
      /\ depositByTxid' = [depositByTxid EXCEPT ![k] = id]
      /\ depositConfirmedBy' = depositConfirmedBy \cup {<<k, v>>}
      /\ depositFactsVote' = depositFactsVote \cup {<<k, f, v>>}
      /\ UNCHANGED <<height, params, stakeVars, tally>>
      /\ \/ StoreDeposit(id, d) /\ UNCHANGED <<coinVars, dutyQueue>>
         \/ ResolveDeposit(id, d, f) /\ dutyQueue' = dutyQueue \cup {<<"deposit", id>>}
  BY Zenon DEF AttestDeposit
<1> DEFINE u == [d EXCEPT !.facts = f, !.status = "UNCLAIMABLE"]
           m == [d EXCEPT !.facts = f, !.status = "MINTED", !.minted = TRUE]
<1> HIDE DEF id, d
<1>3. u \in DepositRecords /\ m \in DepositRecords
  BY Zenon, <1>1 DEF DepositRecords, DepositStatuses
<1>4. \E e \in DepositRecords : StoreDeposit(id, e)
  <2>1. CASE StoreDeposit(id, d)
    BY Zenon, <2>1, <1>1
  <2>2. CASE ResolveDeposit(id, d, f)
    BY Zenon, <2>2, <1>3 DEF ResolveDeposit
  <2>3. QED
    BY Zenon, <1>2, <2>1, <2>2
<1>5. /\ depositSeq' \in Nat /\ id \in Ids(depositSeq')
      /\ Ids(depositSeq) \subseteq Ids(depositSeq')
      /\ deposit' \in [Ids(depositSeq') -> DepositRecords]
      /\ depositByStatus' \subseteq DepositStatuses \X Ids(depositSeq')
  BY Zenon, <1>1, <1>2, <1>4, StoreType
<1>6. /\ bank' \in [Holders -> [Assets -> Nat]]
      /\ totals' \in [minted : [Assets -> Nat], burned : [Assets -> Nat]]
  <2>1. CASE UNCHANGED coinVars
    BY Zenon, <2>1 DEF TypeOK, BaseTypeOK, coinVars
  <2>2. CASE CreditBridged(f.dest, f.asset, f.amount, params.BridgeFeeBps)
    <3>1. bank' \in [Holders -> [Assets -> Nat]]
      BY Zenon, <2>2, CreditedBankType, ParamTypes, FactTypes
         DEF CreditBridged, TypeOK, BaseTypeOK
    <3> DEFINE amt == MillisteemToAsteem(f.amount)
               more == [totals.minted EXCEPT ![f.asset] = @ + amt]
    <3>2. totals' = [totals EXCEPT !.minted = more]
      BY Zenon, <2>2 DEF CreditBridged, AddMinted
    <3>3. /\ totals \in [minted : [Assets -> Nat], burned : [Assets -> Nat]]
          /\ amt \in Nat /\ f.asset \in Assets
      BY Zenon, FactTypes, AsteemType DEF TypeOK, BaseTypeOK
    <3> HIDE DEF amt
    <3>4. more \in [Assets -> Nat]
      BY <3>3
    <3> HIDE DEF more
    <3>5. QED
      BY Zenon, <3>1, <3>2, <3>3, <3>4
  <2>3. QED
    BY Zenon, <1>2, <2>1, <2>2 DEF ResolveDeposit
<1>7. /\ depositByTxid' \in [Keys -> Ids(depositSeq') \cup {NoId}]
      /\ depositConfirmedBy' \subseteq Keys \X Val
      /\ depositFactsVote' \subseteq Keys \X DepositFacts \X Val
      /\ dutyQueue' \subseteq {"deposit"} \X Ids(depositSeq')
  BY <1>2, <1>5 DEF TypeOK
<1>8. QED
  BY Zenon, <1>2, <1>5, <1>6, <1>7 DEF TypeOK, BaseTypeOK, stakeVars

(***************************************************************************)
(* The sweep expires deposits that the status index lists as pending.      *)
(***************************************************************************)
LEMMA ExpiringArePending ==
    /\ ExpiringDeposits \subseteq DOMAIN deposit
    /\ \A i \in ExpiringDeposits : <<"PENDING", i>> \in depositByStatus
  BY Zenon DEF ExpiringDeposits, Oldest, PendingDeposits

LEMMA ExpireKeepsType ==
    ASSUME TypeOK, ExpireDeposits
    PROVE  /\ depositSeq' = depositSeq
           /\ deposit' \in [Ids(depositSeq) -> DepositRecords]
           /\ depositByTxid' \in [Keys -> Ids(depositSeq) \cup {NoId}]
           /\ depositByStatus' \subseteq DepositStatuses \X Ids(depositSeq)
           /\ depositConfirmedBy' \subseteq Keys \X Val
           /\ depositFactsVote' \subseteq Keys \X DepositFacts \X Val
<1> DEFINE E == ExpiringDeposits
<1>1. E \subseteq Ids(depositSeq) /\ DOMAIN deposit = Ids(depositSeq)
  BY Zenon, ExpiringArePending DEF TypeOK
<1>2. /\ deposit' = [i \in DOMAIN deposit |->
              IF i \in E THEN [deposit[i] EXCEPT !.status = "EXPIRED"] ELSE deposit[i]]
      /\ depositByStatus' = (depositByStatus \ {<<"PENDING", i>> : i \in E})
                               \cup {<<"EXPIRED", i>> : i \in E}
      /\ depositByTxid' = RemainingTxids(E)
      /\ depositConfirmedBy' = RemainingConfirmedBy(E)
      /\ depositFactsVote' = RemainingFactsVotes(E)
      /\ depositSeq' = depositSeq
  BY Zenon DEF ExpireDeposits
<1> HIDE DEF E
<1>3. ASSUME NEW i \in Ids(depositSeq)
      PROVE  [deposit[i] EXCEPT !.status = "EXPIRED"] \in DepositRecords
  <2>1. deposit[i] \in DepositRecords
    BY Zenon DEF TypeOK
  <2>2. QED
    BY Zenon, <2>1 DEF DepositRecords, DepositStatuses
<1>4. deposit' \in [Ids(depositSeq) -> DepositRecords]
  BY Zenon, <1>1, <1>2, <1>3 DEF TypeOK
<1>5. depositByStatus' \subseteq DepositStatuses \X Ids(depositSeq)
  BY <1>1, <1>2 DEF TypeOK, DepositStatuses
<1>6. /\ depositByTxid' \in [Keys -> Ids(depositSeq) \cup {NoId}]
      /\ depositConfirmedBy' \subseteq Keys \X Val
      /\ depositFactsVote' \subseteq Keys \X DepositFacts \X Val
  BY Zenon, <1>2 DEF TypeOK, RemainingTxids, RemainingConfirmedBy, RemainingFactsVotes
<1>7. QED
  BY Zenon, <1>2, <1>4, <1>5, <1>6

(***************************************************************************)
(* The duty queue is finite, so what FlushBridgeDuty adds are numbers.     *)
(***************************************************************************)
LEMMA QueueFinite ==
    ASSUME TypeOK
    PROVE  IsFiniteSet(dutyQueue)
<1>1. IsFiniteSet(Ids(depositSeq)) /\ IsFiniteSet({"deposit"})
  <2>1. 0 \in Int /\ depositSeq - 1 \in Int
    BY DEF TypeOK
  <2>2. IsFiniteSet(0 .. (depositSeq - 1))
    BY Zenon, <2>1, FS_Interval
  <2>3. QED
    BY Zenon, <2>2, FS_Singleton DEF Ids
<1>2. IsFiniteSet({"deposit"} \X Ids(depositSeq))
  BY Zenon, <1>1, FS_Product
<1>3. QED
  BY Zenon, <1>2, FS_Subset DEF TypeOK

LEMMA FlushKeepsType ==
    ASSUME TypeOK, FlushBridgeDuty([e \in dutyQueue |-> DepositAttesters(e)])
    PROVE  tally' \in [Val -> [opportunities : Nat, hits : Nat]] /\ dutyQueue' = {}
<1> DEFINE att == [e \in dutyQueue |-> DepositAttesters(e)]
           hitsOf(v) == Cardinality({e \in dutyQueue : v \in att[e]})
           all == Cardinality(dutyQueue)
<1> SUFFICES ASSUME FlushBridgeDuty(att)
             PROVE  tally' \in [Val -> [opportunities : Nat, hits : Nat]]
                    /\ dutyQueue' = {}
  BY Zenon
<1> HIDE DEF att
<1>1. all \in Nat
  BY Zenon, QueueFinite, FS_CardinalityType
<1>2. ASSUME NEW v \in Val
      PROVE  hitsOf(v) \in Nat
  <2> DEFINE hit == {e \in dutyQueue : v \in att[e]}
  <2>1. IsFiniteSet(hit)
    BY Zenon, QueueFinite, FS_Subset
  <2>2. QED
    BY Zenon, <2>1, FS_CardinalityType
<1>3. /\ dutyQueue' = {}
      /\ tally' = [v \in Val |->
            IF v \in bonded'
              THEN [opportunities |-> tally[v].opportunities + all,
                    hits |-> tally[v].hits + hitsOf(v)]
              ELSE tally[v]]
  BY Zenon DEF FlushBridgeDuty
<1> HIDE DEF hitsOf, all
<1>4. ASSUME NEW v \in Val
      PROVE  /\ tally[v].opportunities \in Nat /\ tally[v].hits \in Nat
             /\ tally[v] \in [opportunities : Nat, hits : Nat]
  BY Zenon DEF TypeOK, BaseTypeOK
<1>5. QED
  BY <1>1, <1>2, <1>3, <1>4

LEMMA BlockKeepsType ==
    ASSUME TypeOK, NextBlock
    PROVE  TypeOK'
<1>1. /\ height' \in Nat /\ bonded' \in BondedChoices
      /\ UNCHANGED <<params, tokens, bank, totals>>
  BY DEF NextBlock, AdvanceBlock, TypeOK, BaseTypeOK, coinVars
<1>2. tally' \in [Val -> [opportunities : Nat, hits : Nat]] /\ dutyQueue' = {}
  BY Zenon, FlushKeepsType DEF NextBlock
<1>3. QED
  BY Zenon, <1>1, <1>2, ExpireKeepsType DEF NextBlock, TypeOK, BaseTypeOK

LEMMA InitType == Init => TypeOK
<1> SUFFICES ASSUME Init PROVE TypeOK
  BY Zenon
<1>1. BaseTypeOK
  BY Zenon DEF Init, BaseInit, BaseTypeOK
<1>2. /\ depositSeq \in Nat /\ Ids(depositSeq) = {}
      /\ deposit \in [Ids(depositSeq) -> DepositRecords]
  BY DEF Init, Ids
<1>3. QED
  BY Zenon, <1>1, <1>2 DEF Init, BaseInit, TypeOK

LEMMA NextKeepsType == TypeOK /\ [Next]_vars => TypeOK'
<1> SUFFICES ASSUME TypeOK, [Next]_vars PROVE TypeOK'
  BY Zenon
<1>1. CASE Attest
  BY Zenon, <1>1, AttestKeepsType, ReportsType DEF Attest
<1>2. CASE NextBlock
  BY Zenon, <1>2, BlockKeepsType
<1>3. CASE Govern
  BY Zenon, <1>3 DEF Govern, UpdateParams, TypeOK, BaseTypeOK, depositVars, stakeVars,
             coinVars, dutyVars
<1>4. CASE Restake
  BY Zenon, <1>4 DEF Restake, ChangeTokens, TypeOK, BaseTypeOK, depositVars, coinVars, dutyVars
<1>5. CASE UNCHANGED vars
  BY Zenon, <1>5 DEF vars, TypeOK, BaseTypeOK, depositVars, baseVars
<1>6. QED
  BY Zenon, <1>1, <1>2, <1>3, <1>4, <1>5 DEF Next

(***************************************************************************)
(* Type correctness of bridge-in; among others, no balance, total or tally *)
(* counter ever leaves the natural numbers.                                *)
(***************************************************************************)
THEOREM TypeCorrect == Spec => []TypeOK
  BY InitType, NextKeepsType, PTL DEF Spec

-----------------------------------------------------------------------------
(* Safety. *)

(***************************************************************************)
(* The inductive invariant.  MintedOnce is not inductive: it follows from  *)
(* the by-txid index, which points at every record that has not expired,   *)
(* and from expiry touching pending records only, so that a minted record  *)
(* never leaves the index.                                                 *)
(***************************************************************************)
MintedIsStatus ==
    \A i \in DOMAIN deposit : deposit[i].minted <=> deposit[i].status = "MINTED"

IInv == TypeOK /\ IndexesAgree /\ MintedIsStatus

(***************************************************************************)
(* The record d, under id, that an attestation works on, in terms of the   *)
(* state before: a fresh pending record for a key without an entry, else   *)
(* the record the key points at, with one more confirmation.               *)
(***************************************************************************)
WorksOn(id, d, v, k, f) ==
    /\ d \in DepositRecords /\ d.key = k /\ d.status # "EXPIRED"
    /\ \/ /\ depositByTxid[k] = NoId /\ id = depositSeq /\ id \notin DOMAIN deposit
          /\ d.status = "PENDING" /\ d.facts = f /\ d.minted = FALSE
          /\ d.createdAt = height
          /\ d.confirmations = [u \in Val |-> IF u = v THEN 1 ELSE 0]
       \/ /\ depositByTxid[k] = id /\ id # depositSeq /\ id \in DOMAIN deposit
          /\ d.status = deposit[id].status /\ d.facts = deposit[id].facts
          /\ d.minted = deposit[id].minted /\ deposit[id].key = k
          /\ d.createdAt = deposit[id].createdAt
          /\ d.confirmations = [deposit[id].confirmations EXCEPT ![v] = @ + 1]

LEMMA AttestedFields ==
    ASSUME IInv, NEW v \in Val, NEW k \in Keys, NEW f \in DepositFacts
    PROVE  WorksOn(AttestedId(k), AttestedDeposit(k, f, v), v, k, f)
<1> DEFINE id == AttestedId(k)
           d == AttestedDeposit(k, f, v)
<1>1. d \in DepositRecords
  BY Zenon, AttestedType DEF IInv
<1> SUFFICES WorksOn(id, d, v, k, f)
  BY Zenon
<1>2. depositSeq \in Nat /\ DOMAIN deposit = Ids(depositSeq)
      /\ depositByTxid \in [Keys -> Ids(depositSeq) \cup {NoId}]
  BY Zenon DEF IInv, TypeOK
<1>3. CASE depositByTxid[k] = NoId
  <2>1. id = depositSeq /\ id \notin DOMAIN deposit
    BY <1>2, <1>3 DEF AttestedId, Ids
  <2>2. d = [[key |-> k, facts |-> f, status |-> "PENDING", minted |-> FALSE,
              createdAt |-> height, confirmations |-> [u \in Val |-> 0]]
             EXCEPT !.confirmations[v] = @ + 1]
    BY Zenon, <2>1 DEF AttestedDeposit
  <2>3. d.confirmations = [[u \in Val |-> 0] EXCEPT ![v] = @ + 1]
        /\ d.key = k /\ d.status = "PENDING" /\ d.facts = f /\ d.minted = FALSE
        /\ d.createdAt = height
    BY Zenon, <2>2
  <2>4. [[u \in Val |-> 0] EXCEPT ![v] = @ + 1] = [u \in Val |-> IF u = v THEN 1 ELSE 0]
    OBVIOUS
  <2>5. QED
    BY Zenon, <1>1, <1>3, <2>1, <2>3, <2>4 DEF WorksOn
<1>4. CASE depositByTxid[k] # NoId
  <2>1. id = depositByTxid[k] /\ id \in DOMAIN deposit /\ id # depositSeq
    BY <1>2, <1>4 DEF AttestedId, Ids
  <2>2. d = [deposit[id] EXCEPT !.confirmations[v] = @ + 1]
    BY Zenon, <2>1 DEF AttestedDeposit
  <2>3. deposit[id] \in DepositRecords
    BY Zenon, <1>2, <2>1 DEF IInv, TypeOK
  <2>4. /\ d.confirmations = [deposit[id].confirmations EXCEPT ![v] = @ + 1]
        /\ d.key = deposit[id].key /\ d.status = deposit[id].status
        /\ d.facts = deposit[id].facts /\ d.minted = deposit[id].minted
        /\ d.createdAt = deposit[id].createdAt
    BY Zenon, <2>2, <2>3 DEF DepositRecords
  <2>5. deposit[id].key = k /\ deposit[id].status # "EXPIRED"
    BY <1>4, <2>1 DEF IInv, IndexesAgree
  <2>6. QED
    BY Zenon, <1>1, <2>1, <2>4, <2>5 DEF WorksOn
<1>5. QED
  BY Zenon, <1>3, <1>4 DEF WorksOn

(***************************************************************************)
(* What an attestation that works on d does to the deposit table and the   *)
(* totals: it stores one record e, which is d as it is, or d resolved to   *)
(* the attested facts.                                                     *)
(***************************************************************************)
Stores(e, id, d, v, k, f) ==
    /\ StoreDeposit(id, e)
    /\ e.key = k /\ e.status # "EXPIRED" /\ e.confirmations = d.confirmations
    /\ e.createdAt = d.createdAt
    /\ \/ e = d /\ totals' = totals
       \/ /\ Crosses(k, f, v, d) /\ e.facts = f /\ e.status = "UNCLAIMABLE"
          /\ e.minted = d.minted /\ totals' = totals
       \/ /\ Crosses(k, f, v, d) /\ e.facts = f /\ e.status = "MINTED"
          /\ e.minted = TRUE
          /\ totals' = AddMinted(f.asset, MillisteemToAsteem(f.amount))

LEMMA AttestEffect ==
    ASSUME IInv, NEW v \in Val, NEW k \in Keys, NEW f \in DepositFacts,
           AttestDeposit(v, k, f)
    PROVE  \E e \in DepositRecords :
               Stores(e, AttestedId(k), AttestedDeposit(k, f, v), v, k, f)
<1> DEFINE id == AttestedId(k)
           d == AttestedDeposit(k, f, v)
<1>1. WorksOn(id, d, v, k, f)
  BY Zenon, AttestedFields
<1>2. \/ StoreDeposit(id, d) /\ totals' = totals
      \/ Crosses(k, f, v, d) /\ ResolveDeposit(id, d, f)
  BY Zenon DEF AttestDeposit, coinVars
<1> HIDE DEF id, d
<1>3. d \in DepositRecords /\ d.key = k /\ d.status # "EXPIRED"
  BY Zenon, <1>1 DEF WorksOn
<1> DEFINE u == [d EXCEPT !.facts = f, !.status = "UNCLAIMABLE"]
           m == [d EXCEPT !.facts = f, !.status = "MINTED", !.minted = TRUE]
<1>4. u \in DepositRecords /\ m \in DepositRecords
  BY Zenon, <1>3 DEF DepositRecords, DepositStatuses
<1>5. /\ u.key = k /\ u.facts = f /\ u.status = "UNCLAIMABLE" /\ u.minted = d.minted
      /\ u.confirmations = d.confirmations
      /\ m.key = k /\ m.facts = f /\ m.status = "MINTED" /\ m.minted = TRUE
      /\ m.confirmations = d.confirmations
      /\ u.createdAt = d.createdAt /\ m.createdAt = d.createdAt
  BY Zenon, <1>3 DEF DepositRecords
<1>6. \/ StoreDeposit(id, d) /\ totals' = totals
      \/ Crosses(k, f, v, d) /\ StoreDeposit(id, u) /\ totals' = totals
      \/ /\ Crosses(k, f, v, d) /\ StoreDeposit(id, m)
         /\ totals' = AddMinted(f.asset, MillisteemToAsteem(f.amount))
  BY <1>2, Zenon DEF ResolveDeposit, CreditBridged, coinVars
<1> HIDE DEF u, m
<1>7. \E e \in DepositRecords : Stores(e, id, d, v, k, f)
  BY Zenon, <1>3, <1>4, <1>5, <1>6 DEF Stores
<1>8. QED
  BY Zenon, <1>7 DEF id, d

(***************************************************************************)
(* An attestation keeps the indexes and the minted mark in step.           *)
(***************************************************************************)
LEMMA AttestKeepsIndexes ==
    ASSUME IInv, NEW v \in Val, NEW k \in Keys, NEW f \in DepositFacts,
           AttestDeposit(v, k, f)
    PROVE  IndexesAgree' /\ MintedIsStatus'
<1> DEFINE id == AttestedId(k)
           d == AttestedDeposit(k, f, v)
<1>1. WorksOn(id, d, v, k, f)
  BY Zenon, AttestedFields
<1>2. PICK e \in DepositRecords : Stores(e, id, d, v, k, f)
  BY Zenon, AttestEffect
<1>3. depositByTxid' = [depositByTxid EXCEPT ![k] = id]
  BY Zenon DEF AttestDeposit
<1> HIDE DEF id, d
<1>4. /\ depositSeq \in Nat /\ deposit \in [Ids(depositSeq) -> DepositRecords]
      /\ depositByTxid \in [Keys -> Ids(depositSeq) \cup {NoId}]
      /\ depositByStatus \subseteq DepositStatuses \X Ids(depositSeq)
  BY Zenon DEF IInv, TypeOK
<1>5. \A i \in DOMAIN deposit :
          /\ deposit[i].key \in Keys
          /\ deposit[i].status # "EXPIRED" <=> depositByTxid[deposit[i].key] = i
          /\ deposit[i].minted <=> deposit[i].status = "MINTED"
  BY <1>4 DEF IInv, IndexesAgree, MintedIsStatus, DepositRecords
<1>6. /\ DOMAIN deposit' = DOMAIN deposit \cup {id} /\ deposit'[id] = e
      /\ \A i \in DOMAIN deposit : i # id => deposit'[i] = deposit[i]
      /\ depositByStatus' = (depositByStatus \ {<<"PENDING", id>>}) \cup {<<e.status, id>>}
  BY Zenon, <1>2 DEF Stores, StoreDeposit
<1>7. e.key = k /\ e.status # "EXPIRED" /\ id # NoId
  BY <1>1, <1>2, <1>4 DEF Stores, WorksOn, NoId, Ids
<1>8. \A i \in DOMAIN deposit : i # id => (deposit[i].key = k => deposit[i].status = "EXPIRED")
  BY <1>1, <1>4, <1>5 DEF WorksOn, NoId, Ids
<1>9. \A i \in DOMAIN deposit' :
          deposit'[i].status # "EXPIRED" <=> depositByTxid'[deposit'[i].key] = i
  BY <1>3, <1>4, <1>5, <1>6, <1>7, <1>8
<1>10. \A j \in Keys : depositByTxid'[j] # NoId => deposit'[depositByTxid'[j]].key = j
  <2> SUFFICES ASSUME NEW j \in Keys, depositByTxid'[j] # NoId
               PROVE  deposit'[depositByTxid'[j]].key = j
    BY Zenon
  <2>1. CASE j = k
    BY Zenon, <2>1, <1>3, <1>4, <1>6, <1>7
  <2>2. CASE j # k
    <3>1. /\ depositByTxid'[j] = depositByTxid[j] /\ depositByTxid[j] \in DOMAIN deposit
          /\ deposit[depositByTxid[j]].key = j
      BY <2>2, <1>3, <1>4 DEF IInv, IndexesAgree
    <3>2. depositByTxid[j] # id
      BY Zenon, <3>1, <2>2, <1>1 DEF WorksOn
    <3>3. QED
      BY Zenon, <3>1, <3>2, <1>6
  <2>3. QED
    BY Zenon, <2>1, <2>2
<1>11. \A s \in DepositStatuses, i \in DOMAIN deposit' :
          <<s, i>> \in depositByStatus' <=> deposit'[i].status = s
  <2> SUFFICES ASSUME NEW s \in DepositStatuses, NEW i \in DOMAIN deposit'
               PROVE  <<s, i>> \in depositByStatus' <=> deposit'[i].status = s
    BY Zenon
  <2>1. CASE i # id
    BY <2>1, <1>6 DEF IInv, IndexesAgree
  <2>2. CASE i = id
    <3>1. <<s, id>> \in depositByStatus => s = "PENDING" \/ s = e.status
      <4>1. CASE id \notin DOMAIN deposit
        BY Zenon, <4>1, <1>4
      <4>2. CASE id \in DOMAIN deposit
        <5>1. d.status = deposit[id].status
          BY Zenon, <4>2, <1>1 DEF WorksOn
        <5>2. e.status = d.status \/ d.status = "PENDING"
          BY Zenon, <1>2 DEF Stores, Crosses
        <5>3. QED
          BY Zenon, <5>1, <5>2, <4>2 DEF IInv, IndexesAgree
      <4>3. QED
        BY Zenon, <4>1, <4>2
    <3>2. QED
      BY Zenon, <3>1, <2>2, <1>6
  <2>3. QED
    BY Zenon, <2>1, <2>2
<1>12. MintedIsStatus'
  <2>1. e.minted <=> e.status = "MINTED"
    <3>1. (d.minted <=> d.status = "MINTED") /\ d \in DepositRecords
      BY Zenon, <1>1, <1>5 DEF WorksOn
    <3>2. CASE e = d
      BY Zenon, <3>1, <3>2
    <3>3. CASE e # d
      BY Zenon, <3>1, <3>3, <1>2 DEF Stores, Crosses, DepositRecords
    <3>4. QED
      BY Zenon, <3>2, <3>3
  <2>2. QED
    BY <2>1, <1>5, <1>6 DEF MintedIsStatus
<1>13. QED
  BY Zenon, <1>9, <1>10, <1>11, <1>12 DEF IndexesAgree

(***************************************************************************)
(* What the sweep does to the records: each keeps its fields, and only     *)
(* pending ones change, to EXPIRED, and leave the by-txid index.           *)
(***************************************************************************)
LEMMA ExpireEffect ==
    ASSUME IInv, ExpireDeposits
    PROVE  /\ DOMAIN deposit' = DOMAIN deposit
           /\ \A i \in DOMAIN deposit :
                 /\ deposit'[i].key = deposit[i].key
                 /\ deposit'[i].facts = deposit[i].facts
                 /\ deposit'[i].minted = deposit[i].minted
                 /\ deposit'[i].confirmations = deposit[i].confirmations
                 /\ deposit'[i].createdAt = deposit[i].createdAt
                 /\ i \in ExpiringDeposits => /\ deposit[i].status = "PENDING"
                                              /\ deposit'[i].status = "EXPIRED"
                                              /\ depositByTxid[deposit[i].key] = i
                 /\ i \notin ExpiringDeposits => deposit'[i] = deposit[i]
<1>1. /\ deposit \in [Ids(depositSeq) -> DepositRecords]
      /\ \A s \in DepositStatuses, i \in DOMAIN deposit :
             <<s, i>> \in depositByStatus <=> deposit[i].status = s
      /\ \A i \in DOMAIN deposit :
             deposit[i].status # "EXPIRED" <=> depositByTxid[deposit[i].key] = i
  BY Zenon DEF IInv, TypeOK, IndexesAgree
<1>2. \A i \in ExpiringDeposits : i \in DOMAIN deposit /\ deposit[i].status = "PENDING"
  BY Zenon, <1>1, ExpiringArePending DEF DepositStatuses
<1> DEFINE E == ExpiringDeposits
<1>3. deposit' = [i \in DOMAIN deposit |->
          IF i \in E THEN [deposit[i] EXCEPT !.status = "EXPIRED"] ELSE deposit[i]]
  BY Zenon DEF ExpireDeposits
<1>4. \A i \in E : i \in DOMAIN deposit /\ deposit[i].status = "PENDING"
  BY Zenon, <1>2
<1> HIDE DEF E
<1>5. DOMAIN deposit' = DOMAIN deposit
  BY Zenon, <1>3
<1>6. ASSUME NEW i \in DOMAIN deposit
      PROVE  /\ deposit'[i].key = deposit[i].key
             /\ deposit'[i].facts = deposit[i].facts
             /\ deposit'[i].minted = deposit[i].minted
             /\ deposit'[i].confirmations = deposit[i].confirmations
             /\ deposit'[i].createdAt = deposit[i].createdAt
             /\ i \in E => /\ deposit[i].status = "PENDING"
                           /\ deposit'[i].status = "EXPIRED"
                           /\ depositByTxid[deposit[i].key] = i
             /\ i \notin E => deposit'[i] = deposit[i]
  <2>1. deposit[i] \in DepositRecords
    BY Zenon, <1>1
  <2>2. CASE i \in E
    <3>1. deposit'[i] = [deposit[i] EXCEPT !.status = "EXPIRED"]
      BY Zenon, <2>2, <1>3
    <3>2. QED
      BY <2>1, <2>2, <3>1, <1>1, <1>4 DEF DepositRecords
  <2>3. CASE i \notin E
    BY Zenon, <2>3, <1>3
  <2>4. QED
    BY Zenon, <2>2, <2>3
<1>7. QED
  BY Zenon, <1>5, <1>6 DEF E

LEMMA ExpireKeepsIndexes ==
    ASSUME IInv, ExpireDeposits
    PROVE  IndexesAgree' /\ MintedIsStatus'
<1> DEFINE E == ExpiringDeposits
<1>1. /\ DOMAIN deposit' = DOMAIN deposit
      /\ \A i \in DOMAIN deposit :
            /\ deposit'[i].key = deposit[i].key
            /\ deposit'[i].minted = deposit[i].minted
            /\ i \in E => /\ deposit[i].status = "PENDING"
                          /\ deposit'[i].status = "EXPIRED"
                          /\ depositByTxid[deposit[i].key] = i
            /\ i \notin E => deposit'[i] = deposit[i]
  BY Zenon, ExpireEffect
<1>2. /\ depositByStatus' = (depositByStatus \ {<<"PENDING", i>> : i \in E})
                               \cup {<<"EXPIRED", i>> : i \in E}
      /\ depositByTxid' = RemainingTxids(E)
  BY Zenon DEF ExpireDeposits
<1>3. E \subseteq DOMAIN deposit
  BY Zenon, ExpiringArePending
<1> HIDE DEF E
<1>4. /\ depositSeq \in Nat /\ deposit \in [Ids(depositSeq) -> DepositRecords]
      /\ depositByTxid \in [Keys -> Ids(depositSeq) \cup {NoId}]
      /\ DOMAIN deposit = Ids(depositSeq)
  BY Zenon DEF IInv, TypeOK
<1>5. \A i \in DOMAIN deposit :
          /\ deposit[i].key \in Keys
          /\ deposit[i].status # "EXPIRED" <=> depositByTxid[deposit[i].key] = i
          /\ deposit[i].minted <=> deposit[i].status = "MINTED"
  BY Zenon, <1>4 DEF IInv, IndexesAgree, MintedIsStatus, DepositRecords
<1>6. \A k \in Keys : depositByTxid[k] # NoId => deposit[depositByTxid[k]].key = k
  BY Zenon DEF IInv, IndexesAgree
<1>7. ASSUME NEW k \in Keys
      PROVE  depositByTxid'[k] = IF depositByTxid[k] \in E THEN NoId ELSE depositByTxid[k]
  <2>1. k \in KeysOf(E) <=> depositByTxid[k] \in E
    BY <1>1, <1>3, <1>4, <1>6 DEF KeysOf, NoId, Ids
  <2>2. QED
    BY Zenon, <2>1, <1>2, <1>4 DEF RemainingTxids
<1>8. \A i \in DOMAIN deposit' :
          deposit'[i].status # "EXPIRED" <=> depositByTxid'[deposit'[i].key] = i
  <2> SUFFICES ASSUME NEW i \in DOMAIN deposit
               PROVE  deposit'[i].status # "EXPIRED" <=> depositByTxid'[deposit[i].key] = i
    BY <1>1
  <2>1. i # NoId
    BY <1>4 DEF Ids, NoId
  <2>2. CASE i \in E
    BY <2>1, <2>2, <1>1, <1>5, <1>7
  <2>3. CASE i \notin E
    BY <2>1, <2>3, <1>1, <1>5, <1>7
  <2>4. QED
    BY Zenon, <2>2, <2>3
<1>9. \A k \in Keys : depositByTxid'[k] # NoId => deposit'[depositByTxid'[k]].key = k
  BY <1>1, <1>4, <1>6, <1>7
<1>10. \A s \in DepositStatuses, i \in DOMAIN deposit' :
          <<s, i>> \in depositByStatus' <=> deposit'[i].status = s
  <2> SUFFICES ASSUME NEW s \in DepositStatuses, NEW i \in DOMAIN deposit'
               PROVE  <<s, i>> \in depositByStatus' <=> deposit'[i].status = s
    BY Zenon
  <2>0. i \in DOMAIN deposit
    BY Zenon, <1>1
  <2>1. <<s, i>> \in depositByStatus <=> deposit[i].status = s
    BY Zenon, <2>0 DEF IInv, IndexesAgree
  <2>2. CASE i \in E
    BY <2>0, <2>1, <2>2, <1>1, <1>2
  <2>3. CASE i \notin E
    BY <2>0, <2>1, <2>3, <1>1, <1>2
  <2>4. QED
    BY Zenon, <2>2, <2>3
<1>11. MintedIsStatus'
  BY <1>1, <1>5 DEF MintedIsStatus
<1>12. QED
  BY Zenon, <1>8, <1>9, <1>10, <1>11 DEF IndexesAgree

LEMMA InitIInv == Init => IInv
  BY Zenon, InitType DEF Init, IInv, IndexesAgree, MintedIsStatus

LEMMA NextIInv == IInv /\ [Next]_vars => IInv'
<1> SUFFICES ASSUME IInv, [Next]_vars PROVE IInv'
  BY Zenon
<1>1. TypeOK'
  BY Zenon, NextKeepsType DEF IInv
<1>2. CASE Attest
  BY Zenon, <1>1, <1>2, AttestKeepsIndexes, ReportsType DEF Attest, IInv
<1>3. CASE NextBlock
  BY Zenon, <1>1, <1>3, ExpireKeepsIndexes DEF NextBlock, IInv
<1>4. CASE UNCHANGED depositVars
  BY Zenon, <1>1, <1>4 DEF depositVars, IInv, IndexesAgree, MintedIsStatus
<1>5. QED
  BY Zenon, <1>2, <1>3, <1>4 DEF Next, Govern, Restake, vars

(***************************************************************************)
(* The inductive invariant of bridge-in: the by-txid index points at every *)
(* record that has not expired, and a record is minted exactly when its    *)
(* status says so (AttestDeposit, ExpireDeposits).                         *)
(***************************************************************************)
THEOREM Invariance == Spec => []IInv
  BY InitIInv, NextIInv, PTL DEF Spec

(***************************************************************************)
(* No Steem transfer is ever minted twice, for any number of validators,   *)
(* keys and blocks and whatever the validators report.                     *)
(***************************************************************************)
THEOREM NoDoubleMint == Spec => []MintedOnce
<1>1. IInv => MintedOnce
  BY DEF IInv, IndexesAgree, MintedIsStatus, MintedOnce
<1>2. QED
  BY <1>1, Invariance, PTL

(***************************************************************************)
(* A resolved deposit keeps its status and its facts for ever.             *)
(***************************************************************************)
LEMMA StepKeepsResolved ==
    ASSUME IInv, [Next]_vars, NEW i \in DOMAIN deposit,
           deposit[i].status \in ResolvedStatuses
    PROVE  /\ i \in DOMAIN deposit' /\ deposit'[i].status = deposit[i].status
           /\ deposit'[i].facts = deposit[i].facts
           /\ deposit'[i].key = deposit[i].key
           /\ deposit'[i].minted = deposit[i].minted
<1>1. ASSUME NEW v \in Val, NEW k \in Keys, NEW f \in DepositFacts,
             AttestDeposit(v, k, f)
      PROVE  /\ i \in DOMAIN deposit' /\ deposit'[i].status = deposit[i].status
             /\ deposit'[i].facts = deposit[i].facts
             /\ deposit'[i].key = deposit[i].key
             /\ deposit'[i].minted = deposit[i].minted
  <2> DEFINE id == AttestedId(k)
             d == AttestedDeposit(k, f, v)
  <2>1. WorksOn(id, d, v, k, f)
    BY Zenon, AttestedFields
  <2>2. PICK e \in DepositRecords : Stores(e, id, d, v, k, f)
    BY Zenon, <1>1, AttestEffect
  <2> HIDE DEF id, d
  <2>3. /\ i \in DOMAIN deposit'
        /\ id = i => deposit'[i] = e
        /\ id # i => deposit'[i] = deposit[i]
    BY Zenon, <2>2 DEF Stores, StoreDeposit
  <2>4. CASE id = i
    <3>1. /\ d.status = deposit[i].status /\ d.facts = deposit[i].facts
          /\ d.key = deposit[i].key /\ d.minted = deposit[i].minted
      BY Zenon, <2>1, <2>4 DEF WorksOn
    <3>2. e = d
      BY Zenon, <3>1, <2>2 DEF Stores, Crosses, ResolvedStatuses
    <3>3. QED
      BY Zenon, <3>1, <3>2, <2>3, <2>4
  <2>5. QED
    BY Zenon, <2>3, <2>4
<1>2. CASE Attest
  BY Zenon, <1>1, <1>2, ReportsType DEF Attest
<1>3. CASE NextBlock
  BY Zenon, <1>3, ExpireEffect DEF NextBlock, ResolvedStatuses
<1>4. CASE UNCHANGED depositVars
  BY Zenon, <1>4 DEF depositVars
<1>5. QED
  BY Zenon, <1>2, <1>3, <1>4 DEF Next, Govern, Restake, vars

(***************************************************************************)
(* A resolved deposit keeps its status and facts, whatever is attested,    *)
(* swept or governed later (AttestDeposit's early return, the PENDING      *)
(* bucket of ExpireDeposits).                                              *)
(***************************************************************************)
THEOREM Finality == Spec => ResolvedIsFinal
<1>1. IInv /\ [Next]_vars =>
        [\A i \in DOMAIN deposit :
            deposit[i].status \in ResolvedStatuses =>
                /\ deposit'[i].status = deposit[i].status
                /\ deposit'[i].facts = deposit[i].facts]_vars
  BY Zenon, StepKeepsResolved
<1>2. QED
  BY <1>1, Invariance, PTL DEF Spec, ResolvedIsFinal

-----------------------------------------------------------------------------
(* Truth of what is minted. *)

(***************************************************************************)
(* The votes of validators outside Faulty are for the true facts.          *)
(***************************************************************************)
HonestVotes ==
    \A k \in Keys, f \in DepositFacts, v \in Val \ Faulty :
        <<k, f, v>> \in depositFactsVote => f = Truth[k]

(***************************************************************************)
(* With a faulty minority, a fact-set that reaches the threshold has an    *)
(* honest vote, so it is the truth.                                        *)
(***************************************************************************)
LEMMA CrossingFactsTrue ==
    ASSUME FaultyAreMinority, TypeOK, HonestVotes, NEW v \in Val, NEW k \in Keys,
           NEW f \in Reports(v, k), NEW d, Crosses(k, f, v, d)
    PROVE  f = Truth[k]
<1>1. f \in DepositFacts
  BY Zenon, ReportsType
<1> SUFFICES ASSUME f # Truth[k] PROVE FALSE
  BY Zenon
<1>2. FactsVoters(k, f) \cup {v} \in SUBSET Faulty
  BY Zenon, <1>1 DEF FactsVoters, HonestVotes, Reports
<1>3. params \in ParamChoices /\ bonded \in BondedChoices /\ tokens \in TokenChoices
  BY Zenon DEF TypeOK, BaseTypeOK
<1>4. ~(CandidateRatio(FactsVoters(k, f) \cup {v}, tokens, bonded)
           >= params.BridgeConfirmationThreshold)
  BY Zenon, <1>2, <1>3 DEF FaultyAreMinority
<1>5. CandidateRatio(FactsVoters(k, f) \cup {v}, tokens, bonded)
         >= params.BridgeConfirmationThreshold
  BY Zenon DEF Crosses, ReachesThreshold
<1>6. QED
  BY Zenon, <1>4, <1>5

LEMMA AttestKeepsTruth ==
    ASSUME FaultyAreMinority, IInv, HonestVotes, MintedFactsTrue,
           NEW v \in Val, NEW k \in Keys, NEW f \in Reports(v, k),
           AttestDeposit(v, k, f)
    PROVE  HonestVotes' /\ MintedFactsTrue'
<1> DEFINE id == AttestedId(k)
           d == AttestedDeposit(k, f, v)
<1>1. f \in DepositFacts
  BY Zenon, ReportsType
<1>2. WorksOn(id, d, v, k, f)
  BY Zenon, <1>1, AttestedFields
<1>3. PICK e \in DepositRecords : Stores(e, id, d, v, k, f)
  BY Zenon, <1>1, AttestEffect
<1>4. depositFactsVote' = depositFactsVote \cup {<<k, f, v>>}
  BY Zenon DEF AttestDeposit
<1> HIDE DEF id, d
<1>5. HonestVotes'
  <2> SUFFICES ASSUME NEW j \in Keys, NEW g \in DepositFacts, NEW u \in Val \ Faulty,
                      <<j, g, u>> \in depositFactsVote'
               PROVE  g = Truth[j]
    BY Zenon DEF HonestVotes
  <2>1. CASE <<j, g, u>> \in depositFactsVote
    BY Zenon, <2>1 DEF HonestVotes
  <2>2. CASE j = k /\ g = f /\ u = v
    BY Zenon, <2>2 DEF Reports
  <2>3. QED
    BY Zenon, <1>4, <2>1, <2>2
<1>6. Crosses(k, f, v, d) => f = Truth[k]
  BY Zenon, CrossingFactsTrue DEF IInv
<1>7. e.status \in ResolvedStatuses => e.facts = Truth[k]
  <2>1. CASE e = d
    BY Zenon, <2>1, <1>2 DEF WorksOn, MintedFactsTrue, ResolvedStatuses
  <2>2. CASE e # d
    BY Zenon, <2>2, <1>3, <1>6 DEF Stores
  <2>3. QED
    BY Zenon, <2>1, <2>2
<1>8. /\ DOMAIN deposit' = DOMAIN deposit \cup {id} /\ deposit'[id] = e /\ e.key = k
      /\ \A i \in DOMAIN deposit : i # id => deposit'[i] = deposit[i]
  BY Zenon, <1>3 DEF Stores, StoreDeposit
<1>9. MintedFactsTrue'
  BY Zenon, <1>7, <1>8 DEF MintedFactsTrue
<1>10. QED
  BY Zenon, <1>5, <1>9

LEMMA NextKeepsTruth ==
    ASSUME FaultyAreMinority, IInv, HonestVotes, MintedFactsTrue, [Next]_vars
    PROVE  HonestVotes' /\ MintedFactsTrue'
<1>1. CASE Attest
  BY Zenon, <1>1, AttestKeepsTruth DEF Attest
<1>2. CASE NextBlock
  <2>1. ExpireDeposits
    BY Zenon, <1>2 DEF NextBlock
  <2>2. depositFactsVote' \subseteq depositFactsVote
    BY Zenon, <2>1 DEF ExpireDeposits, RemainingFactsVotes
  <2>3. HonestVotes'
    BY Zenon, <2>2 DEF HonestVotes
  <2>4. MintedFactsTrue'
    BY <2>1, ExpireEffect DEF MintedFactsTrue, ResolvedStatuses
  <2>5. QED
    BY Zenon, <2>3, <2>4
<1>3. CASE UNCHANGED depositVars
  BY Zenon, <1>3 DEF depositVars, HonestVotes, MintedFactsTrue
<1>4. QED
  BY Zenon, <1>1, <1>2, <1>3 DEF Next, Govern, Restake, vars

(***************************************************************************)
(* If the faulty validators never hold the threshold by themselves, every  *)
(* deposit that is resolved carries the true facts, whatever the faulty    *)
(* ones report and in whatever order attestations arrive.                  *)
(***************************************************************************)
THEOREM OnlyTruthMinted ==
    ASSUME FaultyAreMinority
    PROVE  Spec => []MintedFactsTrue
<1>1. Init => HonestVotes /\ MintedFactsTrue
  BY Zenon DEF Init, HonestVotes, MintedFactsTrue
<1>2. IInv /\ (HonestVotes /\ MintedFactsTrue) /\ [Next]_vars
         => (HonestVotes /\ MintedFactsTrue)'
  BY Zenon, NextKeepsTruth
<1>3. QED
  BY <1>1, <1>2, Invariance, PTL DEF Spec

-----------------------------------------------------------------------------
(* Markers, votes and confirmations. *)

LEMMA AttestKeepsVotes ==
    ASSUME IInv, VotesAgree, NEW v \in Val, NEW k \in Keys, NEW f \in DepositFacts,
           AttestDeposit(v, k, f)
    PROVE  VotesAgree'
<1> DEFINE id == AttestedId(k)
           d == AttestedDeposit(k, f, v)
<1>1. WorksOn(id, d, v, k, f)
  BY Zenon, AttestedFields
<1>2. PICK e \in DepositRecords : Stores(e, id, d, v, k, f)
  BY Zenon, AttestEffect
<1>3. /\ <<k, v>> \notin depositConfirmedBy
      /\ depositByTxid' = [depositByTxid EXCEPT ![k] = id]
      /\ depositConfirmedBy' = depositConfirmedBy \cup {<<k, v>>}
      /\ depositFactsVote' = depositFactsVote \cup {<<k, f, v>>}
  BY Zenon DEF AttestDeposit
<1> HIDE DEF id, d
<1>4. /\ depositSeq \in Nat /\ deposit \in [Ids(depositSeq) -> DepositRecords]
      /\ depositByTxid \in [Keys -> Ids(depositSeq) \cup {NoId}]
  BY Zenon DEF IInv, TypeOK
<1>5. /\ id # NoId /\ e.confirmations = d.confirmations /\ deposit'[id] = e
      /\ \A i \in DOMAIN deposit : i # id => deposit'[i] = deposit[i]
  BY <1>1, <1>2, <1>4 DEF Stores, StoreDeposit, WorksOn, NoId, Ids
<1> SUFFICES ASSUME NEW j \in Keys, NEW u \in Val
             PROVE  IF <<j, u>> \in depositConfirmedBy'
                      THEN /\ depositByTxid'[j] # NoId
                           /\ deposit'[depositByTxid'[j]].confirmations[u] = 1
                           /\ \E g \in DepositFacts : VotesOf(j, u)' = {g}
                      ELSE /\ depositByTxid'[j] # NoId =>
                                 deposit'[depositByTxid'[j]].confirmations[u] = 0
                           /\ VotesOf(j, u)' = {}
  BY Zenon DEF VotesAgree
<1>6. CASE j # k
  <2>1. /\ <<j, u>> \in depositConfirmedBy' <=> <<j, u>> \in depositConfirmedBy
        /\ depositByTxid'[j] = depositByTxid[j]
    BY Zenon, <1>3, <1>4, <1>6
  <2>2. VotesOf(j, u)' = VotesOf(j, u)
    BY Zenon, <1>3, <1>6 DEF VotesOf
  <2>3. depositByTxid[j] # NoId =>
            deposit'[depositByTxid[j]] = deposit[depositByTxid[j]]
    <3>1. depositByTxid[j] # NoId => depositByTxid[j] \in DOMAIN deposit
      BY Zenon, <1>4
    <3>2. depositByTxid[j] # NoId => depositByTxid[j] # id
      BY Zenon, <3>1, <1>1, <1>6 DEF WorksOn, IInv, IndexesAgree
    <3>3. QED
      BY Zenon, <3>1, <3>2, <1>5
  <2>4. QED
    BY Zenon, <2>1, <2>2, <2>3 DEF VotesAgree
<1>7. CASE j = k /\ u = v
  <2>1. VotesOf(k, v) = {}
    BY Zenon, <1>3 DEF VotesAgree
  <2>2. VotesOf(k, v)' = {f}
    BY Zenon, <2>1, <1>3 DEF VotesOf
  <2>3. d.confirmations[v] = 1
    <3>1. CASE id \notin DOMAIN deposit
      BY Zenon, <3>1, <1>1 DEF WorksOn
    <3>2. CASE id \in DOMAIN deposit
      <4>1. deposit[id].confirmations[v] = 0
        BY Zenon, <3>2, <1>1, <1>3, <1>5 DEF WorksOn, VotesAgree
      <4>2. deposit[id].confirmations \in [Val -> Nat]
        BY Zenon, <3>2, <1>4 DEF DepositRecords
      <4>3. d.confirmations = [deposit[id].confirmations EXCEPT ![v] = @ + 1]
        BY Zenon, <3>2, <1>1 DEF WorksOn
      <4>4. QED
        BY <4>1, <4>2, <4>3
    <3>3. QED
      BY Zenon, <3>1, <3>2
  <2>4. QED
    BY Zenon, <2>2, <2>3, <1>3, <1>4, <1>5, <1>7
<1>8. CASE j = k /\ u # v
  <2>1. <<k, u>> \in depositConfirmedBy' <=> <<k, u>> \in depositConfirmedBy
    BY Zenon, <1>3, <1>8
  <2>2. VotesOf(k, u)' = VotesOf(k, u)
    BY Zenon, <1>3, <1>8 DEF VotesOf
  <2>3. IF <<k, u>> \in depositConfirmedBy THEN d.confirmations[u] = 1
                                           ELSE d.confirmations[u] = 0
    <3>1. CASE id \notin DOMAIN deposit
      BY Zenon, <3>1, <1>1, <1>8 DEF WorksOn, VotesAgree
    <3>2. CASE id \in DOMAIN deposit
      <4>1. deposit[id].confirmations \in [Val -> Nat]
        BY Zenon, <3>2, <1>4 DEF DepositRecords
      <4>2. d.confirmations = [deposit[id].confirmations EXCEPT ![v] = @ + 1]
            /\ depositByTxid[k] = id
        BY Zenon, <3>2, <1>1 DEF WorksOn
      <4>3. d.confirmations[u] = deposit[id].confirmations[u]
        BY Zenon, <4>1, <4>2, <1>8
      <4>4. QED
        BY Zenon, <4>2, <4>3, <1>5 DEF VotesAgree
    <3>3. QED
      BY Zenon, <3>1, <3>2
  <2>4. QED
    BY Zenon, <2>1, <2>2, <2>3, <1>3, <1>4, <1>5, <1>8 DEF VotesAgree
<1>9. QED
  BY Zenon, <1>6, <1>7, <1>8

LEMMA ExpireKeepsVotes ==
    ASSUME IInv, VotesAgree, ExpireDeposits
    PROVE  VotesAgree'
<1> DEFINE E == ExpiringDeposits
<1>1. \A i \in DOMAIN deposit :
          /\ deposit'[i].confirmations = deposit[i].confirmations
          /\ i \in E => depositByTxid[deposit[i].key] = i
  BY Zenon, ExpireEffect
<1>2. /\ depositByTxid' = RemainingTxids(E)
      /\ depositConfirmedBy' = RemainingConfirmedBy(E)
      /\ depositFactsVote' = RemainingFactsVotes(E)
  BY Zenon DEF ExpireDeposits
<1>3. E \subseteq DOMAIN deposit
  BY Zenon, ExpiringArePending
<1> HIDE DEF E
<1>4. /\ depositSeq \in Nat /\ deposit \in [Ids(depositSeq) -> DepositRecords]
      /\ depositByTxid \in [Keys -> Ids(depositSeq) \cup {NoId}]
      /\ DOMAIN deposit = Ids(depositSeq)
      /\ depositConfirmedBy \subseteq Keys \X Val
      /\ \A k \in Keys : depositByTxid[k] # NoId => deposit[depositByTxid[k]].key = k
  BY Zenon DEF IInv, TypeOK, IndexesAgree
<1> SUFFICES ASSUME NEW k \in Keys, NEW v \in Val
             PROVE  IF <<k, v>> \in depositConfirmedBy'
                      THEN /\ depositByTxid'[k] # NoId
                           /\ deposit'[depositByTxid'[k]].confirmations[v] = 1
                           /\ \E f \in DepositFacts : VotesOf(k, v)' = {f}
                      ELSE /\ depositByTxid'[k] # NoId =>
                                 deposit'[depositByTxid'[k]].confirmations[v] = 0
                           /\ VotesOf(k, v)' = {}
  BY Zenon DEF VotesAgree
<1>5. IF <<k, v>> \in depositConfirmedBy
        THEN /\ depositByTxid[k] # NoId
             /\ deposit[depositByTxid[k]].confirmations[v] = 1
             /\ \E f \in DepositFacts : VotesOf(k, v) = {f}
        ELSE /\ depositByTxid[k] # NoId =>
                   deposit[depositByTxid[k]].confirmations[v] = 0
             /\ VotesOf(k, v) = {}
  BY Zenon DEF VotesAgree
<1>6. k \in KeysOf(E) <=> depositByTxid[k] \in E
  BY <1>1, <1>3, <1>4 DEF KeysOf, NoId, Ids
<1>7. CASE depositByTxid[k] \in E
  <2>1. depositByTxid'[k] = NoId
    BY Zenon, <1>2, <1>6, <1>7 DEF RemainingTxids
  <2>2. <<k, v>> \notin depositConfirmedBy'
    <3>1. <<k, v>> \in depositConfirmedBy =>
              \E i \in E : deposit[i].key = k /\ deposit[i].confirmations[v] > 0
      BY <1>4, <1>5, <1>7
    <3>2. QED
      BY Zenon, <3>1, <1>2 DEF RemainingConfirmedBy
  <2>3. VotesOf(k, v)' = {}
    BY Zenon, <1>2, <1>6, <1>7 DEF VotesOf, RemainingFactsVotes
  <2>4. QED
    BY Zenon, <2>1, <2>2, <2>3
<1>8. CASE depositByTxid[k] \notin E
  <2>1. depositByTxid'[k] = depositByTxid[k]
    BY Zenon, <1>2, <1>6, <1>8 DEF RemainingTxids
  <2>2. <<k, v>> \in depositConfirmedBy' <=> <<k, v>> \in depositConfirmedBy
    <3>1. \A i \in E : deposit[i].key # k
      BY Zenon, <1>1, <1>3, <1>8
    <3>2. QED
      BY Zenon, <3>1, <1>2 DEF RemainingConfirmedBy
  <2>3. VotesOf(k, v)' = VotesOf(k, v)
    BY Zenon, <1>2, <1>6, <1>8 DEF VotesOf, RemainingFactsVotes
  <2>4. depositByTxid[k] # NoId =>
            deposit'[depositByTxid[k]].confirmations = deposit[depositByTxid[k]].confirmations
    BY <1>1, <1>4
  <2>5. QED
    BY Zenon, <2>1, <2>2, <2>3, <2>4, <1>5
<1>9. QED
  BY Zenon, <1>7, <1>8

(***************************************************************************)
(* A step keeps markers, votes and confirmations in agreement.             *)
(***************************************************************************)
LEMMA NextKeepsVotes == IInv /\ VotesAgree /\ [Next]_vars => VotesAgree'
<1> SUFFICES ASSUME IInv, VotesAgree, [Next]_vars PROVE VotesAgree'
  BY Zenon
<1>1. CASE Attest
  BY Zenon, <1>1, AttestKeepsVotes, ReportsType DEF Attest
<1>2. CASE NextBlock
  BY Zenon, <1>2, ExpireKeepsVotes DEF NextBlock
<1>3. CASE UNCHANGED depositVars
  BY Zenon, <1>3 DEF depositVars, VotesAgree, VotesOf
<1>4. QED
  BY Zenon, <1>1, <1>2, <1>3 DEF Next, Govern, Restake, vars

(***************************************************************************)
(* In every reachable state the indexes by key and by status agree with    *)
(* the records, and markers, votes and confirmation lists with each other: *)
(* a validator never has votes for two fact-sets of a key, and after an    *)
(* expiry nobody is locked out of attesting the key again (DepositByTxid,  *)
(* DepositByStatus, DepositConfirmedBy, DepositFactsVote).                 *)
(***************************************************************************)
THEOREM Consistency == Spec => []StoreConsistent
<1>1. Init => VotesAgree
  BY Zenon DEF Init, VotesAgree, VotesOf
<1>2. IInv /\ VotesAgree => StoreConsistent
  BY Zenon DEF IInv, StoreConsistent
<1>3. QED
  BY <1>1, <1>2, NextKeepsVotes, Invariance, PTL DEF Spec

-----------------------------------------------------------------------------
(* What honest votes decide. *)

AllMarked(k) == \A v \in Val \ Faulty : <<k, v>> \in depositConfirmedBy

(***************************************************************************)
(* An attestation that crosses the threshold leaves its record resolved.   *)
(***************************************************************************)
LEMMA CrossingResolves ==
    ASSUME IInv, NEW v \in Val, NEW k \in Keys, NEW f \in DepositFacts,
           AttestDeposit(v, k, f), Crosses(k, f, v, AttestedDeposit(k, f, v))
    PROVE  deposit'[AttestedId(k)].status \in ResolvedStatuses
<1> DEFINE id == AttestedId(k)
           d == AttestedDeposit(k, f, v)
           u == [d EXCEPT !.facts = f, !.status = "UNCLAIMABLE"]
           m == [d EXCEPT !.facts = f, !.status = "MINTED", !.minted = TRUE]
<1>1. ResolveDeposit(id, d, f)
  BY Zenon DEF AttestDeposit
<1>2. d \in DepositRecords
  BY Zenon, AttestedFields DEF WorksOn
<1> HIDE DEF id, d
<1>3. u.status = "UNCLAIMABLE" /\ m.status = "MINTED"
  BY Zenon, <1>2 DEF DepositRecords
<1>4. StoreDeposit(id, u) \/ StoreDeposit(id, m)
  BY Zenon, <1>1 DEF ResolveDeposit
<1> HIDE DEF u, m
<1>5. deposit'[id] = u \/ deposit'[id] = m
  BY Zenon, <1>4 DEF StoreDeposit
<1>6. QED
  BY Zenon, <1>3, <1>5 DEF id, ResolvedStatuses

(***************************************************************************)
(* The honest validator whose attestation completes the set crosses the    *)
(* threshold: the others' votes are still in force, and for the same facts.*)
(***************************************************************************)
LEMMA LastHonestCrosses ==
    ASSUME HonestSuffice, IInv, VotesAgree, HonestVotes,
           NEW v \in Val \ Faulty, NEW k \in Keys, NEW f \in Reports(v, k), NEW d,
           d.status = "PENDING",
           \A u \in Val \ Faulty : u # v => <<k, u>> \in depositConfirmedBy
    PROVE  Crosses(k, f, v, d)
<1>1. f = Truth[k] /\ f \in DepositFacts
  BY Zenon, ReportsType DEF Reports
<1>2. ASSUME NEW u \in Val \ Faulty, u # v PROVE u \in FactsVoters(k, f)
  <2>1. PICK g \in DepositFacts : VotesOf(k, u) = {g}
    BY Zenon, <1>2 DEF VotesAgree
  <2>2. <<k, g, u>> \in depositFactsVote
    BY Zenon, <2>1 DEF VotesOf
  <2>3. QED
    BY Zenon, <1>1, <2>2 DEF HonestVotes, FactsVoters
<1>3. Val \ Faulty \subseteq FactsVoters(k, f) \cup {v}
  BY Zenon, <1>2
<1>4. FactsVoters(k, f) \cup {v} \in SUBSET Val
  BY Zenon DEF FactsVoters
<1>5. params \in ParamChoices /\ bonded \in BondedChoices /\ tokens \in TokenChoices
  BY Zenon DEF IInv, TypeOK, BaseTypeOK
<1>6. CandidateRatio(FactsVoters(k, f) \cup {v}, tokens, bonded)
         >= params.BridgeConfirmationThreshold
  BY Zenon, <1>3, <1>4, <1>5 DEF HonestSuffice
<1>7. QED
  BY Zenon, <1>6 DEF Crosses, ReachesThreshold

LEMMA AttestKeepsDecided ==
    ASSUME HonestSuffice, IInv, VotesAgree, HonestVotes, MintedFactsTrue', IInv',
           HonestVotesDecide, NEW v \in Val, NEW k \in Keys, NEW f \in Reports(v, k),
           AttestDeposit(v, k, f)
    PROVE  HonestVotesDecide'
<1> DEFINE id == AttestedId(k)
           d == AttestedDeposit(k, f, v)
<1>1. f \in DepositFacts
  BY Zenon, ReportsType
<1>2. WorksOn(id, d, v, k, f)
  BY Zenon, <1>1, AttestedFields
<1>3. PICK e \in DepositRecords : Stores(e, id, d, v, k, f)
  BY Zenon, <1>1, AttestEffect
<1>4. /\ depositByTxid' = [depositByTxid EXCEPT ![k] = id]
      /\ depositConfirmedBy' = depositConfirmedBy \cup {<<k, v>>}
  BY Zenon DEF AttestDeposit
<1>5. Crosses(k, f, v, d) => deposit'[id].status \in ResolvedStatuses
  BY Zenon, <1>1, CrossingResolves
<1>6. /\ v \notin Faulty /\ d.status = "PENDING"
      /\ \A u \in Val \ Faulty : u # v => <<k, u>> \in depositConfirmedBy
      => Crosses(k, f, v, d)
  BY Zenon, LastHonestCrosses
<1> HIDE DEF id, d
<1>7. /\ depositSeq \in Nat /\ deposit \in [Ids(depositSeq) -> DepositRecords]
      /\ depositByTxid \in [Keys -> Ids(depositSeq) \cup {NoId}]
  BY Zenon DEF IInv, TypeOK
<1>8. /\ id # NoId /\ deposit'[id] = e /\ e.key = k /\ id \in DOMAIN deposit'
      /\ \A i \in DOMAIN deposit : i # id => deposit'[i] = deposit[i]
  BY <1>2, <1>3, <1>7 DEF Stores, StoreDeposit, WorksOn, NoId, Ids
<1> SUFFICES ASSUME NEW j \in Keys, AllMarked(j)'
             PROVE  depositByTxid'[j] # NoId /\ ResolvedTruly(depositByTxid[j])'
  BY Zenon DEF HonestVotesDecide, AllMarked
<1>9. CASE j # k
  <2>1. AllMarked(j) /\ depositByTxid'[j] = depositByTxid[j]
    BY Zenon, <1>4, <1>7, <1>9 DEF AllMarked
  <2>2. depositByTxid[j] # NoId /\ ResolvedTruly(depositByTxid[j])
    BY Zenon, <2>1 DEF HonestVotesDecide, AllMarked
  <2>3. depositByTxid[j] \in DOMAIN deposit
    BY Zenon, <2>2, <1>7
  <2>4. depositByTxid[j] # id
    BY Zenon, <2>2, <2>3, <1>2, <1>9 DEF WorksOn, IInv, IndexesAgree
  <2>5. deposit'[depositByTxid[j]] = deposit[depositByTxid[j]]
    BY Zenon, <2>3, <2>4, <1>8
  <2>6. QED
    BY Zenon, <2>1, <2>2, <2>5 DEF ResolvedTruly
<1>10. CASE j = k
  <2>1. depositByTxid'[k] = id
    BY Zenon, <1>4, <1>7
  <2>2. e.status \in ResolvedStatuses
    <3>1. d.status \in ResolvedStatuses \/ d.status = "PENDING"
      BY Zenon, <1>2 DEF WorksOn, DepositRecords, DepositStatuses, ResolvedStatuses
    <3>2. CASE d.status \in ResolvedStatuses
      <4>1. ~Crosses(k, f, v, d)
        BY <3>2 DEF Crosses, ResolvedStatuses
      <4>2. QED
        BY Zenon, <4>1, <3>2, <1>3 DEF Stores
    <3>3. CASE d.status = "PENDING" /\ v \in Faulty
      <4>1. AllMarked(k)
        BY Zenon, <3>3, <1>4, <1>10 DEF AllMarked
      <4>2. depositByTxid[k] # NoId /\ deposit[depositByTxid[k]].status \in ResolvedStatuses
        BY Zenon, <4>1 DEF HonestVotesDecide, AllMarked, ResolvedTruly
      <4>3. d.status = deposit[depositByTxid[k]].status
        BY Zenon, <4>2, <1>2 DEF WorksOn
      <4>4. QED
        BY <4>2, <4>3, <3>3 DEF ResolvedStatuses
    <3>4. CASE d.status = "PENDING" /\ v \notin Faulty
      <4>1. \A u \in Val \ Faulty : u # v => <<k, u>> \in depositConfirmedBy
        BY Zenon, <1>4, <1>10 DEF AllMarked
      <4>2. QED
        BY Zenon, <4>1, <3>4, <1>5, <1>6, <1>8
    <3>5. QED
      BY Zenon, <3>1, <3>2, <3>3, <3>4
  <2>3. deposit'[id].facts = Truth[k]
    BY Zenon, <2>2, <1>8 DEF MintedFactsTrue
  <2>4. QED
    BY Zenon, <2>1, <2>2, <2>3, <1>8, <1>10 DEF ResolvedTruly
<1>11. QED
  BY Zenon, <1>9, <1>10

LEMMA ExpireKeepsDecided ==
    ASSUME IInv, HonestVotesDecide, ExpireDeposits
    PROVE  HonestVotesDecide'
<1> DEFINE E == ExpiringDeposits
<1>1. \A i \in DOMAIN deposit :
          /\ i \in E => deposit[i].status = "PENDING" /\ depositByTxid[deposit[i].key] = i
          /\ i \notin E => deposit'[i] = deposit[i]
  BY Zenon, ExpireEffect
<1>2. /\ depositByTxid' = RemainingTxids(E)
      /\ depositConfirmedBy' \subseteq depositConfirmedBy
  BY Zenon DEF ExpireDeposits, RemainingConfirmedBy
<1>3. E \subseteq DOMAIN deposit
  BY Zenon, ExpiringArePending
<1> HIDE DEF E
<1>4. \A k \in Keys : depositByTxid[k] # NoId => depositByTxid[k] \in DOMAIN deposit
  BY Zenon DEF IInv, TypeOK
<1> SUFFICES ASSUME NEW k \in Keys, AllMarked(k)'
             PROVE  depositByTxid'[k] # NoId /\ ResolvedTruly(depositByTxid[k])'
  BY Zenon DEF HonestVotesDecide, AllMarked
<1>5. AllMarked(k)
  BY Zenon, <1>2 DEF AllMarked
<1>6. depositByTxid[k] # NoId /\ ResolvedTruly(depositByTxid[k])
  BY Zenon, <1>5 DEF HonestVotesDecide, AllMarked
<1>7. depositByTxid[k] \in DOMAIN deposit /\ depositByTxid[k] \notin E
  BY <1>1, <1>4, <1>6 DEF ResolvedTruly, ResolvedStatuses
<1>8. k \notin KeysOf(E)
  BY Zenon, <1>1, <1>3, <1>7 DEF KeysOf
<1>9. depositByTxid'[k] = depositByTxid[k]
  BY Zenon, <1>2, <1>8 DEF RemainingTxids
<1>10. deposit'[depositByTxid[k]] = deposit[depositByTxid[k]]
  BY Zenon, <1>1, <1>7
<1>11. QED
  BY Zenon, <1>6, <1>9, <1>10 DEF ResolvedTruly

(***************************************************************************)
(* If the honest validators hold the threshold and the faulty ones do not, *)
(* a transfer that all honest ones are marked as having attested is        *)
(* resolved with the true facts: wrong reports that came first, expiries,  *)
(* and changes of stake, bonded set and parameters in between do not stand *)
(* in the way (AttestDeposit, ExpireDeposits).                             *)
(***************************************************************************)
THEOREM HonestDecide ==
    ASSUME FaultyAreMinority, HonestSuffice
    PROVE  Spec => []HonestVotesDecide
<1> DEFINE T == HonestVotes /\ MintedFactsTrue /\ VotesAgree /\ HonestVotesDecide
<1>1. Init => T
  <2> SUFFICES ASSUME Init PROVE T
    BY Zenon
  <2>1. HonestVotes /\ MintedFactsTrue /\ VotesAgree
    BY Zenon DEF Init, HonestVotes, MintedFactsTrue, VotesAgree, VotesOf
  <2>2. params \in ParamChoices /\ bonded \in BondedChoices /\ tokens \in TokenChoices
    BY Zenon, InitType DEF TypeOK, BaseTypeOK
  <2>3. PICK v \in Val : v \notin Faulty
    BY Zenon, <2>2 DEF FaultyAreMinority, HonestSuffice
  <2>4. HonestVotesDecide
    BY Zenon, <2>3 DEF HonestVotesDecide, Init
  <2>5. QED
    BY Zenon, <2>1, <2>4
<1>2. IInv /\ IInv' /\ T /\ [Next]_vars => T'
  <2> SUFFICES ASSUME IInv, IInv', T, [Next]_vars PROVE T'
    BY Zenon
  <2>1. HonestVotes' /\ MintedFactsTrue' /\ VotesAgree'
    BY Zenon, NextKeepsTruth, NextKeepsVotes
  <2>2. CASE Attest
    BY Zenon, <2>1, <2>2, AttestKeepsDecided DEF Attest
  <2>3. CASE NextBlock
    BY Zenon, <2>1, <2>3, ExpireKeepsDecided DEF NextBlock
  <2>4. CASE UNCHANGED depositVars
    BY Zenon, <2>1, <2>4 DEF depositVars, HonestVotesDecide, ResolvedTruly
  <2>5. QED
    BY Zenon, <2>2, <2>3, <2>4 DEF Next, Govern, Restake, vars
<1>3. QED
  BY <1>1, <1>2, Invariance, PTL DEF Spec

-----------------------------------------------------------------------------
(* Refinement of the mint ledger. *)

LEMMA InCredited ==
    ASSUME NEW k, NEW f
    PROVE  <<k, f>> \in Credited <=>
             \E i \in DOMAIN deposit :
                 deposit[i].minted /\ deposit[i].key = k /\ deposit[i].facts = f
  BY Zenon DEF Credited

LEMMA AttestCredits ==
    ASSUME IInv, NEW v \in Val, NEW k \in Keys, NEW f \in DepositFacts,
           AttestDeposit(v, k, f)
    PROVE  \/ Credited' = Credited /\ totals' = totals
           \/ /\ \A g \in DepositFacts : <<k, g>> \notin Credited
              /\ Credited' = Credited \cup {<<k, f>>}
              /\ totals' = AddMinted(f.asset, MillisteemToAsteem(f.amount))
<1> DEFINE id == AttestedId(k)
           d == AttestedDeposit(k, f, v)
<1>1. WorksOn(id, d, v, k, f)
  BY Zenon, AttestedFields
<1>2. PICK e \in DepositRecords : Stores(e, id, d, v, k, f)
  BY Zenon, AttestEffect
<1> HIDE DEF id, d
<1>3. /\ DOMAIN deposit' = DOMAIN deposit \cup {id}
      /\ deposit'[id] = e /\ e.key = k
      /\ \A i \in DOMAIN deposit : i # id => deposit'[i] = deposit[i]
  BY Zenon, <1>2 DEF Stores, StoreDeposit
<1>4. \A i \in DOMAIN deposit :
          /\ deposit[i].minted <=> deposit[i].status = "MINTED"
          /\ deposit[i].status # "EXPIRED" => depositByTxid[deposit[i].key] = i
  BY Zenon DEF IInv, MintedIsStatus, IndexesAgree
<1>5. CASE e.minted = d.minted /\ (e = d \/ ~d.minted) /\ totals' = totals
  <2>1. e.minted => /\ id \in DOMAIN deposit /\ deposit[id].minted
                    /\ deposit[id].key = e.key /\ deposit[id].facts = e.facts
    BY Zenon, <1>1, <1>3, <1>5 DEF WorksOn
  <2>2. ~e.minted => (id \in DOMAIN deposit => ~deposit[id].minted)
    BY Zenon, <1>1, <1>5 DEF WorksOn
  <2>3. Credited' = Credited
    BY <2>1, <2>2, <1>3 DEF Credited
  <2>4. QED
    BY Zenon, <2>3, <1>5
<1>6. CASE /\ d.status = "PENDING" /\ e.facts = f /\ e.minted = TRUE
           /\ totals' = AddMinted(f.asset, MillisteemToAsteem(f.amount))
  <2>1. id \in DOMAIN deposit => ~deposit[id].minted
    BY Zenon, <1>1, <1>4, <1>6 DEF WorksOn
  <2>2. Credited' = Credited \cup {<<k, f>>}
    BY <2>1, <1>3, <1>6 DEF Credited
  <2>3. ASSUME NEW g \in DepositFacts, <<k, g>> \in Credited PROVE FALSE
    <3>1. PICK i \in DOMAIN deposit : deposit[i].minted /\ deposit[i].key = k
      BY <2>3, InCredited
    <3>2. depositByTxid[k] = i
      BY Zenon, <3>1, <1>4
    <3>3. id = i
      BY <3>1, <3>2, <1>1 DEF WorksOn, NoId, IInv, TypeOK, Ids
    <3>4. QED
      BY Zenon, <3>1, <3>3, <2>1
  <2>4. QED
    BY Zenon, <2>2, <2>3, <1>6
<1>7. d.status = "PENDING" => ~d.minted
  BY Zenon, <1>1, <1>4 DEF WorksOn
<1>8. QED
  BY Zenon, <1>2, <1>5, <1>6, <1>7 DEF Stores, Crosses

(***************************************************************************)
(* Bridge-in implements the mint ledger: every step credits one transfer   *)
(* that was never credited before, and adds its amount to the total, or    *)
(* changes neither.                                                        *)
(***************************************************************************)
THEOREM LedgerRefinement == Spec => ImplementsLedger
<1>1. Init => Ledger!Init
  BY DEF Init, BaseInit, Ledger!Init, Credited
<1>2. IInv /\ [Next]_vars => [Ledger!Next]_<<Credited, totals.minted>>
  <2> SUFFICES ASSUME IInv, [Next]_vars
               PROVE  Ledger!Next \/ (Credited' = Credited /\ totals'.minted = totals.minted)
    BY Zenon
  <2>1. ASSUME NEW v \in Val, NEW k \in Keys, NEW f \in DepositFacts,
               AttestDeposit(v, k, f)
        PROVE  Ledger!Next \/ (Credited' = Credited /\ totals'.minted = totals.minted)
    <3>1. CASE /\ \A g \in DepositFacts : <<k, g>> \notin Credited
               /\ Credited' = Credited \cup {<<k, f>>}
               /\ totals' = AddMinted(f.asset, MillisteemToAsteem(f.amount))
      <4> DEFINE more == [totals.minted EXCEPT ![f.asset] = @ + f.amount * Factor]
      <4>1. totals' = [totals EXCEPT !.minted = more]
        BY Zenon, <3>1 DEF AddMinted, MillisteemToAsteem
      <4>2. totals \in [minted : [Assets -> Nat], burned : [Assets -> Nat]]
        BY Zenon DEF IInv, TypeOK, BaseTypeOK
      <4> HIDE DEF more
      <4>3. totals'.minted = more
        BY Zenon, <4>1, <4>2
      <4>4. QED
        BY Zenon, <3>1, <4>3 DEF more, Ledger!Next, Ledger!Credit
    <3>2. QED
      BY Zenon, <2>1, <3>1, AttestCredits
  <2>2. CASE Attest
    BY Zenon, <2>1, <2>2, ReportsType DEF Attest
  <2>3. CASE NextBlock
    <3>1. ExpireDeposits /\ totals' = totals
      BY Zenon, <2>3 DEF NextBlock, coinVars
    <3>2. Credited' = Credited
      BY <3>1, ExpireEffect DEF Credited
    <3>3. QED
      BY Zenon, <3>1, <3>2
  <2>4. CASE UNCHANGED <<depositVars, coinVars>>
    BY Zenon, <2>4 DEF depositVars, coinVars, Credited
  <2>5. QED
    BY Zenon, <2>2, <2>3, <2>4 DEF Next, Govern, Restake, vars, baseVars, coinVars
<1>3. QED
  BY <1>1, <1>2, Invariance, PTL DEF Spec, ImplementsLedger, Ledger!Spec

-----------------------------------------------------------------------------
(* Coins. *)

(***************************************************************************)
(* What an attestation that works on d stores, with what it does to the    *)
(* coins and the duty queue: d as it is and nothing else, or d resolved,   *)
(* queued once, and credited if it is minted.                              *)
(***************************************************************************)
Outcome(e, id, d, f) ==
    /\ StoreDeposit(id, e) /\ e.confirmations = d.confirmations
    /\ \/ e = d /\ UNCHANGED <<bank, totals, dutyQueue>>
       \/ /\ d.status = "PENDING" /\ e.status \in ResolvedStatuses
          /\ dutyQueue' = dutyQueue \cup {<<"deposit", id>>}
          /\ \/ e.minted = d.minted /\ UNCHANGED <<bank, totals>>
             \/ /\ e.minted = TRUE /\ e.facts = f /\ Claimable(f)
                /\ CreditBridged(f.dest, f.asset, f.amount, params.BridgeFeeBps)

LEMMA AttestOutcome ==
    ASSUME IInv, NEW v \in Val, NEW k \in Keys, NEW f \in DepositFacts,
           AttestDeposit(v, k, f)
    PROVE  \E e \in DepositRecords : Outcome(e, AttestedId(k), AttestedDeposit(k, f, v), f)
<1> DEFINE id == AttestedId(k)
           d == AttestedDeposit(k, f, v)
<1>1. d \in DepositRecords
  BY Zenon, AttestedFields DEF WorksOn
<1>2. \/ StoreDeposit(id, d) /\ UNCHANGED <<bank, totals, dutyQueue>>
      \/ /\ Crosses(k, f, v, d) /\ ResolveDeposit(id, d, f)
         /\ dutyQueue' = dutyQueue \cup {<<"deposit", id>>}
  BY Zenon DEF AttestDeposit, coinVars
<1> HIDE DEF id, d
<1> DEFINE u == [d EXCEPT !.facts = f, !.status = "UNCLAIMABLE"]
           m == [d EXCEPT !.facts = f, !.status = "MINTED", !.minted = TRUE]
<1>3. u \in DepositRecords /\ m \in DepositRecords
  BY Zenon, <1>1 DEF DepositRecords, DepositStatuses
<1>4. /\ u.status = "UNCLAIMABLE" /\ u.minted = d.minted
      /\ u.confirmations = d.confirmations
      /\ m.facts = f /\ m.status = "MINTED" /\ m.minted = TRUE
      /\ m.confirmations = d.confirmations
  BY Zenon, <1>1 DEF DepositRecords
<1>5. \/ StoreDeposit(id, u) /\ UNCHANGED <<bank, totals>>
      \/ /\ StoreDeposit(id, m) /\ Claimable(f)
         /\ CreditBridged(f.dest, f.asset, f.amount, params.BridgeFeeBps)
      \/ StoreDeposit(id, d) /\ UNCHANGED <<bank, totals, dutyQueue>>
  BY Zenon, <1>2 DEF ResolveDeposit, coinVars
<1> HIDE DEF u, m
<1>6. CASE StoreDeposit(id, d) /\ UNCHANGED <<bank, totals, dutyQueue>>
  BY Zenon, <1>1, <1>6 DEF Outcome, id, d
<1>7. CASE /\ Crosses(k, f, v, d) /\ dutyQueue' = dutyQueue \cup {<<"deposit", id>>}
           /\ \/ StoreDeposit(id, u) /\ UNCHANGED <<bank, totals>>
              \/ /\ StoreDeposit(id, m) /\ Claimable(f)
                 /\ CreditBridged(f.dest, f.asset, f.amount, params.BridgeFeeBps)
  <2>1. \E e \in DepositRecords : Outcome(e, id, d, f)
    BY Zenon, <1>3, <1>4, <1>7 DEF Outcome, Crosses, ResolvedStatuses
  <2>2. QED
    BY Zenon, <2>1 DEF id, d
<1>8. QED
  BY Zenon, <1>2, <1>5, <1>6, <1>7

(***************************************************************************)
(* The deposits credited in an asset, and what they are worth.             *)
(***************************************************************************)
Credits(dep, a) == {i \in DOMAIN dep : dep[i].minted /\ dep[i].facts.asset = a}

Values(dep, a) == [i \in Credits(dep, a) |-> MillisteemToAsteem(dep[i].facts.amount)]

Worth(dep, a) == Sum(Values(dep, a), Credits(dep, a))

LEMMA CoinsRestated ==
    CoinsConserved <=> \A a \in Assets : /\ CoinsOf(bank, a) = totals.minted[a]
                                         /\ Worth(deposit, a) = totals.minted[a]
                                         /\ bank[BlackHole][a] = 0
  BY Zenon DEF CoinsConserved, CoinsOf, Worth, Values, Credits

LEMMA WorthSame ==
    ASSUME NEW x, NEW y, NEW a, IsFiniteSet(Credits(x, a)), Credits(y, a) = Credits(x, a),
           \A i \in Credits(x, a) :
               x[i].facts.amount \in Nat /\ y[i].facts.amount = x[i].facts.amount
    PROVE  Worth(y, a) = Worth(x, a)
<1>1. \A i \in Credits(x, a) : Values(x, a)[i] \in Nat /\ Values(y, a)[i] = Values(x, a)[i]
  BY Zenon, AsteemType DEF Values
<1>2. \A i \in Credits(x, a) : Values(x, a)[i] \in Int /\ Values(y, a)[i] = Values(x, a)[i]
  BY <1>1
<1>3. Sum(Values(y, a), Credits(x, a)) = Sum(Values(x, a), Credits(x, a))
  BY <1>2, SumSame
<1>4. QED
  BY Zenon, <1>3 DEF Worth

LEMMA WorthAdd ==
    ASSUME NEW x, NEW y, NEW a, NEW n, IsFiniteSet(Credits(x, a)), n \notin Credits(x, a),
           Credits(y, a) = Credits(x, a) \cup {n}, y[n].facts.amount \in Nat,
           \A i \in Credits(x, a) :
               x[i].facts.amount \in Nat /\ y[i].facts.amount = x[i].facts.amount
    PROVE  Worth(y, a) = Worth(x, a) + MillisteemToAsteem(y[n].facts.amount)
<1>1. /\ \A i \in Credits(x, a) : Values(x, a)[i] \in Nat /\ Values(y, a)[i] = Values(x, a)[i]
      /\ Values(y, a)[n] = MillisteemToAsteem(y[n].facts.amount)
      /\ MillisteemToAsteem(y[n].facts.amount) \in Nat
  BY Zenon, AsteemType DEF Values
<1>2. /\ \A i \in Credits(x, a) : Values(x, a)[i] \in Int /\ Values(y, a)[i] = Values(x, a)[i]
      /\ \A i \in Credits(x, a) : Values(y, a)[i] \in Int
      /\ Values(y, a)[n] \in Int
  BY <1>1
<1>3. Sum(Values(y, a), Credits(x, a)) = Sum(Values(x, a), Credits(x, a))
  BY <1>2, SumSame
<1>4. Sum(Values(y, a), Credits(x, a) \cup {n})
         = Sum(Values(y, a), Credits(x, a)) + Values(y, a)[n]
  BY <1>2, SumAdd
<1>5. QED
  BY Zenon, <1>1, <1>3, <1>4 DEF Worth

LEMMA CreditsTyped ==
    ASSUME TypeOK, NEW a
    PROVE  /\ IsFiniteSet(DOMAIN deposit) /\ IsFiniteSet(Credits(deposit, a))
           /\ \A i \in DOMAIN deposit : deposit[i].facts.amount \in Nat
<1>1. DOMAIN deposit = Ids(depositSeq) /\ \A i \in DOMAIN deposit : deposit[i].facts \in DepositFacts
  BY Zenon DEF TypeOK, DepositRecords
<1>2. IsFiniteSet(Ids(depositSeq))
  BY FS_Interval DEF Ids, TypeOK
<1>3. Credits(deposit, a) \in SUBSET DOMAIN deposit
  BY Zenon DEF Credits
<1>4. QED
  BY <1>1, <1>2, <1>3, FS_Subset, FactTypes

LEMMA AttestKeepsCoins ==
    ASSUME IInv, CoinsConserved, NEW v \in Val, NEW k \in Keys, NEW f \in DepositFacts,
           AttestDeposit(v, k, f)
    PROVE  CoinsConserved'
<1> DEFINE id == AttestedId(k)
           d == AttestedDeposit(k, f, v)
<1>1. WorksOn(id, d, v, k, f)
  BY Zenon, AttestedFields
<1>2. PICK e \in DepositRecords : Outcome(e, id, d, f)
  BY Zenon, AttestOutcome
<1> HIDE DEF id, d
<1>3. /\ DOMAIN deposit' = DOMAIN deposit \cup {id} /\ deposit'[id] = e
      /\ \A i \in DOMAIN deposit : i # id => deposit'[i] = deposit[i]
  BY Zenon, <1>2 DEF Outcome, StoreDeposit
<1>4. /\ d.status = "PENDING" => ~d.minted
      /\ d.minted => /\ id \in DOMAIN deposit /\ deposit[id].minted
                     /\ deposit[id].facts = d.facts
      /\ ~d.minted => (id \in DOMAIN deposit => ~deposit[id].minted)
  BY Zenon, <1>1 DEF WorksOn, IInv, MintedIsStatus
<1> SUFFICES ASSUME NEW a \in Assets
             PROVE  /\ CoinsOf(bank', a) = totals'.minted[a]
                    /\ Worth(deposit', a) = totals'.minted[a]
                    /\ bank'[BlackHole][a] = 0
  BY Zenon DEF CoinsConserved, CoinsOf, Worth, Values, Credits
<1>5. /\ CoinsOf(bank, a) = totals.minted[a] /\ Worth(deposit, a) = totals.minted[a]
      /\ bank[BlackHole][a] = 0
  BY Zenon, CoinsRestated
<1>6. IsFiniteSet(Credits(deposit, a))
      /\ \A i \in Credits(deposit, a) : deposit[i].facts.amount \in Nat
  BY Zenon, CreditsTyped DEF IInv, Credits
<1>7. CASE e.minted = d.minted /\ (e = d \/ ~d.minted) /\ UNCHANGED <<bank, totals>>
  <2>1. /\ Credits(deposit', a) = Credits(deposit, a)
        /\ \A i \in Credits(deposit, a) : deposit'[i].facts = deposit[i].facts
    <3>1. CASE e.minted
      <4>1. id \in DOMAIN deposit /\ deposit[id].minted /\ deposit[id].facts = e.facts
        BY Zenon, <1>4, <1>7, <3>1
      <4>2. DOMAIN deposit' = DOMAIN deposit
            /\ \A i \in DOMAIN deposit : /\ deposit'[i].facts = deposit[i].facts
                                         /\ deposit'[i].minted <=> deposit[i].minted
        BY Zenon, <1>3, <3>1, <4>1
      <4>3. QED
        BY Zenon, <4>2 DEF Credits
    <3>2. CASE ~e.minted
      <4>1. ~deposit'[id].minted /\ (id \in DOMAIN deposit => ~deposit[id].minted)
        BY Zenon, <1>3, <1>4, <1>7, <3>2
      <4>2. QED
        BY Zenon, <1>3, <4>1 DEF Credits
    <3>3. QED
      BY Zenon, <3>1, <3>2
  <2>2. Worth(deposit', a) = Worth(deposit, a)
    BY <1>6, <2>1, WorthSame
  <2>3. QED
    BY Zenon, <1>5, <1>7, <2>2
<1>8. CASE /\ d.status = "PENDING" /\ e.minted = TRUE /\ e.facts = f /\ Claimable(f)
           /\ CreditBridged(f.dest, f.asset, f.amount, params.BridgeFeeBps)
  <2> DEFINE gain == IF a = f.asset THEN MillisteemToAsteem(f.amount) ELSE 0
  <2>1. /\ f.asset \in Assets /\ f.amount \in Nat /\ params.BridgeFeeBps \in Nat
        /\ MillisteemToAsteem(f.amount) \in Nat
    BY Zenon, FactTypes, ParamTypes, AsteemType DEF IInv
  <2>2. /\ CanCredit(f.dest, f.amount, params.BridgeFeeBps)
        /\ bank' = CreditedBank(f.dest, f.asset, f.amount, params.BridgeFeeBps)
        /\ totals' = AddMinted(f.asset, MillisteemToAsteem(f.amount))
    BY Zenon, <1>8 DEF CreditBridged
  <2>3. f.dest \in Users \/ ApplyBridgeFee(f.amount, params.BridgeFeeBps).net = 0
    <3>1. f.dest \in Users \cup Blocked
      BY Zenon, <1>8, DepositAssumption DEF FactRecords, Claimable
    <3>2. ApplyBridgeFee(f.amount, params.BridgeFeeBps).net \in Nat
      BY Zenon, <2>1, FeeConserved
    <3>3. QED
      BY <2>2, <3>1, <3>2 DEF CanCredit
  <2>4. bank'[BlackHole][a] = bank[BlackHole][a] /\ CoinsOf(bank', a) = CoinsOf(bank, a) + gain
    <3>1. bank \in [Holders -> [Assets -> Nat]]
      BY Zenon DEF IInv, TypeOK, BaseTypeOK
    <3>2. QED
      BY <2>1, <2>2, <2>3, <3>1, CreditMoves
  <2>5. totals'.minted[a] = totals.minted[a] + gain
    <3>1. totals \in [minted : [Assets -> Nat], burned : [Assets -> Nat]]
      BY Zenon DEF IInv, TypeOK, BaseTypeOK
    <3>2. QED
      BY <2>1, <2>2, <3>1 DEF AddMinted
  <2>6. Worth(deposit', a) = Worth(deposit, a) + gain
    <3>1. id \in DOMAIN deposit => ~deposit[id].minted
      BY Zenon, <1>4, <1>8
    <3>2. /\ id \notin Credits(deposit, a)
          /\ \A i \in Credits(deposit, a) : deposit'[i].facts = deposit[i].facts
      BY Zenon, <1>3, <3>1 DEF Credits
    <3>3. CASE a = f.asset
      <4>1. /\ Credits(deposit', a) = Credits(deposit, a) \cup {id}
            /\ deposit'[id].facts.amount = f.amount
        BY Zenon, <1>3, <1>8, <3>1, <3>3 DEF Credits
      <4>2. Worth(deposit', a) = Worth(deposit, a) + MillisteemToAsteem(deposit'[id].facts.amount)
        BY <1>6, <2>1, <3>2, <4>1, WorthAdd
      <4>3. QED
        BY Zenon, <3>3, <4>1, <4>2
    <3>4. CASE a # f.asset
      <4>1. Credits(deposit', a) = Credits(deposit, a)
        BY Zenon, <1>3, <1>8, <3>1, <3>4 DEF Credits
      <4>2. Worth(deposit', a) = Worth(deposit, a)
        BY <1>6, <3>2, <4>1, WorthSame
      <4>3. totals.minted[a] \in Nat
        BY Zenon DEF IInv, TypeOK, BaseTypeOK
      <4>4. QED
        BY <1>5, <3>4, <4>2, <4>3
    <3>5. QED
      BY Zenon, <3>3, <3>4
  <2> HIDE DEF gain
  <2>7. QED
    BY Zenon, <1>5, <2>4, <2>5, <2>6
<1>9. QED
  BY Zenon, <1>2, <1>4, <1>7, <1>8 DEF Outcome

LEMMA NextKeepsCoins == IInv /\ CoinsConserved /\ [Next]_vars => CoinsConserved'
<1> SUFFICES ASSUME IInv, CoinsConserved, [Next]_vars PROVE CoinsConserved'
  BY Zenon
<1>1. CASE Attest
  BY Zenon, <1>1, AttestKeepsCoins, ReportsType DEF Attest
<1>2. CASE NextBlock
  <2>1. ExpireDeposits /\ UNCHANGED <<bank, totals>>
    BY Zenon, <1>2 DEF NextBlock, coinVars
  <2>2. \A a : /\ Credits(deposit', a) = Credits(deposit, a)
               /\ \A i \in Credits(deposit, a) : deposit'[i].facts = deposit[i].facts
    <3>1. /\ DOMAIN deposit' = DOMAIN deposit
          /\ \A i \in DOMAIN deposit : /\ deposit'[i].facts = deposit[i].facts
                                       /\ deposit'[i].minted = deposit[i].minted
      BY Zenon, <2>1, ExpireEffect
    <3>2. QED
      BY Zenon, <3>1 DEF Credits
  <2>3. ASSUME NEW a
        PROVE  Worth(deposit', a) = Worth(deposit, a)
    <3>1. IsFiniteSet(Credits(deposit, a))
          /\ \A i \in Credits(deposit, a) : deposit[i].facts.amount \in Nat
      BY Zenon, CreditsTyped DEF IInv, Credits
    <3>2. QED
      BY <2>2, <3>1, WorthSame
  <2>4. QED
    BY Zenon, <2>1, <2>3, CoinsRestated DEF CoinsConserved, CoinsOf, Worth, Values, Credits
<1>3. CASE UNCHANGED <<depositVars, coinVars>>
  BY Zenon, <1>3 DEF depositVars, coinVars, CoinsConserved
<1>4. QED
  BY Zenon, <1>1, <1>2, <1>3 DEF Next, Govern, Restake, vars, baseVars, coinVars

(***************************************************************************)
(* Every coin in circulation is the credit of one minted deposit, whoever  *)
(* attests what: no fee rounding, overflow, refused payment or expiry      *)
(* makes a coin or loses one, and the black hole nets to zero              *)
(* (creditBridged).                                                        *)
(***************************************************************************)
THEOREM NoCoinWithoutDeposit == Spec => []CoinsConserved
<1>1. Init => CoinsConserved
  <2> SUFFICES ASSUME Init, NEW a \in Assets
               PROVE  /\ CoinsOf(bank, a) = totals.minted[a]
                      /\ Worth(deposit, a) = totals.minted[a]
                      /\ bank[BlackHole][a] = 0
    BY Zenon, CoinsRestated
  <2>1. /\ bank = [h \in Holders |-> [b \in Assets |-> 0]] /\ DOMAIN deposit = {}
        /\ totals.minted[a] = 0
    BY DEF Init
  <2>2. Credits(deposit, a) = {}
    BY Zenon, <2>1 DEF Credits
  <2>3. Worth(deposit, a) = 0
    BY Zenon, <2>2, SumEmpty DEF Worth
  <2>4. CoinsOf(bank, a) = 0
    <3> DEFINE coins == [h \in Holders |-> bank[h][a]]
    <3>1. \A h \in Holders : coins[h] = 0
      BY Zenon, <2>1
    <3> HIDE DEF coins
    <3>2. Sum(coins, Holders) = 0
      BY Zenon, <3>1, SumZero, HoldersFinite
    <3>3. QED
      BY Zenon, <3>2 DEF CoinsOf, coins
  <2>5. QED
    BY Zenon, <2>1, <2>3, <2>4, HoldersFinite
<1>2. QED
  BY <1>1, NextKeepsCoins, Invariance, PTL DEF Spec

-----------------------------------------------------------------------------
(* Duty. *)

Final(dep) == {i \in DOMAIN dep : dep[i].status \in ResolvedStatuses}
Queued(dep, q) == {i \in Final(dep) : <<"deposit", i>> \in q}
Ended(dep, q) == {i \in Final(dep) : <<"deposit", i>> \notin q}
Attested(dep, ids, v) == {i \in ids : dep[i].confirmations[v] > 0}

(***************************************************************************)
(* Only finalized deposits are queued.                                     *)
(***************************************************************************)
QueueFinal == \A e \in dutyQueue : e[2] \in Final(deposit)

LEMMA DutyRestated ==
    DutyAccounting <=>
        \A v \in Val :
            LET ended == Ended(deposit, dutyQueue)
            IN  /\ tally[v].opportunities <= Cardinality(ended)
                /\ (\A b \in BondedChoices : v \in b) =>
                      tally[v].opportunities = Cardinality(ended)
                /\ tally[v].hits <= Cardinality(Attested(deposit, ended, v))
  BY Zenon DEF DutyAccounting, Final, Ended, Attested

LEMMA FinalFinite ==
    ASSUME TypeOK
    PROVE  IsFiniteSet(Final(deposit))
<1>1. Final(deposit) \in SUBSET DOMAIN deposit
  BY Zenon DEF Final
<1>2. QED
  BY <1>1, CreditsTyped, FS_Subset

LEMMA AttestKeepsDuty ==
    ASSUME IInv, DutyAccounting, QueueFinal,
           NEW v \in Val, NEW k \in Keys, NEW f \in DepositFacts, AttestDeposit(v, k, f)
    PROVE  DutyAccounting' /\ QueueFinal'
<1> DEFINE id == AttestedId(k)
           d == AttestedDeposit(k, f, v)
           ended == Ended(deposit, dutyQueue)
<1>1. WorksOn(id, d, v, k, f)
  BY Zenon, AttestedFields
<1>2. PICK e \in DepositRecords : Outcome(e, id, d, f)
  BY Zenon, AttestOutcome
<1> HIDE DEF id, d
<1>3. /\ DOMAIN deposit' = DOMAIN deposit \cup {id} /\ deposit'[id] = e
      /\ \A i \in DOMAIN deposit : i # id => deposit'[i] = deposit[i]
      /\ e.confirmations = d.confirmations
  BY Zenon, <1>2 DEF Outcome, StoreDeposit
<1>4. id \in Final(deposit) <=> d.status \in ResolvedStatuses
  BY Zenon, <1>1 DEF WorksOn, Final, ResolvedStatuses
<1>5. /\ Ended(deposit', dutyQueue') = ended
      /\ Final(deposit) \subseteq Final(deposit')
      /\ \A q \in dutyQueue' \ dutyQueue : q[2] \in Final(deposit')
  <2>1. CASE e = d /\ UNCHANGED dutyQueue
    <3>1. Final(deposit') = Final(deposit)
      BY Zenon, <1>3, <1>4, <2>1 DEF Final
    <3>2. QED
      BY Zenon, <2>1, <3>1 DEF Ended
  <2>2. CASE /\ d.status = "PENDING" /\ e.status \in ResolvedStatuses
             /\ dutyQueue' = dutyQueue \cup {<<"deposit", id>>}
    <3>1. id \notin Final(deposit)
      BY Zenon, <1>4, <2>2 DEF ResolvedStatuses
    <3>2. Final(deposit') = Final(deposit) \cup {id}
      BY Zenon, <1>3, <2>2 DEF Final
    <3>3. \A i \in Final(deposit) : <<"deposit", i>> \in dutyQueue' <=> <<"deposit", i>> \in dutyQueue
      BY <2>2, <3>1
    <3>4. Ended(deposit', dutyQueue') = ended
      BY Zenon, <2>2, <3>1, <3>2, <3>3 DEF Ended
    <3>5. \A q \in dutyQueue' \ dutyQueue : q[2] = id
      BY <2>2
    <3>6. QED
      BY Zenon, <3>2, <3>4, <3>5
  <2>3. QED
    BY Zenon, <1>2, <2>1, <2>2 DEF Outcome
<1>6. tally' = tally
  BY Zenon DEF AttestDeposit
<1>7. ASSUME NEW u \in Val
      PROVE  /\ IsFiniteSet(Attested(deposit', ended, u))
             /\ Attested(deposit, ended, u) \in SUBSET Attested(deposit', ended, u)
  <2>1. \A i \in DOMAIN deposit : deposit[i].confirmations[u] > 0 => deposit'[i].confirmations[u] > 0
    <3> SUFFICES ASSUME NEW i \in DOMAIN deposit, deposit[i].confirmations[u] > 0
                 PROVE  deposit'[i].confirmations[u] > 0
      BY Zenon
    <3>1. CASE i # id
      BY Zenon, <1>3, <3>1
    <3>2. CASE i = id
      <4>1. /\ deposit'[i].confirmations = [deposit[i].confirmations EXCEPT ![v] = @ + 1]
            /\ deposit[i].confirmations \in [Val -> Nat]
        BY Zenon, <1>1, <1>3, <3>2 DEF WorksOn, IInv, TypeOK, DepositRecords
      <4>2. QED
        BY <4>1
    <3>3. QED
      BY Zenon, <3>1, <3>2
  <2>2. ended \subseteq DOMAIN deposit /\ ended \in SUBSET Final(deposit)
    BY Zenon DEF Ended, Final
  <2> HIDE DEF ended
  <2>3. Attested(deposit', ended, u) \in SUBSET ended
    BY Zenon DEF Attested
  <2>4. IsFiniteSet(ended)
    BY <2>2, FinalFinite, FS_Subset DEF IInv
  <2>5. IsFiniteSet(Attested(deposit', ended, u))
    BY <2>3, <2>4, FS_Subset
  <2>6. QED
    BY Zenon, <2>1, <2>2, <2>5 DEF Attested
<1>8. DutyAccounting'
  <2> SUFFICES ASSUME NEW u \in Val
               PROVE  /\ tally[u].opportunities <= Cardinality(ended)
                      /\ (\A b \in BondedChoices : u \in b) =>
                            tally[u].opportunities = Cardinality(ended)
                      /\ tally[u].hits <= Cardinality(Attested(deposit', ended, u))
    BY Zenon, <1>5, <1>6 DEF DutyAccounting, Final, Ended, Attested
  <2>1. /\ tally[u].opportunities <= Cardinality(ended)
        /\ (\A b \in BondedChoices : u \in b) => tally[u].opportunities = Cardinality(ended)
        /\ tally[u].hits <= Cardinality(Attested(deposit, ended, u))
    BY Zenon, DutyRestated
  <2> HIDE DEF ended
  <2>2. Cardinality(Attested(deposit, ended, u)) <= Cardinality(Attested(deposit', ended, u))
    BY <1>7, FS_Subset
  <2>3. /\ Cardinality(Attested(deposit, ended, u)) \in Nat
        /\ Cardinality(Attested(deposit', ended, u)) \in Nat /\ tally[u].hits \in Nat
    <3>1. tally[u].hits \in Nat
      BY Zenon DEF IInv, TypeOK, BaseTypeOK
    <3>2. IsFiniteSet(Attested(deposit, ended, u))
      BY <1>7, FS_Subset
    <3>3. QED
      BY Zenon, <1>7, <3>1, <3>2, FS_CardinalityType
  <2>4. QED
    BY <2>1, <2>2, <2>3
<1>9. QueueFinal'
  BY Zenon, <1>5 DEF QueueFinal
<1>10. QED
  BY Zenon, <1>8, <1>9

(***************************************************************************)
(* The ids in a queue of deposits are as many as its events.               *)
(***************************************************************************)
LEMMA AsManyIds ==
    ASSUME NEW q, NEW ids, q = {<<"deposit", i>> : i \in ids}, IsFiniteSet(ids)
    PROVE  Cardinality(q) = Cardinality(ids)
<1> DEFINE event == [i \in ids |-> <<"deposit", i>>]
<1>1. event \in Bijection(ids, q)
  <2>1. event \in [ids -> q] /\ \A y \in q : \E i \in ids : event[i] = y
    BY Zenon
  <2>2. \A i, j \in ids : event[i] = event[j] => i = j
    BY Zenon
  <2>3. QED
    BY Zenon, <2>1, <2>2 DEF Bijection, Injection, Surjection, IsInjective
<1>2. ExistsBijection(ids, q)
  BY Zenon, <1>1 DEF ExistsBijection
<1>3. QED
  BY Zenon, <1>2, FS_Bijection

\* Two parts that do not meet.
LEMMA PartsCounted ==
    ASSUME NEW A, NEW B, NEW C, IsFiniteSet(A), B \cup C = A, B \cap C = {}
    PROVE  /\ IsFiniteSet(B) /\ IsFiniteSet(C)
           /\ Cardinality(A) = Cardinality(B) + Cardinality(C)
           /\ Cardinality(B) \in Nat /\ Cardinality(C) \in Nat
<1>1. IsFiniteSet(B) /\ IsFiniteSet(C)
  BY FS_Subset
<1>2. /\ Cardinality(B \cup C) = Cardinality(B) + Cardinality(C) - Cardinality(B \cap C)
      /\ Cardinality(B) \in Nat /\ Cardinality(C) \in Nat /\ Cardinality({}) = 0
  BY Zenon, <1>1, FS_Union, FS_CardinalityType, FS_EmptySet
<1>3. Cardinality(B \cap C) = 0
  BY Zenon, <1>2
<1>4. Cardinality(B \cup C) = Cardinality(B) + Cardinality(C)
  BY ONLY <1>2, <1>3
<1>5. QED
  BY Zenon, <1>1, <1>2, <1>4

LEMMA BlockKeepsDuty ==
    ASSUME IInv, DutyAccounting, QueueFinal, NextBlock
    PROVE  DutyAccounting' /\ QueueFinal'
<1> DEFINE final == Final(deposit)
           ended == Ended(deposit, dutyQueue)
           queued == Queued(deposit, dutyQueue)
           att == [e \in dutyQueue |-> DepositAttesters(e)]
<1>1. /\ dutyQueue' = {} /\ bonded' \in BondedChoices
      /\ tally' = [v \in Val |->
            IF v \in bonded'
              THEN [opportunities |-> tally[v].opportunities + Cardinality(dutyQueue),
                    hits |-> tally[v].hits + Cardinality({e \in dutyQueue : v \in att[e]})]
              ELSE tally[v]]
  BY Zenon DEF NextBlock, FlushBridgeDuty, AdvanceBlock
<1>2. /\ DOMAIN deposit' = DOMAIN deposit /\ Final(deposit') = final
      /\ \A i \in DOMAIN deposit : deposit'[i].confirmations = deposit[i].confirmations
  <2>1. /\ DOMAIN deposit' = DOMAIN deposit
        /\ \A i \in DOMAIN deposit :
              /\ deposit'[i].confirmations = deposit[i].confirmations
              /\ \/ deposit'[i].status = deposit[i].status
                 \/ deposit[i].status = "PENDING" /\ deposit'[i].status = "EXPIRED"
    <3>1. ExpireDeposits
      BY Zenon DEF NextBlock
    <3>2. /\ DOMAIN deposit' = DOMAIN deposit
          /\ \A i \in DOMAIN deposit :
                /\ deposit'[i].confirmations = deposit[i].confirmations
                /\ i \in ExpiringDeposits => /\ deposit[i].status = "PENDING"
                                             /\ deposit'[i].status = "EXPIRED"
                /\ i \notin ExpiringDeposits => deposit'[i] = deposit[i]
      BY Zenon, <3>1, ExpireEffect
    <3>3. QED
      BY Zenon, <3>2
  <2>2. \A i \in DOMAIN deposit :
            deposit'[i].status \in ResolvedStatuses <=> deposit[i].status \in ResolvedStatuses
    BY Zenon, <2>1 DEF ResolvedStatuses
  <2>3. QED
    BY Zenon, <2>1, <2>2 DEF Final
<1>3. Ended(deposit', dutyQueue') = final
  BY Zenon, <1>1, <1>2 DEF Ended
<1>4. /\ ended \cup queued = final /\ ended \cap queued = {} /\ IsFiniteSet(final)
      /\ final \subseteq DOMAIN deposit
  BY Zenon, FinalFinite DEF Ended, Queued, Final, IInv
<1>5. dutyQueue = {<<"deposit", i>> : i \in queued}
  <2>1. \A e \in dutyQueue : e = <<"deposit", e[2]>> /\ e[2] \in Final(deposit)
    BY DEF IInv, TypeOK, QueueFinal
  <2>2. QED
    BY Zenon, <2>1 DEF Queued
<1>6. /\ IsFiniteSet(ended) /\ IsFiniteSet(queued)
      /\ Cardinality(final) = Cardinality(ended) + Cardinality(queued)
      /\ Cardinality(ended) \in Nat /\ Cardinality(queued) \in Nat
      /\ Cardinality(dutyQueue) = Cardinality(queued)
  <2> HIDE DEF final, ended, queued
  <2>1. /\ IsFiniteSet(ended) /\ IsFiniteSet(queued)
        /\ Cardinality(final) = Cardinality(ended) + Cardinality(queued)
        /\ Cardinality(ended) \in Nat /\ Cardinality(queued) \in Nat
    BY <1>4, PartsCounted
  <2>2. QED
    BY <1>5, <2>1, AsManyIds
<1>7. ASSUME NEW v \in Val
      PROVE  /\ Cardinality(Attested(deposit, final, v))
                   = Cardinality(Attested(deposit, ended, v))
                        + Cardinality({e \in dutyQueue : v \in att[e]})
             /\ Cardinality(Attested(deposit, ended, v)) \in Nat
             /\ Cardinality({e \in dutyQueue : v \in att[e]}) \in Nat
  <2> DEFINE hit == {e \in dutyQueue : v \in att[e]}
             A == Attested(deposit, final, v)
             B == Attested(deposit, ended, v)
             C == Attested(deposit, queued, v)
  <2>1. \A e \in dutyQueue : v \in att[e] <=> deposit[e[2]].confirmations[v] > 0
    BY Zenon DEF DepositAttesters
  <2>2. hit = {<<"deposit", i>> : i \in C}
    <3>1. \A i \in queued : /\ <<"deposit", i>> \in dutyQueue
                            /\ v \in att[<<"deposit", i>>] <=> deposit[i].confirmations[v] > 0
      <4>1. \A i \in queued : <<"deposit", i>> \in dutyQueue /\ <<"deposit", i>>[2] = i
        BY DEF Queued
      <4>2. QED
        BY Zenon, <2>1, <4>1
    <3> HIDE DEF queued, att
    <3>2. \A e \in dutyQueue : \E i \in queued : e = <<"deposit", i>>
      BY Zenon, <1>5
    <3>3. QED
      BY Zenon, <3>1, <3>2 DEF Attested
  <2>3. B \cup C = A /\ B \cap C = {} /\ A \in SUBSET final
    <3> HIDE DEF final, ended, queued
    <3>1. QED
      BY Zenon, <1>4 DEF Attested
  <2> HIDE DEF A, B, C, hit, final, ended, queued
  <2>4. IsFiniteSet(A)
    BY <1>4, <2>3, FS_Subset
  <2>5. /\ IsFiniteSet(C) /\ Cardinality(A) = Cardinality(B) + Cardinality(C)
        /\ Cardinality(B) \in Nat /\ Cardinality(C) \in Nat
    BY <2>3, <2>4, PartsCounted
  <2>6. Cardinality(hit) = Cardinality(C)
    BY <2>2, <2>5, AsManyIds
  <2>7. QED
    BY Zenon, <2>5, <2>6 DEF A, B, C, hit
<1>8. ASSUME NEW v \in Val
      PROVE  /\ tally'[v].opportunities <= Cardinality(final)
             /\ (\A b \in BondedChoices : v \in b) =>
                   tally'[v].opportunities = Cardinality(final)
             /\ tally'[v].hits <= Cardinality(Attested(deposit, final, v))
  <2>1. /\ tally[v].opportunities <= Cardinality(ended)
        /\ (\A b \in BondedChoices : v \in b) => tally[v].opportunities = Cardinality(ended)
        /\ tally[v].hits <= Cardinality(Attested(deposit, ended, v))
    BY Zenon, DutyRestated
  <2>2. tally[v].opportunities \in Nat /\ tally[v].hits \in Nat
    BY Zenon DEF IInv, TypeOK, BaseTypeOK
  <2> DEFINE n == Cardinality(dutyQueue)
             h == Cardinality({e \in dutyQueue : v \in att[e]})
  <2>3. /\ v \in bonded' => /\ tally'[v].opportunities = tally[v].opportunities + n
                            /\ tally'[v].hits = tally[v].hits + h
        /\ v \notin bonded' => tally'[v] = tally[v]
    BY <1>1
  <2>4. n = Cardinality(queued) /\ h \in Nat
        /\ Cardinality(Attested(deposit, final, v)) = Cardinality(Attested(deposit, ended, v)) + h
        /\ Cardinality(Attested(deposit, ended, v)) \in Nat
    BY Zenon, <1>6, <1>7
  <2> HIDE DEF n, h, final, ended, queued
  <2>5. CASE v \in bonded'
    BY <1>6, <2>1, <2>2, <2>3, <2>4, <2>5
  <2>6. CASE v \notin bonded'
    <3>1. ~ \A b \in BondedChoices : v \in b
      BY Zenon, <1>1, <2>6
    <3>2. QED
      BY <1>6, <2>1, <2>2, <2>3, <2>4, <2>6, <3>1
  <2>7. QED
    BY Zenon, <2>5, <2>6
<1>9. \A v : Attested(deposit', final, v) = Attested(deposit, final, v)
  <2> HIDE DEF final
  <2>1. QED
    BY Zenon, <1>2, <1>4 DEF Attested
<1>10. DutyAccounting'
  BY Zenon, <1>3, <1>8, <1>9 DEF DutyAccounting, Final, Ended, Attested
<1>11. QED
  BY Zenon, <1>1, <1>10 DEF QueueFinal

(***************************************************************************)
(* Every finalized deposit counts once as an opportunity of each validator *)
(* bonded when its block ends, and a validator is given no hit for a       *)
(* deposit it did not attest (enqueueBridgeDuty, FlushBridgeDuty).         *)
(***************************************************************************)
THEOREM DutyCountedOnce == Spec => []DutyAccounting
<1>1. Init => DutyAccounting /\ QueueFinal
  <2> SUFFICES ASSUME Init PROVE DutyAccounting /\ QueueFinal
    BY Zenon
  <2>1. /\ DOMAIN deposit = {} /\ dutyQueue = {}
        /\ tally = [v \in Val |-> [opportunities |-> 0, hits |-> 0]]
    BY Zenon DEF Init, BaseInit
  <2>2. /\ Ended(deposit, dutyQueue) = {}
        /\ \A v : Attested(deposit, {}, v) = {}
    BY Zenon, <2>1 DEF Ended, Final, Attested
  <2>3. Cardinality({}) = 0 /\ \A v \in Val : tally[v].opportunities = 0 /\ tally[v].hits = 0
    BY Zenon, <2>1, FS_EmptySet
  <2>4. \A v \in Val : /\ tally[v].opportunities <= Cardinality({})
                       /\ tally[v].opportunities = Cardinality({})
                       /\ tally[v].hits <= Cardinality({})
    BY <2>3
  <2>5. QED
    BY Zenon, <2>1, <2>2, <2>4, DutyRestated DEF QueueFinal
<1>2. IInv /\ DutyAccounting /\ QueueFinal /\ [Next]_vars => DutyAccounting' /\ QueueFinal'
  <2> SUFFICES ASSUME IInv, DutyAccounting, QueueFinal, [Next]_vars
               PROVE  DutyAccounting' /\ QueueFinal'
    BY Zenon
  <2>1. CASE Attest
    BY Zenon, <2>1, AttestKeepsDuty, ReportsType DEF Attest
  <2>2. CASE NextBlock
    BY Zenon, <2>2, BlockKeepsDuty
  <2>3. CASE UNCHANGED <<depositVars, dutyVars>>
    BY Zenon, <2>3 DEF depositVars, dutyVars, DutyAccounting, QueueFinal, Final
  <2>4. QED
    BY Zenon, <2>1, <2>2, <2>3 DEF Next, Govern, Restake, vars, baseVars, dutyVars
<1>3. QED
  BY <1>1, <1>2, Invariance, PTL DEF Spec

-----------------------------------------------------------------------------
(* The bounded sweep. *)

(***************************************************************************)
(* Ids are given out in the order of creation.                             *)
(***************************************************************************)
InOrder ==
    /\ height \in 1 .. MaxHeight
    /\ \A i \in DOMAIN deposit : deposit[i].createdAt <= height
    /\ \A i, j \in DOMAIN deposit : i < j => deposit[i].createdAt <= deposit[j].createdAt

LEMMA CreatedTypes ==
    ASSUME TypeOK
    PROVE  /\ DOMAIN deposit = Ids(depositSeq) /\ depositSeq \in Nat
           /\ \A i \in DOMAIN deposit : i \in Nat /\ i < depositSeq
                                        /\ deposit[i].createdAt \in Nat
<1>1. deposit \in [Ids(depositSeq) -> DepositRecords] /\ depositSeq \in Nat
  BY Zenon DEF TypeOK
<1>2. \A i \in DOMAIN deposit : deposit[i].createdAt \in Nat
  BY Zenon, <1>1 DEF DepositRecords
<1>3. \A i \in Ids(depositSeq) : i \in Nat /\ i < depositSeq
  BY ONLY <1>1 DEF Ids
<1>4. QED
  BY Zenon, <1>1, <1>2, <1>3

LEMMA AttestKeepsOrder ==
    ASSUME IInv, InOrder, NEW v \in Val, NEW k \in Keys, NEW f \in DepositFacts,
           AttestDeposit(v, k, f)
    PROVE  InOrder'
<1> DEFINE id == AttestedId(k)
           d == AttestedDeposit(k, f, v)
<1>1. WorksOn(id, d, v, k, f)
  BY Zenon, AttestedFields
<1>2. PICK e \in DepositRecords : Stores(e, id, d, v, k, f)
  BY Zenon, AttestEffect
<1>3. height' = height
  BY Zenon DEF AttestDeposit
<1> HIDE DEF id, d
<1>4. /\ DOMAIN deposit' = DOMAIN deposit \cup {id} /\ deposit'[id].createdAt = d.createdAt
      /\ \A i \in DOMAIN deposit : i # id => deposit'[i] = deposit[i]
  BY Zenon, <1>2 DEF Stores, StoreDeposit
<1>5. \/ id \in DOMAIN deposit /\ d.createdAt = deposit[id].createdAt
      \/ id = depositSeq /\ d.createdAt = height
  BY Zenon, <1>1 DEF WorksOn
<1>6. /\ height \in 1 .. MaxHeight
      /\ \A i \in DOMAIN deposit : deposit[i].createdAt <= height
      /\ \A i, j \in DOMAIN deposit :
             i < j => deposit[i].createdAt <= deposit[j].createdAt
  BY Zenon DEF InOrder
<1>7. depositSeq \in Nat /\ \A i \in DOMAIN deposit : i \in Nat /\ i < depositSeq
  BY Zenon, CreatedTypes DEF IInv
<1>8. CASE id \in DOMAIN deposit /\ d.createdAt = deposit[id].createdAt
  <2>1. DOMAIN deposit' = DOMAIN deposit
        /\ \A i \in DOMAIN deposit : deposit'[i].createdAt = deposit[i].createdAt
    BY Zenon, <1>4, <1>8
  <2>2. /\ height' \in 1 .. MaxHeight
        /\ \A i \in DOMAIN deposit' : deposit'[i].createdAt <= height'
        /\ \A i, j \in DOMAIN deposit' :
               i < j => deposit'[i].createdAt <= deposit'[j].createdAt
    BY ONLY <1>3, <1>6, <2>1
  <2>3. QED
    BY Zenon, <2>2 DEF InOrder
<1>9. CASE id = depositSeq /\ d.createdAt = height
  <2>1. deposit'[id].createdAt = height /\ height <= height
    BY <1>4, <1>6, <1>9
  <2>2. \A i \in DOMAIN deposit : i # id /\ ~(id < i) /\ ~(id < id)
    BY ONLY <1>7, <1>9
  <2>3. ~(id < id)
    BY ONLY <1>7, <1>9
  <2>4. QED
    BY Zenon, <1>3, <1>4, <1>6, <2>1, <2>2, <2>3 DEF InOrder
<1>10. QED
  BY Zenon, <1>5, <1>8, <1>9

LEMMA NextKeepsOrder ==
    ASSUME DeadlinesFit
    PROVE  IInv /\ InOrder /\ [Next]_vars => InOrder'
<1> SUFFICES ASSUME IInv, InOrder, [Next]_vars PROVE InOrder'
  BY Zenon
<1>1. CASE Attest
  BY Zenon, <1>1, AttestKeepsOrder, ReportsType DEF Attest
<1>2. CASE NextBlock
  <2>1. /\ DOMAIN deposit' = DOMAIN deposit
        /\ \A i \in DOMAIN deposit : deposit'[i].createdAt = deposit[i].createdAt
    BY Zenon, <1>2, ExpireEffect DEF NextBlock
  <2>2. height' = height + 1 /\ height < MaxHeight
    BY Zenon, <1>2 DEF NextBlock, AdvanceBlock
  <2>3. height \in 1 .. MaxHeight /\ MaxHeight \in Nat
    BY Zenon DEF InOrder, DeadlinesFit
  <2>4. height' \in 1 .. MaxHeight
    BY ONLY <2>2, <2>3
  <2>5. \A i \in DOMAIN deposit : deposit[i].createdAt \in Nat
                                  /\ deposit[i].createdAt <= height
    BY Zenon, CreatedTypes DEF IInv, InOrder
  <2>6. \A i \in DOMAIN deposit : deposit[i].createdAt <= height'
    BY ONLY <2>2, <2>3, <2>5
  <2>7. \A i, j \in DOMAIN deposit :
            i < j => deposit[i].createdAt <= deposit[j].createdAt
    BY Zenon DEF InOrder
  <2>8. /\ \A i \in DOMAIN deposit' : deposit'[i].createdAt <= height'
        /\ \A i, j \in DOMAIN deposit' :
               i < j => deposit'[i].createdAt <= deposit'[j].createdAt
    BY ONLY <2>1, <2>6, <2>7
  <2>9. QED
    BY Zenon, <2>4, <2>8 DEF InOrder
<1>3. CASE UNCHANGED <<depositVars, height>>
  BY Zenon, <1>3 DEF depositVars, InOrder
<1>4. QED
  BY Zenon, <1>1, <1>2, <1>3 DEF Next, Govern, Restake, vars, baseVars

(***************************************************************************)
(* When one deposit is overdue, every older one is.                        *)
(***************************************************************************)
LEMMA OlderOverdue ==
    ASSUME DeadlinesFit, IInv, InOrder, NEW i \in DOMAIN deposit, DepositOverdue(i),
           NEW j \in DOMAIN deposit, j < i
    PROVE  DepositOverdue(j)
<1> DEFINE t == params.DepositTimeoutBlocks
           ci == deposit[i].createdAt
           cj == deposit[j].createdAt
<1>1. params \in ParamChoices
  BY Zenon DEF IInv, TypeOK, BaseTypeOK
<1>2. t \in Nat
  BY Zenon, ParamTypes DEF IInv
<1>3. MaxHeight \in Nat /\ MaxHeight + t < UintMod
  BY Zenon, <1>1 DEF DeadlinesFit
<1>4. ci \in Nat /\ cj \in Nat
  BY Zenon, CreatedTypes DEF IInv
<1>5. cj <= ci /\ ci <= height /\ height \in 1 .. MaxHeight
  BY Zenon DEF InOrder
<1>6. (ci + t) % UintMod < height
  BY Zenon DEF DepositOverdue, Overdue
<1>7. UintMod \in Nat /\ UintMod > 0
  BY Zenon, BaseAssumption
<1> HIDE DEF t, ci, cj
<1>8. ci + t \in 0 .. UintMod - 1 /\ cj + t \in 0 .. UintMod - 1 /\ cj + t <= ci + t
  BY ONLY <1>2, <1>3, <1>4, <1>5, <1>7
<1>9. \A n \in 0 .. UintMod - 1 : n % UintMod = n
  BY ONLY <1>7
<1>10. (cj + t) % UintMod < height
  <2>1. (ci + t) % UintMod = ci + t /\ (cj + t) % UintMod = cj + t
    BY Zenon, <1>8, <1>9
  <2>2. QED
    BY ONLY <1>2, <1>4, <1>5, <1>6, <1>8, <2>1
<1>11. QED
  BY Zenon, <1>10 DEF DepositOverdue, Overdue, t, cj

(***************************************************************************)
(* A block's end that leaves an overdue deposit open has expired as many   *)
(* as the limit allows.                                                    *)
(***************************************************************************)
LEMMA BlockKeepsUp ==
    ASSUME DeadlinesFit, IInv, InOrder, ExpireDeposits, NEW i \in DOMAIN deposit,
           deposit'[i].status = "PENDING", DepositOverdue(i)
    PROVE  Cardinality({j \in DOMAIN deposit : deposit'[j].status # deposit[j].status})
              = SweepLimit
<1> DEFINE P == PendingDeposits
           O == Oldest(P, SweepLimit)
<1>1. /\ i \notin ExpiringDeposits /\ deposit[i].status = "PENDING"
      /\ {j \in DOMAIN deposit : deposit'[j].status # deposit[j].status} = ExpiringDeposits
  <2>1. i \notin ExpiringDeposits /\ deposit[i].status = "PENDING"
    BY Zenon, ExpireEffect
  <2>2. \A j \in DOMAIN deposit :
            deposit'[j].status # deposit[j].status <=> j \in ExpiringDeposits
    BY Zenon, ExpireEffect
  <2>3. QED
    BY Zenon, <2>1, <2>2, ExpiringArePending
<1>2. i \in P
  BY Zenon, <1>1 DEF PendingDeposits, IInv, IndexesAgree, DepositStatuses
<1>3. i \notin O
  BY Zenon, <1>1 DEF ExpiringDeposits
<1>4. P \subseteq DOMAIN deposit /\ P \in SUBSET Nat /\ IsFiniteSet(P)
  <2>1. P \subseteq DOMAIN deposit
    BY Zenon DEF PendingDeposits
  <2>2. DOMAIN deposit = 0 .. depositSeq - 1 /\ depositSeq \in Nat
    BY Zenon, CreatedTypes DEF IInv, Ids
  <2>3. IsFiniteSet(0 .. depositSeq - 1)
    BY <2>2, FS_Interval
  <2> HIDE DEF P
  <2>4. QED
    BY <2>1, <2>2, <2>3, FS_Subset
<1>5. SweepLimit \in Nat
  BY Zenon, BaseAssumption
<1>6. \A j \in O : j \in P /\ j < i
  BY Zenon, <1>2, <1>3, <1>4, <1>5, OldestFirst
<1>7. \A j \in O : DepositOverdue(j)
  BY Zenon, <1>4, <1>6, OlderOverdue
<1>8. ExpiringDeposits = O
  BY Zenon, <1>7 DEF ExpiringDeposits
<1>9. SweepLimit <= Cardinality(P)
  <2>1. ~(Cardinality(Before(P, i)) < SweepLimit)
    BY Zenon, <1>2, <1>3 DEF Oldest, Before
  <2>2. Before(P, i) \subseteq P
    BY Zenon DEF Before
  <2> HIDE DEF P
  <2>3. /\ Cardinality(Before(P, i)) \in Nat /\ Cardinality(P) \in Nat
        /\ Cardinality(Before(P, i)) <= Cardinality(P)
    BY Zenon, <1>4, <2>2, FS_Subset, FS_CardinalityType
  <2>4. QED
    BY ONLY <1>5, <2>1, <2>3
<1>10. Cardinality(O) = SweepLimit
  BY Zenon, <1>4, <1>5, <1>9, OldestCount
<1>11. QED
  BY Zenon, <1>1, <1>8, <1>10

(***************************************************************************)
(* The sweep never idles: a deposit that is overdue at the end of a block  *)
(* and stays open has at least MaxExpirySweepPerBlock older ones, and      *)
(* those are the ones expired (ExpireDeposits, which walks the pending     *)
(* bucket in the order of ids and stops at the limit).  For every limit    *)
(* and whatever governance does to the timeout meanwhile.                  *)
(***************************************************************************)
THEOREM SweepNeverIdles ==
    ASSUME DeadlinesFit
    PROVE  Spec => SweepKeepsUp
<1> DEFINE Kept == height' # height =>
          LET expired == {i \in DOMAIN deposit : deposit'[i].status # deposit[i].status}
          IN  (\E i \in DOMAIN deposit : deposit'[i].status = "PENDING" /\ DepositOverdue(i))
                  => Cardinality(expired) = SweepLimit
<1>1. Init => InOrder
  <2>1. 1 \in 1 .. MaxHeight
    BY DEF DeadlinesFit
  <2>2. QED
    BY Zenon, <2>1 DEF Init, BaseInit, InOrder
<1>2. IInv /\ InOrder /\ [Next]_vars => [Kept]_vars
  <2> SUFFICES ASSUME IInv, InOrder, Next, height' # height PROVE Kept
    BY Zenon
  <2>1. ExpireDeposits
    BY Zenon DEF Next, Attest, AttestDeposit, NextBlock, Govern, Restake
  <2>2. QED
    BY Zenon, <2>1, BlockKeepsUp
<1>3. QED
  BY <1>1, <1>2, NextKeepsOrder, Invariance, PTL DEF Spec, SweepKeepsUp

-----------------------------------------------------------------------------
(* Exports and imports.  Import rebuilds the indexes from the records; that *)
(* they come out as they were is what the invariants say of indexes and     *)
(* records.                                                                 *)

GInv == IInv /\ VotesAgree

(***************************************************************************)
(* The by-txid index, the status index and the markers after an import are *)
(* those before the export.                                                *)
(***************************************************************************)
LEMMA IndexesRebuilt ==
    ASSUME GInv, RoundTrip
    PROVE  /\ depositByTxid' = depositByTxid
           /\ depositByStatus' = depositByStatus
           /\ depositConfirmedBy' = depositConfirmedBy
<1>1. /\ depositSeq \in Nat /\ deposit \in [Ids(depositSeq) -> DepositRecords]
      /\ DOMAIN deposit = Ids(depositSeq)
      /\ depositByTxid \in [Keys -> Ids(depositSeq) \cup {NoId}]
      /\ NoId \notin Ids(depositSeq)
  BY DEF GInv, IInv, TypeOK, NoId, Ids
<1>2. \A i \in DOMAIN deposit :
          deposit[i].status # "EXPIRED" <=> depositByTxid[deposit[i].key] = i
  BY DEF GInv, IInv, IndexesAgree
<1>3. \A k \in Keys : depositByTxid[k] # NoId => deposit[depositByTxid[k]].key = k
  BY DEF GInv, IInv, IndexesAgree
<1>4. \A k \in Keys :
          {i \in Imported : deposit[i].key = k} =
              IF depositByTxid[k] = NoId THEN {} ELSE {depositByTxid[k]}
  BY <1>1, <1>2, <1>3 DEF Imported
<1>5. \A k \in Keys : ImportedTxids[k] = depositByTxid[k]
  <2> SUFFICES ASSUME NEW k \in Keys PROVE ImportedTxids[k] = depositByTxid[k]
    OBVIOUS
  <2>1. CASE depositByTxid[k] = NoId
    BY <2>1, <1>4 DEF ImportedTxids
  <2>2. CASE depositByTxid[k] # NoId
    <3> DEFINE n == depositByTxid[k]
    <3>1. n \in Int
      BY <2>2, <1>1 DEF Ids
    <3>2. \A i \in {n} : (\A j \in {n} : j <= i) => i = n
      OBVIOUS
    <3>3. n \in {n} /\ \A j \in {n} : j <= n
      BY <3>1
    <3>4. (CHOOSE i \in {n} : \A j \in {n} : j <= i) = n
      BY <3>2, <3>3, Zenon
    <3>5. {i \in Imported : deposit[i].key = k} = {n}
      BY <2>2, <1>4
    <3>6. ImportedTxids[k] = CHOOSE i \in {n} : \A j \in {n} : j <= i
      BY <3>5, Zenon DEF ImportedTxids
    <3>7. QED
      BY <3>4, <3>6
  <2>3. QED
    BY <2>1, <2>2
<1>6. depositByTxid' = depositByTxid
  BY <1>1, <1>5 DEF RoundTrip, ImportedTxids
<1>7. depositByStatus' = depositByStatus
  <2>1. depositByStatus \subseteq DepositStatuses \X DOMAIN deposit
    BY <1>1 DEF GInv, IInv, TypeOK
  <2>2. \A s \in DepositStatuses, i \in DOMAIN deposit :
            <<s, i>> \in depositByStatus <=> deposit[i].status = s
    BY Zenon DEF GInv, IInv, IndexesAgree
  <2>3. \A s \in DepositStatuses, i \in DOMAIN deposit :
            <<s, i>> \in depositByStatus' <=> deposit[i].status = s
    BY DEF RoundTrip
  <2>4. depositByStatus' \subseteq DepositStatuses \X DOMAIN deposit
    BY DEF RoundTrip
  <2>5. \A x \in DepositStatuses \X DOMAIN deposit :
            x \in depositByStatus' <=> x \in depositByStatus
    BY <2>2, <2>3
  <2>6. QED
    BY <2>1, <2>4, <2>5
<1>8. depositConfirmedBy' = depositConfirmedBy
  <2>1. depositConfirmedBy \subseteq Keys \X Val /\ depositConfirmedBy' \subseteq Keys \X Val
    BY DEF GInv, IInv, TypeOK, RoundTrip, ImportedMarkers
  <2>2. ASSUME NEW k \in Keys, NEW v \in Val
        PROVE  <<k, v>> \in depositConfirmedBy' <=> <<k, v>> \in depositConfirmedBy
    <3>1. <<k, v>> \in depositConfirmedBy' <=>
            \E i \in {j \in Imported : deposit[j].key = k} : deposit[i].confirmations[v] > 0
      BY DEF RoundTrip, ImportedMarkers
    <3>2. <<k, v>> \in depositConfirmedBy <=>
            depositByTxid[k] # NoId /\ deposit[depositByTxid[k]].confirmations[v] > 0
      BY DEF GInv, VotesAgree
    <3>3. QED
      BY <3>1, <3>2, <1>4
  <2>3. QED
    BY <2>1, <2>2
<1>9. QED
  BY <1>6, <1>7, <1>8

(***************************************************************************)
(* After an import every marked validator has one vote, the others none.   *)
(***************************************************************************)
LEMMA VotesRebuilt ==
    ASSUME GInv, RoundTrip, NEW k \in Keys, NEW v \in Val
    PROVE  IF <<k, v>> \in depositConfirmedBy
             THEN VotesOf(k, v)' = {deposit[depositByTxid[k]].facts}
             ELSE VotesOf(k, v)' = {}
<1>1. /\ deposit \in [Ids(depositSeq) -> DepositRecords]
      /\ depositByTxid \in [Keys -> Ids(depositSeq) \cup {NoId}]
      /\ NoId \notin Ids(depositSeq)
  BY DEF GInv, IInv, TypeOK, NoId, Ids
<1>2. \A i \in DOMAIN deposit :
          deposit[i].status # "EXPIRED" <=> depositByTxid[deposit[i].key] = i
  BY DEF GInv, IInv, IndexesAgree
<1>3. depositByTxid[k] # NoId => deposit[depositByTxid[k]].key = k
  BY DEF GInv, IInv, IndexesAgree
<1>4. \A i \in Imported : deposit[i].key = k => depositByTxid[k] = i
  BY <1>2 DEF Imported
<1>5. \A f \in DepositFacts :
          f \in VotesOf(k, v)' <=>
            \E i \in Imported : /\ deposit[i].key = k /\ deposit[i].facts = f
                                /\ deposit[i].confirmations[v] > 0
  BY DEF RoundTrip, ImportedVotes, VotesOf
<1>6. VotesOf(k, v)' \subseteq DepositFacts
  BY DEF VotesOf
<1>7. CASE <<k, v>> \in depositConfirmedBy
  <2>1. depositByTxid[k] # NoId /\ deposit[depositByTxid[k]].confirmations[v] = 1
    BY <1>7 DEF GInv, VotesAgree
  <2>2. depositByTxid[k] \in Imported /\ deposit[depositByTxid[k]].facts \in DepositFacts
    BY <2>1, <1>1, <1>2, <1>3 DEF Imported, DepositRecords
  <2>3. QED
    BY <2>1, <2>2, <1>3, <1>4, <1>5, <1>6, <1>7
<1>8. CASE <<k, v>> \notin depositConfirmedBy
  <2>1. depositByTxid[k] # NoId => deposit[depositByTxid[k]].confirmations[v] = 0
    BY <1>8 DEF GInv, VotesAgree
  <2>2. \A i \in Imported : deposit[i].key = k => deposit[i].confirmations[v] = 0
    BY <2>1, <1>1, <1>4 DEF Imported
  <2>3. QED
    BY <2>2, <1>5, <1>6, <1>8
<1>9. QED
  BY <1>7, <1>8

LEMMA RoundTripKeepsInv ==
    ASSUME GInv, RoundTrip
    PROVE  GInv'
<1>1. UNCHANGED <<deposit, depositSeq, params, bonded, tokens, bank>>
  BY DEF RoundTrip, stakeVars
<1>2. TypeOK'
  <2>1. BaseTypeOK'
    <3>1. height' \in Nat
      BY DEF RoundTrip, GInv, IInv, TypeOK, BaseTypeOK
    <3>2. tally' \in [Val -> [opportunities : Nat, hits : Nat]]
      BY DEF RoundTrip
    <3>3. totals' \in [minted : [Assets -> Nat], burned : [Assets -> Nat]]
      BY Zenon DEF RoundTrip, ImportedTotals, GInv, IInv, TypeOK, BaseTypeOK
    <3>4. QED
      BY <3>1, <3>2, <3>3, <1>1 DEF GInv, IInv, TypeOK, BaseTypeOK
  <2>2. depositFactsVote' \subseteq Keys \X DepositFacts \X Val /\ dutyQueue' = {}
    BY DEF RoundTrip, ImportedVotes
  <2>3. QED
    BY <2>1, <2>2, <1>1, IndexesRebuilt DEF GInv, IInv, TypeOK
<1>3. IndexesAgree' /\ MintedIsStatus'
  BY <1>1, IndexesRebuilt DEF GInv, IInv, IndexesAgree, MintedIsStatus
<1>4. VotesAgree'
  <2> SUFFICES ASSUME NEW k \in Keys, NEW v \in Val
               PROVE  IF <<k, v>> \in depositConfirmedBy'
                        THEN /\ depositByTxid'[k] # NoId
                             /\ deposit'[depositByTxid'[k]].confirmations[v] = 1
                             /\ \E f \in DepositFacts : VotesOf(k, v)' = {f}
                        ELSE /\ depositByTxid'[k] # NoId =>
                                   deposit'[depositByTxid'[k]].confirmations[v] = 0
                             /\ VotesOf(k, v)' = {}
    BY Zenon DEF VotesAgree
  <2>1. IF <<k, v>> \in depositConfirmedBy
          THEN /\ depositByTxid[k] # NoId
               /\ deposit[depositByTxid[k]].confirmations[v] = 1
          ELSE depositByTxid[k] # NoId => deposit[depositByTxid[k]].confirmations[v] = 0
    BY DEF GInv, VotesAgree
  <2>2. <<k, v>> \in depositConfirmedBy => deposit[depositByTxid[k]].facts \in DepositFacts
    BY <2>1 DEF GInv, IInv, TypeOK, DepositRecords
  <2>3. QED
    BY <2>1, <2>2, <1>1, IndexesRebuilt, VotesRebuilt
<1>5. QED
  BY <1>2, <1>3, <1>4 DEF GInv, IInv

\* A step is one of bridge-in, or an export and import.
LEMMA GenesisSteps == [GenesisNext]_genesisVars => [Next]_vars \/ RoundTrip
  BY DEF GenesisNext, Next, genesisVars

(***************************************************************************)
(* The inductive invariant holds across any number of exports and imports  *)
(* (ExportGenesis, InitGenesis).                                           *)
(***************************************************************************)
THEOREM GenesisInvariance == GenesisSpec => []GInv
<1>1. GenesisInit => GInv
  BY InitIInv DEF GenesisInit, GInv, Init, VotesAgree, VotesOf
<1>2. GInv /\ [GenesisNext]_genesisVars => GInv'
  BY GenesisSteps, NextIInv, NextKeepsVotes, RoundTripKeepsInv DEF GInv
<1>3. QED
  BY <1>1, <1>2, PTL DEF GenesisSpec

(***************************************************************************)
(* No Steem transfer is minted twice, however often the chain is exported  *)
(* and started again, at whatever height: import neither forgets a minted  *)
(* record's key nor lets anybody vote again (InitGenesis).                 *)
(***************************************************************************)
THEOREM NoDoubleMintAcrossExports == GenesisSpec => []MintedOnce
<1>1. GInv => MintedOnce
  BY DEF GInv, IInv, IndexesAgree, MintedIsStatus, MintedOnce
<1>2. QED
  BY <1>1, GenesisInvariance, PTL

(***************************************************************************)
(* Across exports too, indexes agree with records, and markers, votes and  *)
(* confirmation lists with each other.                                     *)
(***************************************************************************)
THEOREM ConsistentAcrossExports == GenesisSpec => [](TypeOK /\ StoreConsistent)
<1>1. GInv => TypeOK /\ StoreConsistent
  BY Zenon DEF GInv, IInv, StoreConsistent
<1>2. QED
  BY <1>1, GenesisInvariance, PTL

(***************************************************************************)
(* An export and import restores every index and marker, and takes nobody  *)
(* their vote.                                                             *)
(***************************************************************************)
THEOREM ImportRestores == GenesisSpec => RestoresIndexes
<1> DEFINE Restored ==
      /\ depositByTxid' = depositByTxid
      /\ depositByStatus' = depositByStatus
      /\ depositConfirmedBy' = depositConfirmedBy
      /\ \A k \in Keys, v \in Val : VotesOf(k, v)' = {} <=> VotesOf(k, v) = {}
<1>1. ASSUME GInv, RoundTrip PROVE Restored
  <2>1. ASSUME NEW k \in Keys, NEW v \in Val
        PROVE  VotesOf(k, v)' = {} <=> VotesOf(k, v) = {}
    <3>1. IF <<k, v>> \in depositConfirmedBy
            THEN \E f \in DepositFacts : VotesOf(k, v) = {f} ELSE VotesOf(k, v) = {}
      BY <1>1 DEF GInv, VotesAgree
    <3>2. IF <<k, v>> \in depositConfirmedBy
            THEN VotesOf(k, v)' = {deposit[depositByTxid[k]].facts}
            ELSE VotesOf(k, v)' = {}
      BY <1>1, VotesRebuilt
    <3>3. QED
      BY <3>1, <3>2
  <2>2. QED
    BY <1>1, <2>1, IndexesRebuilt
<1> HIDE DEF Restored
<1>2. GInv => [RoundTrip => Restored]_genesisVars
  BY <1>1
<1>3. GenesisSpec => [][RoundTrip => Restored]_genesisVars
  BY <1>2, GenesisInvariance, PTL
<1>4. QED
  BY <1>3 DEF RestoresIndexes, Restored

=============================================================================
