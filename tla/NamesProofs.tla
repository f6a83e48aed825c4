------------------------------ MODULE NamesProofs ------------------------------
(***************************************************************************)
(* Theorems about the links of Names, for every number of validators,      *)
(* transfers, accounts, blocks and parameter choices.                      *)
(***************************************************************************)
EXTENDS Names, BridgeBaseProofs, FiniteSetTheorems, TLAPS

-----------------------------------------------------------------------------
(* The inductive invariant. *)

Shape ==
    /\ height \in Nat
    /\ params \in ParamChoices
    /\ bonded \in BondedChoices
    /\ tokens \in TokenChoices
    /\ registrationSeq \in Nat
    /\ registration \in [Ids(registrationSeq) -> RegistrationRecords]
    /\ nameByTxid \in [Keys -> Ids(registrationSeq) \cup {NoId}]
    /\ nameByStatus \subseteq NameStatuses \X Ids(registrationSeq)
    /\ activeName \in [Accounts -> Ids(registrationSeq) \cup {NoId}]

(***************************************************************************)
(* What the indexes say of a record is true of it.  The sweep goes by the  *)
(* status index, so without this it might expire a link.                   *)
(***************************************************************************)
IndexesTrue ==
    /\ \A i \in DOMAIN registration, s \in NameStatuses :
          <<s, i>> \in nameByStatus => registration[i].status = s
    /\ \A k \in Keys : nameByTxid[k] # NoId => registration[nameByTxid[k]].key = k

IInv == Shape /\ IndexesTrue /\ LinksAgree

LEMMA AccountsOf ==
    ASSUME Shape, NEW i \in DOMAIN registration
    PROVE  /\ registration[i] \in RegistrationRecords
           /\ registration[i].facts \in NameFacts
           /\ registration[i].facts.account \in Accounts
  BY Zenon DEF Shape, RegistrationRecords, Accounts

-----------------------------------------------------------------------------
(* What the handlers do to the records. *)

(***************************************************************************)
(* SubmitNameRegistration stores one record under the key: a new one or a  *)
(* pending one, and it does not come out of it as a link.                  *)
(***************************************************************************)
AttestChanges(v, k, f, id) ==
    /\ id \in Ids(registrationSeq')
    /\ registrationSeq' \in {registrationSeq, registrationSeq + 1}
    /\ id \in DOMAIN registration =>
          registration[id].status = "PENDING" /\ registrationSeq' = registrationSeq
    /\ id \notin DOMAIN registration => id = registrationSeq
    /\ registration' \in [Ids(registrationSeq') -> RegistrationRecords]
    /\ \A i \in DOMAIN registration : i # id => registration'[i] = registration[i]
    /\ registration'[id].key = k
    /\ registration'[id].status \in {"PENDING", "UNCLAIMABLE", "AWAITING"}
    /\ registration'[id].status = "AWAITING" =>
          /\ registration'[id].facts = f
          /\ ReachesThreshold(NameVoters(k, f) \cup {v})
    /\ nameByStatus' = (nameByStatus \ {<<"PENDING", id>>})
                          \cup {<<registration'[id].status, id>>}
    /\ nameByTxid' = [nameByTxid EXCEPT ![k] = id]

LEMMA AttestEffect ==
    ASSUME Shape, IndexesTrue, NEW v \in Val, NEW k \in Keys, NEW f \in NameFacts,
           SubmitNameRegistration(v, k, f)
    PROVE  AttestChanges(v, k, f, RegistrationId(k))
<1> DEFINE id == RegistrationId(k)
           r == AttestedRegistration(k, f, v)
<1>1. /\ registrationSeq \in Nat
      /\ registration \in [Ids(registrationSeq) -> RegistrationRecords]
      /\ nameByTxid[k] \in Ids(registrationSeq) \cup {NoId}
      /\ height \in Nat
      /\ DOMAIN registration = Ids(registrationSeq)
      /\ registrationSeq \notin Ids(registrationSeq)
  BY DEF Shape, Ids
<1>2. /\ id \in DOMAIN registration => id = nameByTxid[k] /\ nameByTxid[k] # NoId
      /\ id \notin DOMAIN registration => id = registrationSeq /\ nameByTxid[k] = NoId
  BY Zenon, <1>1 DEF RegistrationId
<1>3. id \in DOMAIN registration =>
          registration[id].status = "PENDING" /\ registration[id].key = k
  BY Zenon, <1>2 DEF SubmitNameRegistration, NameAcceptable, IndexesTrue
<1>4. r \in RegistrationRecords /\ r.key = k /\ r.status = "PENDING"
  <2>1. CASE nameByTxid[k] = NoId
    <3> DEFINE fresh == [key |-> k, facts |-> f, status |-> "PENDING",
                         createdAt |-> height, awaitingSince |-> 0,
                         confirmations |-> [u \in Val |-> 0]]
    <3>1. fresh \in RegistrationRecords
      BY Zenon, <1>1 DEF RegistrationRecords, NameStatuses
    <3>2. r = [fresh EXCEPT !.confirmations[v] = @ + 1]
      BY Zenon, <2>1 DEF AttestedRegistration
    <3>3. QED
      BY <3>1, <3>2 DEF RegistrationRecords
  <2>2. CASE nameByTxid[k] # NoId
    <3>1. /\ id = nameByTxid[k] /\ registration[id] \in RegistrationRecords
          /\ registration[id].status = "PENDING" /\ registration[id].key = k
      BY Zenon, <1>1, <1>2, <1>3, <2>2 DEF RegistrationId
    <3>2. r = [registration[id] EXCEPT !.confirmations[v] = @ + 1]
      BY Zenon, <2>2, <3>1 DEF AttestedRegistration
    <3>3. QED
      BY <3>1, <3>2 DEF RegistrationRecords
  <2>3. QED
    BY Zenon, <2>1, <2>2
<1> DEFINE lost == [r EXCEPT !.facts = f, !.status = "UNCLAIMABLE"]
           won == [r EXCEPT !.facts = f, !.status = "AWAITING", !.awaitingSince = height]
<1>5. /\ registrationSeq' = IF id = registrationSeq THEN id + 1 ELSE registrationSeq
      /\ nameByTxid' = [nameByTxid EXCEPT ![k] = id]
      /\ \/ StoreRegistration(id, r)
         \/ /\ ReachesThreshold(NameVoters(k, f) \cup {v})
            /\ StoreRegistration(id, lost) \/ StoreRegistration(id, won)
  BY Zenon DEF SubmitNameRegistration, ResolveNameRegistration
<1> HIDE DEF id, r
<1>6. /\ lost \in RegistrationRecords /\ lost.key = k /\ lost.status = "UNCLAIMABLE"
      /\ won \in RegistrationRecords /\ won.key = k /\ won.status = "AWAITING" /\ won.facts = f
  BY Zenon, <1>1, <1>4 DEF RegistrationRecords, NameStatuses
<1> HIDE DEF lost, won
<1>7. /\ id \in Ids(registrationSeq')
      /\ Ids(registrationSeq') = Ids(registrationSeq) \cup {id}
      /\ registrationSeq' \in {registrationSeq, registrationSeq + 1}
      /\ id \in DOMAIN registration => registrationSeq' = registrationSeq
  BY <1>1, <1>2, <1>5 DEF Ids
<1>8. ASSUME NEW x \in RegistrationRecords, StoreRegistration(id, x)
      PROVE  /\ registration' \in [Ids(registrationSeq') -> RegistrationRecords]
             /\ \A i \in DOMAIN registration : i # id => registration'[i] = registration[i]
             /\ registration'[id] = x
             /\ nameByStatus' = (nameByStatus \ {<<"PENDING", id>>}) \cup {<<x.status, id>>}
  BY Zenon, <1>1, <1>7, <1>8 DEF StoreRegistration
<1>9. AttestChanges(v, k, f, id)
  <2>1. CASE StoreRegistration(id, r)
    BY Zenon, <1>2, <1>3, <1>4, <1>5, <1>7, <1>8, <2>1 DEF AttestChanges
  <2>2. CASE StoreRegistration(id, lost)
    BY Zenon, <1>2, <1>3, <1>5, <1>6, <1>7, <1>8, <2>2 DEF AttestChanges
  <2>3. CASE /\ StoreRegistration(id, won)
             /\ ReachesThreshold(NameVoters(k, f) \cup {v})
    BY Zenon, <1>2, <1>3, <1>5, <1>6, <1>7, <1>8, <2>3 DEF AttestChanges
  <2>4. QED
    BY Zenon, <1>5, <2>1, <2>2, <2>3
<1>10. QED
  BY Zenon, <1>9 DEF id

(***************************************************************************)
(* ConfirmName makes one awaiting record the link of its account; the link *)
(* it replaces, and no other, is superseded.                               *)
(***************************************************************************)
ConfirmChanges(u, id) ==
    LET a == registration[id].facts.account
    IN  /\ registration[id].status = "AWAITING"
        /\ u = registration[id].facts.dest
        /\ registration' \in [Ids(registrationSeq) -> RegistrationRecords]
        /\ \A i \in DOMAIN registration :
              /\ registration'[i].facts = registration[i].facts
              /\ registration'[i].key = registration[i].key
              /\ registration'[i].awaitingSince = registration[i].awaitingSince
              /\ registration'[i].confirmations = registration[i].confirmations
              /\ registration'[i].status =
                    IF i = id THEN "ACTIVE"
                    ELSE IF i = activeName[a] THEN "SUPERSEDED"
                    ELSE registration[i].status
        /\ activeName' = [activeName EXCEPT ![a] = id]

LEMMA ConfirmEffect ==
    ASSUME Shape, LinksAgree, NEW u \in Users, NEW id \in DOMAIN registration,
           ConfirmName(u, id)
    PROVE  /\ ConfirmChanges(u, id)
           /\ Superseded(id) = DOMAIN registration
                                  \cap {activeName[registration[id].facts.account]}
<1> DEFINE a == registration[id].facts.account
           old == Superseded(id)
<1>1. /\ registration[id].status = "AWAITING" /\ u = registration[id].facts.dest
      /\ registration' = [i \in DOMAIN registration |->
              IF i = id THEN [registration[i] EXCEPT !.status = "ACTIVE"]
              ELSE IF i \in old THEN [registration[i] EXCEPT !.status = "SUPERSEDED"]
              ELSE registration[i]]
      /\ activeName' = [activeName EXCEPT ![a] = id]
  BY Zenon DEF ConfirmName, NameConfirmable
<1>2. a \in Accounts
  BY Zenon, AccountsOf
<1>3. old = DOMAIN registration \cap {activeName[a]}
  <2>1. ASSUME NEW i \in DOMAIN registration, activeName[a] = i
        PROVE  registration[i].status = "ACTIVE"
    <3>1. activeName[a] # NoId
      BY <2>1 DEF Shape, Ids, NoId
    <3>2. registration[i].facts.account = a
      BY Zenon, <1>2, <2>1, <3>1 DEF LinksAgree
    <3>3. QED
      BY Zenon, <2>1, <3>2 DEF LinksAgree
  <2>2. QED
    BY Zenon, <2>1 DEF Superseded
<1> HIDE DEF a, old
<1>4. ASSUME NEW i \in DOMAIN registration, NEW s \in NameStatuses
      PROVE  LET x == [registration[i] EXCEPT !.status = s]
             IN  /\ x \in RegistrationRecords /\ x.status = s
                 /\ x.facts = registration[i].facts /\ x.key = registration[i].key
                 /\ x.awaitingSince = registration[i].awaitingSince
                 /\ x.confirmations = registration[i].confirmations
  BY Zenon, AccountsOf DEF RegistrationRecords
<1>5. /\ "ACTIVE" \in NameStatuses /\ "SUPERSEDED" \in NameStatuses
      /\ registration \in [Ids(registrationSeq) -> RegistrationRecords]
      /\ DOMAIN registration = Ids(registrationSeq)
  BY Zenon DEF NameStatuses, Shape
<1>6. registration' \in [Ids(registrationSeq) -> RegistrationRecords]
  BY Zenon, <1>1, <1>4, <1>5
<1>7. ASSUME NEW i \in DOMAIN registration
      PROVE  /\ registration'[i].facts = registration[i].facts
             /\ registration'[i].key = registration[i].key
             /\ registration'[i].awaitingSince = registration[i].awaitingSince
             /\ registration'[i].confirmations = registration[i].confirmations
             /\ registration'[i].status =
                    IF i = id THEN "ACTIVE"
                    ELSE IF i = activeName[a] THEN "SUPERSEDED"
                    ELSE registration[i].status
  BY <1>1, <1>3, <1>4, <1>5
<1>8. QED
  BY Zenon, <1>1, <1>3, <1>6, <1>7 DEF ConfirmChanges, a, old

(***************************************************************************)
(* The sweep expires records that are pending or awaiting, and touches     *)
(* nothing else of any record.                                             *)
(***************************************************************************)
ExpireChanges(E) ==
    /\ E \subseteq DOMAIN registration
    /\ \A i \in E : registration[i].status \in {"PENDING", "AWAITING"}
    /\ registration' \in [Ids(registrationSeq) -> RegistrationRecords]
    /\ \A i \in DOMAIN registration :
          /\ registration'[i].facts = registration[i].facts
          /\ registration'[i].key = registration[i].key
          /\ registration'[i].awaitingSince = registration[i].awaitingSince
          /\ registration'[i].confirmations = registration[i].confirmations
          /\ registration'[i].status = IF i \in E THEN "EXPIRED" ELSE registration[i].status

LEMMA ExpireEffect ==
    ASSUME Shape, IndexesTrue, ExpireNameRegistrations
    PROVE  ExpireChanges(ExpiringRegistrations)
<1> DEFINE E == ExpiringRegistrations
<1>1. \A i \in E : /\ i \in DOMAIN registration
                   /\ <<"PENDING", i>> \in nameByStatus \/ <<"AWAITING", i>> \in nameByStatus
  BY Zenon DEF ExpiringRegistrations, SweptRegistrations, NameBucket, Oldest
<1>2. \A i \in E : registration[i].status \in {"PENDING", "AWAITING"}
  BY Zenon, <1>1 DEF IndexesTrue, NameStatuses
<1>3. registration' = [i \in DOMAIN registration |->
              IF i \in E THEN [registration[i] EXCEPT !.status = "EXPIRED"]
                         ELSE registration[i]]
  BY Zenon DEF ExpireNameRegistrations
<1> HIDE DEF E
<1>4. ASSUME NEW i \in DOMAIN registration
      PROVE  LET x == [registration[i] EXCEPT !.status = "EXPIRED"]
             IN  /\ x \in RegistrationRecords /\ x.status = "EXPIRED"
                 /\ x.facts = registration[i].facts /\ x.key = registration[i].key
                 /\ x.awaitingSince = registration[i].awaitingSince
                 /\ x.confirmations = registration[i].confirmations
  BY Zenon, AccountsOf DEF RegistrationRecords, NameStatuses
<1>5. /\ registration \in [Ids(registrationSeq) -> RegistrationRecords]
      /\ DOMAIN registration = Ids(registrationSeq)
  BY Zenon DEF Shape
<1>6. ExpireChanges(E)
  BY Zenon, <1>1, <1>2, <1>3, <1>4, <1>5 DEF ExpireChanges
<1>7. QED
  BY Zenon, <1>6 DEF E

-----------------------------------------------------------------------------
(* The invariant holds. *)

LEMMA AttestKeepsIInv ==
    ASSUME IInv, NEW v \in Val, NEW k \in Keys, NEW f \in NameFacts,
           SubmitNameRegistration(v, k, f)
    PROVE  IInv'
<1> DEFINE id == RegistrationId(k)
<1>1. AttestChanges(v, k, f, id)
  BY Zenon, AttestEffect DEF IInv
<1>2. UNCHANGED <<height, params, bonded, tokens, activeName, activeNameByAddress>>
  BY Zenon DEF SubmitNameRegistration, linkVars, stakeVars
<1> HIDE DEF id
<1>3. /\ registrationSeq \in Nat /\ registrationSeq' \in Nat
      /\ registration' \in [Ids(registrationSeq') -> RegistrationRecords]
      /\ DOMAIN registration = Ids(registrationSeq)
      /\ DOMAIN registration' = Ids(registrationSeq')
      /\ Ids(registrationSeq) \subseteq Ids(registrationSeq')
      /\ Ids(registrationSeq') \subseteq Ids(registrationSeq) \cup {id}
      /\ id \in Ids(registrationSeq') /\ id # NoId
      /\ id \notin DOMAIN registration => id = registrationSeq
  BY <1>1 DEF IInv, Shape, AttestChanges, Ids, NoId
<1>4. /\ registration'[id].status \in {"PENDING", "UNCLAIMABLE", "AWAITING"}
      /\ registration'[id].key = k
      /\ \A i \in DOMAIN registration : i # id => registration'[i] = registration[i]
      /\ id \in DOMAIN registration => registration[id].status = "PENDING"
      /\ nameByStatus' = (nameByStatus \ {<<"PENDING", id>>})
                            \cup {<<registration'[id].status, id>>}
      /\ nameByTxid' = [nameByTxid EXCEPT ![k] = id]
  BY Zenon, <1>1 DEF AttestChanges
<1>5. Shape'
  <2>1. registration'[id].status \in NameStatuses
    BY Zenon, <1>4 DEF NameStatuses
  <2>2. nameByStatus' \subseteq NameStatuses \X Ids(registrationSeq')
    BY <1>3, <1>4, <2>1 DEF IInv, Shape
  <2>3. nameByTxid' \in [Keys -> Ids(registrationSeq') \cup {NoId}]
    BY Zenon, <1>3, <1>4 DEF IInv, Shape
  <2>4. activeName' \in [Accounts -> Ids(registrationSeq') \cup {NoId}]
    BY Zenon, <1>2, <1>3 DEF IInv, Shape
  <2>5. QED
    BY Zenon, <1>2, <1>3, <2>2, <2>3, <2>4 DEF IInv, Shape
<1>6. IndexesTrue'
  <2>1. ASSUME NEW i \in DOMAIN registration', NEW s \in NameStatuses,
               <<s, i>> \in nameByStatus'
        PROVE  registration'[i].status = s
    <3>1. CASE i # id
      BY Zenon, <1>3, <1>4, <2>1, <3>1 DEF IInv, IndexesTrue
    <3>2. CASE i = id /\ id \in DOMAIN registration
      BY Zenon, <1>4, <2>1, <3>2 DEF IInv, IndexesTrue
    <3>3. CASE i = id /\ id \notin DOMAIN registration
      <4>1. <<s, i>> \notin nameByStatus
        BY Zenon, <1>3, <3>3 DEF IInv, Shape
      <4>2. QED
        BY Zenon, <1>4, <2>1, <3>3, <4>1
    <3>4. QED
      BY Zenon, <3>1, <3>2, <3>3
  <2>2. ASSUME NEW j \in Keys, nameByTxid'[j] # NoId
        PROVE  registration'[nameByTxid'[j]].key = j
    <3>1. nameByTxid \in [Keys -> Ids(registrationSeq) \cup {NoId}]
      BY Zenon DEF IInv, Shape
    <3>2. CASE j = k
      BY Zenon, <1>4, <3>1, <3>2
    <3>3. CASE j # k
      <4>1. nameByTxid'[j] = nameByTxid[j] /\ nameByTxid[j] \in DOMAIN registration
        BY Zenon, <1>3, <1>4, <2>2, <3>1, <3>3
      <4>2. registration[nameByTxid[j]].key = j
        BY Zenon, <2>2, <4>1 DEF IInv, IndexesTrue
      <4>3. nameByTxid[j] # id
        <5>1. CASE id \notin DOMAIN registration
          BY Zenon, <4>1, <5>1
        <5>2. CASE id \in DOMAIN registration
          <6>1. nameByTxid[k] = id
            BY <5>2, <1>3, <3>1 DEF id, RegistrationId, IInv, Shape, Ids
          <6>2. registration[id].key = k
            BY Zenon, <6>1, <1>3 DEF IInv, IndexesTrue
          <6>3. QED
            BY Zenon, <6>2, <4>2, <3>3
        <5>3. QED
          BY Zenon, <5>1, <5>2
      <4>4. QED
        BY Zenon, <1>4, <4>1, <4>2, <4>3
    <3>4. QED
      BY Zenon, <3>2, <3>3
  <2>3. QED
    BY Zenon, <2>1, <2>2 DEF IndexesTrue
<1>7. \A b \in Accounts : activeName[b] # id
  <2> SUFFICES ASSUME NEW b \in Accounts, activeName[b] = id PROVE FALSE
    BY Zenon
  <2>1. id \in DOMAIN registration
    BY Zenon, <1>3 DEF IInv, Shape
  <2>2. registration[id].facts.account = b
    BY Zenon, <1>3 DEF IInv, LinksAgree
  <2>3. registration[id].status = "ACTIVE"
    BY Zenon, <2>1, <2>2 DEF IInv, LinksAgree
  <2>4. QED
    BY Zenon, <1>4, <2>1, <2>3
<1>8. LinksAgree'
  <2>1. ASSUME NEW i \in DOMAIN registration'
        PROVE  registration'[i].status = "ACTIVE"
                   <=> activeName[registration'[i].facts.account] = i
    <3>1. CASE i = id
      <4>1. registration'[id].facts.account \in Accounts
        BY Zenon, <1>3 DEF RegistrationRecords, Accounts
      <4>2. QED
        BY Zenon, <1>4, <1>7, <3>1, <4>1
    <3>2. CASE i # id
      BY <1>3, <1>4, <3>2 DEF IInv, LinksAgree
    <3>3. QED
      BY Zenon, <3>1, <3>2
  <2>2. ASSUME NEW b \in Accounts, activeName[b] # NoId
        PROVE  registration'[activeName[b]] = registration[activeName[b]]
    <3>1. activeName[b] \in DOMAIN registration
      BY Zenon, <1>3, <2>2 DEF IInv, Shape
    <3>2. QED
      BY Zenon, <1>4, <1>7, <3>1
  <2>3. {<<registration'[activeName[b]].facts.dest, b>> :
            b \in {c \in Accounts : activeName[c] # NoId}}
        = {<<registration[activeName[b]].facts.dest, b>> :
            b \in {c \in Accounts : activeName[c] # NoId}}
    BY Zenon, <2>2
  <2>4. QED
    BY <1>2, <2>1, <2>2, <2>3 DEF IInv, LinksAgree
<1>9. QED
  BY Zenon, <1>5, <1>6, <1>8 DEF IInv

LEMMA ConfirmKeepsIInv ==
    ASSUME IInv, NEW u \in Users, NEW id \in DOMAIN registration, ConfirmName(u, id)
    PROVE  IInv'
<1> DEFINE a == registration[id].facts.account
           was == activeName[a]
<1>1. /\ ConfirmChanges(u, id)
      /\ Superseded(id) = DOMAIN registration \cap {was}
  BY Zenon, ConfirmEffect DEF IInv
<1>2. /\ UNCHANGED <<height, params, bonded, tokens, registrationSeq, nameByTxid>>
      /\ nameByStatus' =
            (nameByStatus \ ({<<"AWAITING", id>>} \cup {<<"ACTIVE", i>> : i \in Superseded(id)}))
               \cup {<<"ACTIVE", id>>} \cup {<<"SUPERSEDED", i>> : i \in Superseded(id)}
      /\ activeNameByAddress' = KeptAddresses(a) \cup {<<u, a>>}
  BY Zenon DEF ConfirmName, stakeVars, attestVars
<1>3. /\ a \in Accounts /\ was \in DOMAIN registration \cup {NoId}
      /\ DOMAIN registration = Ids(registrationSeq)
      /\ NoId \notin DOMAIN registration
      /\ \A i \in DOMAIN registration : registration[i].facts.account \in Accounts
  BY AccountsOf DEF IInv, Shape, Ids, NoId
<1>4. /\ registration[id].status = "AWAITING" /\ u = registration[id].facts.dest
      /\ registration' \in [Ids(registrationSeq) -> RegistrationRecords]
      /\ \A i \in DOMAIN registration :
            /\ registration'[i].facts = registration[i].facts
            /\ registration'[i].key = registration[i].key
            /\ registration'[i].status =
                  IF i = id THEN "ACTIVE"
                  ELSE IF i = was THEN "SUPERSEDED" ELSE registration[i].status
      /\ activeName' = [activeName EXCEPT ![a] = id]
  BY Zenon, <1>1 DEF ConfirmChanges
<1>5. /\ was # id
      /\ was # NoId => /\ registration[was].status = "ACTIVE"
                       /\ registration[was].facts.account = a
  BY Zenon, <1>3, <1>4 DEF IInv, LinksAgree
<1>6. /\ activeName \in [Accounts -> Ids(registrationSeq) \cup {NoId}]
      /\ activeName'[a] = id
      /\ \A b \in Accounts : b # a => activeName'[b] = activeName[b]
  BY Zenon, <1>3, <1>4 DEF IInv, Shape
<1> HIDE DEF a, was
<1>7. DOMAIN registration' = DOMAIN registration
  BY Zenon, <1>3, <1>4
<1>8. Shape'
  <2>1. nameByStatus' \subseteq NameStatuses \X Ids(registrationSeq)
    BY <1>1, <1>2, <1>3 DEF IInv, Shape, NameStatuses
  <2>2. activeName' \in [Accounts -> Ids(registrationSeq) \cup {NoId}]
    BY Zenon, <1>3, <1>4, <1>6
  <2>3. QED
    BY Zenon, <1>2, <1>4, <2>1, <2>2 DEF IInv, Shape
<1>9. IndexesTrue'
  <2>1. ASSUME NEW i \in DOMAIN registration, NEW s \in NameStatuses,
               <<s, i>> \in nameByStatus'
        PROVE  registration'[i].status = s
    <3>1. <<s, i>> \in nameByStatus => registration[i].status = s
      BY Zenon DEF IInv, IndexesTrue
    <3>2. CASE i = id
      BY Zenon, <1>1, <1>2, <1>4, <1>5, <2>1, <3>1, <3>2
    <3>3. CASE i = was
      BY Zenon, <1>1, <1>2, <1>3, <1>4, <1>5, <2>1, <3>1, <3>3
    <3>4. CASE i # id /\ i # was
      BY Zenon, <1>1, <1>2, <1>4, <2>1, <3>1, <3>4
    <3>5. QED
      BY Zenon, <3>2, <3>3, <3>4
  <2>2. ASSUME NEW k \in Keys, nameByTxid'[k] # NoId
        PROVE  registration'[nameByTxid'[k]].key = k
    <3>1. nameByTxid[k] \in DOMAIN registration
      BY Zenon, <1>2, <1>3, <2>2 DEF IInv, Shape
    <3>2. QED
      BY Zenon, <1>2, <1>4, <2>2, <3>1 DEF IInv, IndexesTrue
  <2>3. QED
    BY Zenon, <1>7, <2>1, <2>2 DEF IndexesTrue
<1>10. LinksAgree'
  <2>1. ASSUME NEW i \in DOMAIN registration
        PROVE  registration'[i].status = "ACTIVE"
                   <=> activeName'[registration'[i].facts.account] = i
    <3>1. registration[i].status = "ACTIVE" <=> activeName[registration[i].facts.account] = i
      BY Zenon DEF IInv, LinksAgree
    <3>2. CASE i = id
      BY Zenon, <1>4, <1>6, <3>2 DEF a
    <3>3. CASE i # id /\ registration[i].facts.account = a
      BY Zenon, <1>4, <1>6, <3>1, <3>3 DEF was
    <3>4. CASE i # id /\ registration[i].facts.account # a
      <4>1. i # was
        BY Zenon, <1>3, <1>5, <3>4
      <4>2. QED
        BY Zenon, <1>3, <1>4, <1>6, <3>1, <3>4, <4>1
    <3>5. QED
      BY Zenon, <3>2, <3>3, <3>4
  <2>2. ASSUME NEW b \in Accounts, activeName'[b] # NoId
        PROVE  registration'[activeName'[b]].facts.account = b
    <3>1. CASE b = a
      BY Zenon, <1>4, <1>6, <3>1 DEF a
    <3>2. CASE b # a
      <4>1. activeName[b] \in DOMAIN registration /\ registration[activeName[b]].facts.account = b
        BY <1>3, <1>6, <2>2, <3>2 DEF IInv, LinksAgree
      <4>2. QED
        BY Zenon, <1>4, <1>6, <3>2, <4>1
    <3>3. QED
      BY Zenon, <3>1, <3>2
  <2>3. activeNameByAddress' =
          {<<registration'[activeName'[b]].facts.dest, b>> :
              b \in {c \in Accounts : activeName'[c] # NoId}}
    <3> DEFINE D(b) == registration[activeName[b]].facts.dest
               N(b) == registration'[activeName'[b]].facts.dest
    <3>1. activeNameByAddress = {<<D(b), b>> : b \in {c \in Accounts : activeName[c] # NoId}}
      BY Zenon DEF IInv, LinksAgree
    <3>2. KeptAddresses(a) = activeNameByAddress \
              (IF was = NoId THEN {} ELSE {<<D(a), a>>})
      BY Zenon, <1>3 DEF KeptAddresses, was
    <3>3. N(a) = u
      BY Zenon, <1>4, <1>6
    <3>4. \A b \in Accounts : b # a /\ activeName[b] # NoId => N(b) = D(b)
      BY <1>3, <1>4, <1>6
    <3>5. id # NoId
      BY Zenon, <1>3
    <3> HIDE DEF D, N
    <3>6. \A b \in Accounts :
             activeName'[b] # NoId <=> b = a \/ activeName[b] # NoId
      BY Zenon, <1>6, <3>5
    <3>7. KeptAddresses(a) =
              {<<D(b), b>> : b \in {c \in Accounts : c # a /\ activeName[c] # NoId}}
      BY Zenon, <3>1, <3>2 DEF was
    <3>8. {<<N(b), b>> : b \in {c \in Accounts : activeName'[c] # NoId}}
            = {<<N(b), b>> : b \in {c \in Accounts : c # a /\ activeName[c] # NoId}}
                 \cup {<<N(a), a>>}
      BY Zenon, <1>3, <3>6
    <3>9. {<<N(b), b>> : b \in {c \in Accounts : c # a /\ activeName[c] # NoId}}
            = {<<D(b), b>> : b \in {c \in Accounts : c # a /\ activeName[c] # NoId}}
      BY Zenon, <3>4
    <3>10. activeNameByAddress' = {<<N(b), b>> : b \in {c \in Accounts : activeName'[c] # NoId}}
      BY Zenon, <1>2, <3>3, <3>7, <3>8, <3>9
    <3>11. QED
      BY Zenon, <3>10 DEF N
  <2>4. QED
    BY Zenon, <1>7, <2>1, <2>2, <2>3 DEF LinksAgree
<1>11. QED
  BY Zenon, <1>8, <1>9, <1>10 DEF IInv

LEMMA BlockKeepsIInv ==
    ASSUME IInv, NextBlock
    PROVE  IInv'
<1> DEFINE E == ExpiringRegistrations
<1>1. ExpireChanges(E)
  BY Zenon, ExpireEffect DEF IInv, NextBlock
<1>2. /\ UNCHANGED <<params, tokens, registrationSeq, activeName, activeNameByAddress>>
      /\ height' = height + 1 /\ bonded' \in BondedChoices
      /\ nameByStatus' = (nameByStatus \ {<<registration[i].status, i>> : i \in E})
                            \cup {<<"EXPIRED", i>> : i \in E}
      /\ nameByTxid' = [k \in Keys |-> IF k \in NameKeysOf(E) THEN NoId ELSE nameByTxid[k]]
  BY Zenon DEF NextBlock, AdvanceBlock, ExpireNameRegistrations, linkVars
<1> HIDE DEF E
<1>3. /\ E \subseteq DOMAIN registration
      /\ \A i \in E : registration[i].status \in {"PENDING", "AWAITING"}
      /\ registration' \in [Ids(registrationSeq) -> RegistrationRecords]
      /\ \A i \in DOMAIN registration :
            /\ registration'[i].facts = registration[i].facts
            /\ registration'[i].key = registration[i].key
            /\ registration'[i].status = IF i \in E THEN "EXPIRED" ELSE registration[i].status
  BY Zenon, <1>1 DEF ExpireChanges
<1>4. /\ DOMAIN registration = Ids(registrationSeq)
      /\ DOMAIN registration' = DOMAIN registration
      /\ NoId \notin DOMAIN registration
  BY <1>3 DEF IInv, Shape, Ids, NoId
<1>5. Shape'
  <2>1. nameByStatus' \subseteq NameStatuses \X Ids(registrationSeq)
    BY <1>2, <1>3, <1>4 DEF IInv, Shape, NameStatuses
  <2>2. nameByTxid' \in [Keys -> Ids(registrationSeq) \cup {NoId}]
    BY Zenon, <1>2 DEF IInv, Shape
  <2>3. QED
    BY <1>2, <1>3, <2>1, <2>2 DEF IInv, Shape
<1>6. IndexesTrue'
  <2>1. ASSUME NEW i \in DOMAIN registration, NEW s \in NameStatuses,
               <<s, i>> \in nameByStatus'
        PROVE  registration'[i].status = s
    <3>1. <<s, i>> \in nameByStatus => registration[i].status = s
      BY Zenon DEF IInv, IndexesTrue
    <3>2. CASE i \in E
      BY Zenon, <1>2, <1>3, <2>1, <3>1, <3>2
    <3>3. CASE i \notin E
      BY Zenon, <1>2, <1>3, <2>1, <3>1, <3>3
    <3>4. QED
      BY Zenon, <3>2, <3>3
  <2>2. ASSUME NEW k \in Keys, nameByTxid'[k] # NoId
        PROVE  registration'[nameByTxid'[k]].key = k
    <3>1. nameByTxid'[k] = nameByTxid[k] /\ nameByTxid[k] \in DOMAIN registration
      BY Zenon, <1>2, <1>4, <2>2 DEF IInv, Shape
    <3>2. QED
      BY Zenon, <1>3, <2>2, <3>1 DEF IInv, IndexesTrue
  <2>3. QED
    BY Zenon, <1>4, <2>1, <2>2 DEF IndexesTrue
<1>7. LinksAgree'
  <2>1. \A b \in Accounts : activeName[b] # NoId => activeName[b] \in DOMAIN registration
    BY Zenon, <1>4 DEF IInv, Shape
  <2>2. ASSUME NEW i \in DOMAIN registration
        PROVE  registration'[i].status = "ACTIVE"
                   <=> activeName[registration'[i].facts.account] = i
    BY <1>3 DEF IInv, LinksAgree
  <2>3. {<<registration'[activeName[b]].facts.dest, b>> :
            b \in {c \in Accounts : activeName[c] # NoId}}
        = {<<registration[activeName[b]].facts.dest, b>> :
            b \in {c \in Accounts : activeName[c] # NoId}}
    BY Zenon, <1>3, <2>1
  <2>4. QED
    BY <1>2, <1>3, <1>4, <2>1, <2>2, <2>3 DEF IInv, LinksAgree
<1>8. QED
  BY Zenon, <1>5, <1>6, <1>7 DEF IInv

LEMMA ReportsAreFacts ==
    ASSUME NEW v \in Val, NEW k \in Keys
    PROVE  Reports(v, k) \subseteq NameFacts
  BY Zenon, NameAssumption DEF Reports

LEMMA RestKeepsIInv ==
    ASSUME IInv, Govern \/ Restake \/ UNCHANGED vars
    PROVE  IInv' /\ UNCHANGED nameVars
<1>1. /\ params' \in ParamChoices /\ tokens' \in TokenChoices
      /\ UNCHANGED <<height, bonded, nameVars>>
  BY Zenon DEF Govern, UpdateParams, Restake, ChangeTokens, vars, baseVars, stakeVars, IInv, Shape
<1>2. QED
  BY <1>1 DEF IInv, Shape, IndexesTrue, LinksAgree, nameVars, attestVars, linkVars

(***************************************************************************)
(* The invariant holds throughout.                                         *)
(***************************************************************************)
THEOREM Invariance == Spec => []IInv
<1>1. Init => IInv
  BY DEF Init, BaseInit, IInv, Shape, IndexesTrue, LinksAgree, Ids
<1>2. IInv /\ [Next]_vars => IInv'
  <2> SUFFICES ASSUME IInv, [Next]_vars PROVE IInv'
    BY Zenon
  <2>1. CASE Attest
    BY Zenon, <2>1, ReportsAreFacts, AttestKeepsIInv DEF Attest
  <2>2. CASE Confirm
    BY Zenon, <2>2, ConfirmKeepsIInv DEF Confirm
  <2>3. QED
    BY Zenon, <2>1, <2>2, BlockKeepsIInv, RestKeepsIInv DEF Next
<1>3. QED
  BY <1>1, <1>2, PTL DEF Spec

(***************************************************************************)
(* A Steem account has at most one link at any time, and the link, the     *)
(* ACTIVE registration and the reverse index by address never differ,      *)
(* whatever is confirmed, superseded, expired or registered afresh         *)
(* (ConfirmName, ExpireNameRegistrations).                                 *)
(***************************************************************************)
THEOREM OneLinkPerAccount == Spec => []LinksAgree
<1>1. IInv => LinksAgree
  BY Zenon DEF IInv
<1>2. QED
  BY <1>1, Invariance, PTL

-----------------------------------------------------------------------------
(* Links are true. *)

HonestVotes ==
    \A k \in Keys, f \in NameFacts, v \in Val \ Faulty :
        <<k, f, v>> \in nameFactsVote => f = Truth[k]

WinnersTrue ==
    \A i \in DOMAIN registration :
        registration[i].status \in {"AWAITING", "ACTIVE"} =>
            registration[i].facts = Truth[registration[i].key]

LEMMA NextKeepsTruth ==
    ASSUME FaultyAreMinority
    PROVE  IInv /\ HonestVotes /\ WinnersTrue /\ [Next]_vars => HonestVotes' /\ WinnersTrue'
<1> SUFFICES ASSUME IInv, HonestVotes, WinnersTrue, [Next]_vars
             PROVE  HonestVotes' /\ WinnersTrue'
  BY Zenon
<1>1. CASE Attest
  <2>1. PICK v \in Val, k \in Keys : \E f \in Reports(v, k) : SubmitNameRegistration(v, k, f)
    BY Zenon, <1>1 DEF Attest
  <2>2. PICK f \in Reports(v, k) : SubmitNameRegistration(v, k, f)
    BY Zenon, <2>1
  <2>3. f \in NameFacts /\ (v \notin Faulty => f = Truth[k])
    BY Zenon, ReportsAreFacts DEF Reports
  <2> DEFINE id == RegistrationId(k)
  <2>4. AttestChanges(v, k, f, id)
    BY Zenon, <2>2, <2>3, AttestEffect DEF IInv
  <2> HIDE DEF id
  <2>5. nameFactsVote' = nameFactsVote \cup {<<k, f, v>>}
    BY Zenon, <2>2 DEF SubmitNameRegistration
  <2>6. HonestVotes'
    BY Zenon, <2>3, <2>5 DEF HonestVotes
  <2>7. ReachesThreshold(NameVoters(k, f) \cup {v}) => f = Truth[k]
    <3> SUFFICES ASSUME ReachesThreshold(NameVoters(k, f) \cup {v}) PROVE f = Truth[k]
      BY Zenon
    <3>1. NameVoters(k, f) \cup {v} \notin SUBSET Faulty
      BY Zenon DEF FaultyAreMinority, ReachesThreshold, IInv, Shape
    <3>2. PICK w \in NameVoters(k, f) \cup {v} : w \notin Faulty
      BY Zenon, <3>1
    <3>3. CASE w = v
      BY Zenon, <2>3, <3>2, <3>3
    <3>4. CASE w \in NameVoters(k, f)
      BY Zenon, <2>3, <3>2, <3>4 DEF NameVoters, HonestVotes
    <3>5. QED
      BY Zenon, <3>2, <3>3, <3>4
  <2>8. /\ registration'[id].key = k
        /\ registration'[id].status \in {"PENDING", "UNCLAIMABLE", "AWAITING"}
        /\ registration'[id].status = "AWAITING" => registration'[id].facts = Truth[k]
        /\ \A i \in DOMAIN registration : i # id => registration'[i] = registration[i]
    BY Zenon, <2>4, <2>7 DEF AttestChanges
  <2>9. DOMAIN registration' \subseteq DOMAIN registration \cup {id}
    BY <2>4 DEF AttestChanges, IInv, Shape, Ids
  <2>10. WinnersTrue'
    BY Zenon, <2>8, <2>9 DEF WinnersTrue
  <2>11. QED
    BY Zenon, <2>6, <2>10
<1>2. CASE Confirm
  <2>1. PICK u \in Users, id \in DOMAIN registration : ConfirmName(u, id)
    BY Zenon, <1>2 DEF Confirm
  <2>2. ConfirmChanges(u, id)
    BY Zenon, <2>1, ConfirmEffect DEF IInv
  <2>3. nameFactsVote' = nameFactsVote
    BY Zenon, <2>1 DEF ConfirmName, attestVars
  <2>4. /\ registration[id].status = "AWAITING"
        /\ DOMAIN registration' = DOMAIN registration
        /\ \A i \in DOMAIN registration :
              /\ registration'[i].facts = registration[i].facts
              /\ registration'[i].key = registration[i].key
              /\ registration'[i].status \in {"AWAITING", "ACTIVE"} =>
                    i = id \/ registration'[i].status = registration[i].status
    BY Zenon, <2>2 DEF ConfirmChanges, IInv, Shape
  <2>5. QED
    BY <2>3, <2>4 DEF HonestVotes, WinnersTrue
<1>3. CASE NextBlock
  <2>1. ExpireChanges(ExpiringRegistrations)
    BY Zenon, <1>3, ExpireEffect DEF IInv, NextBlock
  <2>2. nameFactsVote' \subseteq nameFactsVote
    BY Zenon, <1>3 DEF NextBlock, ExpireNameRegistrations, RemainingNameVotes
  <2>3. /\ DOMAIN registration' = DOMAIN registration
        /\ \A i \in DOMAIN registration :
              /\ registration'[i].facts = registration[i].facts
              /\ registration'[i].key = registration[i].key
              /\ registration'[i].status \in {"AWAITING", "ACTIVE"} =>
                    registration'[i].status = registration[i].status
    BY Zenon, <2>1 DEF ExpireChanges, IInv, Shape
  <2>4. QED
    BY Zenon, <2>2, <2>3 DEF HonestVotes, WinnersTrue
<1>4. CASE Govern \/ Restake \/ UNCHANGED vars
  BY Zenon, <1>4, RestKeepsIInv DEF HonestVotes, WinnersTrue, nameVars, attestVars
<1>5. QED
  BY Zenon, <1>1, <1>2, <1>3, <1>4 DEF Next

(***************************************************************************)
(* When no set of faulty validators holds the threshold, a Steem account   *)
(* is only ever linked to the address its own transfer named               *)
(* (SubmitNameRegistration, ConfirmName).                                  *)
(***************************************************************************)
THEOREM OnlyTrueLinks ==
    ASSUME FaultyAreMinority
    PROVE  Spec => []LinksTrue
<1>1. Init => HonestVotes /\ WinnersTrue
  BY Zenon DEF Init, HonestVotes, WinnersTrue
<1>2. IInv /\ (HonestVotes /\ WinnersTrue) /\ [Next]_vars => (HonestVotes /\ WinnersTrue)'
  BY Zenon, NextKeepsTruth
<1>3. IInv /\ WinnersTrue => LinksTrue
  <2> SUFFICES ASSUME IInv, WinnersTrue, NEW a \in Accounts, activeName[a] # NoId
               PROVE  /\ registration[activeName[a]].facts = Truth[registration[activeName[a]].key]
                      /\ registration[activeName[a]].facts.account = a
    BY Zenon DEF LinksTrue
  <2>1. activeName[a] \in DOMAIN registration /\ registration[activeName[a]].facts.account = a
    BY DEF IInv, Shape, LinksAgree
  <2>2. registration[activeName[a]].status = "ACTIVE"
    BY Zenon, <2>1 DEF IInv, LinksAgree
  <2>3. QED
    BY Zenon, <2>1, <2>2 DEF WinnersTrue
<1>4. QED
  BY <1>1, <1>2, <1>3, Invariance, PTL DEF Spec

-----------------------------------------------------------------------------
(* The indexes. *)

NameVotesOf(k, v) == {f \in NameFacts : <<k, f, v>> \in nameFactsVote}

(***************************************************************************)
(* The indexes over the records, entry by entry.                           *)
(***************************************************************************)
Indexed ==
    \A i \in DOMAIN registration :
        LET r == registration[i]
        IN  /\ r.status # "EXPIRED" <=> nameByTxid[r.key] = i
            /\ \A s \in NameStatuses : <<s, i>> \in nameByStatus <=> r.status = s
            /\ \A a \in Accounts : <<a, i>> \in nameByAccount <=> r.facts.account = a
            /\ \A u \in Users : <<u, i>> \in awaitingByDest
                                    <=> r.status = "AWAITING" /\ r.facts.dest = u

Votes ==
    \A k \in Keys, v \in Val :
        IF <<k, v>> \in nameConfirmedBy
          THEN /\ nameByTxid[k] # NoId
               /\ registration[nameByTxid[k]].confirmations[v] = 1
               /\ \E f \in NameFacts : NameVotesOf(k, v) = {f}
          ELSE /\ nameByTxid[k] # NoId => registration[nameByTxid[k]].confirmations[v] = 0
               /\ NameVotesOf(k, v) = {}

(***************************************************************************)
(* awaitingSince marks the records that reached the threshold with a       *)
(* destination: a user, since the bank refused to credit a module account. *)
(***************************************************************************)
Phases ==
    /\ Validate(params) /\ height > 0
    /\ \A i \in DOMAIN registration :
          LET r == registration[i]
          IN  /\ r.status \in {"PENDING", "UNCLAIMABLE"} => r.awaitingSince = 0
              /\ r.status = "AWAITING" => r.awaitingSince # 0
              /\ r.awaitingSince # 0 => r.facts.dest \in Users

(***************************************************************************)
(* The types that the links did not need.                                  *)
(***************************************************************************)
StoreTypes ==
    /\ bank \in [Holders -> [Assets -> Nat]]
    /\ totals \in [minted : [Assets -> Nat], burned : [Assets -> Nat]]
    /\ tally \in [Val -> [opportunities : Nat, hits : Nat]]
    /\ nameByAccount \subseteq Accounts \X Ids(registrationSeq)
    /\ nameConfirmedBy \subseteq Keys \X Val
    /\ nameFactsVote \subseteq Keys \X NameFacts \X Val
    /\ awaitingByDest \subseteq Users \X Ids(registrationSeq)
    /\ activeNameByAddress \subseteq Users \X Accounts

SInv == StoreTypes /\ Phases /\ Indexed /\ Votes

LEMMA NameFactTypes ==
    ASSUME NEW f \in NameFacts
    PROVE  f.amount \in Nat /\ f.account \in Accounts /\ f.dest \in Users \cup Blocked \cup {NoDest}
  BY Zenon, NameAssumption DEF NameFactRecords, Accounts

(***************************************************************************)
(* The record r, under id, that an attestation works on: a fresh one for a *)
(* key without an entry, else the pending one the key points at, with one  *)
(* more confirmation.                                                      *)
(***************************************************************************)
WorksOn(id, r, v, k, f) ==
    /\ r \in RegistrationRecords /\ r.key = k /\ r.status = "PENDING"
    /\ \/ /\ nameByTxid[k] = NoId /\ id = registrationSeq /\ id \notin DOMAIN registration
          /\ r.facts = f /\ r.awaitingSince = 0
          /\ r.confirmations = [u \in Val |-> IF u = v THEN 1 ELSE 0]
       \/ /\ nameByTxid[k] = id /\ id \in DOMAIN registration
          /\ registration[id].status = "PENDING" /\ registration[id].key = k
          /\ r.facts = registration[id].facts
          /\ r.awaitingSince = registration[id].awaitingSince
          /\ r.confirmations = [registration[id].confirmations EXCEPT ![v] = @ + 1]

LEMMA AttestedFields ==
    ASSUME IInv, NEW v \in Val, NEW k \in Keys, NEW f \in NameFacts,
           SubmitNameRegistration(v, k, f)
    PROVE  WorksOn(RegistrationId(k), AttestedRegistration(k, f, v), v, k, f)
<1> DEFINE id == RegistrationId(k)
           r == AttestedRegistration(k, f, v)
<1>1. /\ registrationSeq \in Nat /\ height \in Nat
      /\ registration \in [Ids(registrationSeq) -> RegistrationRecords]
      /\ nameByTxid[k] \in Ids(registrationSeq) \cup {NoId}
      /\ DOMAIN registration = Ids(registrationSeq)
      /\ registrationSeq \notin Ids(registrationSeq)
  BY DEF IInv, Shape, Ids
<1>2. CASE nameByTxid[k] = NoId
  <2> DEFINE fresh == [key |-> k, facts |-> f, status |-> "PENDING",
                       createdAt |-> height, awaitingSince |-> 0,
                       confirmations |-> [u \in Val |-> 0]]
  <2>1. fresh \in RegistrationRecords
    BY Zenon, <1>1 DEF RegistrationRecords, NameStatuses
  <2>2. r = [fresh EXCEPT !.confirmations[v] = @ + 1]
    BY Zenon, <1>2 DEF AttestedRegistration
  <2>3. r \in RegistrationRecords
    BY <2>1, <2>2 DEF RegistrationRecords
  <2>4. /\ r.key = k /\ r.status = "PENDING" /\ r.facts = f /\ r.awaitingSince = 0
        /\ r.confirmations = [[u \in Val |-> 0] EXCEPT ![v] = @ + 1]
    BY Zenon, <2>2
  <2>5. [[u \in Val |-> 0] EXCEPT ![v] = @ + 1] = [u \in Val |-> IF u = v THEN 1 ELSE 0]
    OBVIOUS
  <2>6. id = registrationSeq
    BY Zenon, <1>2 DEF RegistrationId
  <2>7. QED
    BY Zenon, <1>1, <1>2, <2>3, <2>4, <2>5, <2>6 DEF WorksOn
<1>3. CASE nameByTxid[k] # NoId
  <2>1. /\ id = nameByTxid[k] /\ id \in DOMAIN registration
        /\ registration[id] \in RegistrationRecords
        /\ registration[id].status = "PENDING" /\ registration[id].key = k
    BY Zenon, <1>1, <1>3
       DEF RegistrationId, SubmitNameRegistration, NameAcceptable, IInv, IndexesTrue
  <2>2. r = [registration[id] EXCEPT !.confirmations[v] = @ + 1]
    BY Zenon, <1>3, <2>1 DEF AttestedRegistration
  <2> HIDE DEF id, r
  <2>3. r \in RegistrationRecords
    BY <2>1, <2>2 DEF RegistrationRecords
  <2>4. /\ r.key = k /\ r.status = "PENDING" /\ r.facts = registration[id].facts
        /\ r.awaitingSince = registration[id].awaitingSince
        /\ r.confirmations = [registration[id].confirmations EXCEPT ![v] = @ + 1]
    BY Zenon, <2>1, <2>2 DEF RegistrationRecords
  <2>5. WorksOn(id, r, v, k, f)
    BY Zenon, <2>1, <2>3, <2>4 DEF WorksOn
  <2>6. QED
    BY Zenon, <2>5 DEF id, r
<1>4. QED
  BY Zenon, <1>2, <1>3

(***************************************************************************)
(* What an attestation that works on r stores: the record e, listed under  *)
(* its account, and with the fee credited if it reached the threshold with *)
(* a destination.                                                          *)
(***************************************************************************)
Outcome(e, id, r, f) ==
    /\ StoreRegistration(id, e) /\ e.key = r.key /\ e.confirmations = r.confirmations
    /\ nameByAccount' = MovedHistory(id, r, e.facts.account)
    /\ \/ /\ e.status \in {"PENDING", "UNCLAIMABLE"} /\ e.awaitingSince = r.awaitingSince
          /\ UNCHANGED <<bank, totals, awaitingByDest>>
       \/ /\ e.status = "AWAITING" /\ e.awaitingSince = height /\ e.facts = f
          /\ NameClaimable(f) /\ CreditFee(f)
          /\ awaitingByDest' = awaitingByDest \cup {<<f.dest, id>>}

LEMMA AttestOutcome ==
    ASSUME IInv, NEW v \in Val, NEW k \in Keys, NEW f \in NameFacts,
           SubmitNameRegistration(v, k, f)
    PROVE  \E e \in RegistrationRecords :
               Outcome(e, RegistrationId(k), AttestedRegistration(k, f, v), f)
<1> DEFINE id == RegistrationId(k)
           r == AttestedRegistration(k, f, v)
           lost == [r EXCEPT !.facts = f, !.status = "UNCLAIMABLE"]
           won == [r EXCEPT !.facts = f, !.status = "AWAITING", !.awaitingSince = height]
<1>1. r \in RegistrationRecords /\ r.status = "PENDING" /\ height \in Nat
  BY ZenonT(60), AttestedFields DEF WorksOn, IInv, Shape
<1>2. \/ /\ StoreRegistration(id, r)
         /\ nameByAccount' = nameByAccount \cup {<<r.facts.account, id>>}
         /\ UNCHANGED <<bank, totals, awaitingByDest>>
      \/ /\ StoreRegistration(id, lost) /\ nameByAccount' = MovedHistory(id, r, f.account)
         /\ UNCHANGED <<bank, totals, awaitingByDest>>
      \/ /\ StoreRegistration(id, won) /\ nameByAccount' = MovedHistory(id, r, f.account)
         /\ NameClaimable(f) /\ CreditFee(f)
         /\ awaitingByDest' = awaitingByDest \cup {<<f.dest, id>>}
  BY Zenon DEF SubmitNameRegistration, ResolveNameRegistration, coinVars
<1> HIDE DEF id, r
<1>3. /\ lost \in RegistrationRecords /\ lost.key = r.key /\ lost.status = "UNCLAIMABLE"
      /\ lost.facts = f /\ lost.confirmations = r.confirmations
      /\ lost.awaitingSince = r.awaitingSince
  BY Zenon, <1>1 DEF RegistrationRecords, NameStatuses
<1>4. /\ won \in RegistrationRecords /\ won.key = r.key /\ won.status = "AWAITING"
      /\ won.facts = f /\ won.confirmations = r.confirmations /\ won.awaitingSince = height
  BY Zenon, <1>1 DEF RegistrationRecords, NameStatuses
<1> HIDE DEF lost, won
<1>5. nameByAccount \cup {<<r.facts.account, id>>} = MovedHistory(id, r, r.facts.account)
  BY Zenon DEF MovedHistory
<1>6. \E e \in RegistrationRecords : Outcome(e, id, r, f)
  BY Zenon, <1>1, <1>2, <1>3, <1>4, <1>5 DEF Outcome
<1>7. QED
  BY Zenon, <1>6 DEF id, r

LEMMA CreditedIsUser ==
    ASSUME Shape, Phases, NEW f \in NameFacts, NameClaimable(f), CreditFee(f)
    PROVE  /\ f.dest \in Users
           /\ bank' = CreditedBank(f.dest, "STEEM", f.amount, 0)
           /\ totals' = AddMinted("STEEM", MillisteemToAsteem(f.amount))
           /\ ApplyBridgeFee(f.amount, 0) = [net |-> f.amount, fee |-> 0]
<1>1. f.amount \in Nat /\ f.dest \in Users \cup Blocked \cup {NoDest}
  BY Zenon, NameFactTypes
<1>2. ApplyBridgeFee(f.amount, 0) = [net |-> f.amount, fee |-> 0]
  <2>1. BridgeFee(f.amount, 0) = 0 /\ f.amount - 0 = f.amount
    BY <1>1 DEF BridgeFee
  <2>2. QED
    BY Zenon, <2>1 DEF ApplyBridgeFee
<1>3. f.amount > 0
  <2>1. params.NameRegistrationMinMillisteem \in Nat
    BY Zenon, BaseAssumption DEF Shape, ParamRecords
  <2>2. params.NameRegistrationMinMillisteem > 0
    BY DEF Phases, Validate
  <2>3. f.amount >= params.NameRegistrationMinMillisteem
    BY Zenon DEF NameClaimable
  <2>4. QED
    BY <1>1, <2>1, <2>2, <2>3
<1>4. CanCredit(f.dest, f.amount, 0)
  BY Zenon DEF CreditFee, CreditBridged
<1>5. f.dest \notin Blocked
  BY <1>2, <1>3, <1>4 DEF CanCredit
<1>6. QED
  BY Zenon, <1>1, <1>2, <1>5 DEF NameClaimable, CreditFee, CreditBridged

LEMMA AttestKeepsStore ==
    ASSUME IInv, SInv, NEW v \in Val, NEW k \in Keys, NEW f \in NameFacts,
           SubmitNameRegistration(v, k, f)
    PROVE  StoreTypes' /\ Phases' /\ Indexed'
<1> DEFINE id == RegistrationId(k)
           r == AttestedRegistration(k, f, v)
<1>1. WorksOn(id, r, v, k, f)
  BY Zenon, AttestedFields
<1>2. PICK e \in RegistrationRecords : Outcome(e, id, r, f)
  BY Zenon, AttestOutcome
<1>3. AttestChanges(v, k, f, id)
  BY Zenon, AttestEffect DEF IInv
<1>4. /\ nameByTxid' = [nameByTxid EXCEPT ![k] = id]
      /\ nameConfirmedBy' = nameConfirmedBy \cup {<<k, v>>}
      /\ nameFactsVote' = nameFactsVote \cup {<<k, f, v>>}
      /\ UNCHANGED <<tally, activeNameByAddress, params, height>>
  BY Zenon DEF SubmitNameRegistration, dutyVars, linkVars
<1> HIDE DEF id, r
<1>5. /\ registrationSeq \in Nat /\ DOMAIN registration = Ids(registrationSeq)
      /\ Ids(registrationSeq') = Ids(registrationSeq) \cup {id}
      /\ id \in Ids(registrationSeq') /\ NoId \notin Ids(registrationSeq')
      /\ nameByTxid \in [Keys -> Ids(registrationSeq) \cup {NoId}]
      /\ \A i \in DOMAIN registration : registration[i].key \in Keys
  <2>1. /\ registrationSeq \in Nat /\ registration \in [Ids(registrationSeq) -> RegistrationRecords]
        /\ nameByTxid \in [Keys -> Ids(registrationSeq) \cup {NoId}]
    BY Zenon DEF IInv, Shape
  <2>2. DOMAIN registration = Ids(registrationSeq) /\ \A i \in DOMAIN registration : registration[i].key \in Keys
    BY Zenon, <2>1 DEF RegistrationRecords
  <2>3. /\ id \in Ids(registrationSeq') /\ registrationSeq' \in {registrationSeq, registrationSeq + 1}
        /\ id \in Ids(registrationSeq) => registrationSeq' = registrationSeq
        /\ id \notin Ids(registrationSeq) => id = registrationSeq
    BY Zenon, <1>3, <2>2 DEF AttestChanges
  <2>4. /\ Ids(registrationSeq') = Ids(registrationSeq) \cup {id}
        /\ NoId \notin Ids(registrationSeq')
    <3>1. CASE id \in Ids(registrationSeq)
      BY <2>1, <2>3, <3>1 DEF Ids, NoId
    <3>2. CASE id \notin Ids(registrationSeq)
      <4>1. id = registrationSeq /\ registrationSeq' = registrationSeq + 1
        BY Zenon, <2>1, <2>3, <3>2 DEF Ids
      <4>2. QED
        BY ONLY <2>1, <4>1 DEF Ids, NoId
    <3>3. QED
      BY Zenon, <3>1, <3>2
  <2>5. QED
    BY Zenon, <2>1, <2>2, <2>3, <2>4
<1>6. /\ DOMAIN registration' = DOMAIN registration \cup {id} /\ registration'[id] = e
      /\ \A i \in DOMAIN registration : i # id => registration'[i] = registration[i]
      /\ nameByStatus' = (nameByStatus \ {<<"PENDING", id>>}) \cup {<<e.status, id>>}
  BY Zenon, <1>2 DEF Outcome, StoreRegistration
<1>7. e.status = "AWAITING" => /\ e.facts = f /\ f.dest \in Users
                               /\ bank' = CreditedBank(f.dest, "STEEM", f.amount, 0)
                               /\ totals' = AddMinted("STEEM", MillisteemToAsteem(f.amount))
                               /\ awaitingByDest' = awaitingByDest \cup {<<f.dest, id>>}
                               /\ e.awaitingSince = height
  BY Zenon, <1>2, CreditedIsUser DEF Outcome, IInv, SInv
<1>8. e.status # "AWAITING" => /\ UNCHANGED <<bank, totals, awaitingByDest>>
                               /\ e.awaitingSince = r.awaitingSince
  BY Zenon, <1>2 DEF Outcome
<1>9. /\ e.key = k /\ e.status \in {"PENDING", "UNCLAIMABLE", "AWAITING"}
      /\ nameByAccount' = (nameByAccount \ {<<r.facts.account, id>>})
                             \cup {<<e.facts.account, id>>}
      /\ e.facts.account \in Accounts
  BY Zenon, <1>1, <1>2, NameFactTypes DEF Outcome, WorksOn, MovedHistory, RegistrationRecords
<1>10. StoreTypes'
  <2>1. bank' \in [Holders -> [Assets -> Nat]]
    <3>1. bank \in [Holders -> [Assets -> Nat]] /\ f.amount \in Nat /\ "STEEM" \in Assets
          /\ 0 \in Nat
      BY Zenon, NameFactTypes DEF SInv, StoreTypes, Assets
    <3>2. CreditedBank(f.dest, "STEEM", f.amount, 0) \in [Holders -> [Assets -> Nat]]
      BY Zenon, <3>1, CreditedBankType
    <3>3. QED
      BY Zenon, <1>7, <1>8, <3>1, <3>2
  <2>2. totals' \in [minted : [Assets -> Nat], burned : [Assets -> Nat]]
    <3>1. /\ totals \in [minted : [Assets -> Nat], burned : [Assets -> Nat]]
          /\ MillisteemToAsteem(f.amount) \in Nat
      BY Zenon, NameFactTypes, AsteemType DEF SInv, StoreTypes
    <3>2. AddMinted("STEEM", MillisteemToAsteem(f.amount))
             \in [minted : [Assets -> Nat], burned : [Assets -> Nat]]
      BY <3>1 DEF AddMinted, Assets
    <3>3. QED
      BY Zenon, <1>7, <1>8, <3>1, <3>2
  <2>3. awaitingByDest' \subseteq Users \X Ids(registrationSeq')
    BY <1>5, <1>7, <1>8 DEF SInv, StoreTypes
  <2>4. nameByAccount' \subseteq Accounts \X Ids(registrationSeq')
    BY <1>5, <1>9 DEF SInv, StoreTypes
  <2>5. nameConfirmedBy' \subseteq Keys \X Val /\ nameFactsVote' \subseteq Keys \X NameFacts \X Val
    BY <1>4 DEF SInv, StoreTypes
  <2>6. QED
    BY Zenon, <1>4, <2>1, <2>2, <2>3, <2>4, <2>5 DEF SInv, StoreTypes
<1>11. Phases'
  <2>1. Validate(params) /\ height > 0 /\ height # 0
    <3>1. Validate(params) /\ height > 0
      BY Zenon DEF SInv, Phases
    <3>2. height > 0 => height # 0
      BY DEF IInv, Shape
    <3>3. QED
      BY Zenon, <3>1, <3>2
  <2>2. r.awaitingSince = 0
    BY Zenon, <1>1 DEF WorksOn, SInv, Phases
  <2>3. /\ e.status \in {"PENDING", "UNCLAIMABLE"} => e.awaitingSince = 0
        /\ e.status = "AWAITING" => e.awaitingSince # 0
        /\ e.awaitingSince # 0 => e.facts.dest \in Users
    BY Zenon, <1>7, <1>8, <1>9, <2>1, <2>2
  <2>4. QED
    BY Zenon, <1>4, <1>6, <2>1, <2>3 DEF SInv, Phases
<1>12. Indexed'
  <2>1. /\ nameByStatus \subseteq NameStatuses \X Ids(registrationSeq)
        /\ nameByAccount \subseteq Accounts \X Ids(registrationSeq)
        /\ awaitingByDest \subseteq Users \X Ids(registrationSeq)
    BY Zenon DEF SInv, StoreTypes, IInv, Shape
  <2>2. ASSUME NEW i \in DOMAIN registration, i # id
        PROVE  /\ registration'[i].status # "EXPIRED" <=> nameByTxid'[registration'[i].key] = i
               /\ \A s \in NameStatuses : <<s, i>> \in nameByStatus' <=> registration'[i].status = s
               /\ \A a \in Accounts :
                     <<a, i>> \in nameByAccount' <=> registration'[i].facts.account = a
               /\ \A u \in Users :
                     <<u, i>> \in awaitingByDest'
                        <=> registration'[i].status = "AWAITING" /\ registration'[i].facts.dest = u
    <3>1. /\ registration'[i] = registration[i]
          /\ registration[i].status # "EXPIRED" <=> nameByTxid[registration[i].key] = i
          /\ \A s \in NameStatuses : <<s, i>> \in nameByStatus <=> registration[i].status = s
          /\ \A a \in Accounts : <<a, i>> \in nameByAccount <=> registration[i].facts.account = a
          /\ \A u \in Users : <<u, i>> \in awaitingByDest
                <=> registration[i].status = "AWAITING" /\ registration[i].facts.dest = u
      BY Zenon, <1>6, <2>2 DEF SInv, Indexed
    <3>2. registration[i].key = k => nameByTxid[k] # i
      BY Zenon, <1>1, <1>5, <2>2 DEF WorksOn
    <3>3. registration[i].status # "EXPIRED" <=> nameByTxid'[registration[i].key] = i
      <4>1. CASE registration[i].key = k
        BY Zenon, <1>4, <1>5, <2>2, <3>1, <3>2, <4>1
      <4>2. CASE registration[i].key # k
        BY Zenon, <1>4, <1>5, <3>1, <4>2
      <4>3. QED
        BY Zenon, <4>1, <4>2
    <3>4. /\ \A s : <<s, i>> \in nameByStatus' <=> <<s, i>> \in nameByStatus
          /\ \A a : <<a, i>> \in nameByAccount' <=> <<a, i>> \in nameByAccount
          /\ \A u : <<u, i>> \in awaitingByDest' <=> <<u, i>> \in awaitingByDest
      BY Zenon, <1>6, <1>7, <1>8, <1>9, <2>2
    <3>5. QED
      BY Zenon, <3>1, <3>3, <3>4
  <2>3. /\ e.status # "EXPIRED" /\ nameByTxid'[e.key] = id
        /\ \A s \in NameStatuses : <<s, id>> \in nameByStatus' <=> e.status = s
        /\ \A a \in Accounts : <<a, id>> \in nameByAccount' <=> e.facts.account = a
        /\ \A u \in Users : <<u, id>> \in awaitingByDest'
                               <=> e.status = "AWAITING" /\ e.facts.dest = u
    <3>1. /\ \A s \in NameStatuses : <<s, id>> \in nameByStatus => s = "PENDING"
          /\ \A a \in Accounts : <<a, id>> \in nameByAccount => a = r.facts.account
          /\ \A u \in Users : <<u, id>> \notin awaitingByDest
      <4>1. CASE id \notin DOMAIN registration
        BY Zenon, <1>5, <2>1, <4>1
      <4>2. CASE id \in DOMAIN registration
        <5>1. registration[id].status = "PENDING" /\ registration[id].facts = r.facts
          BY Zenon, <1>1, <4>2 DEF WorksOn
        <5>2. QED
          BY <4>2, <5>1 DEF SInv, Indexed
      <4>3. QED
        BY Zenon, <4>1, <4>2
    <3>2. nameByTxid'[e.key] = id /\ e.status # "EXPIRED"
      BY Zenon, <1>4, <1>5, <1>9
    <3>3. \A s \in NameStatuses : <<s, id>> \in nameByStatus' <=> e.status = s
      BY Zenon, <1>6, <3>1
    <3>4. \A a \in Accounts : <<a, id>> \in nameByAccount' <=> e.facts.account = a
      BY Zenon, <1>9, <3>1
    <3>5. \A u \in Users : <<u, id>> \in awaitingByDest'
                               <=> e.status = "AWAITING" /\ e.facts.dest = u
      BY <1>7, <1>8, <3>1
    <3>6. QED
      BY Zenon, <3>2, <3>3, <3>4, <3>5
  <2>4. QED
    BY Zenon, <1>6, <2>2, <2>3 DEF Indexed
<1>13. QED
  BY Zenon, <1>10, <1>11, <1>12

LEMMA AttestKeepsVotes ==
    ASSUME IInv, SInv, NEW v \in Val, NEW k \in Keys, NEW f \in NameFacts,
           SubmitNameRegistration(v, k, f)
    PROVE  Votes'
<1> DEFINE id == RegistrationId(k)
           r == AttestedRegistration(k, f, v)
<1>1. WorksOn(id, r, v, k, f)
  BY Zenon, AttestedFields
<1>2. PICK e \in RegistrationRecords : Outcome(e, id, r, f)
  BY Zenon, AttestOutcome
<1>3. /\ <<k, v>> \notin nameConfirmedBy
      /\ nameByTxid' = [nameByTxid EXCEPT ![k] = id]
      /\ nameConfirmedBy' = nameConfirmedBy \cup {<<k, v>>}
      /\ nameFactsVote' = nameFactsVote \cup {<<k, f, v>>}
  BY Zenon DEF SubmitNameRegistration, NameAcceptable
<1> HIDE DEF id, r
<1>4. /\ registrationSeq \in Nat /\ registration \in [Ids(registrationSeq) -> RegistrationRecords]
      /\ nameByTxid \in [Keys -> Ids(registrationSeq) \cup {NoId}] /\ Votes
  BY Zenon DEF IInv, Shape, SInv
<1>5. /\ e.confirmations = r.confirmations /\ registration'[id] = e
      /\ \A i \in DOMAIN registration : i # id => registration'[i] = registration[i]
  BY Zenon, <1>2 DEF Outcome, StoreRegistration
<1>6. id # NoId /\ (id \in DOMAIN registration => id # NoId)
  BY <1>1, <1>4 DEF WorksOn, NoId, Ids
<1> SUFFICES ASSUME NEW j \in Keys, NEW u \in Val
             PROVE  IF <<j, u>> \in nameConfirmedBy'
                      THEN /\ nameByTxid'[j] # NoId
                           /\ registration'[nameByTxid'[j]].confirmations[u] = 1
                           /\ \E g \in NameFacts : NameVotesOf(j, u)' = {g}
                      ELSE /\ nameByTxid'[j] # NoId =>
                                 registration'[nameByTxid'[j]].confirmations[u] = 0
                           /\ NameVotesOf(j, u)' = {}
  BY Zenon DEF Votes
<1>7. CASE j # k
  <2>1. /\ <<j, u>> \in nameConfirmedBy' <=> <<j, u>> \in nameConfirmedBy
        /\ nameByTxid'[j] = nameByTxid[j]
    BY Zenon, <1>3, <1>4, <1>7
  <2>2. NameVotesOf(j, u)' = NameVotesOf(j, u)
    BY Zenon, <1>3, <1>7 DEF NameVotesOf
  <2>3. nameByTxid[j] # NoId => registration'[nameByTxid[j]] = registration[nameByTxid[j]]
    <3>1. nameByTxid[j] # NoId => nameByTxid[j] \in DOMAIN registration
      BY Zenon, <1>4
    <3>2. nameByTxid[j] # NoId => nameByTxid[j] # id
      BY Zenon, <3>1, <1>1, <1>7 DEF WorksOn, IInv, IndexesTrue
    <3>3. QED
      BY Zenon, <3>1, <3>2, <1>5
  <2>4. QED
    BY Zenon, <1>4, <2>1, <2>2, <2>3 DEF Votes
<1>8. CASE j = k /\ u = v
  <2>1. NameVotesOf(k, v) = {}
    BY Zenon, <1>3, <1>4 DEF Votes
  <2>2. NameVotesOf(k, v)' = {f}
    BY Zenon, <2>1, <1>3 DEF NameVotesOf
  <2>3. r.confirmations[v] = 1
    <3>1. CASE id \notin DOMAIN registration
      BY Zenon, <3>1, <1>1 DEF WorksOn
    <3>2. CASE id \in DOMAIN registration
      <4>1. registration[id].confirmations[v] = 0
        BY Zenon, <3>2, <1>1, <1>3, <1>4, <1>6 DEF WorksOn, Votes
      <4>2. registration[id].confirmations \in [Val -> Nat]
        BY Zenon, <3>2, <1>4 DEF RegistrationRecords
      <4>3. r.confirmations = [registration[id].confirmations EXCEPT ![v] = @ + 1]
        BY Zenon, <3>2, <1>1 DEF WorksOn
      <4>4. QED
        BY <4>1, <4>2, <4>3
    <3>3. QED
      BY Zenon, <3>1, <3>2
  <2>4. QED
    BY Zenon, <2>2, <2>3, <1>3, <1>4, <1>5, <1>6, <1>8
<1>9. CASE j = k /\ u # v
  <2>1. <<k, u>> \in nameConfirmedBy' <=> <<k, u>> \in nameConfirmedBy
    BY Zenon, <1>3, <1>9
  <2>2. NameVotesOf(k, u)' = NameVotesOf(k, u)
    BY Zenon, <1>3, <1>9 DEF NameVotesOf
  <2>3. IF <<k, u>> \in nameConfirmedBy THEN r.confirmations[u] = 1
                                        ELSE r.confirmations[u] = 0
    <3>1. CASE id \notin DOMAIN registration
      BY Zenon, <3>1, <1>1, <1>4, <1>9 DEF WorksOn, Votes
    <3>2. CASE id \in DOMAIN registration
      <4>1. registration[id].confirmations \in [Val -> Nat]
        BY Zenon, <3>2, <1>4 DEF RegistrationRecords
      <4>2. r.confirmations = [registration[id].confirmations EXCEPT ![v] = @ + 1]
            /\ nameByTxid[k] = id
        BY Zenon, <3>2, <1>1 DEF WorksOn
      <4>3. r.confirmations[u] = registration[id].confirmations[u]
        BY Zenon, <4>1, <4>2, <1>9
      <4>4. QED
        BY Zenon, <4>2, <4>3, <1>4, <1>6 DEF Votes
    <3>3. QED
      BY Zenon, <3>1, <3>2
  <2>4. QED
    BY Zenon, <2>1, <2>2, <2>3, <1>3, <1>4, <1>5, <1>6, <1>9 DEF Votes
<1>10. QED
  BY Zenon, <1>7, <1>8, <1>9

LEMMA ConfirmKeepsStore ==
    ASSUME IInv, SInv, NEW u \in Users, NEW id \in DOMAIN registration, ConfirmName(u, id)
    PROVE  SInv'
<1> DEFINE a == registration[id].facts.account
           was == activeName[a]
<1>1. ConfirmChanges(u, id) /\ Superseded(id) = DOMAIN registration \cap {was}
  BY Zenon, ConfirmEffect DEF IInv
<1>2. /\ UNCHANGED <<height, params, bank, totals, tally, registrationSeq, nameByTxid,
                     nameByAccount, nameConfirmedBy, nameFactsVote>>
      /\ nameByStatus' =
            (nameByStatus \ ({<<"AWAITING", id>>} \cup {<<"ACTIVE", i>> : i \in Superseded(id)}))
               \cup {<<"ACTIVE", id>>} \cup {<<"SUPERSEDED", i>> : i \in Superseded(id)}
      /\ activeNameByAddress' = KeptAddresses(a) \cup {<<u, a>>}
      /\ awaitingByDest' = awaitingByDest \ {<<u, id>>}
  BY Zenon DEF ConfirmName, attestVars, coinVars, dutyVars
<1>3. a \in Accounts /\ was \in DOMAIN registration \cup {NoId}
      /\ DOMAIN registration = Ids(registrationSeq)
  BY Zenon, AccountsOf DEF IInv, Shape
<1>4. /\ registration[id].status = "AWAITING" /\ u = registration[id].facts.dest
      /\ DOMAIN registration' = DOMAIN registration
      /\ \A i \in DOMAIN registration :
            /\ registration'[i].facts = registration[i].facts
            /\ registration'[i].key = registration[i].key
            /\ registration'[i].awaitingSince = registration[i].awaitingSince
            /\ registration'[i].confirmations = registration[i].confirmations
            /\ registration'[i].status =
                  IF i = id THEN "ACTIVE"
                  ELSE IF i = was THEN "SUPERSEDED" ELSE registration[i].status
  BY Zenon, <1>1, <1>3 DEF ConfirmChanges
<1>5. was # id /\ (was \in DOMAIN registration => registration[was].status = "ACTIVE")
  <2>1. NoId \notin DOMAIN registration
    BY <1>3 DEF Ids, NoId, IInv, Shape
  <2>2. QED
    BY Zenon, <1>3, <1>4, <2>1 DEF IInv, LinksAgree
<1>6. /\ SInv /\ StoreTypes /\ Phases /\ Indexed /\ Votes
      /\ \A k \in Keys : nameByTxid[k] # NoId => nameByTxid[k] \in DOMAIN registration
  BY Zenon, <1>3 DEF SInv, IInv, Shape
<1>7. StoreTypes'
  <2>1. KeptAddresses(a) \subseteq activeNameByAddress
    BY Zenon DEF KeptAddresses
  <2>2. activeNameByAddress' \subseteq Users \X Accounts
    <3>1. activeNameByAddress \subseteq Users \X Accounts
      BY Zenon, <1>6 DEF StoreTypes
    <3> HIDE DEF a
    <3>2. QED
      BY <1>2, <1>3, <2>1, <3>1
  <2>3. awaitingByDest' \subseteq Users \X Ids(registrationSeq)
    BY Zenon, <1>2, <1>6 DEF StoreTypes
  <2>4. QED
    BY Zenon, <1>2, <1>6, <2>2, <2>3 DEF StoreTypes
<1> HIDE DEF a, was
<1>8. Phases'
  <2>1. ASSUME NEW i \in DOMAIN registration
        PROVE  /\ registration'[i].status \in {"PENDING", "UNCLAIMABLE"}
                     => registration'[i].awaitingSince = 0
               /\ registration'[i].status = "AWAITING" => registration'[i].awaitingSince # 0
               /\ registration'[i].awaitingSince # 0 => registration'[i].facts.dest \in Users
    <3>1. registration'[i].status \in {"PENDING", "UNCLAIMABLE", "AWAITING"} =>
              registration'[i].status = registration[i].status
      BY Zenon, <1>4
    <3>2. QED
      BY <1>4, <1>6, <3>1 DEF Phases
  <2>2. QED
    BY Zenon, <1>2, <1>4, <1>6, <2>1 DEF Phases
<1>9. Indexed'
  <2>1. ASSUME NEW i \in DOMAIN registration
        PROVE  /\ registration'[i].status # "EXPIRED" <=> nameByTxid[registration[i].key] = i
               /\ \A s \in NameStatuses : <<s, i>> \in nameByStatus' <=> registration'[i].status = s
               /\ \A w \in Users :
                     <<w, i>> \in awaitingByDest'
                        <=> registration'[i].status = "AWAITING" /\ registration[i].facts.dest = w
    <3>1. /\ registration[i].status # "EXPIRED" <=> nameByTxid[registration[i].key] = i
          /\ \A s \in NameStatuses : <<s, i>> \in nameByStatus <=> registration[i].status = s
          /\ \A w \in Users : <<w, i>> \in awaitingByDest
                <=> registration[i].status = "AWAITING" /\ registration[i].facts.dest = w
      BY Zenon, <1>6 DEF Indexed
    <3>2. CASE i = id
      <4>1. registration'[i].status = "ACTIVE" /\ registration[i].status = "AWAITING"
        BY Zenon, <1>4, <3>2
      <4>2. \A s \in NameStatuses : <<s, i>> \in nameByStatus' <=> s = "ACTIVE"
        BY Zenon, <1>1, <1>2, <1>5, <3>1, <3>2, <4>1
      <4>3. \A w \in Users : <<w, i>> \notin awaitingByDest'
        BY Zenon, <1>2, <1>4, <3>1, <3>2
      <4>4. QED
        BY <3>1, <4>1, <4>2, <4>3
    <3>3. CASE i = was
      <4>1. registration'[i].status = "SUPERSEDED" /\ registration[i].status = "ACTIVE"
        BY Zenon, <1>4, <1>5, <3>3
      <4>2. \A s \in NameStatuses : <<s, i>> \in nameByStatus' <=> s = "SUPERSEDED"
        BY Zenon, <1>1, <1>2, <1>5, <3>1, <3>3, <4>1
      <4>3. \A w \in Users : <<w, i>> \notin awaitingByDest'
        BY <1>2, <3>1, <4>1
      <4>4. QED
        BY <3>1, <4>1, <4>2, <4>3
    <3>4. CASE i # id /\ i # was
      <4>1. registration'[i].status = registration[i].status
        BY Zenon, <1>4, <3>4
      <4>2. /\ \A s : <<s, i>> \in nameByStatus' <=> <<s, i>> \in nameByStatus
            /\ \A w : <<w, i>> \in awaitingByDest' <=> <<w, i>> \in awaitingByDest
        BY Zenon, <1>1, <1>2, <3>4
      <4>3. QED
        BY Zenon, <3>1, <4>1, <4>2
    <3>5. QED
      BY Zenon, <3>2, <3>3, <3>4
  <2>2. \A i \in DOMAIN registration, b \in Accounts :
            <<b, i>> \in nameByAccount' <=> registration'[i].facts.account = b
    <3>1. \A i \in DOMAIN registration, b \in Accounts :
              <<b, i>> \in nameByAccount <=> registration[i].facts.account = b
      BY Zenon, <1>6 DEF Indexed
    <3>2. \A i \in DOMAIN registration : registration'[i].facts = registration[i].facts
      BY Zenon, <1>4
    <3>3. nameByAccount' = nameByAccount
      BY Zenon, <1>2
    <3>4. QED
      BY ONLY Zenon, <3>1, <3>2, <3>3
  <2>3. QED
    BY <1>2, <1>4, <2>1, <2>2 DEF Indexed
<1>10. Votes'
  <2>1. \A k, v : NameVotesOf(k, v)' = NameVotesOf(k, v)
    BY Zenon, <1>2 DEF NameVotesOf
  <2>2. \A k \in Keys : nameByTxid[k] # NoId =>
            registration'[nameByTxid[k]].confirmations = registration[nameByTxid[k]].confirmations
    BY Zenon, <1>4, <1>6
  <2>3. QED
    BY Zenon, <1>2, <1>6, <2>1, <2>2 DEF Votes
<1>11. QED
  BY Zenon, <1>7, <1>8, <1>9, <1>10 DEF SInv

LEMMA BlockKeepsStore ==
    ASSUME IInv, SInv, NextBlock
    PROVE  SInv'
<1> DEFINE E == ExpiringRegistrations
<1>1. ExpireChanges(E)
  BY Zenon, ExpireEffect DEF IInv, NextBlock
<1>2. /\ UNCHANGED <<params, bank, totals, tally, registrationSeq, nameByAccount,
                     activeNameByAddress>>
      /\ height' = height + 1
      /\ nameByStatus' = (nameByStatus \ {<<registration[i].status, i>> : i \in E})
                            \cup {<<"EXPIRED", i>> : i \in E}
      /\ nameByTxid' = [k \in Keys |-> IF k \in NameKeysOf(E) THEN NoId ELSE nameByTxid[k]]
      /\ nameConfirmedBy' =
            {c \in nameConfirmedBy :
                ~ \E i \in E : /\ registration[i].key = c[1]
                               /\ registration[i].confirmations[c[2]] > 0}
      /\ nameFactsVote' = RemainingNameVotes(E)
      /\ awaitingByDest' = {x \in awaitingByDest : x[2] \notin E}
  BY Zenon DEF NextBlock, AdvanceBlock, ExpireNameRegistrations, linkVars, coinVars, dutyVars
<1> HIDE DEF E
<1>3. /\ E \subseteq DOMAIN registration
      /\ \A i \in E : registration[i].status \in {"PENDING", "AWAITING"}
      /\ registration' \in [Ids(registrationSeq) -> RegistrationRecords]
      /\ \A i \in DOMAIN registration :
            /\ registration'[i].facts = registration[i].facts
            /\ registration'[i].key = registration[i].key
            /\ registration'[i].awaitingSince = registration[i].awaitingSince
            /\ registration'[i].confirmations = registration[i].confirmations
            /\ registration'[i].status = IF i \in E THEN "EXPIRED" ELSE registration[i].status
  BY Zenon, <1>1 DEF ExpireChanges
<1>4. /\ DOMAIN registration = Ids(registrationSeq) /\ DOMAIN registration' = DOMAIN registration
      /\ NoId \notin DOMAIN registration
      /\ nameByTxid \in [Keys -> DOMAIN registration \cup {NoId}]
      /\ \A k \in Keys : nameByTxid[k] # NoId => registration[nameByTxid[k]].key = k
      /\ \A i \in DOMAIN registration : registration[i].key \in Keys
  <2>1. /\ registrationSeq \in Nat /\ registration \in [Ids(registrationSeq) -> RegistrationRecords]
        /\ nameByTxid \in [Keys -> Ids(registrationSeq) \cup {NoId}]
        /\ \A k \in Keys : nameByTxid[k] # NoId => registration[nameByTxid[k]].key = k
    BY Zenon DEF IInv, Shape, IndexesTrue
  <2>2. NoId \notin Ids(registrationSeq)
    BY <2>1 DEF Ids, NoId
  <2>3. QED
    BY Zenon, <1>3, <2>1, <2>2 DEF RegistrationRecords
<1>5. StoreTypes /\ Phases /\ Indexed /\ Votes
  BY Zenon DEF SInv
<1>6. StoreTypes'
  <2>1. /\ nameConfirmedBy' \subseteq nameConfirmedBy /\ nameFactsVote' \subseteq nameFactsVote
        /\ awaitingByDest' \subseteq awaitingByDest
    BY Zenon, <1>2 DEF RemainingNameVotes
  <2>2. QED
    BY Zenon, <1>2, <1>5, <2>1 DEF StoreTypes
<1>7. Phases'
  <2>1. height' > 0
    BY <1>2 DEF IInv, Shape
  <2>2. ASSUME NEW i \in DOMAIN registration
        PROVE  registration'[i].status \in {"PENDING", "UNCLAIMABLE", "AWAITING"} =>
                   registration'[i].status = registration[i].status
    BY Zenon, <1>3
  <2>3. QED
    BY <1>2, <1>3, <1>4, <1>5, <2>1, <2>2 DEF Phases
<1>8. \A i \in E : nameByTxid[registration[i].key] = i
  BY Zenon, <1>3, <1>5 DEF Indexed
<1>9. \A k \in Keys : k \in NameKeysOf(E) <=> nameByTxid[k] \in E
  BY <1>3, <1>4, <1>8 DEF NameKeysOf
<1>10. \A k \in Keys : nameByTxid'[k] = IF nameByTxid[k] \in E THEN NoId ELSE nameByTxid[k]
  BY Zenon, <1>2, <1>9
<1>11. Indexed'
  <2>1. ASSUME NEW i \in DOMAIN registration
        PROVE  /\ registration'[i].status # "EXPIRED" <=> nameByTxid'[registration[i].key] = i
               /\ \A s \in NameStatuses : <<s, i>> \in nameByStatus' <=> registration'[i].status = s
               /\ \A w \in Users :
                     <<w, i>> \in awaitingByDest'
                        <=> registration'[i].status = "AWAITING" /\ registration[i].facts.dest = w
    <3>1. /\ registration[i].status # "EXPIRED" <=> nameByTxid[registration[i].key] = i
          /\ \A s \in NameStatuses : <<s, i>> \in nameByStatus <=> registration[i].status = s
          /\ \A w \in Users : <<w, i>> \in awaitingByDest
                <=> registration[i].status = "AWAITING" /\ registration[i].facts.dest = w
          /\ i # NoId /\ registration[i].key \in Keys
      BY Zenon, <1>4, <1>5 DEF Indexed
    <3>2. \A w : <<w, i>> \in awaitingByDest' <=> <<w, i>> \in awaitingByDest /\ i \notin E
      BY <1>2
    <3>3. CASE i \in E
      <4>1. registration'[i].status = "EXPIRED" /\ nameByTxid'[registration[i].key] = NoId
        <5>1. registration'[i].status = "EXPIRED"
          BY Zenon, <1>3, <3>3
        <5>2. registration[i].key \in Keys /\ nameByTxid[registration[i].key] \in E
          BY Zenon, <1>8, <3>1, <3>3
        <5>3. nameByTxid'[registration[i].key] = NoId
          BY Zenon, <1>10, <5>2
        <5>4. QED
          BY Zenon, <5>1, <5>3
      <4>2. \A s \in NameStatuses : <<s, i>> \in nameByStatus' <=> s = "EXPIRED"
        BY Zenon, <1>2, <3>1, <3>3
      <4>3. QED
        BY <3>1, <3>2, <3>3, <4>1, <4>2
    <3>4. CASE i \notin E
      <4>1. registration'[i].status = registration[i].status
        BY Zenon, <1>3, <3>4
      <4>2. \A s : <<s, i>> \in nameByStatus' <=> <<s, i>> \in nameByStatus
        BY Zenon, <1>2, <3>4
      <4>3. nameByTxid'[registration[i].key] = i <=> nameByTxid[registration[i].key] = i
        BY Zenon, <1>10, <3>1, <3>4
      <4>4. QED
        BY Zenon, <3>1, <3>2, <3>4, <4>1, <4>2, <4>3
    <3>5. QED
      BY Zenon, <3>3, <3>4
  <2>2. \A i \in DOMAIN registration, b \in Accounts :
            <<b, i>> \in nameByAccount' <=> registration'[i].facts.account = b
    <3>1. \A i \in DOMAIN registration, b \in Accounts :
              <<b, i>> \in nameByAccount <=> registration[i].facts.account = b
      BY Zenon, <1>5 DEF Indexed
    <3>2. \A i \in DOMAIN registration : registration'[i].facts = registration[i].facts
      BY Zenon, <1>3
    <3>3. nameByAccount' = nameByAccount
      BY Zenon, <1>2
    <3>4. QED
      BY ONLY Zenon, <3>1, <3>2, <3>3
  <2>3. QED
    BY <1>3, <1>4, <2>1, <2>2 DEF Indexed
<1>12. Votes'
  <2> SUFFICES ASSUME NEW k \in Keys, NEW v \in Val
               PROVE  IF <<k, v>> \in nameConfirmedBy'
                        THEN /\ nameByTxid'[k] # NoId
                             /\ registration'[nameByTxid'[k]].confirmations[v] = 1
                             /\ \E f \in NameFacts : NameVotesOf(k, v)' = {f}
                        ELSE /\ nameByTxid'[k] # NoId =>
                                   registration'[nameByTxid'[k]].confirmations[v] = 0
                             /\ NameVotesOf(k, v)' = {}
    BY Zenon DEF Votes
  <2>1. IF <<k, v>> \in nameConfirmedBy
          THEN /\ nameByTxid[k] # NoId
               /\ registration[nameByTxid[k]].confirmations[v] = 1
               /\ \E f \in NameFacts : NameVotesOf(k, v) = {f}
          ELSE /\ nameByTxid[k] # NoId => registration[nameByTxid[k]].confirmations[v] = 0
               /\ NameVotesOf(k, v) = {}
    BY Zenon, <1>5 DEF Votes
  <2>2. \A f : <<k, f, v>> \in nameFactsVote' <=>
                  <<k, f, v>> \in nameFactsVote /\ nameByTxid[k] \notin E
    <3>1. \A f : <<k, f, v>>[1] = k
      OBVIOUS
    <3>2. QED
      BY Zenon, <1>2, <1>9, <3>1 DEF RemainingNameVotes
  <2>3. <<k, v>> \in nameConfirmedBy' <=>
            /\ <<k, v>> \in nameConfirmedBy
            /\ ~ \E i \in E : registration[i].key = k /\ registration[i].confirmations[v] > 0
    BY <1>2
  <2>4. CASE nameByTxid[k] \in E
    <3>1. nameByTxid'[k] = NoId /\ NameVotesOf(k, v)' = {}
      BY Zenon, <1>10, <2>2, <2>4 DEF NameVotesOf
    <3>2. <<k, v>> \notin nameConfirmedBy'
      BY <1>4, <2>1, <2>3, <2>4
    <3>3. QED
      BY Zenon, <3>1, <3>2
  <2>5. CASE nameByTxid[k] \notin E
    <3>1. nameByTxid'[k] = nameByTxid[k] /\ NameVotesOf(k, v)' = NameVotesOf(k, v)
      BY Zenon, <1>10, <2>2, <2>5 DEF NameVotesOf
    <3>2. \A i \in E : registration[i].key # k
      BY Zenon, <1>8, <2>5
    <3>3. <<k, v>> \in nameConfirmedBy' <=> <<k, v>> \in nameConfirmedBy
      BY Zenon, <2>3, <3>2
    <3>4. nameByTxid[k] # NoId => registration'[nameByTxid[k]].confirmations
                                    = registration[nameByTxid[k]].confirmations
      BY <1>3, <1>4
    <3>5. QED
      BY Zenon, <2>1, <3>1, <3>3, <3>4
  <2>6. QED
    BY Zenon, <2>4, <2>5
<1>13. QED
  BY Zenon, <1>6, <1>7, <1>11, <1>12 DEF SInv

LEMMA NextKeepsStore == IInv /\ SInv /\ [Next]_vars => SInv'
<1> SUFFICES ASSUME IInv, SInv, [Next]_vars PROVE SInv'
  BY Zenon
<1>1. CASE Attest
  BY Zenon, <1>1, ReportsAreFacts, AttestKeepsStore, AttestKeepsVotes DEF Attest, SInv
<1>2. CASE Confirm
  BY Zenon, <1>2, ConfirmKeepsStore DEF Confirm
<1>3. CASE NextBlock
  BY Zenon, <1>3, BlockKeepsStore
<1>4. CASE Govern \/ Restake \/ UNCHANGED vars
  <2>1. UNCHANGED <<height, bank, totals, tally, nameVars>>
    BY Zenon, <1>4 DEF Govern, Restake, vars, baseVars, coinVars, dutyVars
  <2>2. Validate(params')
    <3>1. CASE Govern
      BY Zenon, <3>1 DEF Govern, UpdateParams
    <3>2. CASE Restake \/ UNCHANGED vars
      BY Zenon, <3>2 DEF Restake, vars, baseVars, SInv, Phases
    <3>3. QED
      BY Zenon, <1>4, <3>1, <3>2
  <2>3. UNCHANGED <<registration, registrationSeq, nameByTxid, nameByStatus, nameByAccount,
                    nameConfirmedBy, nameFactsVote, awaitingByDest, activeNameByAddress>>
    BY Zenon, <2>1 DEF nameVars, attestVars, linkVars
  <2>4. StoreTypes' /\ Indexed'
    BY ZenonT(60), <2>1, <2>3 DEF SInv, StoreTypes, Indexed
  <2>5. Votes'
    BY Zenon, <2>3 DEF SInv, Votes, NameVotesOf
  <2>6. Phases'
    BY Zenon, <2>1, <2>2, <2>3 DEF SInv, Phases
  <2>7. QED
    BY Zenon, <2>4, <2>5, <2>6 DEF SInv
<1>5. QED
  BY Zenon, <1>1, <1>2, <1>3, <1>4 DEF Next

(***************************************************************************)
(* The extended invariant holds throughout.                                *)
(***************************************************************************)
THEOREM StoreInvariance == Spec => []SInv
<1>1. Init => SInv
  <2> SUFFICES ASSUME Init PROVE SInv
    BY Zenon
  <2>1. DOMAIN registration = {} /\ nameByTxid = [k \in Keys |-> NoId]
        /\ nameConfirmedBy = {} /\ nameFactsVote = {}
    BY Zenon DEF Init
  <2>2. StoreTypes
    <3>1. bank \in [Holders -> [Assets -> Nat]]
      BY DEF Init
    <3>2. totals \in [minted : [Assets -> Nat], burned : [Assets -> Nat]]
      BY DEF Init
    <3>3. tally \in [Val -> [opportunities : Nat, hits : Nat]]
      BY DEF Init, BaseInit
    <3>4. QED
      BY Zenon, <3>1, <3>2, <3>3 DEF Init, StoreTypes
  <2>3. Phases
    BY <2>1 DEF Phases, Init, BaseInit
  <2>4. Indexed /\ Votes
    BY Zenon, <2>1 DEF Indexed, Votes, NameVotesOf
  <2>5. QED
    BY Zenon, <2>2, <2>3, <2>4 DEF SInv
<1>2. QED
  BY <1>1, NextKeepsStore, Invariance, PTL DEF Spec

(***************************************************************************)
(* Every collection of the store keeps its type; in particular only users, *)
(* never module accounts, await a confirmation or hold a name.             *)
(***************************************************************************)
THEOREM TypeCorrect == Spec => []TypeOK
<1>1. IInv /\ SInv => TypeOK
  BY Zenon DEF IInv, Shape, SInv, StoreTypes, TypeOK, BaseTypeOK
<1>2. QED
  BY <1>1, Invariance, StoreInvariance, PTL

(***************************************************************************)
(* Links, indexes, markers and votes agree with the records, for every     *)
(* interleaving of attestations, confirmations, sweeps and parameter       *)
(* changes: the sweep frees exactly the keys, markers and votes of what it *)
(* expires, though it finds them by three different routes                 *)
(* (SubmitNameRegistration, ConfirmName, ExpireNameRegistrations).         *)
(***************************************************************************)
THEOREM OneStory == Spec => []StoreConsistent
<1>1. IInv /\ SInv => StoreConsistent
  <2> SUFFICES ASSUME IInv, SInv PROVE NameIndexesAgree
    BY Zenon DEF StoreConsistent, IInv
  <2>1. ASSUME NEW i \in DOMAIN registration
        PROVE  /\ registration[i].status # "EXPIRED" <=> nameByTxid[registration[i].key] = i
               /\ {s \in NameStatuses : <<s, i>> \in nameByStatus} = {registration[i].status}
               /\ {a \in Accounts : <<a, i>> \in nameByAccount} = {registration[i].facts.account}
               /\ {u \in Users : <<u, i>> \in awaitingByDest}
                     = IF registration[i].status = "AWAITING"
                         THEN {registration[i].facts.dest} ELSE {}
    <3>1. /\ registration[i].status # "EXPIRED" <=> nameByTxid[registration[i].key] = i
          /\ \A s \in NameStatuses : <<s, i>> \in nameByStatus <=> registration[i].status = s
          /\ \A a \in Accounts : <<a, i>> \in nameByAccount <=> registration[i].facts.account = a
          /\ \A u \in Users : <<u, i>> \in awaitingByDest
                <=> registration[i].status = "AWAITING" /\ registration[i].facts.dest = u
      BY Zenon DEF SInv, Indexed
    <3>2. registration[i].status \in NameStatuses /\ registration[i].facts.account \in Accounts
      BY Zenon, AccountsOf DEF IInv, RegistrationRecords
    <3>3. registration[i].status = "AWAITING" => registration[i].facts.dest \in Users
      BY Zenon DEF SInv, Phases
    <3>4. QED
      BY Zenon, <3>1, <3>2, <3>3
  <2>2. ASSUME NEW k \in Keys, NEW v \in Val
        PROVE  LET open == nameByTxid[k] # NoId
                   marked == IF <<k, v>> \in nameConfirmedBy THEN 1 ELSE 0
               IN  /\ Cardinality({f \in NameFacts : <<k, f, v>> \in nameFactsVote}) = marked
                   /\ marked = IF open THEN registration[nameByTxid[k]].confirmations[v] ELSE 0
    <3>1. IF <<k, v>> \in nameConfirmedBy
            THEN /\ nameByTxid[k] # NoId
                 /\ registration[nameByTxid[k]].confirmations[v] = 1
                 /\ \E f \in NameFacts : NameVotesOf(k, v) = {f}
            ELSE /\ nameByTxid[k] # NoId => registration[nameByTxid[k]].confirmations[v] = 0
                 /\ NameVotesOf(k, v) = {}
      BY Zenon DEF SInv, Votes
    <3>2. NameVotesOf(k, v) = {f \in NameFacts : <<k, f, v>> \in nameFactsVote}
      BY Zenon DEF NameVotesOf
    <3>3. \A f : Cardinality({f}) = 1
      BY Zenon, FS_Singleton
    <3>4. Cardinality({}) = 0
      BY Zenon, FS_EmptySet
    <3>5. QED
      BY Zenon, <3>1, <3>2, <3>3, <3>4
  <2>3. QED
    BY Zenon, <2>1, <2>2 DEF NameIndexesAgree
<1>2. QED
  BY <1>1, Invariance, StoreInvariance, PTL

-----------------------------------------------------------------------------
(* The window. *)

Started ==
    /\ height <= MaxHeight
    /\ \A i \in DOMAIN registration : registration[i].awaitingSince <= height

LEMMA SweptTooLate ==
    ASSUME IInv, SInv, SteadyWindow, Started,
           NEW i \in ExpiringRegistrations, i \in DOMAIN registration,
           registration[i].status \in {"PENDING", "AWAITING"},
           registration[i].awaitingSince # 0
    PROVE  registration[i].awaitingSince + params.NamePendingTimeoutBlocks < height
<1> DEFINE since == registration[i].awaitingSince
           timeout == params.NamePendingTimeoutBlocks
<1>1. registration[i].status = "AWAITING"
  BY Zenon DEF SInv, Phases
<1>2. (since + timeout) % UintMod < height
  BY Zenon, <1>1 DEF ExpiringRegistrations, NameOverdue, Overdue, PhaseStart
<1>3. /\ since \in Nat /\ height \in Nat /\ since <= height /\ height <= MaxHeight
      /\ MaxHeight \in Nat
  BY Zenon, AccountsOf DEF IInv, Shape, RegistrationRecords, Started, SteadyWindow
<1>4. timeout \in Nat /\ MaxHeight + timeout < UintMod /\ UintMod \in Nat /\ UintMod > 0
  BY Zenon, BaseAssumption DEF IInv, Shape, ParamRecords, SteadyWindow
<1> HIDE DEF since, timeout
<1>5. since + timeout \in 0 .. (UintMod - 1)
  BY <1>3, <1>4
<1>6. (since + timeout) % UintMod = since + timeout
  BY ONLY <1>4, <1>5
<1>7. QED
  BY Zenon, <1>2, <1>6 DEF since, timeout

LEMMA NextKeepsWindow ==
    ASSUME SteadyWindow
    PROVE  IInv /\ SInv /\ (Started /\ FullWindow) /\ [Next]_vars => (Started /\ FullWindow)'
<1> SUFFICES ASSUME IInv, SInv, Started, FullWindow, [Next]_vars
             PROVE  Started' /\ FullWindow'
  BY Zenon
<1> DEFINE T == params.NamePendingTimeoutBlocks
<1>1. /\ T \in Nat /\ height \in Nat
      /\ \A i \in DOMAIN registration : registration[i].awaitingSince \in Nat
  BY Zenon, AccountsOf, BaseAssumption DEF IInv, Shape, ParamRecords, RegistrationRecords
<1>2. /\ height <= MaxHeight
      /\ \A i \in DOMAIN registration : registration[i].awaitingSince <= height
      /\ \A i \in DOMAIN registration :
            registration[i].awaitingSince # 0 /\ height <= registration[i].awaitingSince + T
               => registration[i].status # "EXPIRED"
  BY Zenon DEF Started, FullWindow
<1>3. CASE Attest
  <2>1. PICK v \in Val, k \in Keys : \E f \in Reports(v, k) : SubmitNameRegistration(v, k, f)
    BY Zenon, <1>3 DEF Attest
  <2>2. PICK f \in NameFacts : SubmitNameRegistration(v, k, f)
    BY Zenon, <2>1, ReportsAreFacts
  <2> DEFINE id == RegistrationId(k)
             r == AttestedRegistration(k, f, v)
  <2>3. WorksOn(id, r, v, k, f)
    BY Zenon, <2>2, AttestedFields
  <2>4. PICK e \in RegistrationRecords : Outcome(e, id, r, f)
    BY Zenon, <2>2, AttestOutcome
  <2>5. height' = height /\ params' = params
    BY Zenon, <2>2 DEF SubmitNameRegistration
  <2> HIDE DEF id, r
  <2>6. /\ DOMAIN registration' = DOMAIN registration \cup {id} /\ registration'[id] = e
        /\ \A i \in DOMAIN registration : i # id => registration'[i] = registration[i]
        /\ e.status # "EXPIRED" /\ e.awaitingSince \in {r.awaitingSince, height}
    BY Zenon, <2>4 DEF Outcome, StoreRegistration
  <2>7. r.awaitingSince = 0
    BY Zenon, <2>3 DEF WorksOn, SInv, Phases
  <2>8. e.awaitingSince <= height
    BY <1>1, <2>6, <2>7
  <2>9. QED
    BY Zenon, <1>2, <2>5, <2>6, <2>8 DEF Started, FullWindow
<1>4. CASE Confirm
  <2>1. PICK u \in Users, id \in DOMAIN registration : ConfirmName(u, id)
    BY Zenon, <1>4 DEF Confirm
  <2>2. ConfirmChanges(u, id) /\ height' = height /\ params' = params
    BY Zenon, <2>1, ConfirmEffect DEF IInv, ConfirmName
  <2>3. /\ DOMAIN registration' = DOMAIN registration
        /\ \A i \in DOMAIN registration :
              /\ registration'[i].awaitingSince = registration[i].awaitingSince
              /\ registration'[i].status = "EXPIRED" => registration[i].status = "EXPIRED"
    BY Zenon, <2>2 DEF ConfirmChanges, IInv, Shape
  <2>4. QED
    BY <1>2, <2>2, <2>3 DEF Started, FullWindow
<1>5. CASE NextBlock
  <2> DEFINE E == ExpiringRegistrations
  <2>1. ExpireChanges(E)
    BY Zenon, <1>5, ExpireEffect DEF IInv, NextBlock
  <2>2. height < MaxHeight /\ height' = height + 1 /\ params' = params
    BY Zenon, <1>5 DEF NextBlock, AdvanceBlock
  <2>3. /\ DOMAIN registration' = DOMAIN registration
        /\ \A i \in DOMAIN registration :
              /\ registration'[i].awaitingSince = registration[i].awaitingSince
              /\ registration'[i].status = "EXPIRED" => registration[i].status = "EXPIRED" \/ i \in E
        /\ \A i \in E : i \in DOMAIN registration /\ registration[i].status \in {"PENDING", "AWAITING"}
    BY Zenon, <2>1 DEF ExpireChanges, IInv, Shape
  <2>4. \A i \in E : registration[i].awaitingSince # 0 => registration[i].awaitingSince + T < height
    BY Zenon, <2>3, SweptTooLate
  <2> HIDE DEF E, T
  <2>5. Started'
    BY <1>1, <1>2, <2>2, <2>3 DEF Started, SteadyWindow
  <2>6. ASSUME NEW i \in DOMAIN registration, registration[i].awaitingSince # 0,
               height + 1 <= registration[i].awaitingSince + T
        PROVE  registration'[i].status # "EXPIRED"
    <3>1. i \notin E
      BY <1>1, <2>4, <2>6
    <3>2. registration[i].status # "EXPIRED"
      BY <1>1, <1>2, <2>6
    <3>3. QED
      BY Zenon, <2>3, <3>1, <3>2
  <2>7. FullWindow'
    BY Zenon, <2>2, <2>3, <2>6 DEF FullWindow, T
  <2>8. QED
    BY Zenon, <2>5, <2>7
<1>6. CASE Govern \/ Restake \/ UNCHANGED vars
  <2>1. UNCHANGED <<height, registration>> /\ params' \in ParamChoices /\ params \in ParamChoices
    BY Zenon, <1>6, RestKeepsIInv DEF Govern, Restake, vars, baseVars, nameVars, IInv, Shape
  <2>2. params'.NamePendingTimeoutBlocks = T
    BY Zenon, <2>1 DEF SteadyWindow
  <2>3. QED
    BY Zenon, <1>2, <2>1, <2>2 DEF Started, FullWindow
<1>7. QED
  BY Zenon, <1>3, <1>4, <1>5, <1>6 DEF Next

(***************************************************************************)
(* While the timeout stays as it is, an address has the whole window to    *)
(* confirm from the block its registration reached the threshold in,       *)
(* however late in the first window that was (resolveNameRegistration,     *)
(* ExpireNameRegistrations).                                               *)
(***************************************************************************)
THEOREM WholeWindow ==
    ASSUME SteadyWindow
    PROVE  Spec => []FullWindow
<1>1. Init => Started /\ FullWindow
  <2> SUFFICES ASSUME Init PROVE Started /\ FullWindow
    BY Zenon
  <2>1. DOMAIN registration = {} /\ height = 1
    BY Zenon DEF Init, BaseInit
  <2>2. height <= MaxHeight
    BY <2>1 DEF SteadyWindow
  <2>3. QED
    BY Zenon, <2>1, <2>2 DEF Started, FullWindow
<1>2. QED
  BY <1>1, NextKeepsWindow, Invariance, StoreInvariance, PTL DEF Spec

-----------------------------------------------------------------------------
(* The fees. *)

Won(reg) == {i \in DOMAIN reg : reg[i].awaitingSince # 0}
WonFor(reg, u) == {i \in Won(reg) : reg[i].facts.dest = u}
Fees(reg) == [i \in Won(reg) |-> MillisteemToAsteem(reg[i].facts.amount)]
Owed(reg) == [u \in Users |-> Sum(Fees(reg), WonFor(reg, u))]

FeesAt(reg, bal, tot) ==
    /\ \A u \in Users : bal[u]["STEEM"] = Owed(reg)[u]
    /\ tot.minted["STEEM"] = Sum(Owed(reg), Users)
    /\ bal[BridgeReward]["STEEM"] = 0

LEMMA FeesRestated ==
    FeesCredited <=> FeesAt(registration, bank, totals)
  BY Zenon DEF FeesCredited, FeesAt, Owed, WonFor, Fees, Won

\* Nothing is owed for what does not reach the threshold.
LEMMA OwedSame ==
    ASSUME NEW x, NEW y, Won(y) = Won(x), \A i \in Won(x) : y[i].facts = x[i].facts
    PROVE  Owed(y) = Owed(x)
<1>1. Fees(y) = Fees(x) /\ \A u : WonFor(y, u) = WonFor(x, u)
  BY Zenon DEF Fees, WonFor
<1>2. QED
  BY Zenon, <1>1 DEF Owed

LEMMA OwedMore ==
    ASSUME NEW x, NEW y, NEW n, IsFiniteSet(Won(x)), n \notin Won(x),
           Won(y) = Won(x) \cup {n}, y[n].facts.dest \in Users, y[n].facts.amount \in Nat,
           \A i \in Won(x) : x[i].facts.amount \in Nat /\ y[i].facts = x[i].facts
    PROVE  LET fee == MillisteemToAsteem(y[n].facts.amount)
           IN  /\ \A u \in Users :
                     Owed(y)[u] = Owed(x)[u] + IF u = y[n].facts.dest THEN fee ELSE 0
               /\ Sum(Owed(y), Users) = Sum(Owed(x), Users) + fee
<1> DEFINE fee == MillisteemToAsteem(y[n].facts.amount)
           dest == y[n].facts.dest
           F == Fees(x)
           G == Fees(y)
<1>1. /\ \A i \in Won(x) : F[i] \in Nat /\ G[i] = F[i]
      /\ G[n] = fee /\ fee \in Nat /\ dest \in Users
  BY Zenon, AsteemType DEF Fees
<1>2. /\ \A i \in Won(x) : F[i] \in Int /\ G[i] \in Int /\ G[i] = F[i]
      /\ G[n] \in Int
  BY <1>1
<1> HIDE DEF fee, F, G
<1>3. ASSUME NEW u \in Users
      PROVE  /\ Owed(x)[u] \in Int
             /\ Owed(y)[u] = Owed(x)[u] + IF u = dest THEN fee ELSE 0
  <2> DEFINE A == WonFor(x, u)
             B == WonFor(y, u)
  <2>1. A \in SUBSET Won(x) /\ n \notin A /\ B = IF u = dest THEN A \cup {n} ELSE A
    BY Zenon DEF WonFor
  <2>2. Owed(x)[u] = Sum(F, A) /\ Owed(y)[u] = Sum(G, B)
    BY Zenon DEF Owed, F, G
  <2> HIDE DEF A, B, dest
  <2>3. IsFiniteSet(A) /\ \A i \in A : F[i] \in Int /\ G[i] \in Int /\ G[i] = F[i]
    BY <1>2, <2>1, FS_Subset
  <2>4. Sum(G, A) = Sum(F, A)
    BY <2>3, SumSame
  <2>5. Sum(F, A) \in Int
    BY <2>3, SumInt
  <2>6. Sum(G, A \cup {n}) = Sum(G, A) + G[n]
    BY <1>2, <2>1, <2>3, SumAdd
  <2>7. CASE u = dest
    BY Zenon, <1>1, <2>1, <2>2, <2>4, <2>5, <2>6, <2>7
  <2>8. CASE u # dest
    BY <2>1, <2>2, <2>4, <2>5, <2>8
  <2>9. QED
    BY Zenon, <2>7, <2>8
<1>4. Sum(Owed(y), Users) = Sum(Owed(x), Users) + fee
  <2> DEFINE O == Owed(x)
             P == Owed(y)
  <2>1. /\ \A u \in Users : O[u] \in Int
        /\ P[dest] = O[dest] + fee /\ dest \in Users
        /\ \A u \in Users \ {dest} : P[u] = O[u] + 0
    BY Zenon, <1>1, <1>3
  <2> HIDE DEF O, P, dest
  <2>2. P[dest] \in Int /\ \A u \in Users \ {dest} : P[u] = O[u]
    BY <1>1, <2>1
  <2>3. Sum(P, Users) = Sum(O, Users) - O[dest] + P[dest]
    BY <2>1, <2>2, SumChange, BaseAssumption
  <2>4. Sum(O, Users) \in Int
    BY <2>1, SumInt, BaseAssumption
  <2>5. Sum(P, Users) = Sum(O, Users) + fee
    BY <1>1, <2>1, <2>3, <2>4
  <2>6. QED
    BY Zenon, <2>5 DEF O, P
<1>5. QED
  BY Zenon, <1>3, <1>4 DEF fee

LEMMA NextKeepsFees == IInv /\ SInv /\ FeesCredited /\ [Next]_vars => FeesCredited'
<1> SUFFICES ASSUME IInv, SInv, FeesCredited, [Next]_vars PROVE FeesCredited'
  BY Zenon
<1>1. FeesAt(registration, bank, totals)
  BY Zenon, FeesRestated
<1> SUFFICES FeesAt(registration', bank', totals')
  BY Zenon DEF FeesCredited, FeesAt, Owed, WonFor, Fees, Won
<1>2. CASE UNCHANGED <<bank, totals>> /\ Won(registration') = Won(registration)
           /\ \A i \in Won(registration) : registration'[i].facts = registration[i].facts
  BY Zenon, <1>1, <1>2, OwedSame DEF FeesAt
<1>3. CASE Attest
  <2>1. PICK v \in Val, k \in Keys : \E f \in Reports(v, k) : SubmitNameRegistration(v, k, f)
    BY Zenon, <1>3 DEF Attest
  <2>2. PICK f \in NameFacts : SubmitNameRegistration(v, k, f)
    BY Zenon, <2>1, ReportsAreFacts
  <2> DEFINE id == RegistrationId(k)
             r == AttestedRegistration(k, f, v)
  <2>3. WorksOn(id, r, v, k, f)
    BY Zenon, <2>2, AttestedFields
  <2>4. PICK e \in RegistrationRecords : Outcome(e, id, r, f)
    BY Zenon, <2>2, AttestOutcome
  <2> HIDE DEF id, r
  <2>5. /\ DOMAIN registration' = DOMAIN registration \cup {id} /\ registration'[id] = e
        /\ \A i \in DOMAIN registration : i # id => registration'[i] = registration[i]
    BY Zenon, <2>4 DEF Outcome, StoreRegistration
  <2>6. r.awaitingSince = 0 /\ id \notin Won(registration)
    BY Zenon, <2>3 DEF WorksOn, SInv, Phases, Won
  <2>7. \A i \in Won(registration) : registration'[i].facts = registration[i].facts
    BY Zenon, <2>5, <2>6 DEF Won
  <2>8. CASE e.status # "AWAITING"
    <3>1. e.awaitingSince = 0 /\ UNCHANGED <<bank, totals>>
      BY Zenon, <2>4, <2>6, <2>8 DEF Outcome
    <3>2. Won(registration') = Won(registration)
      BY Zenon, <2>5, <2>6, <3>1 DEF Won
    <3>3. QED
      BY Zenon, <1>2, <2>7, <3>1, <3>2
  <2>9. CASE e.status = "AWAITING"
    <3> DEFINE fee == MillisteemToAsteem(f.amount)
    <3>1. /\ e.facts = f /\ e.awaitingSince = height /\ NameClaimable(f) /\ CreditFee(f)
          /\ f.amount \in Nat /\ fee \in Nat
      BY Zenon, <2>4, <2>9, NameFactTypes, AsteemType DEF Outcome
    <3>2. /\ f.dest \in Users /\ bank' = CreditedBank(f.dest, "STEEM", f.amount, 0)
          /\ totals' = AddMinted("STEEM", fee)
          /\ ApplyBridgeFee(f.amount, 0) = [net |-> f.amount, fee |-> 0]
      BY Zenon, <3>1, CreditedIsUser DEF IInv, SInv
    <3>3. height # 0
      BY DEF IInv, Shape, SInv, Phases
    <3>4. Won(registration') = Won(registration) \cup {id}
      BY Zenon, <2>5, <2>6, <3>1, <3>3 DEF Won
    <3>5. IsFiniteSet(Won(registration))
      <4>1. Won(registration) \in SUBSET DOMAIN registration /\ DOMAIN registration = Ids(registrationSeq)
        BY Zenon DEF Won, IInv, Shape
      <4>2. IsFiniteSet(Ids(registrationSeq))
        BY FS_Interval DEF Ids, IInv, Shape
      <4>3. QED
        BY <4>1, <4>2, FS_Subset
    <3>6. \A i \in Won(registration) : registration[i].facts.amount \in Nat
      BY Zenon, AccountsOf, NameFactTypes DEF IInv, Won
    <3>7. registration'[id].facts = f
      BY Zenon, <2>5, <3>1
    <3>8. /\ \A u \in Users : Owed(registration')[u]
                = Owed(registration)[u] + IF u = f.dest THEN fee ELSE 0
          /\ Sum(Owed(registration'), Users) = Sum(Owed(registration), Users) + fee
      <4> DEFINE x == registration
                 y == registration'
      <4>1. /\ IsFiniteSet(Won(x)) /\ id \notin Won(x) /\ Won(y) = Won(x) \cup {id}
            /\ y[id].facts = f /\ f.dest \in Users /\ f.amount \in Nat
            /\ \A i \in Won(x) : x[i].facts.amount \in Nat /\ y[i].facts = x[i].facts
        BY Zenon, <2>6, <2>7, <3>1, <3>2, <3>4, <3>5, <3>6, <3>7
      <4> HIDE DEF x, y
      <4>2. /\ \A u \in Users :
                  Owed(y)[u] = Owed(x)[u]
                     + IF u = y[id].facts.dest THEN MillisteemToAsteem(y[id].facts.amount) ELSE 0
            /\ Sum(Owed(y), Users) = Sum(Owed(x), Users) + MillisteemToAsteem(y[id].facts.amount)
        BY ONLY <4>1, OwedMore
      <4>3. QED
        BY Zenon, <4>1, <4>2 DEF x, y
    <3>9. bank \in [Holders -> [Assets -> Nat]] /\ "STEEM" \in Assets
          /\ totals \in [minted : [Assets -> Nat], burned : [Assets -> Nat]]
      BY Zenon DEF SInv, StoreTypes, Assets
    <3>10. MillisteemToAsteem(0) = 0
      BY BaseAssumption DEF MillisteemToAsteem
    <3>11. ASSUME NEW h \in Holders
           PROVE  bank'[h]["STEEM"] = bank[h]["STEEM"]
                     + (IF h = BlackHole THEN fee - fee - 0 ELSE 0)
                     + (IF h = f.dest THEN fee ELSE 0)
                     + (IF h = BridgeReward THEN 0 ELSE 0)
      <4>1. ApplyBridgeFee(f.amount, 0).net = f.amount /\ ApplyBridgeFee(f.amount, 0).fee = 0
        BY <3>2
      <4>2. QED
        BY Zenon, <3>2, <3>9, <3>10, <4>1 DEF CreditedBank
    <3>12. totals'.minted["STEEM"] = totals.minted["STEEM"] + fee
      BY <3>2, <3>9 DEF AddMinted
    <3> HIDE DEF fee
    <3>13. \A u \in Users : bank'[u]["STEEM"] = bank[u]["STEEM"] + IF u = f.dest THEN fee ELSE 0
      <4> SUFFICES ASSUME NEW u \in Users
                   PROVE  bank'[u]["STEEM"] = bank[u]["STEEM"] + IF u = f.dest THEN fee ELSE 0
        BY Zenon
      <4>1. u \in Holders /\ u # BlackHole /\ bank[u]["STEEM"] \in Nat
        BY Zenon, <3>9, HoldersFinite
      <4>2. QED
        BY <3>1, <3>11, <4>1
    <3>14. bank'[BridgeReward]["STEEM"] = bank[BridgeReward]["STEEM"]
      <4>1. /\ BridgeReward \in Holders /\ BridgeReward # BlackHole /\ BridgeReward # f.dest
            /\ bank[BridgeReward]["STEEM"] \in Nat
        BY Zenon, <3>2, <3>9, HoldersFinite
      <4>2. QED
        BY <3>11, <4>1
    <3>15. QED
      <4>1. \A u \in Users : bank'[u]["STEEM"] = Owed(registration')[u]
        <5>1. \A u \in Users : bank[u]["STEEM"] = Owed(registration)[u]
          BY Zenon, <1>1 DEF FeesAt
        <5>2. ASSUME NEW u \in Users
              PROVE  bank'[u]["STEEM"] = Owed(registration')[u]
          <6>1. bank'[u]["STEEM"] = bank[u]["STEEM"] + IF u = f.dest THEN fee ELSE 0
            BY Zenon, <3>13
          <6>2. bank[u]["STEEM"] = Owed(registration)[u]
            BY Zenon, <5>1
          <6>3. Owed(registration')[u] = Owed(registration)[u] + IF u = f.dest THEN fee ELSE 0
            BY Zenon, <3>8
          <6>4. QED
            BY Zenon, <6>1, <6>2, <6>3
        <5>3. QED
          BY Zenon, <5>2
      <4>2. totals'.minted["STEEM"] = Sum(Owed(registration'), Users)
        BY Zenon, <1>1, <3>8, <3>12 DEF FeesAt
      <4>3. bank'[BridgeReward]["STEEM"] = 0
        BY Zenon, <1>1, <3>14 DEF FeesAt
      <4>4. QED
        BY Zenon, <4>1, <4>2, <4>3 DEF FeesAt
  <2>10. QED
    BY Zenon, <2>8, <2>9
<1>4. CASE Confirm
  <2>1. PICK u \in Users, id \in DOMAIN registration : ConfirmName(u, id)
    BY Zenon, <1>4 DEF Confirm
  <2>2. ConfirmChanges(u, id) /\ UNCHANGED <<bank, totals>>
    BY Zenon, <2>1, ConfirmEffect DEF IInv, ConfirmName, coinVars
  <2>3. /\ DOMAIN registration' = DOMAIN registration
        /\ \A i \in DOMAIN registration :
              /\ registration'[i].awaitingSince = registration[i].awaitingSince
              /\ registration'[i].facts = registration[i].facts
    BY Zenon, <2>2 DEF ConfirmChanges, IInv, Shape
  <2>4. QED
    BY Zenon, <1>2, <2>2, <2>3 DEF Won
<1>5. CASE NextBlock
  <2>1. ExpireChanges(ExpiringRegistrations) /\ UNCHANGED <<bank, totals>>
    BY Zenon, <1>5, ExpireEffect DEF IInv, NextBlock, coinVars
  <2>2. /\ DOMAIN registration' = DOMAIN registration
        /\ \A i \in DOMAIN registration :
              /\ registration'[i].awaitingSince = registration[i].awaitingSince
              /\ registration'[i].facts = registration[i].facts
    BY Zenon, <2>1 DEF ExpireChanges, IInv, Shape
  <2>3. QED
    BY Zenon, <1>2, <2>1, <2>2 DEF Won
<1>6. CASE Govern \/ Restake \/ UNCHANGED vars
  BY Zenon, <1>2, <1>6 DEF Govern, Restake, vars, baseVars, coinVars, nameVars
<1>7. QED
  BY Zenon, <1>3, <1>4, <1>5, <1>6 DEF Next

(***************************************************************************)
(* The name service creates coins only for registrations that reached the  *)
(* threshold with a destination, and gives that address the whole fee:     *)
(* nothing is held back as a bridge fee, and neither the confirmation nor  *)
(* the expiry of the registration moves a coin (resolveNameRegistration).  *)
(***************************************************************************)
THEOREM FeesInFull == Spec => []FeesCredited
<1>1. Init => FeesCredited
  <2> SUFFICES ASSUME Init PROVE FeesAt(registration, bank, totals)
    BY Zenon, FeesRestated
  <2>1. /\ DOMAIN registration = {} /\ bank = [h \in Holders |-> [a \in Assets |-> 0]]
        /\ "STEEM" \in Assets /\ totals.minted = [a \in Assets |-> 0]
    BY Zenon DEF Init, Assets
  <2>2. \A u : WonFor(registration, u) = {}
    BY Zenon, <2>1 DEF WonFor, Won
  <2>3. \A u \in Users : Owed(registration)[u] = 0
    BY Zenon, <2>2, SumEmpty DEF Owed
  <2>4. Sum(Owed(registration), Users) = 0
    BY Zenon, <2>3, SumZero, BaseAssumption
  <2>5. QED
    BY Zenon, <2>1, <2>3, <2>4, HoldersFinite DEF FeesAt
<1>2. QED
  BY <1>1, NextKeepsFees, Invariance, StoreInvariance, PTL DEF Spec

=============================================================================
