---------------------------- MODULE GatewayProofs ------------------------------
(***************************************************************************)
(* PaidOnce, the soundness of journals and denials, where the authority    *)
(* comes from, and the refinement of Payouts, for all accounts, stakes,    *)
(* lifetimes and faults under which quorums overlap.                       *)
(*                                                                         *)
(* The argument.  Two payouts of a withdrawal that both reach a threshold  *)
(* share a signer.  Its signatures are in its journal's file as long as    *)
(* they can matter to it, so while the first payout can still be executed  *)
(* the second conflicts; and once it no longer can, every pass of the      *)
(* signer begins with a history that shows it executed.                    *)
(*                                                                         *)
(* A payout is in time for another reason: whatever its expiration says,   *)
(* the pass that broadcasts it reviewed it, at most MaxSpan before, and    *)
(* Steem takes nothing that expires later than MaxAhead from then.         *)
(***************************************************************************)
EXTENDS Gateway, TLAPS

\* The time by which a acts: that of its pass.
Clock(a) == IF pass[a].step = "idle" THEN now ELSE pass[a].now

\* a has signed p, or is about to publish its approval.
HasSigned(a, p) ==
    \/ p \in ballot[a].yes
    \/ \E b \in late[a] : p \in b.yes
    \/ p \in pass[a].new.yes
    \/ \E tx \in pool : a \in tx.sigs /\ p = tx.of
    \/ \E b \in Accounts : \E tx \in pass[b].send : a \in tx.sigs /\ p = tx.of

Same(p, q) == p # q /\ Subject(p) = Subject(q)

\* A signature that can still matter to a is in its file and its journal.
OnFile ==
    \A a \in Accounts :
        /\ \A p \in Proposals : HasSigned(a, p) /\ Clock(a) < Expiration(p) => p \in saved[a]
        /\ \A p \in saved[a] : Clock(a) < Expiration(p) => p \in journal[a]

\* A journal never holds two live approvals of one subject.
OneEach ==
    \A a \in Accounts : \A p, q \in journal[a] :
        Same(p, q) => now >= Expiration(p) \/ now >= Expiration(q)

\* A pass knows what had been executed and expired when it began.
Informed ==
    \A a \in Accounts :
        pass[a].step = "synced" =>
            \A p \in executed : Expiration(p) <= pass[a].now => p \in pass[a].done

\* S vouches for p: it holds p, and nothing live besides it on its subject.
Vouches(S, p) ==
    \A a \in S :
        /\ Clock(a) < Expiration(p) => p \in saved[a]
        /\ \A q \in journal[a] : Same(p, q) => now >= Expiration(q)

Vouched ==
    \A p \in executed : p.kind = "payout" => \E S \in Quorums : Vouches(S, p)

\* Approvals are of what was right when they were given.
Deadline(id) == owed[id].createdAt + Timeout
Right(p) == p.exact /\ (p.kind = "payout" => owed[p.of].status # "NONE")
AllRight == \A a \in Accounts : \A p \in journal[a] \cup saved[a] : Right(p)

\* The chain settles a withdrawal once it is paid, or overdue.
Settled ==
    \A id \in Wids :
        /\ owed[id].status = "PROCESSED" => id \in PaidBy(executed)
        /\ owed[id].status = "REFUNDED" => Deadline(id) < height

\* No time lies ahead.
Known == {p \in Proposals : p.at <= now}
Consistent(b) ==
    /\ b \in [props : SUBSET Known, yes : SUBSET Known, no : SUBSET Known]
    /\ b.yes \cap b.no = {}
Past ==
    /\ height <= Speed * now
    /\ executed \subseteq Known
    /\ \A a \in Accounts :
          /\ pass[a].now <= now
          /\ Consistent(ballot[a]) /\ Consistent(pass[a].new)
          /\ \A b \in late[a] : Consistent(b)
          /\ \A tx \in pass[a].send : tx.of \in Known
          /\ journal[a] \subseteq Known /\ saved[a] \subseteq Known
    /\ \A tx \in pool : tx.of \in Known

\* The authority is one of those that quorums are taken of.
Ruled == auth \in {AuthorityFor[s] : s \in DOMAIN AuthorityFor}

IInv ==
    /\ TypeOK /\ Past /\ OnFile /\ OneEach /\ Informed /\ Vouched /\ AllRight /\ Settled
    /\ Ruled /\ PaidOnce

-----------------------------------------------------------------------------
(***************************************************************************)
(* Proposals have a time, and expire.                                      *)
(***************************************************************************)
LEMMA ProposalTypes ==
    ASSUME NEW p \in Proposals
    PROVE  /\ p.at \in 0 .. MaxTime /\ p.exact \in BOOLEAN /\ Expiration(p) \in Int
           /\ p.kind \in {"payout", "update"}
           /\ p.kind = "payout" => p.of \in Wids
           /\ p.kind = "update" => p.of \in Snapshots
  BY GatewayAssumption DEF Proposals, Expiration

\* Constants that are numbers.
LEMMA Numbers ==
    /\ Life \in Nat /\ PruneAfter \in Nat /\ PayoutMarginBlocks \in Nat /\ Timeout \in Nat
    /\ OwnerCooldown \in Nat /\ MaxTime \in Nat /\ Speed \in Nat
    /\ MaxSpan \in Nat /\ MaxAhead \in Nat /\ Speed * (MaxSpan + MaxAhead) \in Nat
    /\ MaxHeight \in Nat /\ Never \in Int /\ SnapshotLag \in Nat
  <1>1. /\ Life \in Nat /\ PruneAfter \in Nat /\ PayoutMarginBlocks \in Nat /\ Timeout \in Nat
        /\ OwnerCooldown \in Nat /\ MaxTime \in Nat /\ Speed \in Nat /\ SnapshotLag \in Nat
        /\ MaxSpan \in Nat /\ MaxAhead \in Nat
    BY Zenon, GatewayAssumption
  <1>2. \A m, n \in Nat : m * n \in Nat
    OBVIOUS
  <1>. QED BY <1>1, <1>2 DEF MaxHeight, Never

\* Multiplication by a natural number keeps the order.
LEMMA TimesMonotone ==
    ASSUME NEW i \in Nat, NEW j \in Int, NEW k \in Int, j <= k
    PROVE  i * j <= i * k /\ i * j \in Int /\ i * k \in Int
  OBVIOUS

(***************************************************************************)
(* A step that leaves the journals alone, signs nothing and turns no clock *)
(* back keeps what is said of journals, files and signatures.              *)
(***************************************************************************)
LEMMA Quiet ==
    ASSUME TypeOK, OnFile, OneEach, now' >= now, now' \in Int,
           journal' = journal, saved' = saved,
           \A a \in Accounts : Clock(a) \in Int /\ Clock(a)' \in Int /\ Clock(a)' >= Clock(a),
           \A a \in Accounts : \A p \in Proposals : HasSigned(a, p)' => HasSigned(a, p)
    PROVE  /\ OnFile' /\ OneEach'
           /\ \A S \in SUBSET Accounts : \A p \in Proposals : Vouches(S, p) => Vouches(S, p)'
  <1>. \A a \in Accounts : journal[a] \subseteq Proposals /\ saved[a] \subseteq Proposals
    BY Zenon DEF TypeOK
  <1>. now \in Int
    BY DEF TypeOK
  <1>. \A p \in Proposals : Expiration(p) \in Int /\ Expiration(p)' = Expiration(p)
    BY Zenon, ProposalTypes DEF Expiration
  <1>1. OnFile'
    BY DEF OnFile
  <1>2. OneEach'
    BY DEF OneEach, Same, Subject
  <1>3. ASSUME NEW S \in SUBSET Accounts, NEW p \in Proposals, Vouches(S, p)
        PROVE  Vouches(S, p)'
    BY <1>3 DEF Vouches, Same, Subject
  <1>. QED BY Zenon, <1>1, <1>2, <1>3

PassRecords ==
    [step : {"idle", "synced", "publish", "execute"}, now : 0 .. MaxTime,
     done : SUBSET Proposals, changedAt : {Never} \cup 0 .. MaxTime,
     new : Ballots, send : SUBSET Transactions]

\* An empty ballot is a ballot.
LEMMA EmptyIsBallot ==
    /\ EmptyBallot \in Ballots /\ EmptyBallot.yes = {} /\ Consistent(EmptyBallot)
    /\ Idle \in PassRecords /\ Idle.step = "idle" /\ Idle.now = 0
    /\ Idle.new = EmptyBallot /\ Idle.send = {}
  BY Numbers DEF EmptyBallot, Ballots, Idle, PassRecords, Consistent

(***************************************************************************)
(* The rest of a pass keeps its time, and has nothing but what it is given.*)
(***************************************************************************)
RestOf(o, t, new, send) ==
    /\ o \in PassRecords /\ o.step \in {"idle", "publish", "execute"}
    /\ o.step # "idle" => o.now = t
    /\ o.now \in {0, t}
    /\ o.new \in {new, EmptyBallot} /\ o.send \in {send, {}}

LEMMA OnwardIsPass ==
    ASSUME NEW v, v.now \in 0 .. MaxTime, NEW new \in Ballots, NEW send \in SUBSET Transactions
    PROVE  RestOf(Onward(v, new, send), v.now, new, send)
  <1>1. CASE new # EmptyBallot
    BY Zenon, <1>1, EmptyIsBallot DEF Onward, Idle, PassRecords, RestOf
  <1>2. CASE new = EmptyBallot /\ send # {}
    BY Zenon, <1>2, EmptyIsBallot DEF Onward, Idle, PassRecords, RestOf
  <1>3. CASE new = EmptyBallot /\ send = {}
    BY Zenon, <1>3, EmptyIsBallot DEF Onward, RestOf
  <1>. QED BY Zenon, <1>1, <1>2, <1>3

\* Clocks do not run ahead.
LEMMA ClockTypes ==
    ASSUME TypeOK, Past, NEW a \in Accounts
    PROVE  Clock(a) \in Nat /\ Clock(a) <= now /\ now \in Nat /\ pass[a].now \in Nat
  BY Numbers DEF TypeOK, Past, Clock

(***************************************************************************)
(* The authority of a snapshot is one of those that quorums are taken of.  *)
(***************************************************************************)
LEMMA DesiredType ==
    ASSUME stakeAt \in StakeHistories, NEW n \in 0 .. MaxHeight
    PROVE  DesiredAt(n) \in {AuthorityFor[s] : s \in DOMAIN AuthorityFor}
  <1>1. DOMAIN stakeAt = 0 .. MaxHeight
    BY Zenon, GatewayAssumption
  <1>2. stakeAt[n] \in {stakeAt[m] : m \in DOMAIN stakeAt}
    BY Zenon, <1>1
  <1>. DEFINE D == UNION {{h[m] : m \in DOMAIN h} : h \in StakeHistories}
  <1>3. stakeAt[n] \in D
    BY Zenon, <1>2
  <1>4. DOMAIN AuthorityFor = D
    BY Zenon DEF AuthorityFor
  <1>. QED BY Zenon, <1>3, <1>4 DEF DesiredAt

(***************************************************************************)
(* The initial states satisfy the invariant.                               *)
(***************************************************************************)
LEMMA InitInv == Init => IInv
  <1>. SUFFICES ASSUME Init PROVE IInv
    BY Zenon
  <1>1. TypeOK
    <2>1. 0 \in 0 .. MaxHeight /\ 0 \in 0 .. MaxTime
      BY Numbers
    <2>3. auth \in {AuthorityFor[s] : s \in DOMAIN AuthorityFor}
      BY Zenon, <2>1, DesiredType DEF Init
    <2>4. pass \in [Accounts -> PassRecords]
      BY Zenon, EmptyIsBallot DEF Init
    <2>5. ballot \in [Accounts -> Ballots]
      BY Zenon, EmptyIsBallot DEF Init
    <2>. QED BY Zenon, <2>1, <2>3, <2>4, <2>5 DEF Init, TypeOK, PassRecords
  <1>2. Past
    BY EmptyIsBallot, Numbers DEF Init, Past
  <1>3. \A a \in Accounts : \A p \in Proposals : ~HasSigned(a, p)
    BY Zenon, EmptyIsBallot DEF Init, HasSigned
  <1>4. OnFile /\ OneEach /\ Informed /\ Vouched /\ AllRight /\ PaidOnce
    BY Zenon, <1>3, EmptyIsBallot DEF Init, OnFile, OneEach, Informed, Vouched, AllRight, PaidOnce
  <1>5. Settled
    BY Zenon DEF Init, Settled
  <1>6. Ruled
    <2>1. 0 \in 0 .. MaxHeight
      BY Numbers
    <2>. QED BY Zenon, <2>1, DesiredType DEF Init, Ruled
  <1>. QED BY Zenon, <1>1, <1>2, <1>4, <1>5, <1>6 DEF IInv

-----------------------------------------------------------------------------
(* Steps that execute nothing and leave the journals alone. *)

\* A step that signs, executes and forgets nothing keeps the invariant.
LEMMA QuietStep ==
    ASSUME IInv, TypeOK', Past',
           UNCHANGED <<now, height, owed, auth, executed, journal, saved>>,
           \A b \in Accounts : Clock(b)' >= Clock(b),
           \A b \in Accounts : \A p \in Proposals : HasSigned(b, p)' => HasSigned(b, p),
           \A b \in Accounts : \/ pass'[b].step # "synced" \/ pass'[b] = pass[b]
                               \/ pass'[b].done = executed
    PROVE  IInv'
  <1>1. \A b \in Accounts : Clock(b) \in Int /\ Clock(b)' \in Int
    <2>. TAKE b \in Accounts
    <2>1. Clock(b) \in Int
      BY ClockTypes DEF IInv
    <2>2. pass'[b].now \in Int /\ now' \in Int
      BY Numbers DEF TypeOK
    <2>. QED BY Zenon, <2>1, <2>2 DEF Clock
  <1>2. /\ OnFile' /\ OneEach'
        /\ \A S \in SUBSET Accounts : \A p \in Proposals : Vouches(S, p) => Vouches(S, p)'
    <2>1. now' \in Int /\ now' >= now
      BY Numbers DEF IInv, TypeOK
    <2>. QED BY Zenon, <1>1, <2>1, Quiet DEF IInv
  <1>3. Informed'
    BY Zenon DEF IInv, Informed, Expiration
  <1>4. Vouched'
    <2>1. executed \subseteq Proposals /\ Quorums \subseteq SUBSET Accounts /\ Quorums' = Quorums
      BY Zenon DEF IInv, TypeOK, Quorums, AuthorityFor
    <2>. QED BY Zenon, <1>2, <2>1 DEF IInv, Vouched
  <1>5. AllRight' /\ Settled' /\ Ruled' /\ PaidOnce'
    BY Zenon DEF IInv, AllRight, Right, Settled, Deadline, PaidBy, Ruled, AuthorityFor, PaidOnce
  <1>. QED BY Zenon, <1>2, <1>3, <1>4, <1>5 DEF IInv

\* A pass of a that becomes o, which has nothing new.
LEMMA PassTypes ==
    ASSUME IInv, NEW a \in Accounts, NEW o \in PassRecords,
           pass' = [pass EXCEPT ![a] = o], now' = now,
           o.now <= now, o.step # "idle" => o.now >= Clock(a)
    PROVE  /\ pass' \in [Accounts -> PassRecords]
           /\ pass'[a] = o /\ \A b \in Accounts \ {a} : pass'[b] = pass[b]
           /\ \A b \in Accounts : pass'[b].now <= now'
           /\ \A b \in Accounts : Clock(b)' >= Clock(b)
  <1>1. pass \in [Accounts -> PassRecords]
    BY Zenon DEF IInv, TypeOK, PassRecords
  <1>2. pass'[a] = o /\ \A b \in Accounts \ {a} : pass'[b] = pass[b]
    BY Zenon, <1>1
  <1>3. \A b \in Accounts : Clock(b) \in Nat /\ Clock(b) <= now /\ now \in Nat
    BY Zenon, ClockTypes DEF IInv
  <1>. QED BY <1>1, <1>2, <1>3 DEF Clock, IInv, Past

\* Reading the head time and the history (Sync).
LEMMA SyncInv ==
    ASSUME IInv, NEW a \in Accounts, Sync(a)
    PROVE  IInv'
  <1>. DEFINE o == [Idle EXCEPT !.step = "synced", !.now = now, !.done = executed,
                                !.changedAt = changedAt]
  <1>1. /\ pass[a].step = "idle" /\ pass' = [pass EXCEPT ![a] = o]
        /\ UNCHANGED <<now, height, stakeAt, owed, fleet, auth, changedAt, executed, ballot,
                       late, pool, journal, saved, faults>>
    BY Zenon DEF Sync, Pass, svmVars, steemVars
  <1>2. /\ o \in PassRecords /\ o.now = now /\ o.done = executed /\ o.new = EmptyBallot
        /\ o.send = {} /\ o.step = "synced"
    BY Zenon, EmptyIsBallot DEF IInv, TypeOK, Idle, PassRecords
  <1>3. /\ pass' \in [Accounts -> PassRecords]
        /\ pass'[a] = o /\ \A b \in Accounts \ {a} : pass'[b] = pass[b]
        /\ \A b \in Accounts : pass'[b].now <= now'
        /\ \A b \in Accounts : Clock(b)' >= Clock(b)
    <2>1. o.now <= now /\ o.now >= Clock(a)
      BY <1>2, ClockTypes DEF IInv
    <2>. HIDE DEF o
    <2>. QED BY Zenon, <1>1, <1>2, <2>1, PassTypes
  <1>. HIDE DEF o
  <1>4. TypeOK'
    BY Zenon, <1>1, <1>3 DEF IInv, TypeOK, PassRecords
  <1>5. Past'
    BY <1>1, <1>2, <1>3, EmptyIsBallot DEF IInv, Past, Known, Consistent
  <1>6. \A b \in Accounts : \A p \in Proposals : HasSigned(b, p)' => HasSigned(b, p)
    BY Zenon, <1>1, <1>2, <1>3, EmptyIsBallot DEF HasSigned
  <1>. QED BY Zenon, <1>1, <1>2, <1>3, <1>4, <1>5, <1>6, QuietStep

\* What is published holds old and new votes, and never both on a proposal.
LEMMA MergedBallot ==
    ASSUME TypeOK, NEW x, Consistent(x), NEW y, Consistent(y), NEW cut,
           NEW b, b = PrunedBallot(Merged(x, y), cut)
    PROVE  b \in Ballots /\ Consistent(b) /\ b.yes \subseteq x.yes \cup y.yes
  <1>. DEFINE m == Merged(x, y)
  <1>1. /\ m.yes = (x.yes \ y.no) \cup y.yes /\ m.no = (x.no \ y.yes) \cup y.no
        /\ m.props = x.props \cup y.props
    BY Zenon DEF Merged
  <1>. HIDE DEF m
  <1>2. /\ b.yes \subseteq m.yes /\ b.no \subseteq m.no /\ b.props \subseteq m.props
        /\ b = [props |-> b.props, yes |-> b.yes, no |-> b.no]
    BY Zenon DEF PrunedBallot, Pruned, m
  <1>3. Known \subseteq Proposals
    BY Zenon DEF Known
  <1>4. /\ b.yes \subseteq Known /\ b.no \subseteq Known /\ b.props \subseteq Known
        /\ b.yes \cap b.no = {} /\ b.yes \subseteq x.yes \cup y.yes
    BY Zenon, <1>1, <1>2 DEF Consistent
  <1>. QED BY Zenon, <1>2, <1>3, <1>4 DEF Consistent, Ballots

\* Publishing a ballot, at once or late (publish).
LEMMA PublishInv ==
    ASSUME IInv, NEW a \in Accounts, Publish(a)
    PROVE  IInv'
  <1>. DEFINE o == Onward(pass[a], EmptyBallot, pass[a].send)
  <1>1. /\ pass[a].step = "publish" /\ pass' = [pass EXCEPT ![a] = o]
        /\ UNCHANGED <<now, height, stakeAt, owed, fleet, auth, changedAt, executed,
                       pool, journal, saved>>
    BY Zenon DEF Publish, Pass, svmVars, steemVars
  <1>2. pass[a].now \in 0 .. MaxTime /\ pass[a].send \in SUBSET Transactions
    BY Zenon DEF IInv, TypeOK
  <1>3. /\ o \in PassRecords /\ o.step \in {"idle", "publish", "execute"}
        /\ o.step # "idle" => o.now = pass[a].now
        /\ o.now \in {0, pass[a].now}
        /\ o.new = EmptyBallot /\ o.send \in {pass[a].send, {}}
    <2>1. RestOf(o, pass[a].now, EmptyBallot, pass[a].send)
      BY Zenon, <1>2, OnwardIsPass, EmptyIsBallot
    <2>. HIDE DEF o
    <2>. QED BY Zenon, <2>1 DEF RestOf
  <1>. HIDE DEF o
  <1>4. /\ pass' \in [Accounts -> PassRecords]
        /\ pass'[a] = o /\ \A b \in Accounts \ {a} : pass'[b] = pass[b]
        /\ \A b \in Accounts : pass'[b].now <= now'
        /\ \A b \in Accounts : Clock(b)' >= Clock(b)
    <2>1. o.now <= now /\ (o.step # "idle" => o.now >= Clock(a))
      BY <1>1, <1>3, ClockTypes DEF IInv, Clock
    <2>. QED BY Zenon, <1>1, <1>3, <2>1, PassTypes
  <1>5. PICK b : /\ b \in Ballots /\ Consistent(b) /\ b.yes \subseteq ballot[a].yes \cup pass[a].new.yes
                 /\ \/ ballot' = [ballot EXCEPT ![a] = b] /\ UNCHANGED <<late, faults>>
                    \/ /\ late' \in {late, [late EXCEPT ![a] = {b}]} /\ UNCHANGED ballot
                       /\ faults' = faults + 1
    <2>1. PICK cut \in (pass[a].now - PruneAfter) .. pass[a].now :
            LET b == PrunedBallot(Merged(ballot[a], pass[a].new), cut)
            IN  \/ ballot' = [ballot EXCEPT ![a] = b] /\ UNCHANGED <<late, faults>>
                \/ /\ late' \in {late, [late EXCEPT ![a] = {b}]} /\ UNCHANGED ballot
                   /\ faults' = faults + 1
      BY Zenon DEF Publish
    <2>. DEFINE b == PrunedBallot(Merged(ballot[a], pass[a].new), cut)
    <2>2. b \in Ballots /\ Consistent(b) /\ b.yes \subseteq ballot[a].yes \cup pass[a].new.yes
      BY MergedBallot DEF IInv, Past
    <2>. HIDE DEF b
    <2>. QED BY Zenon, <2>1, <2>2 DEF b
  <1>6. /\ ballot' \in [Accounts -> Ballots] /\ late' \in [Accounts -> SUBSET Ballots]
        /\ \A c \in Accounts : Consistent(ballot'[c]) /\ \A d \in late'[c] : Consistent(d)
        /\ \A c \in Accounts \ {a} : ballot'[c] = ballot[c] /\ late'[c] = late[c]
        /\ ballot'[a] \in {ballot[a], b} /\ late'[a] \in {late[a], {b}}
        /\ faults' \in Nat
    <2>1. /\ ballot \in [Accounts -> Ballots] /\ late \in [Accounts -> SUBSET Ballots]
          /\ faults \in Nat
          /\ \A c \in Accounts : Consistent(ballot[c]) /\ \A d \in late[c] : Consistent(d)
      BY Zenon DEF IInv, TypeOK, Past
    <2>2. CASE ballot' = [ballot EXCEPT ![a] = b] /\ UNCHANGED <<late, faults>>
      BY Zenon, <1>5, <2>1, <2>2
    <2>3. CASE /\ late' \in {late, [late EXCEPT ![a] = {b}]} /\ UNCHANGED ballot
               /\ faults' = faults + 1
      BY <1>5, <2>1, <2>3
    <2>. QED BY Zenon, <1>5, <2>2, <2>3
  <1>7. Known' = Known
    BY Zenon, <1>1 DEF Known
  <1>8. Past'
    <2>1. /\ height' <= Speed * now' /\ executed' \subseteq Known'
          /\ \A tx \in pool' : tx.of \in Known'
      BY Zenon, <1>1, <1>7 DEF IInv, Past
    <2>2. \A c \in Accounts : Consistent(ballot[c])' /\ \A d \in late'[c] : Consistent(d)'
      BY Zenon, <1>6, <1>7 DEF Consistent
    <2>3. \A c \in Accounts : Consistent(pass[c].new)' /\ \A tx \in pass'[c].send : tx.of \in Known'
      BY Zenon, <1>3, <1>4, <1>7, EmptyIsBallot DEF IInv, Past, Consistent
    <2>. QED BY Zenon, <1>1, <1>4, <1>7, <2>1, <2>2, <2>3 DEF IInv, Past
  <1>9. TypeOK'
    BY Zenon, <1>1, <1>4, <1>6 DEF IInv, TypeOK, PassRecords, Consistent
  <1>10. \A c \in Accounts : \A p \in Proposals : HasSigned(c, p)' => HasSigned(c, p)
    BY SMTT(60), <1>1, <1>3, <1>4, <1>5, <1>6, EmptyIsBallot DEF HasSigned
  <1>. QED BY Zenon, <1>1, <1>3, <1>4, <1>8, <1>9, <1>10, QuietStep

\* The end of a pass (Run).
LEMMA EndPassInv ==
    ASSUME IInv, NEW a \in Accounts, EndPass(a)
    PROVE  IInv'
  <1>1. /\ pass' = [pass EXCEPT ![a] = Idle] /\ faults' \in Nat
        /\ UNCHANGED <<now, height, stakeAt, owed, fleet, auth, changedAt, executed, ballot,
                       late, pool, journal, saved>>
    BY DEF EndPass, Pass, svmVars, steemVars, IInv, TypeOK
  <1>2. /\ pass' \in [Accounts -> PassRecords]
        /\ pass'[a] = Idle /\ \A b \in Accounts \ {a} : pass'[b] = pass[b]
        /\ \A b \in Accounts : pass'[b].now <= now'
        /\ \A b \in Accounts : Clock(b)' >= Clock(b)
    <2>1. now \in Nat
      BY Zenon, ClockTypes DEF IInv
    <2>2. Idle \in PassRecords /\ Idle.now <= now /\ Idle.step = "idle" /\ now' = now
      BY SMTT(60), <1>1, <2>1, EmptyIsBallot
    <2>. QED BY ZenonT(40), <1>1, <2>2, PassTypes
  <1>3. TypeOK'
    BY Zenon, <1>1, <1>2 DEF IInv, TypeOK, PassRecords
  <1>4. Past'
    BY <1>1, <1>2, EmptyIsBallot DEF IInv, Past, Known, Consistent
  <1>5. \A b \in Accounts : \A p \in Proposals : HasSigned(b, p)' => HasSigned(b, p)
    BY Zenon, <1>1, <1>2, EmptyIsBallot DEF HasSigned
  <1>. QED BY Zenon, <1>1, <1>2, <1>3, <1>4, <1>5, EmptyIsBallot, QuietStep

\* Steps of Steem and of people change ballots only.
LEMMA BallotStep ==
    ASSUME IInv, NEW a \in Accounts,
           UNCHANGED <<now, height, stakeAt, owed, fleet, auth, changedAt, executed, pool,
                       signerVars, faults>>,
           NEW b \in Ballots, Consistent(b), ballot' = [ballot EXCEPT ![a] = b],
           late' = [late EXCEPT ![a] = {}] \/ UNCHANGED late,
           b.yes \subseteq ballot[a].yes \cup UNION {d.yes : d \in late[a]}
    PROVE  IInv'
  <1>1. UNCHANGED <<now, height, stakeAt, owed, fleet, auth, changedAt, executed, pool,
                    pass, journal, saved, faults>>
    BY Zenon DEF signerVars
  <1>2. /\ ballot' \in [Accounts -> Ballots] /\ late' \in [Accounts -> SUBSET Ballots]
        /\ \A c \in Accounts \ {a} : ballot'[c] = ballot[c]
        /\ ballot'[a] = b /\ \A c \in Accounts : late'[c] \subseteq late[c]
    <2>1. ballot \in [Accounts -> Ballots] /\ late \in [Accounts -> SUBSET Ballots]
      BY Zenon DEF IInv, TypeOK
    <2>2. late' \in [Accounts -> SUBSET Ballots] /\ \A c \in Accounts : late'[c] \subseteq late[c]
      BY Zenon, <2>1
    <2>. QED BY Zenon, <2>1, <2>2
  <1>3. TypeOK'
    BY Zenon, <1>1, <1>2 DEF IInv, TypeOK, Consistent
  <1>4. Past'
    <2>1. \A c \in Accounts : Consistent(ballot[c])' /\ \A d \in late'[c] : Consistent(d)'
      BY <1>1, <1>2 DEF IInv, Past, Consistent, Known
    <2>. QED BY SMTT(60), <1>1, <2>1 DEF IInv, Past, Known, Consistent
  <1>5. \A c \in Accounts : \A p \in Proposals : HasSigned(c, p)' => HasSigned(c, p)
    <2>. SUFFICES ASSUME NEW c \in Accounts, NEW p \in Proposals, HasSigned(c, p)'
                  PROVE  HasSigned(c, p)
      BY Zenon
    <2>1. p \in ballot'[c].yes => p \in ballot[c].yes \/ \E d \in late[c] : p \in d.yes
      <3>1. \A q \in b.yes : q \in ballot[a].yes \/ \E d \in late[a] : q \in d.yes
        BY Zenon
      <3>. QED BY Zenon, <1>2, <3>1
    <2>2. (\E d \in late'[c] : p \in d.yes) => \E d \in late[c] : p \in d.yes
      BY Zenon, <1>2
    <2>3. pass' = pass /\ pool' = pool
      BY Zenon, <1>1
    <2>. QED BY Zenon, <2>1, <2>2, <2>3 DEF HasSigned
  <1>6. \A c \in Accounts : Clock(c)' >= Clock(c)
    BY <1>1, ClockTypes DEF Clock, IInv
  <1>. QED BY Zenon, <1>1, <1>3, <1>4, <1>5, <1>6, QuietStep

\* A late publication.
LEMMA ArriveInv ==
    ASSUME IInv, NEW a \in Accounts, Arrive(a)
    PROVE  IInv'
  <1>1. PICK b \in late[a] : ballot' = [ballot EXCEPT ![a] = b]
    BY Zenon DEF Arrive
  <1>2. b \in Ballots /\ Consistent(b)
    BY Zenon DEF IInv, TypeOK, Past
  <1>3. b.yes \subseteq ballot[a].yes \cup UNION {d.yes : d \in late[a]}
    BY Zenon
  <1>. QED BY Zenon, <1>1, <1>2, <1>3, BallotStep DEF Arrive, svmVars, steemVars

\* A proposal made by hand.
LEMMA PublishByHandInv ==
    ASSUME IInv, PublishByHand
    PROVE  IInv'
  <1>1. PICK h \in HandMade :
            h[2].at = now /\ ballot' = [ballot EXCEPT ![h[1]].props = @ \cup {h[2]}]
    BY Zenon DEF PublishByHand
  <1>2. h[1] \in Accounts /\ h[2] \in Known
    <2>1. h[1] \in Accounts /\ h[2] \in Proposals
      BY Zenon, GatewayAssumption
    <2>2. now \in Int
      BY DEF IInv, TypeOK
    <2>. QED BY <1>1, <2>1, <2>2 DEF Known
  <1>. DEFINE x == ballot[h[1]]
              b == [x EXCEPT !.props = @ \cup {h[2]}]
  <1>3. ballot' = [ballot EXCEPT ![h[1]] = b]
    BY Zenon, <1>1
  <1>4. x \in Ballots /\ Consistent(x)
    BY Zenon, <1>2 DEF IInv, TypeOK, Past
  <1>5. b \in Ballots /\ Consistent(b) /\ b.yes = x.yes
    BY Zenon, <1>2, <1>4 DEF Ballots, Consistent, Known
  <1>6. b.yes \subseteq ballot[h[1]].yes \cup UNION {d.yes : d \in late[h[1]]}
    BY Zenon, <1>5
  <1>. HIDE DEF b
  <1>. QED BY Zenon, <1>2, <1>3, <1>5, <1>6, BallotStep DEF PublishByHand, svmVars, steemVars

(***************************************************************************)
(* A step of the chain's withdrawals alone leaves what is said of         *)
(* approvals, as long as a withdrawal that has one stays what it is.       *)
(***************************************************************************)
LEMMA OwedStep ==
    ASSUME IInv,
           UNCHANGED <<now, height, stakeAt, fleet, auth, changedAt, executed, ballot, late, pool,
                       pass, journal, saved, faults>>,
           owed' \in [Wids -> [status : {"NONE", "REQUESTED", "PROCESSED", "REFUNDED"},
                               createdAt : 0 .. MaxHeight]],
           \A id \in Wids : owed[id].status # "NONE" =>
               owed'[id].status # "NONE" /\ owed'[id].createdAt = owed[id].createdAt,
           Settled'
    PROVE  IInv'
  <1>1. TypeOK'
    BY Zenon DEF IInv, TypeOK
  <1>2. Past'
    BY DEF IInv, Past, Known, Consistent
  <1>3. OnFile' /\ OneEach' /\ Informed' /\ Vouched' /\ PaidOnce'
    <2>1. /\ \A a \in Accounts : Clock(a)' = Clock(a)
          /\ \A a \in Accounts : \A p \in Proposals : HasSigned(a, p)' = HasSigned(a, p)
      BY Zenon DEF Clock, HasSigned
    <2>2. Quorums' = Quorums /\ Quorums \subseteq SUBSET Accounts
      BY Zenon DEF Quorums, AuthorityFor
    <2>3. \A S \in SUBSET Accounts, p \in executed : Vouches(S, p) => Vouches(S, p)'
      BY Zenon, <2>1 DEF Vouches, Same, Subject, Expiration
    <2>4. OnFile'
      BY Zenon, <2>1 DEF IInv, OnFile, Expiration
    <2>5. OneEach' /\ Informed' /\ PaidOnce'
      BY Zenon DEF IInv, OneEach, Informed, PaidOnce, Same, Subject, Expiration
    <2>. QED BY Zenon, <2>2, <2>3, <2>4, <2>5 DEF IInv, Vouched
  <1>4. AllRight'
    <2>1. \A a \in Accounts : \A p \in journal[a] \cup saved[a] : p \in Proposals
      BY Zenon DEF IInv, TypeOK
    <2>2. \A p \in Proposals : p.kind = "payout" => p.of \in Wids
      BY Zenon, ProposalTypes
    <2>. QED BY <2>1, <2>2 DEF IInv, AllRight, Right, Deadline
  <1>5. Ruled'
    BY Zenon DEF IInv, Ruled, AuthorityFor
  <1>. QED BY Zenon, <1>1, <1>2, <1>3, <1>4, <1>5 DEF IInv

\* A new withdrawal (BridgeOut).
LEMMA RequestInv ==
    ASSUME IInv, Request
    PROVE  IInv'
  <1>1. PICK id \in Wids :
            /\ owed[id].status = "NONE"
            /\ owed' = [owed EXCEPT ![id] = [status |-> "REQUESTED", createdAt |-> height]]
    BY Zenon DEF Request
  <1>2. owed' \in [Wids -> [status : {"NONE", "REQUESTED", "PROCESSED", "REFUNDED"},
                            createdAt : 0 .. MaxHeight]]
    BY Zenon, <1>1 DEF IInv, TypeOK
  <1>3. \A w \in Wids : owed[w].status # "NONE" => owed'[w] = owed[w]
    BY Zenon, <1>1 DEF IInv, TypeOK
  <1>4. Settled'
    BY Zenon, <1>1 DEF IInv, TypeOK, Settled, Deadline, PaidBy, Request, steemVars
  <1>. QED BY Zenon, <1>2, <1>3, <1>4, OwedStep DEF Request, steemVars, signerVars

\* A payout attested on the chain (AttestWithdrawalPayout).
LEMMA ProcessInv ==
    ASSUME IInv, Process
    PROVE  IInv'
  <1>1. PICK id \in PaidBy(executed) :
            /\ owed[id].status = "REQUESTED"
            /\ owed' = [owed EXCEPT ![id].status = "PROCESSED"]
    BY Zenon DEF Process
  <1>2. id \in Wids
    BY Zenon, ProposalTypes DEF PaidBy, IInv, TypeOK
  <1>3. owed' \in [Wids -> [status : {"NONE", "REQUESTED", "PROCESSED", "REFUNDED"},
                            createdAt : 0 .. MaxHeight]]
    BY <1>1, <1>2 DEF IInv, TypeOK
  <1>4. \A w \in Wids : /\ w # id => owed'[w] = owed[w]
                        /\ owed'[w].createdAt = owed[w].createdAt
    BY Zenon, <1>1, <1>2 DEF IInv, TypeOK
  <1>5. owed'[id].status = "PROCESSED"
    BY Zenon, <1>1, <1>2 DEF IInv, TypeOK
  <1>6. Settled'
    BY <1>1, <1>4, <1>5 DEF IInv, Settled, Deadline, PaidBy, Process, steemVars
  <1>. QED BY Zenon, <1>3, <1>4, <1>5, <1>6, OwedStep DEF Process, steemVars, signerVars

\* Time goes on, and the chain refunds (RefundExpiredWithdrawals).
LEMMA TickInv ==
    ASSUME IInv, Tick
    PROVE  IInv'
  <1>1. PICK n \in Speeds : height' = height + n
    BY Zenon DEF Tick
  <1>2. /\ now' = now + 1 /\ now < MaxTime /\ now \in Nat /\ height \in Nat
        /\ n \in 0 .. Speed /\ Speed \in Nat /\ MaxTime \in Nat
        /\ height <= Speed * now
        /\ UNCHANGED <<stakeAt, fleet, auth, changedAt, executed, ballot, late, pass, journal,
                       saved, faults>>
    BY GatewayAssumption, Numbers DEF Tick, IInv, TypeOK, Past, signerVars
  <1>3. height' \in 0 .. MaxHeight /\ height' <= Speed * now'
    <2>1. Speed * now' = Speed * now + Speed
      BY <1>2
    <2>2. \A i, j, k \in Nat : j <= k => i * j <= i * k
      OBVIOUS
    <2>3. Speed * now' <= Speed * MaxTime
      BY <1>2, <2>2
    <2>4. Speed * now \in Nat /\ Speed * now' \in Nat /\ Speed * MaxTime \in Nat
      BY <1>2
    <2>. QED BY <1>1, <1>2, <2>1, <2>3, <2>4 DEF MaxHeight
  <1>4. /\ owed' \in [Wids -> [status : {"NONE", "REQUESTED", "PROCESSED", "REFUNDED"},
                               createdAt : 0 .. MaxHeight]]
        /\ \A id \in Wids :
              /\ owed'[id].createdAt = owed[id].createdAt
              /\ \/ owed'[id].status = owed[id].status
                 \/ /\ owed[id].status = "REQUESTED" /\ owed'[id].status = "REFUNDED"
                    /\ owed[id].createdAt + Timeout < height'
    <2>1. PICK swept \in SUBSET {id \in Wids : /\ owed[id].status = "REQUESTED"
                                             /\ owed[id].createdAt + Timeout < height'} :
              owed' = [id \in Wids |-> IF id \in swept
                                         THEN [owed[id] EXCEPT !.status = "REFUNDED"]
                                         ELSE owed[id]]
      BY Zenon DEF Tick
    <2>. QED BY <2>1 DEF IInv, TypeOK
  <1>5. pool' \subseteq pool
    BY Zenon DEF Tick
  <1>6. Known \subseteq Known'
    <2>. SUFFICES ASSUME NEW p \in Proposals, p.at <= now PROVE p.at <= now'
      BY Zenon DEF Known
    <2>. QED BY <1>2, ProposalTypes
  <1>7. TypeOK'
    BY <1>2, <1>3, <1>4, <1>5 DEF IInv, TypeOK
  <1>8. Past'
    <2>1. \A a \in Accounts : pass'[a].now <= now'
      BY <1>2, ClockTypes DEF IInv, Past
    <2>2. \A a \in Accounts : /\ Consistent(ballot[a])' /\ Consistent(pass[a].new)'
                              /\ \A b \in late'[a] : Consistent(b)'
      BY <1>2, <1>6 DEF IInv, Past, Consistent
    <2>. QED BY Zenon, <1>2, <1>3, <1>5, <1>6, <2>1, <2>2 DEF IInv, Past
  <1>9. /\ OnFile' /\ OneEach'
        /\ \A S \in SUBSET Accounts : \A p \in Proposals : Vouches(S, p) => Vouches(S, p)'
    <2>1. \A a \in Accounts : Clock(a) \in Int /\ Clock(a)' \in Int /\ Clock(a)' >= Clock(a)
      BY <1>2, ClockTypes DEF IInv, Clock
    <2>2. \A a \in Accounts : \A p \in Proposals : HasSigned(a, p)' => HasSigned(a, p)
      BY Zenon, <1>2, <1>5 DEF HasSigned
    <2>. QED BY <1>2, <2>1, <2>2, Quiet DEF IInv
  <1>10. Vouched'
    <2>1. executed \subseteq Proposals /\ Quorums \subseteq SUBSET Accounts /\ Quorums' = Quorums
      BY Zenon DEF IInv, TypeOK, Quorums, AuthorityFor
    <2>. QED BY Zenon, <1>2, <1>9, <2>1 DEF IInv, Vouched
  <1>11. Informed' /\ PaidOnce'
    BY Zenon, <1>2 DEF IInv, Informed, PaidOnce, Expiration
  <1>12. AllRight' /\ Ruled'
    <2>1. \A p \in Proposals : Right(p) => Right(p)'
      BY Zenon, <1>4, ProposalTypes DEF Right
    <2>. QED BY Zenon, <1>2, <2>1 DEF IInv, AllRight, TypeOK, Ruled, AuthorityFor
  <1>13. Settled'
    <2>1. \A id \in Wids : Deadline(id)' = Deadline(id) /\ Deadline(id) \in Int
      BY <1>4, Numbers DEF Deadline, IInv, TypeOK
    <2>. QED BY <1>1, <1>2, <1>4, <2>1 DEF IInv, Settled, PaidBy, Deadline
  <1>. QED BY Zenon, <1>7, <1>8, <1>9, <1>10, <1>11, <1>12, <1>13 DEF IInv

\* A crash and a start with the journal on file (LoadJournal).
LEMMA RestartInv ==
    ASSUME IInv, NEW a \in Accounts, Restart(a)
    PROVE  IInv'
  <1>1. /\ pass' = [pass EXCEPT ![a] = Idle] /\ faults' \in Nat
        /\ journal' = [journal EXCEPT ![a] = saved[a]]
        /\ UNCHANGED <<now, height, stakeAt, owed, fleet, auth, changedAt, executed, ballot,
                       late, pool, saved>>
    BY DEF Restart, svmVars, steemVars, IInv, TypeOK
  <1>2. now \in Nat /\ \A b \in Accounts : Clock(b) \in Nat /\ Clock(b) <= now
    BY Zenon, ClockTypes DEF IInv
  <1>3. /\ pass' \in [Accounts -> PassRecords]
        /\ pass'[a] = Idle /\ \A b \in Accounts \ {a} : pass'[b] = pass[b]
        /\ \A b \in Accounts : pass'[b].now <= now'
        /\ \A b \in Accounts : Clock(b)' >= Clock(b)
    <2>1. Idle \in PassRecords /\ Idle.now <= now /\ Idle.step = "idle" /\ now' = now
      BY <1>1, <1>2, EmptyIsBallot
    <2>. QED BY ZenonT(40), <1>1, <2>1, PassTypes
  <1>4. /\ journal' \in [Accounts -> SUBSET Proposals] /\ journal'[a] = saved[a]
        /\ \A b \in Accounts \ {a} : journal'[b] = journal[b]
        /\ \A b \in Accounts : saved[b] \subseteq Proposals /\ journal[b] \subseteq Proposals
    BY Zenon, <1>1 DEF IInv, TypeOK
  <1>5. TypeOK'
    BY ZenonT(40), <1>1, <1>3, <1>4 DEF IInv, TypeOK, PassRecords
  <1>6. Past'
    <2>1. Known' = Known
      BY Zenon, <1>1 DEF Known
    <2>2. \A b \in Accounts : Consistent(pass[b].new)' /\ \A tx \in pass'[b].send : tx.of \in Known'
      BY Zenon, <1>3, <2>1, EmptyIsBallot DEF IInv, Past, Consistent
    <2>3. \A b \in Accounts : Consistent(ballot[b])' /\ \A d \in late'[b] : Consistent(d)'
      BY Zenon, <1>1, <2>1 DEF IInv, Past, Consistent
    <2>4. \A b \in Accounts : journal'[b] \subseteq Known' /\ saved'[b] \subseteq Known'
      BY Zenon, <1>1, <1>4, <2>1 DEF IInv, Past
    <2>. QED BY Zenon, <1>1, <1>3, <2>1, <2>2, <2>3, <2>4 DEF IInv, Past
  <1>7. \A b \in Accounts : \A p \in Proposals : HasSigned(b, p)' => HasSigned(b, p)
    BY Zenon, <1>1, <1>3, EmptyIsBallot DEF HasSigned
  <1>8. \A p \in Proposals : Expiration(p) \in Int /\ Expiration(p)' = Expiration(p)
    BY Zenon, ProposalTypes DEF Expiration
  <1>9. \A b \in Accounts : Clock(b)' \in Int
    BY <1>1, <1>2, <1>3, Numbers DEF Clock, PassRecords
  \* What is live in the file is in the journal.
  <1>10. \A b \in Accounts : \A p \in journal'[b] :
            p \in Proposals /\ (p \in journal[b] \/ now >= Expiration(p))
    BY SMTT(60), <1>2, <1>4, <1>8 DEF IInv, OnFile
  <1>11. OnFile'
    <2>. SUFFICES ASSUME NEW b \in Accounts
                  PROVE  /\ \A p \in Proposals : HasSigned(b, p)' /\ Clock(b)' < Expiration(p)
                                => p \in saved'[b]
                         /\ \A p \in saved'[b] : Clock(b)' < Expiration(p) => p \in journal'[b]
      BY Zenon, <1>1, <1>4, <1>8 DEF OnFile
    <2>1. /\ Clock(b)' >= Clock(b) /\ Clock(b) \in Nat /\ Clock(b)' \in Int
          /\ \A p \in Proposals : Expiration(p) \in Int
      BY Zenon, <1>2, <1>3, <1>8, <1>9
    <2>2. \A p \in Proposals : Clock(b)' < Expiration(p) => Clock(b) < Expiration(p)
      BY ONLY <2>1
    <2>3. /\ \A p \in Proposals : HasSigned(b, p) /\ Clock(b) < Expiration(p) => p \in saved[b]
          /\ \A p \in saved[b] : Clock(b) < Expiration(p) => p \in journal[b]
      BY Zenon DEF IInv, OnFile
    <2>4. /\ saved'[b] = saved[b] /\ saved[b] \subseteq Proposals
          /\ journal'[b] = saved[b] \/ journal'[b] = journal[b]
      BY Zenon, <1>1, <1>4
    <2>. QED BY Zenon, <1>7, <2>2, <2>3, <2>4
  <1>12. OneEach'
    BY Zenon, <1>1, <1>2, <1>8, <1>10 DEF IInv, OneEach, Same, Subject
  <1>13. Informed'
    BY Zenon, <1>1, <1>3, EmptyIsBallot DEF IInv, Informed, Expiration
  <1>14. Vouched'
    <2>1. executed \subseteq Proposals /\ Quorums \subseteq SUBSET Accounts /\ Quorums' = Quorums
      BY ZenonT(40) DEF IInv, TypeOK, Quorums, AuthorityFor
    <2>2. ASSUME NEW S \in SUBSET Accounts, NEW p \in Proposals, Vouches(S, p)
          PROVE  Vouches(S, p)'
      BY SMTT(60), <1>1, <1>2, <1>3, <1>8, <1>9, <1>10, <2>2 DEF Vouches, Same, Subject
    <2>. QED BY Zenon, <1>1, <2>1, <2>2 DEF IInv, Vouched
  <1>15. AllRight' /\ Settled' /\ Ruled' /\ PaidOnce'
    BY <1>1, <1>4 DEF IInv, AllRight, Right, Settled, Deadline, PaidBy, Ruled, AuthorityFor, PaidOnce
  <1>. QED BY Zenon, <1>5, <1>6, <1>11, <1>12, <1>13, <1>14, <1>15 DEF IInv

-----------------------------------------------------------------------------
(* Inclusion in a block of Steem. *)

(***************************************************************************)
(* A transaction that Steem accepts is signed by a quorum that vouches for *)
(* it, and exact; if it is a payout, it is the first of a withdrawal that  *)
(* is still owed or refunded.                                              *)
(***************************************************************************)
LEMMA Inclusion ==
    ASSUME IInv, NEW tx \in Transactions, Accepts(tx),
           \A a \in tx.sigs : HasSigned(a, tx.of)
    PROVE  /\ tx.sigs \in Quorums /\ Vouches(tx.sigs, tx.of) /\ tx.of.exact
           /\ tx.of.kind = "payout" =>
                 /\ \A p \in executed : p.kind = "payout" => p.of # tx.of.of
                 /\ owed[tx.of.of].status \in {"REQUESTED", "REFUNDED"}
  <1>. DEFINE q == tx.of
  <1>1. q \in Proposals /\ tx.sigs \in SUBSET Accounts
    BY Zenon DEF Transactions
  <1>2. now < Expiration(q) /\ q \notin executed /\ WeightOf(auth, tx.sigs) >= auth.threshold
    BY Zenon DEF Accepts
  <1>3. tx.sigs \in Quorums
    BY Zenon, <1>1, <1>2 DEF Quorums, IInv, Ruled
  <1>4. now \in Nat /\ \A a \in Accounts : Clock(a) \in Nat /\ Clock(a) <= now
    BY Zenon, ClockTypes, <1>3, OverlapAssumption DEF IInv, Quorums, TypeOK
  <1>5. \A a \in tx.sigs : q \in saved[a] /\ q \in journal[a]
    BY <1>1, <1>2, <1>4, ProposalTypes DEF IInv, OnFile
  <1>6. Vouches(tx.sigs, q)
    <2>. SUFFICES ASSUME NEW a \in tx.sigs, NEW r \in journal[a], Same(q, r)
                  PROVE  now >= Expiration(r)
      BY Zenon, <1>5 DEF Vouches
    <2>1. now >= Expiration(q) \/ now >= Expiration(r)
      BY Zenon, <1>1, <1>5 DEF IInv, OneEach
    <2>. QED BY <1>1, <1>2, <1>4, <2>1, ProposalTypes
  <1>7. PICK a \in Accounts : q \in journal[a]
    BY Zenon, <1>1, <1>3, <1>5, OverlapAssumption
  <1>8. q.exact /\ (q.kind = "payout" => owed[q.of].status # "NONE")
    BY Zenon, <1>7 DEF IInv, AllRight, Right
  <1>9. ASSUME q.kind = "payout"
        PROVE  /\ \A p \in executed : p.kind = "payout" => p.of # q.of
               /\ owed[q.of].status \in {"REQUESTED", "REFUNDED"}
    <2>1. ASSUME NEW p \in executed, p.kind = "payout", p.of = q.of
          PROVE  FALSE
      <3>1. PICK S \in Quorums : Vouches(S, p)
        BY Zenon, <2>1 DEF IInv, Vouched
      <3>2. PICK b : b \in S /\ b \in tx.sigs
        BY Zenon, <1>3, OverlapAssumption
      <3>3. Same(p, q)
        BY Zenon, <1>2, <1>9, <2>1 DEF Same, Subject
      <3>4. now >= Expiration(q)
        BY Zenon, <1>5, <3>1, <3>2, <3>3 DEF Vouches
      <3>. QED BY <1>1, <1>2, <1>4, <3>4, ProposalTypes
    <2>2. q.of \in Wids
      BY Zenon, <1>1, <1>9, ProposalTypes
    <2>3. q.of \notin PaidBy(executed)
      BY Zenon, <2>1 DEF PaidBy
    <2>4. owed[q.of].status # "PROCESSED"
      BY Zenon, <2>2, <2>3 DEF IInv, Settled
    <2>5. owed[q.of].status \in {"NONE", "REQUESTED", "PROCESSED", "REFUNDED"}
      BY Zenon, <2>2 DEF IInv, TypeOK
    <2>. QED BY Zenon, <1>8, <1>9, <2>1, <2>4, <2>5
  <1>. QED BY Zenon, <1>3, <1>6, <1>8, <1>9

\* The new authority is one of those that quorums are taken of.
LEMMA IncludedTypes ==
    ASSUME IInv, NEW tx \in Transactions, Accepts(tx), Included(tx),
           \A a \in tx.sigs : HasSigned(a, tx.of), UNCHANGED <<now, stakeAt>>
    PROVE  /\ auth' \in {AuthorityFor[s] : s \in DOMAIN AuthorityFor}
           /\ changedAt' \in {Never} \cup 0 .. MaxTime
           /\ executed' \subseteq Proposals
  <1>1. tx.of \in Proposals /\ (tx.of.kind # "payout" => tx.of.of \in 0 .. MaxHeight)
    BY ProposalTypes DEF Transactions, Snapshots
  <1>2. tx.of.kind # "payout" =>
            DesiredAt(tx.of.of) \in {AuthorityFor[s] : s \in DOMAIN AuthorityFor}
    BY Zenon, <1>1, DesiredType DEF IInv, TypeOK
  <1>3. tx.of.exact
    BY Zenon, Inclusion
  <1>. QED BY Zenon, <1>1, <1>2, <1>3 DEF Included, IInv, Ruled, TypeOK

LEMMA InclusionStep ==
    ASSUME IInv, NEW tx \in Transactions, Accepts(tx), Included(tx),
           \A b \in tx.sigs : HasSigned(b, tx.of), tx.of \in Known,
           TypeOK', Past', UNCHANGED <<now, height, owed, stakeAt, journal, saved>>,
           \A b \in Accounts : Clock(b)' >= Clock(b),
           \A b \in Accounts : \A p \in Proposals : HasSigned(b, p)' => HasSigned(b, p),
           \A b \in Accounts : pass'[b].step # "synced" \/ pass'[b] = pass[b]
    PROVE  IInv'
  <1>1. /\ tx.sigs \in Quorums /\ Vouches(tx.sigs, tx.of)
        /\ tx.of.kind = "payout" => \A p \in executed : p.kind = "payout" => p.of # tx.of.of
    BY Zenon, Inclusion
  <1>2. executed' = executed \cup {tx.of} /\ tx.of \in Proposals
    BY Zenon DEF Included, Transactions
  <1>3. now \in Nat /\ \A b \in Accounts : Clock(b) \in Int /\ Clock(b)' \in Int /\ pass[b].now <= now
    <2>1. now \in Nat /\ \A b \in Accounts : Clock(b) \in Nat /\ pass[b].now <= now
      <3>1. now \in 0 .. MaxTime /\ \A b \in Accounts : Clock(b) \in Nat /\ pass[b].now <= now
        BY Zenon, ClockTypes DEF IInv, TypeOK, Past
      <3>. QED BY ONLY <3>1, Numbers
    <2>2. \A b \in Accounts : pass'[b].now \in Int
      <3>1. \A b \in Accounts : pass'[b].now \in 0 .. MaxTime
        BY Zenon DEF TypeOK
      <3>. QED BY ONLY <3>1, Numbers
    <2>3. now' = now
      OBVIOUS
    <2>. QED BY ONLY <2>1, <2>2, <2>3 DEF Clock
  <1>4. /\ OnFile' /\ OneEach'
        /\ \A S \in SUBSET Accounts : \A p \in Proposals : Vouches(S, p) => Vouches(S, p)'
    <2>1. /\ now' >= now /\ now' \in Int
          /\ TypeOK /\ OnFile /\ OneEach /\ journal' = journal /\ saved' = saved
      <3>1. now' = now
        OBVIOUS
      <3>2. now' >= now /\ now' \in Int
        BY ONLY <1>3, <3>1
      <3>. QED BY Zenon, <3>2 DEF IInv
    <2>. QED BY Zenon, <1>3, <2>1, Quiet
  <1>5. Vouched'
    <2>1. executed \subseteq Proposals /\ Quorums \subseteq SUBSET Accounts /\ Quorums' = Quorums
      BY Zenon DEF IInv, TypeOK, Quorums, AuthorityFor
    <2>. QED BY Zenon, <1>1, <1>2, <1>4, <2>1 DEF IInv, Vouched
  <1>6. Informed'
    <2>1. now < Expiration(tx.of) /\ Expiration(tx.of) \in Int
      BY Zenon, <1>2, ProposalTypes DEF Accepts
    <2>2. \A b \in Accounts : pass[b].now \in Int
      BY ClockTypes DEF IInv
    <2>. QED BY <1>2, <1>3, <2>1, <2>2 DEF IInv, Informed, Expiration
  <1>7. AllRight' /\ Ruled'
    <2>1. auth' \in {AuthorityFor[s] : s \in DOMAIN AuthorityFor}
      BY Zenon, IncludedTypes
    <2>. QED BY Zenon, <2>1 DEF IInv, AllRight, Right, Ruled, AuthorityFor
  <1>8. Settled'
    <2>1. PaidBy(executed) \subseteq PaidBy(executed')
      BY Zenon, <1>2 DEF PaidBy
    <2>. QED BY Zenon, <2>1 DEF IInv, Settled, Deadline, PaidBy
  <1>9. PaidOnce'
    BY Zenon, <1>1, <1>2 DEF IInv, PaidOnce
  <1>. QED BY Zenon, <1>4, <1>5, <1>6, <1>7, <1>8, <1>9 DEF IInv

\* Broadcasting what is ready (execute).
LEMMA ExecuteInv ==
    ASSUME IInv, NEW a \in Accounts, Execute(a)
    PROVE  IInv'
  <1>. DEFINE rest(tx) == {t \in pass[a].send : t # tx /\ t.of.at >= tx.of.at}
  <1>1. PICK tx \in pass[a].send :
            /\ \/ Accepts(tx) /\ Included(tx) /\ UNCHANGED <<pool, faults>>
               \/ /\ Accepts(tx) /\ pool' = pool \cup {tx} /\ faults' = faults + 1
                  /\ UNCHANGED <<executed, auth, changedAt>>
               \/ ~Accepts(tx) /\ UNCHANGED <<executed, auth, changedAt, pool, faults>>
            /\ Pass(a, "execute", Onward(pass[a], EmptyBallot, rest(tx)))
    BY Zenon DEF Execute
  <1>. DEFINE o == Onward(pass[a], EmptyBallot, rest(tx))
  <1>2. /\ pass[a].step = "execute" /\ pass' = [pass EXCEPT ![a] = o]
        /\ UNCHANGED <<now, height, stakeAt, owed, fleet, ballot, late, journal, saved>>
    BY Zenon, <1>1 DEF Execute, Pass, svmVars
  <1>3. /\ tx \in Transactions /\ pass[a].now \in 0 .. MaxTime
        /\ rest(tx) \in SUBSET Transactions /\ rest(tx) \subseteq pass[a].send
    BY Zenon DEF IInv, TypeOK
  <1>. HIDE DEF rest
  <1>4. /\ o \in PassRecords /\ o.step \in {"idle", "publish", "execute"}
        /\ o.step # "idle" => o.now = pass[a].now
        /\ o.now \in {0, pass[a].now}
        /\ o.new = EmptyBallot /\ o.send \subseteq pass[a].send
    <2>1. /\ o \in PassRecords /\ o.step \in {"idle", "publish", "execute"}
          /\ o.step # "idle" => o.now = pass[a].now
          /\ o.now \in {0, pass[a].now}
          /\ o.new = EmptyBallot /\ o.send \in {rest(tx), {}}
      <3>1. EmptyBallot \in Ballots
        BY Zenon, EmptyIsBallot
      <3>2. RestOf(o, pass[a].now, EmptyBallot, rest(tx))
        BY Zenon, <1>3, <3>1, OnwardIsPass
      <3>. HIDE DEF o
      <3>. QED BY Zenon, <3>2 DEF RestOf
    <2>. QED BY ZenonT(40), <1>3, <2>1
  <1>. HIDE DEF o
  <1>5. /\ pass' \in [Accounts -> PassRecords]
        /\ pass'[a] = o /\ \A b \in Accounts \ {a} : pass'[b] = pass[b]
        /\ \A b \in Accounts : pass'[b].now <= now'
        /\ \A b \in Accounts : Clock(b)' >= Clock(b)
    <2>1. o.now <= now /\ (o.step # "idle" => o.now >= Clock(a))
      <3>1. /\ Clock(a) \in Nat /\ Clock(a) <= now /\ now \in Nat /\ pass[a].now \in Nat
            /\ Clock(a) = pass[a].now
        BY Zenon, <1>2, ClockTypes DEF IInv, Clock
      <3>. QED BY ONLY <1>4, <3>1
    <2>. QED BY ZenonT(40), <1>2, <1>4, <2>1, PassTypes
  <1>6. tx.of \in Known /\ \A b \in tx.sigs : HasSigned(b, tx.of)
    BY Zenon, <1>3 DEF IInv, Past, HasSigned
  <1>7. Known' = Known
    BY Zenon, <1>2 DEF Known
  <1>8. /\ pool' \subseteq Transactions /\ \A t \in pool' : t \in pool \/ t = tx
        /\ executed' \subseteq executed \cup {tx.of} /\ faults' \in Nat
        /\ auth' \in {AuthorityFor[s] : s \in DOMAIN AuthorityFor}
        /\ changedAt' \in {Never} \cup 0 .. MaxTime
        /\ executed' \subseteq Proposals
    <2>1. /\ pool \subseteq Transactions /\ faults \in Nat /\ executed \subseteq Proposals
          /\ auth \in {AuthorityFor[s] : s \in DOMAIN AuthorityFor}
          /\ changedAt \in {Never} \cup 0 .. MaxTime /\ faults + 1 \in Nat
      <3>1. faults \in Nat
        BY Zenon DEF IInv, TypeOK
      <3>2. faults + 1 \in Nat
        BY ONLY <3>1
      <3>. QED BY Zenon, <3>2 DEF IInv, TypeOK, Ruled
    <2>2. ASSUME Accepts(tx), Included(tx)
          PROVE  /\ executed' \subseteq executed \cup {tx.of} /\ executed' \subseteq Proposals
                 /\ auth' \in {AuthorityFor[s] : s \in DOMAIN AuthorityFor}
                 /\ changedAt' \in {Never} \cup 0 .. MaxTime
      BY Zenon, <1>2, <1>3, <1>6, <2>1, <2>2, IncludedTypes DEF IInv, Included
    <2>. QED BY ZenonT(40), <1>1, <1>3, <2>1, <2>2
  <1>9. TypeOK'
    BY Zenon, <1>2, <1>3, <1>5, <1>6, <1>8 DEF IInv, TypeOK, PassRecords, Known
  <1>10. Past'
    <2>1. \A c \in Accounts : Consistent(pass[c].new)' /\ \A t \in pass'[c].send : t.of \in Known'
      BY <1>4, <1>5, <1>7, EmptyIsBallot DEF IInv, Past, Consistent
    <2>2. \A c \in Accounts : Consistent(ballot[c])' /\ \A d \in late'[c] : Consistent(d)'
      BY Zenon, <1>2, <1>7 DEF IInv, Past, Consistent
    <2>. QED BY ZenonT(40), <1>2, <1>5, <1>6, <1>7, <1>8, <2>1, <2>2 DEF IInv, Past
  <1>11. \A c \in Accounts : \A p \in Proposals : HasSigned(c, p)' => HasSigned(c, p)
    BY ZenonT(40), <1>2, <1>4, <1>5, <1>8, EmptyIsBallot DEF HasSigned
  <1>12. CASE Accepts(tx) /\ Included(tx)
    BY Zenon, <1>2, <1>3, <1>4, <1>5, <1>6, <1>9, <1>10, <1>11, <1>12, InclusionStep
  <1>13. CASE UNCHANGED <<executed, auth>>
    BY Zenon, <1>2, <1>4, <1>5, <1>9, <1>10, <1>11, <1>13, QuietStep
  <1>. QED BY Zenon, <1>1, <1>12, <1>13

\* A broadcast that is included late.
LEMMA IncludeLateInv ==
    ASSUME IInv, IncludeLate
    PROVE  IInv'
  <1>1. PICK tx \in pool : Accepts(tx) /\ Included(tx) /\ pool' = pool \ {tx}
    BY Zenon DEF IncludeLate
  <1>2. UNCHANGED <<now, height, stakeAt, owed, fleet, ballot, late, pass, journal, saved, faults>>
    BY Zenon DEF IncludeLate, svmVars, signerVars
  <1>3. tx \in Transactions /\ tx.of \in Known /\ \A b \in tx.sigs : HasSigned(b, tx.of)
    BY Zenon DEF IInv, TypeOK, Past, HasSigned
  <1>4. TypeOK'
    <2>1. /\ auth' \in {AuthorityFor[s] : s \in DOMAIN AuthorityFor}
          /\ changedAt' \in {Never} \cup 0 .. MaxTime /\ executed' \subseteq Proposals
      BY ZenonT(40), <1>1, <1>2, <1>3, IncludedTypes
    <2>. QED BY ZenonT(40), <1>1, <1>2, <2>1 DEF IInv, TypeOK
  <1>5. Past'
    <2>1. Known' = Known /\ executed' = executed \cup {tx.of}
      BY Zenon, <1>1, <1>2 DEF Known, Included
    <2>2. \A c \in Accounts : /\ Consistent(ballot[c])' /\ Consistent(pass[c].new)'
                              /\ \A d \in late'[c] : Consistent(d)'
      BY Zenon, <1>2, <2>1 DEF IInv, Past, Consistent
    <2>. QED BY Zenon, <1>1, <1>2, <1>3, <2>1, <2>2 DEF IInv, Past
  <1>6. \A c \in Accounts : \A p \in Proposals : HasSigned(c, p)' => HasSigned(c, p)
    BY Zenon, <1>1, <1>2 DEF HasSigned
  <1>7. \A c \in Accounts : Clock(c)' >= Clock(c)
    BY <1>2, ClockTypes DEF Clock, IInv
  <1>. QED BY Zenon, <1>1, <1>2, <1>3, <1>4, <1>5, <1>6, <1>7, InclusionStep

-----------------------------------------------------------------------------
(* Votes and proposals. *)

\* What a pass has read, by field.
LEMMA SeenFields ==
    ASSUME IInv, NEW a \in Accounts, NEW v, v = Seen(a)
    PROVE  /\ v.now = pass[a].now /\ v.done = pass[a].done /\ v.auth = auth
           /\ v.ballots = ballot /\ v.height = height
           /\ v.requested = {id \in Wids : owed[id].status = "REQUESTED"}
           /\ Members(v.auth) \subseteq Accounts
           /\ v.now \in 0 .. MaxTime
           /\ Visible(v) \subseteq Known
  <1>1. /\ v.now = pass[a].now /\ v.done = pass[a].done /\ v.auth = auth
        /\ v.ballots = ballot /\ v.height = height
        /\ v.requested = {id \in Wids : owed[id].status = "REQUESTED"}
    BY Zenon DEF Seen
  <1>2. Members(v.auth) \subseteq Accounts /\ v.now \in 0 .. MaxTime
    BY Zenon, <1>1 DEF Members, IInv, TypeOK
  <1>3. \A b \in Accounts : ballot[b].props \subseteq Known
    BY Zenon DEF IInv, Past, Consistent
  <1>4. ASSUME NEW p \in Visible(v)
        PROVE  p \in Known
    <2>1. PICK b \in Members(v.auth) : p \in v.ballots[b].props
      BY Zenon, <1>4 DEF Visible
    <2>. QED BY Zenon, <1>1, <1>2, <1>3, <2>1
  <1>. QED BY Zenon, <1>1, <1>2, <1>4

\* What a sends is signed with approvals that have been published.
LEMMA ExecutableSigned ==
    ASSUME IInv, NEW a \in Accounts, NEW entries, NEW tx \in Executable(a, Seen(a), entries)
    PROVE  /\ tx \in Transactions /\ tx.of \in Known
           /\ \A b \in tx.sigs : tx.of \in ballot[b].yes
  <1>. DEFINE v == Seen(a)
  <1>1. PICK p \in Visible(v) : tx = [of |-> p, sigs |-> MinimalSignatures(v, p)]
    BY Zenon DEF Executable
  <1>2. /\ Visible(v) \subseteq Known /\ v.ballots = ballot
        /\ Members(v.auth) \subseteq Accounts
    BY Zenon, SeenFields
  <1>. HIDE DEF v
  <1>3. p \in Known /\ p \in Proposals
    BY Zenon, <1>2 DEF Known
  <1>4. \A b \in MinimalSignatures(v, p) : b \in Members(v.auth) /\ p \in v.ballots[b].yes
    BY Zenon DEF MinimalSignatures, Approvers
  <1>. QED BY Zenon, <1>1, <1>2, <1>3, <1>4 DEF Transactions

\* What is approved: right, not paid, and without a live conflict.
Fit(a, p) ==
    /\ \A q \in journal[a] : Same(p, q) => pass[a].now >= Expiration(q)
    /\ p.exact
    /\ p.kind = "payout" =>
          p.of \notin PaidBy(pass[a].done) /\ owed[p.of].status = "REQUESTED"

LEMMA ApprovedFit ==
    ASSUME IInv, NEW a \in Accounts, NEW p \in Approved(Verdicts(a, Seen(a)))
    PROVE  /\ p \in Known /\ p \in Visible(Seen(a)) /\ Live(Seen(a), p) /\ Fit(a, p)
           /\ \A q \in Approved(Verdicts(a, Seen(a))) : ~Same(p, q)
  <1>. DEFINE v == Seen(a)
              w == Verdicts(a, v)
  <1>0. /\ v.now = pass[a].now /\ v.done = pass[a].done /\ v.height = height
        /\ v.requested = {id \in Wids : owed[id].status = "REQUESTED"}
        /\ Visible(v) \subseteq Known /\ Known \subseteq Proposals /\ v.ballots = ballot
    BY Zenon, SeenFields DEF Known
  <1>10. p \in Approved(w)
    BY Zenon
  <1>. HIDE DEF v
  <1>1. p \in DOMAIN w /\ w[p] = "approve"
    BY Zenon, <1>10 DEF Approved
  <1>2. /\ p \in Undecided(a, v) /\ Review(v, p, journal[a], ballot[a].yes) = "approve"
    BY Zenon, <1>0, <1>1 DEF Verdicts
  <1>3. p \in Visible(v) /\ Live(v, p) /\ p \in Known /\ p \in Proposals
    BY Zenon, <1>0, <1>2 DEF Undecided
  <1>30. v.now \in Int /\ \A q \in journal[a] : Expiration(q) \in Int
    <2>1. pass[a].now \in Nat /\ TypeOK
      BY Zenon, ClockTypes DEF IInv
    <2>2. journal[a] \subseteq Proposals
      BY Zenon, <2>1 DEF TypeOK
    <2>3. \A q \in Proposals : Expiration(q) \in Int
      BY Zenon, ProposalTypes
    <2>. QED BY <1>0, <2>1, <2>2, <2>3
  <1>4. ASSUME p.kind = "payout" PROVE Fit(a, p)
    <2>1. PayoutFacts(v, p) = "approve" /\ ~Conflicts(Subject(p), journal[a] \ {p}, v.now)
      BY <1>2, <1>4, Zenon DEF Review, ReviewTransfer
    <2>2. /\ ~AlreadyPaid(v, p.of) /\ p.exact
          /\ p.of \in v.requested \/ owed[p.of].status = "REQUESTED"
      BY Zenon, <2>1 DEF PayoutFacts
    <2>3. p.of \notin PaidBy(pass[a].done) /\ owed[p.of].status = "REQUESTED"
      BY Zenon, <1>0, <2>2 DEF AlreadyPaid
    <2>5. \A q \in journal[a] : Same(p, q) => v.now >= Expiration(q)
      <3>1. \A q \in journal[a] : Same(p, q) => ~(v.now < Expiration(q))
        BY Zenon, <2>1 DEF Conflicts, Same
      <3>. QED BY ONLY <1>30, <3>1
    <2>. QED BY Zenon, <1>0, <2>2, <2>3, <2>5 DEF Fit
  <1>5. ASSUME p.kind # "payout" PROVE Fit(a, p)
    <2>1. ~Conflicts(Subject(p), journal[a] \ {p}, v.now) /\ p.exact
      BY <1>2, <1>5, Zenon DEF Review, ReviewAccountUpdate, Unopposed
    <2>2. \A q \in journal[a] : Same(p, q) => v.now >= Expiration(q)
      <3>1. \A q \in journal[a] : Same(p, q) => ~(v.now < Expiration(q))
        BY Zenon, <2>1 DEF Conflicts, Same
      <3>. QED BY ONLY <1>30, <3>1
    <2>. QED BY Zenon, <1>0, <1>5, <2>1, <2>2 DEF Fit
  <1>6. ASSUME NEW q \in Approved(w), Same(p, q)
        PROVE  FALSE
    <2>1. Before(p, q) /\ Before(q, p)
      BY Zenon, <1>10, <1>6 DEF Approved, Same
    <2>2. q \in Proposals
      BY Zenon, <1>0 DEF Approved, Verdicts, Undecided
    <2>3. \A r \in Proposals : r.at \in Int /\ r.of \in Int /\ r.exp \in Int
      <3>1. Wids \subseteq Int /\ Snapshots \subseteq Int
        BY GatewayAssumption DEF Snapshots
      <3>. TAKE r \in Proposals
      <3>2. /\ r.at \in 0 .. MaxTime /\ Expiration(r) \in Int /\ r.kind \in {"payout", "update"}
            /\ r.kind = "payout" => r.of \in Wids
            /\ r.kind = "update" => r.of \in Snapshots
        BY Zenon, ProposalTypes
      <3>3. r.of \in Int
        BY <3>1, <3>2, Zenon
      <3>. QED BY <3>2, <3>3 DEF Expiration
    <2>. QED BY ONLY SMTT(60), <1>3, <2>1, <2>2, <2>3 DEF Before
  <1>. QED BY Zenon, <1>3, <1>4, <1>5, <1>6 DEF v

\* A checkpoint is not ahead of the height it is taken at.
LEMMA CheckpointBehind ==
    ASSUME NEW tip \in Nat
    PROVE  Checkpoint(tip) <= tip
  <1>1. SnapshotLag \in Nat /\ SnapshotEvery \in Nat \ {0}
    BY Zenon, Numbers, GatewayAssumption
  <1>2. \A s \in Int : s % SnapshotEvery \in Int /\ s % SnapshotEvery >= 0
    BY ONLY <1>1
  <1>. QED BY ONLY <1>1, <1>2 DEF Checkpoint

\* Rounding down to a multiple.
LEMMA RoundedDown ==
    ASSUME NEW s \in Nat, NEW n \in Nat \ {0}
    PROVE  (s - (s % n)) % n = 0 /\ s - (s % n) \in Nat
  <1>. DEFINE k == s \div n
              y == s - (s % n)
              j == y \div n
  <1>1. s = n * k + (s % n) /\ s % n \in 0 .. n - 1 /\ k \in Int
    OBVIOUS
  <1>2. y \in Int /\ y = n * k /\ y <= s
    BY <1>1
  <1>3. k >= 0
    OBVIOUS
  <1>4. y \in Nat
    BY <1>1, <1>2, <1>3
  <1>5. y = n * j + (y % n) /\ y % n \in 0 .. n - 1 /\ j \in Int
    BY <1>4
  <1>. DEFINE d == k - j
              m == y % n
  <1>6. d \in Int /\ m \in 0 .. n - 1 /\ n * d = m
    <2>1. n * (k - j) = n * k - n * j
      BY <1>1, <1>5
    <2>. QED BY <1>1, <1>2, <1>5, <2>1
  <1>. HIDE DEF d, m
  <1>7. d <= 0 => n * d <= 0
    BY <1>6
  <1>8. d >= 1 => n * d >= n
    BY <1>6
  <1>9. m = 0
    BY ONLY <1>6, <1>7, <1>8, n \in Nat \ {0}
  <1>. QED BY Zenon, <1>4, <1>9 DEF m

\* What a signer takes its authority from is a snapshot.
LEMMA CheckpointIsSnapshot ==
    ASSUME NEW tip \in 0 .. MaxHeight, Checkpoint(tip) # 0
    PROVE  Checkpoint(tip) \in Snapshots
  <1>1. SnapshotLag \in Nat /\ SnapshotEvery \in Nat \ {0} /\ tip \in Nat /\ MaxHeight \in Nat
    BY Numbers, GatewayAssumption
  <1>. DEFINE s == tip - SnapshotLag
              r == s - (s % SnapshotEvery)
  <1>2. s \in Nat /\ Checkpoint(tip) = r
    BY ONLY <1>1, Checkpoint(tip) # 0 DEF Checkpoint
  <1>20. r % SnapshotEvery = 0 /\ r \in Nat
    <2>. HIDE DEF s
    <2>. QED BY Zenon, <1>1, <1>2, RoundedDown
  <1>. HIDE DEF r
  <1>3. Checkpoint(tip) \in Nat /\ Checkpoint(tip) % SnapshotEvery = 0
    BY Zenon, <1>2, <1>20
  <1>4. Checkpoint(tip) <= tip
    BY <1>1, CheckpointBehind
  <1>5. Checkpoint(tip) \in 1 .. MaxHeight
    BY ONLY <1>1, <1>3, <1>4, Checkpoint(tip) # 0, tip \in 0 .. MaxHeight
  <1>. QED BY Zenon, <1>3, <1>5 DEF Snapshots

LEMMA IntentFit ==
    ASSUME IInv, NEW a \in Accounts, NEW yes \in SUBSET Known,
           NEW intents \in Intents(Seen(a), journal[a] \cup yes), NEW p \in intents
    PROVE  /\ p \in Known /\ Fit(a, p)
           /\ p \in Visible(Seen(a)) => ~Live(Seen(a), p)
           /\ \A q \in yes : Same(p, q) => pass[a].now >= Expiration(q)
           /\ \A q \in intents : ~Same(p, q)
  <1>. DEFINE v == Seen(a)
              e == journal[a] \cup yes
              due == {NewProposal("payout", id, v) : id \in PayoutsDue(v, e)}
              update == {NewProposal("update", s, v) : s \in SnapshotDue(v, e)}
  <1>0. /\ v.now = pass[a].now /\ v.done = pass[a].done /\ v.height = height
        /\ v.requested = {id \in Wids : owed[id].status = "REQUESTED"}
        /\ v.now \in 0 .. MaxTime /\ v.now <= now
    BY Zenon, SeenFields DEF IInv, Past
  <1>01. v.now + Life \in Nat
    BY ONLY <1>0, Numbers
  <1>1. intents \subseteq due \cup update
    BY Zenon DEF Intents
  <1>. HIDE DEF v
  <1>2. \A q \in e : q \in Proposals /\ Expiration(q) \in Int
    BY Zenon, ProposalTypes DEF IInv, TypeOK, Known
  \* A payout that is due.
  <1>3. ASSUME NEW id \in PayoutsDue(v, e)
        PROVE  /\ id \in Wids /\ owed[id].status = "REQUESTED" /\ id \notin PaidBy(v.done)
               /\ \A q \in Visible(v) : q.kind = "payout" /\ q.of = id => ~Live(v, q)
               /\ \A q \in e : Subject(q) = <<"payout", id>> => v.now >= Expiration(q)
    <2>1. /\ id \in Wids /\ owed[id].status = "REQUESTED" /\ id \notin PaidBy(v.done)
          /\ \A q \in Visible(v) : q.kind = "payout" /\ q.of = id => ~Live(v, q)
          /\ ~Conflicts(<<"payout", id>>, e, v.now)
      BY Zenon, <1>0 DEF PayoutsDue, AlreadyPaid
    <2>4. \A q \in e : Subject(q) = <<"payout", id>> => v.now >= Expiration(q)
      <3>1. \A q \in e : Subject(q) = <<"payout", id>> => ~(v.now < Expiration(q))
        BY Zenon, <2>1 DEF Conflicts
      <3>. QED BY ONLY <1>0, <1>2, <3>1
    <2>. QED BY Zenon, <2>1, <2>4
  <1>4. ASSUME NEW s \in SnapshotDue(v, e)
        PROVE  /\ s \in Snapshots /\ s = Checkpoint(v.height)
               /\ \A q \in Visible(v) : q.kind = "update" => ~Live(v, q)
               /\ \A q \in e : Subject(q) = <<"update", 0>> => v.now >= Expiration(q)
    <2>0. height \in 0 .. MaxHeight
      BY Zenon DEF IInv, TypeOK
    <2>1. /\ s \in Snapshots /\ s = Checkpoint(v.height)
          /\ \A q \in Visible(v) : q.kind = "update" => ~Live(v, q)
          /\ ~Conflicts(<<"update", 0>>, e, v.now)
      BY Zenon, <1>0, <2>0, CheckpointIsSnapshot DEF SnapshotDue
    <2>2. \A q \in e : Subject(q) = <<"update", 0>> => ~(v.now < Expiration(q))
      BY Zenon, <2>1 DEF Conflicts
    <2>3. \A q \in e : Subject(q) = <<"update", 0>> => v.now >= Expiration(q)
      BY ONLY <1>0, <1>2, <2>2
    <2>. QED BY Zenon, <2>1, <2>3
  <1>5. CASE p \in due
    <2>1. PICK id \in PayoutsDue(v, e) : p = NewProposal("payout", id, v)
      BY Zenon, <1>5
    <2>2. p.kind = "payout" /\ p.of = id /\ p.exact /\ p.at = v.now /\ Subject(p) = <<"payout", id>>
      BY Zenon, <2>1 DEF NewProposal, Subject
    <2>3. p \in Known
      BY Zenon, <1>0, <1>01, <1>3, <2>1 DEF NewProposal, Known, Proposals
    <2>4. /\ \A q \in e : Same(p, q) => pass[a].now >= Expiration(q)
          /\ p \in Visible(v) => ~Live(v, p)
      BY Zenon, <1>0, <1>3, <2>2 DEF Same
    <2>5. Fit(a, p)
      BY ZenonT(40), <1>0, <1>3, <2>2, <2>4 DEF Fit
    <2>6. ASSUME NEW q \in intents, Same(p, q)
          PROVE  FALSE
      <3>1. CASE q \in due
        <4>1. PICK other \in PayoutsDue(v, e) : q = NewProposal("payout", other, v)
          BY Zenon, <3>1
        <4>2. Subject(q) = <<"payout", other>>
          BY Zenon, <4>1 DEF NewProposal, Subject
        <4>3. other = id
          <5>1. <<"payout", other>> = <<"payout", id>>
            BY Zenon, <2>2, <2>6, <4>2 DEF Same
          <5>. QED BY ONLY <5>1
        <4>. QED BY Zenon, <2>1, <2>6, <4>1, <4>3 DEF Same
      <3>2. CASE q \in update
        BY <2>2, <2>6, <3>2 DEF Same, Subject, NewProposal
      <3>. QED BY Zenon, <1>1, <3>1, <3>2
    <2>. QED BY Zenon, <2>3, <2>4, <2>5, <2>6 DEF v
  <1>6. CASE p \in update
    <2>1. PICK s \in SnapshotDue(v, e) : p = NewProposal("update", s, v)
      BY Zenon, <1>6
    <2>2. p.kind = "update" /\ p.of = s /\ p.exact /\ p.at = v.now /\ Subject(p) = <<"update", 0>>
      BY Zenon, <2>1 DEF NewProposal, Subject
    <2>3. p \in Known
      BY Zenon, <1>0, <1>01, <1>4, <2>1 DEF NewProposal, Known, Proposals
    <2>4. /\ \A q \in e : Same(p, q) => pass[a].now >= Expiration(q)
          /\ p \in Visible(v) => ~Live(v, p)
      BY Zenon, <1>0, <1>4, <2>2 DEF Same
    <2>5. Fit(a, p)
      BY ZenonT(40), <2>2, <2>4 DEF Fit
    <2>6. ASSUME NEW q \in intents, Same(p, q)
          PROVE  FALSE
      <3>1. CASE q \in due
        BY <2>2, <2>6, <3>1 DEF Same, Subject, NewProposal
      <3>2. CASE q \in update
        BY Zenon, <1>4, <2>1, <2>6, <3>2 DEF Same
      <3>. QED BY Zenon, <1>1, <3>1, <3>2
    <2>. QED BY Zenon, <2>3, <2>4, <2>5, <2>6 DEF v
  <1>. QED BY Zenon, <1>1, <1>5, <1>6

\* The step of a member that adds votes and proposals, which it has found fit, to its journal.
Votes(a, added) ==
    /\ pass[a].step = "synced" /\ \A p \in added : Fit(a, p)
    /\ \A p, q \in added : Same(p, q) =>
          pass[a].now >= Expiration(p) \/ pass[a].now >= Expiration(q)
    /\ journal' = [journal EXCEPT ![a] = Pruned(journal[a] \cup added, pass[a].now - PruneAfter)]
    /\ pass'[a] \in PassRecords /\ pass' = [pass EXCEPT ![a] = pass'[a]]
    /\ pass'[a].step \in {"idle", "publish", "execute"}
    /\ pass'[a].step # "idle" => pass'[a].now = pass[a].now
    /\ pass'[a].now \in {0, pass[a].now}
    /\ \A tx \in pass'[a].send : tx.of \in Known /\ \A b \in tx.sigs : tx.of \in ballot[b].yes
    /\ Consistent(pass'[a].new)
    /\ \/ pass'[a].new = EmptyBallot /\ saved' = saved
       \/ pass'[a].new.yes \subseteq added /\ saved' = [saved EXCEPT ![a] = journal'[a]]
    /\ faults' \in Nat
    /\ UNCHANGED <<now, height, stakeAt, owed, fleet, auth, changedAt, executed, ballot, late, pool>>

(***************************************************************************)
(* A member's votes and proposals: its journal gets them before anybody    *)
(* sees them, and they conflict with nothing that is live in it.           *)
(***************************************************************************)
LEMMA VotesInv ==
    ASSUME IInv, NEW a \in Accounts, NEW added \in SUBSET Known, Votes(a, added)
    PROVE  IInv'
  <1>. DEFINE entries == Pruned(journal[a] \cup added, pass[a].now - PruneAfter)
              o == pass'[a]
  <1>0. /\ pass[a].step = "synced" /\ now' = now
        /\ o \in PassRecords /\ pass' = [pass EXCEPT ![a] = o]
        /\ o.step \in {"idle", "publish", "execute"}
        /\ o.step # "idle" => o.now = pass[a].now
        /\ o.now \in {0, pass[a].now}
        /\ \A tx \in o.send : tx.of \in Known /\ \A b \in tx.sigs : tx.of \in ballot[b].yes
        /\ Consistent(o.new)
        /\ \/ o.new = EmptyBallot /\ saved' = saved
           \/ o.new.yes \subseteq added /\ saved' = [saved EXCEPT ![a] = entries]
    <2>1. journal'[a] = entries
      BY Zenon DEF IInv, TypeOK, Votes
    <2>. QED BY Zenon, <2>1 DEF Votes
  <1>. HIDE DEF entries, o
  <1>1. /\ pass' \in [Accounts -> PassRecords]
        /\ pass'[a] = o /\ \A b \in Accounts \ {a} : pass'[b] = pass[b]
        /\ \A b \in Accounts : pass'[b].now <= now'
        /\ \A b \in Accounts : Clock(b)' >= Clock(b)
    <2>1. o.now <= now /\ (o.step # "idle" => o.now >= Clock(a))
      <3>1. /\ Clock(a) \in Nat /\ Clock(a) <= now /\ now \in Nat /\ pass[a].now \in Nat
            /\ Clock(a) = pass[a].now
        BY Zenon, <1>0, ClockTypes DEF IInv, Clock
      <3>. QED BY ONLY <1>0, <3>1
    <2>. QED BY Zenon, <1>0, <2>1, PassTypes DEF Votes
  <1>2. /\ now \in Nat /\ pass[a].now \in Nat /\ pass[a].now <= now /\ Clock(a) = pass[a].now
        /\ \A b \in Accounts : Clock(b) \in Int /\ Clock(b)' \in Int
    <2>1. now \in Nat /\ pass[a].now \in Nat /\ \A b \in Accounts : Clock(b) \in Int
      BY ClockTypes DEF IInv
    <2>2. \A b \in Accounts : pass'[b].now \in Int
      BY <1>1 DEF PassRecords
    <2>. QED BY <1>0, <2>1, <2>2 DEF Clock, IInv, Past
  <1>3. /\ \A b \in Accounts : journal[b] \subseteq Known /\ saved[b] \subseteq Known
        /\ Known \subseteq Proposals /\ Known' = Known
    BY Zenon DEF IInv, Past, Known, Votes
  <1>4. \A p \in Proposals : Expiration(p) \in Int /\ Expiration(p)' = Expiration(p)
    BY Zenon, ProposalTypes DEF Expiration
  <1>5. /\ entries \subseteq journal[a] \cup added
        /\ \A p \in journal[a] \cup added : pass[a].now < Expiration(p) => p \in entries
    BY <1>2, <1>3, <1>4, Numbers DEF Pruned, entries
  <1>6. /\ journal' \in [Accounts -> SUBSET Proposals] /\ saved' \in [Accounts -> SUBSET Proposals]
        /\ journal'[a] = entries /\ saved'[a] \in {saved[a], entries}
        /\ o.new = EmptyBallot \/ (o.new.yes \subseteq added /\ saved'[a] = entries)
        /\ \A b \in Accounts \ {a} : journal'[b] = journal[b] /\ saved'[b] = saved[b]
    <2>1. journal \in [Accounts -> SUBSET Proposals] /\ saved \in [Accounts -> SUBSET Proposals]
      BY Zenon DEF IInv, TypeOK
    <2>2. journal' = [journal EXCEPT ![a] = entries] /\ entries \in SUBSET Proposals
      BY Zenon, <1>3, <1>5 DEF entries, Votes
    <2>3. /\ journal' \in [Accounts -> SUBSET Proposals] /\ journal'[a] = entries
          /\ \A b \in Accounts \ {a} : journal'[b] = journal[b]
      BY Zenon, <2>1, <2>2
    <2>4. CASE o.new = EmptyBallot /\ saved' = saved
      BY Zenon, <2>1, <2>3, <2>4
    <2>5. CASE o.new.yes \subseteq added /\ saved' = [saved EXCEPT ![a] = entries]
      BY Zenon, <2>1, <2>2, <2>3, <2>5
    <2>. QED BY Zenon, <1>0, <2>4, <2>5
  <1>7. TypeOK'
    BY Zenon, <1>1, <1>6 DEF IInv, TypeOK, PassRecords, Votes
  <1>8. Past'
    <2>1. \A b \in Accounts : journal'[b] \subseteq Known' /\ saved'[b] \subseteq Known'
      BY Zenon, <1>3, <1>5, <1>6
    <2>2. \A b \in Accounts : Consistent(pass[b].new)' /\ \A tx \in pass'[b].send : tx.of \in Known'
      BY <1>0, <1>1, <1>3 DEF IInv, Past, Consistent
    <2>3. \A b \in Accounts : Consistent(ballot[b])' /\ \A d \in late'[b] : Consistent(d)'
      BY Zenon, <1>3 DEF IInv, Past, Consistent, Votes
    <2>. QED BY Zenon, <1>1, <1>3, <2>1, <2>2, <2>3 DEF IInv, Past, Votes
  <1>9. \A b \in Accounts : \A p \in Proposals :
            HasSigned(b, p)' => HasSigned(b, p) \/ (b = a /\ p \in o.new.yes)
    <2>1. ballot' = ballot /\ late' = late /\ pool' = pool
      BY Zenon DEF Votes
    <2>2. \A b \in Accounts : b = a \/ pass'[b] = pass[b]
      BY Zenon, <1>1
    <2>3. pass'[a] = o
      BY Zenon, <1>1
    <2>4. \A tx \in o.send : \A b \in tx.sigs : tx.of \in ballot[b].yes
      BY Zenon, <1>0
    <2>. SUFFICES ASSUME NEW b \in Accounts, NEW p \in Proposals, HasSigned(b, p)'
                  PROVE  HasSigned(b, p) \/ (b = a /\ p \in o.new.yes)
      BY Zenon
    <2>5. ASSUME NEW c \in Accounts, NEW tx \in pass'[c].send, b \in tx.sigs, p = tx.of
          PROVE  HasSigned(b, p)
      BY Zenon, <2>2, <2>3, <2>4, <2>5 DEF HasSigned
    <2>6. p \in pass'[b].new.yes => p \in pass[b].new.yes \/ (b = a /\ p \in o.new.yes)
      BY Zenon, <2>2, <2>3
    <2>. QED BY Zenon, <2>1, <2>5, <2>6 DEF HasSigned
  \* What can still matter to a stays in its journal and its file.
  <1>10. OnFile'
    <2>1. \A p \in saved[a] : pass[a].now < Expiration(p) => p \in entries
      BY Zenon, <1>2, <1>5 DEF IInv, OnFile
    <2>2. ASSUME NEW p \in Proposals, HasSigned(a, p)', Clock(a)' < Expiration(p)
          PROVE  p \in saved'[a]
      <3>1. pass[a].now < Expiration(p)
        <4>1. /\ Clock(a)' >= Clock(a) /\ Clock(a) = pass[a].now /\ pass[a].now \in Nat
              /\ Clock(a)' \in Int /\ Expiration(p) \in Int
          BY Zenon, <1>1, <1>2, <1>4
        <4>. QED BY ONLY <2>2, <4>1
      <3>2. CASE HasSigned(a, p)
        BY Zenon, <1>2, <1>6, <2>1, <3>1, <3>2 DEF IInv, OnFile
      <3>3. CASE p \in o.new.yes
        BY Zenon, <1>5, <1>6, <3>1, <3>3, EmptyIsBallot
      <3>. QED BY Zenon, <1>9, <2>2, <3>2, <3>3
    <2>3. ASSUME NEW p \in saved'[a], Clock(a)' < Expiration(p)
          PROVE  p \in journal'[a]
      <3>1. p \in Proposals
        BY Zenon, <1>3, <1>5, <1>6
      <3>2. pass[a].now < Expiration(p)
        <4>1. /\ Clock(a)' >= Clock(a) /\ Clock(a) = pass[a].now /\ pass[a].now \in Nat
              /\ Clock(a)' \in Int /\ Expiration(p) \in Int
          BY Zenon, <1>1, <1>2, <1>4, <3>1
        <4>. QED BY ONLY <2>3, <4>1
      <3>. QED BY Zenon, <1>6, <2>1, <2>3, <3>2
    <2>4. ASSUME NEW b \in Accounts \ {a}
          PROVE  /\ \A p \in Proposals : HasSigned(b, p)' /\ Clock(b)' < Expiration(p)
                        => p \in saved'[b]
                 /\ \A p \in saved'[b] : Clock(b)' < Expiration(p) => p \in journal'[b]
      <3>1. /\ Clock(b)' >= Clock(b) /\ Clock(b) \in Int /\ Clock(b)' \in Int
            /\ \A p \in Proposals : Expiration(p) \in Int
        BY Zenon, <1>1, <1>2, <1>4
      <3>2. \A p \in Proposals : Clock(b)' < Expiration(p) => Clock(b) < Expiration(p)
        BY ONLY <3>1
      <3>3. saved'[b] = saved[b] /\ journal'[b] = journal[b] /\ saved[b] \subseteq Proposals
        BY Zenon, <1>3, <1>6
      <3>4. /\ \A p \in Proposals : HasSigned(b, p) /\ Clock(b) < Expiration(p) => p \in saved[b]
            /\ \A p \in saved[b] : Clock(b) < Expiration(p) => p \in journal[b]
        BY Zenon DEF IInv, OnFile
      <3>5. \A p \in Proposals : HasSigned(b, p)' => HasSigned(b, p)
        BY Zenon, <1>9
      <3>. QED BY ONLY Zenon, <3>2, <3>3, <3>4, <3>5
    <2>. QED BY ZenonT(40), <1>3, <1>4, <1>5, <1>6, <2>2, <2>3, <2>4 DEF OnFile
  <1>11. OneEach'
    <2>1. ASSUME NEW p \in entries, NEW q \in entries, Same(p, q)
          PROVE  now >= Expiration(p) \/ now >= Expiration(q)
      <3>1. p \in Proposals /\ q \in Proposals /\ Same(q, p)
        BY Zenon, <1>3, <1>5, <2>1 DEF Same
      <3>2. \A r \in Proposals : pass[a].now >= Expiration(r) => now >= Expiration(r)
        BY ONLY <1>2, <1>4
      <3>3. CASE p \in journal[a] /\ q \in journal[a]
        BY Zenon, <2>1, <3>3 DEF IInv, OneEach
      <3>4. CASE p \in added /\ q \in journal[a]
        BY Zenon, <2>1, <3>1, <3>2, <3>4 DEF Fit, Votes
      <3>5. CASE p \in journal[a] /\ q \in added
        BY Zenon, <2>1, <3>1, <3>2, <3>5 DEF Fit, Votes
      <3>6. CASE p \in added /\ q \in added
        BY Zenon, <2>1, <3>1, <3>2, <3>6 DEF Votes
      <3>. QED BY Zenon, <1>5, <3>3, <3>4, <3>5, <3>6
    <2>2. ASSUME NEW b \in Accounts, NEW p \in journal'[b], NEW q \in journal'[b], Same(p, q)
          PROVE  now >= Expiration(p) \/ now >= Expiration(q)
      <3>1. CASE b = a
        BY Zenon, <1>6, <2>1, <2>2, <3>1
      <3>2. CASE b # a
        BY Zenon, <1>6, <2>2, <3>2 DEF IInv, OneEach
      <3>. QED BY Zenon, <3>1, <3>2
    <2>3. \A p, q : Same(p, q)' = Same(p, q)
      BY Zenon DEF Same, Subject
    <2>4. \A p : Expiration(p)' = Expiration(p)
      BY Zenon DEF Expiration
    <2>. QED BY Zenon, <2>2, <2>3, <2>4 DEF OneEach, Votes
  <1>12. Informed'
    BY Zenon, <1>0, <1>1 DEF IInv, Informed, Expiration, Votes
  <1>13. Vouched'
    <2>1. executed \subseteq Proposals /\ Quorums \subseteq SUBSET Accounts /\ Quorums' = Quorums
      BY Zenon DEF IInv, TypeOK, Quorums, AuthorityFor
    <2>2. ASSUME NEW S \in SUBSET Accounts, NEW p \in executed, p.kind = "payout", Vouches(S, p)
          PROVE  Vouches(S, p)'
      <3>1. ASSUME NEW b \in S, Clock(b)' < Expiration(p)
            PROVE  p \in saved'[b]
        <4>1. Clock(b) < Expiration(p)
          BY <1>1, <1>2, <1>4, <2>1, <3>1
        <4>2. p \in saved[b] /\ p \in journal[b]
          BY Zenon, <2>2, <4>1 DEF Vouches, IInv, OnFile
        <4>3. CASE b = a
          BY <1>2, <1>5, <1>6, <4>1, <4>2, <4>3
        <4>4. CASE b # a
          BY Zenon, <1>6, <4>2, <4>4
        <4>. QED BY Zenon, <4>3, <4>4
      <3>2. ASSUME NEW b \in S, NEW q \in journal'[b], Same(p, q)
            PROVE  now >= Expiration(q)
        <4>1. CASE q \in journal[b]
          BY Zenon, <2>2, <3>2, <4>1 DEF Vouches
        <4>2. CASE q \notin journal[b]
          <5>1. b = a /\ q \in added
            BY Zenon, <1>5, <1>6, <3>2, <4>2
          <5>2. q.kind = "payout" /\ q.of = p.of /\ Same(q, p)
            BY Zenon, <2>2, <3>2 DEF Same, Subject
          <5>3. pass[a].now >= Expiration(p)
            <6>1. CASE pass[a].now < Expiration(p)
              <7>1. p \in journal[a]
                BY Zenon, <1>2, <2>2, <5>1, <6>1 DEF Vouches, IInv, OnFile
              <7>. QED BY Zenon, <5>1, <5>2, <7>1 DEF Fit, Votes
            <6>. QED BY <1>2, <1>4, <2>1, <6>1
          <5>4. p \in pass[a].done
            BY Zenon, <1>2, <1>4, <2>1, <5>3 DEF IInv, Informed, Votes
          <5>5. q.of \in PaidBy(pass[a].done)
            BY Zenon, <2>2, <5>2, <5>4 DEF PaidBy
          <5>. QED BY Zenon, <5>1, <5>2, <5>5 DEF Fit, Votes
        <4>. QED BY Zenon, <4>1, <4>2
      <3>. QED BY ZenonT(40), <1>4, <2>1, <3>1, <3>2 DEF Vouches, Same, Subject, Expiration, Votes
    <2>. QED BY Zenon, <2>1, <2>2 DEF IInv, Vouched, Votes
  <1>14. AllRight'
    <2>1. \A p \in added : Right(p)
      BY Zenon DEF Fit, Right, Votes
    <2>2. \A p \in Proposals : Right(p) => Right(p)'
      BY Zenon DEF Right, Votes
    <2>. QED BY SMTT(60), <1>3, <1>5, <1>6, <2>1, <2>2 DEF IInv, AllRight
  <1>15. Settled' /\ Ruled' /\ PaidOnce'
    BY Zenon DEF IInv, Settled, Deadline, PaidBy, Ruled, AuthorityFor, PaidOnce, Votes
  <1>. QED BY Zenon, <1>7, <1>8, <1>10, <1>11, <1>12, <1>13, <1>14, <1>15 DEF IInv

\* Voting and proposing (voteAndPropose).
LEMMA VoteAndProposeInv ==
    ASSUME IInv, NEW a \in Accounts, VoteAndPropose(a)
    PROVE  IInv'
  <1>. DEFINE v == Seen(a)
              verdicts == Verdicts(a, v)
              yes == Approved(verdicts)
              no == {p \in DOMAIN verdicts : verdicts[p] = "deny"}
  <1>1. UNCHANGED <<now, height, stakeAt, owed, fleet, auth, changedAt, executed, ballot, late, pool>>
    BY Zenon DEF VoteAndPropose, svmVars, steemVars
  <1>2. v.now = pass[a].now /\ v.now \in 0 .. MaxTime /\ Visible(v) \subseteq Known
    BY Zenon, SeenFields
  <1>3. CASE a \notin Members(auth)
    <2>. DEFINE send == Executable(a, v, journal[a])
                o == Onward(v, EmptyBallot, send)
    <2>1. /\ pass[a].step = "synced" /\ pass' = [pass EXCEPT ![a] = o]
          /\ UNCHANGED <<journal, saved, faults>>
      BY Zenon, <1>3 DEF VoteAndPropose, Pass
    <2>2. /\ send \in SUBSET Transactions
          /\ \A tx \in send : tx.of \in Known /\ \A b \in tx.sigs : tx.of \in ballot[b].yes
      BY Zenon, ExecutableSigned
    <2>. HIDE DEF send, v
    <2>3. /\ o \in PassRecords /\ o.step \in {"idle", "publish", "execute"}
          /\ o.step # "idle" => o.now = pass[a].now
          /\ o.now \in {0, pass[a].now}
          /\ o.new = EmptyBallot /\ o.send \in {send, {}}
      <3>1. v.now = pass[a].now /\ v.now \in 0 .. MaxTime /\ EmptyBallot \in Ballots
        BY Zenon, <1>2, EmptyIsBallot
      <3>2. RestOf(o, v.now, EmptyBallot, send)
        BY Zenon, <2>2, <3>1, OnwardIsPass
      <3>. HIDE DEF o
      <3>. QED BY Zenon, <3>1, <3>2 DEF RestOf
    <2>. HIDE DEF o
    <2>4. /\ pass' \in [Accounts -> PassRecords]
          /\ pass'[a] = o /\ \A b \in Accounts \ {a} : pass'[b] = pass[b]
          /\ \A b \in Accounts : pass'[b].now <= now'
          /\ \A b \in Accounts : Clock(b)' >= Clock(b)
      <3>1. o.now <= now /\ (o.step # "idle" => o.now >= Clock(a))
        <4>1. /\ Clock(a) \in Nat /\ Clock(a) <= now /\ now \in Nat /\ pass[a].now \in Nat
              /\ Clock(a) = pass[a].now
          BY Zenon, <2>1, ClockTypes DEF IInv, Clock
        <4>. QED BY ONLY <2>3, <4>1
      <3>. QED BY ZenonT(40), <1>1, <2>1, <2>3, <3>1, PassTypes
    <2>5. TypeOK'
      BY Zenon, <1>1, <2>1, <2>4 DEF IInv, TypeOK, PassRecords
    <2>6. Past'
      <3>1. Known' = Known
        BY Zenon, <1>1 DEF Known
      <3>2. \A b \in Accounts : Consistent(pass[b].new)' /\ \A tx \in pass'[b].send : tx.of \in Known'
        BY Zenon, <2>2, <2>3, <2>4, <3>1, EmptyIsBallot DEF IInv, Past, Consistent
      <3>3. \A b \in Accounts : Consistent(ballot[b])' /\ \A d \in late'[b] : Consistent(d)'
        BY Zenon, <1>1, <3>1 DEF IInv, Past, Consistent
      <3>. QED BY Zenon, <1>1, <2>1, <2>4, <3>1, <3>2, <3>3 DEF IInv, Past
    <2>7. \A b \in Accounts : \A p \in Proposals : HasSigned(b, p)' => HasSigned(b, p)
      <3>1. pass'[a].new.yes = {}
        BY Zenon, <2>3, <2>4, EmptyIsBallot
      <3>2. ballot' = ballot /\ late' = late /\ pool' = pool
        BY Zenon, <1>1
      <3>3. \A b \in Accounts : pass'[b].new.yes \subseteq pass[b].new.yes
        BY Zenon, <2>4, <3>1
      <3>4. \A b \in Accounts : b = a \/ pass'[b] = pass[b]
        BY Zenon, <2>4
      <3>5. \A tx \in pass'[a].send : \A b \in tx.sigs : tx.of \in ballot[b].yes
        BY Zenon, <2>2, <2>3, <2>4
      <3>. SUFFICES ASSUME NEW b \in Accounts, NEW p \in Proposals, HasSigned(b, p)'
                    PROVE  HasSigned(b, p)
        BY Zenon
      <3>6. ASSUME NEW c \in Accounts, NEW tx \in pass'[c].send, b \in tx.sigs, p = tx.of
            PROVE  HasSigned(b, p)
        BY Zenon, <3>4, <3>5, <3>6 DEF HasSigned
      <3>7. p \in pass'[b].new.yes => p \in pass[b].new.yes
        BY Zenon, <3>3
      <3>. QED BY Zenon, <3>2, <3>6, <3>7 DEF HasSigned
    <2>. QED BY Zenon, <1>1, <2>1, <2>3, <2>4, <2>5, <2>6, <2>7, QuietStep
  <1>4. CASE a \in Members(auth)
    <2>. DEFINE entries(i) == Pruned(journal[a] \cup yes \cup i, v.now - PruneAfter)
                new(i) == [props |-> i, yes |-> yes \cup i, no |-> no]
                send(i) == Executable(a, v, entries(i))
    <2>1. PICK i \in Intents(v, journal[a] \cup yes) :
              /\ journal' = [journal EXCEPT ![a] = entries(i)]
              /\ \/ /\ new(i) # EmptyBallot => Save(a, entries(i))
                    /\ new(i) = EmptyBallot => UNCHANGED saved
                    /\ Pass(a, "synced", Onward(v, new(i), send(i)))
                    /\ UNCHANGED faults
                 \/ /\ faults' = faults + 1
                    /\ Pass(a, "synced", Onward(v, EmptyBallot, send(i)))
                    /\ UNCHANGED saved
      BY ZenonT(40), <1>4 DEF VoteAndPropose
    <2>2. \A p \in yes : /\ p \in Known /\ p \in Visible(v) /\ Live(v, p) /\ Fit(a, p)
                         /\ \A q \in yes : ~Same(p, q)
      BY Zenon, ApprovedFit
    <2>3. \A p \in i : /\ p \in Known /\ Fit(a, p) /\ (p \in Visible(v) => ~Live(v, p))
                       /\ \A q \in yes : Same(p, q) => pass[a].now >= Expiration(q)
                       /\ \A q \in i : ~Same(p, q)
      <3>1. yes \in SUBSET Known
        BY Zenon, <2>2
      <3>. HIDE DEF yes
      <3>. QED BY ZenonT(40), <3>1, IntentFit
    <2>4. \A p \in no : p \in Known /\ p \in Visible(v) /\ Live(v, p) /\ p \notin yes
      BY Zenon, <1>2 DEF Verdicts, Undecided, Approved
    <2>5. /\ send(i) \in SUBSET Transactions
          /\ \A tx \in send(i) : tx.of \in Known /\ \A b \in tx.sigs : tx.of \in ballot[b].yes
      BY Zenon, ExecutableSigned
    <2>. DEFINE added == yes \cup i
    <2>6. entries(i) = Pruned(journal[a] \cup added, pass[a].now - PruneAfter)
      <3>1. journal[a] \cup yes \cup i = journal[a] \cup added
        BY Zenon
      <3>. QED BY Zenon, <1>2, <3>1
    <2>. HIDE DEF yes, no, v, send, entries
    <2>7. new(i) \in Ballots /\ new(i).yes = added /\ Consistent(new(i))
      <3>1. (yes \cup i) \cap no = {}
        BY Zenon, <2>3, <2>4
      <3>2. Known \subseteq Proposals
        BY Zenon DEF Known
      <3>. QED BY Zenon, <2>2, <2>3, <2>4, <3>1, <3>2 DEF Ballots, Consistent
    <2>8. /\ added \in SUBSET Known /\ \A p \in added : Fit(a, p)
          /\ \A p, q \in added : Same(p, q) =>
                 pass[a].now >= Expiration(p) \/ pass[a].now >= Expiration(q)
      <3>1. \A p, q : Same(p, q) => Same(q, p)
        BY Zenon DEF Same
      <3>. QED BY Zenon, <2>2, <2>3, <3>1
    <2>. HIDE DEF new, added
    <2>9. PICK n \in {new(i), EmptyBallot} :
              /\ Pass(a, "synced", Onward(v, n, send(i)))
              /\ \/ n = EmptyBallot /\ saved' = saved
                 \/ n = new(i) /\ saved' = [saved EXCEPT ![a] = entries(i)]
              /\ faults' \in Nat
      <3>1. faults \in Nat
        BY Zenon DEF IInv, TypeOK
      <3>2. faults' = faults \/ faults' = faults + 1
        BY ONLY Zenon, <2>1
      <3>3. faults' \in Nat
        BY ONLY <3>1, <3>2
      <3>. QED BY ONLY Zenon, <2>1, <3>3 DEF Save
    <2>. DEFINE o == Onward(v, n, send(i))
    <2>10. n \in Ballots
      BY Zenon, <2>7, EmptyIsBallot
    <2>11. /\ o \in PassRecords /\ o.step \in {"idle", "publish", "execute"}
           /\ o.step # "idle" => o.now = pass[a].now
           /\ o.now \in {0, pass[a].now}
           /\ o.new \in {n, EmptyBallot} /\ o.send \in {send(i), {}}
      <3>1. v.now = pass[a].now /\ v.now \in 0 .. MaxTime
        BY Zenon, <1>2
      <3>2. RestOf(o, v.now, n, send(i))
        BY Zenon, <2>5, <2>10, <3>1, OnwardIsPass
      <3>. HIDE DEF o
      <3>. QED BY Zenon, <3>1, <3>2 DEF RestOf
    <2>12. o.new = n
      BY Zenon, EmptyIsBallot DEF Onward, Idle
    <2>. HIDE DEF o
    <2>13. pass[a].step = "synced" /\ pass' = [pass EXCEPT ![a] = o]
      BY Zenon, <2>9 DEF Pass, o
    <2>14. \A tx \in o.send : tx.of \in Known /\ \A b \in tx.sigs : tx.of \in ballot[b].yes
      BY Zenon, <2>5, <2>11
    <2>15. new(i).yes \subseteq added
      BY Zenon, <2>7
    <2>16. pass'[a] = o
      BY Zenon, <2>13 DEF IInv, TypeOK
    <2>17. /\ journal' = [journal EXCEPT ![a] =
                 Pruned(journal[a] \cup added, pass[a].now - PruneAfter)]
           /\ journal'[a] = entries(i) /\ faults' \in Nat
      BY ZenonT(40), <2>1, <2>6, <2>9 DEF IInv, TypeOK
    <2>18. /\ Consistent(pass'[a].new)
           /\ \/ pass'[a].new = EmptyBallot /\ saved' = saved
              \/ pass'[a].new.yes \subseteq added /\ saved' = [saved EXCEPT ![a] = journal'[a]]
      BY Zenon, <2>7, <2>9, <2>12, <2>15, <2>16, <2>17, EmptyIsBallot
    <2>19. /\ pass'[a] \in PassRecords /\ pass' = [pass EXCEPT ![a] = pass'[a]]
           /\ pass'[a].step \in {"idle", "publish", "execute"}
           /\ pass'[a].step # "idle" => pass'[a].now = pass[a].now
           /\ pass'[a].now \in {0, pass[a].now}
           /\ \A tx \in pass'[a].send :
                 tx.of \in Known /\ \A b \in tx.sigs : tx.of \in ballot[b].yes
      BY Zenon, <2>11, <2>13, <2>14, <2>16
    <2>20. pass[a].step = "synced"
      BY Zenon, <2>13
    <2>21. faults' \in Nat
      BY Zenon, <2>17
    <2>22. journal' = [journal EXCEPT ![a] = Pruned(journal[a] \cup added, pass[a].now - PruneAfter)]
      BY Zenon, <2>17
    <2>23. Votes(a, added)
      BY ZenonT(40), <1>1, <2>8, <2>18, <2>19, <2>20, <2>21, <2>22 DEF Votes
    <2>. QED BY Zenon, <2>8, <2>23, VotesInv
  <1>. QED BY Zenon, <1>3, <1>4

-----------------------------------------------------------------------------
(* The theorems. *)

\* Signers are accounts.
LEMMA SignersAreAccounts ==
    ASSUME IInv
    PROVE  fleet.signers \subseteq Accounts
  BY Zenon, GatewayAssumption DEF IInv, TypeOK

\* Every step keeps the invariant.
LEMMA NextInv == IInv /\ [Next]_vars => IInv'
  <1>. SUFFICES ASSUME IInv, [Next]_vars PROVE IInv'
    BY Zenon
  <1>1. ASSUME NEW a \in fleet.signers, Step(a)
        PROVE  IInv'
    <2>1. a \in Accounts
      BY Zenon, SignersAreAccounts
    <2>2. CASE Sync(a)
      BY Zenon, <2>1, <2>2, SyncInv
    <2>3. CASE VoteAndPropose(a)
      BY Zenon, <2>1, <2>3, VoteAndProposeInv
    <2>4. CASE Publish(a)
      BY Zenon, <2>1, <2>4, PublishInv
    <2>5. CASE Execute(a)
      BY Zenon, <2>1, <2>5, ExecuteInv
    <2>6. CASE EndPass(a)
      BY Zenon, <2>1, <2>6, EndPassInv
    <2>7. CASE Restart(a)
      BY Zenon, <2>1, <2>7, RestartInv
    <2>8. CASE Arrive(a)
      BY Zenon, <2>1, <2>8, ArriveInv
    <2>. QED BY Zenon, <1>1, <2>2, <2>3, <2>4, <2>5, <2>6, <2>7, <2>8 DEF Step
  <1>2. CASE UNCHANGED vars
    <2>1. UNCHANGED <<now, height, stakeAt, owed, auth, changedAt, ballot, late, pool, executed,
                      pass, journal, saved, fleet, faults>>
      BY Zenon, <1>2 DEF vars
    <2>2. TypeOK' /\ Past'
      BY ZenonT(40), <2>1 DEF IInv, TypeOK, Past, Known, Consistent
    <2>3. \A c \in Accounts : \A p \in Proposals : HasSigned(c, p)' => HasSigned(c, p)
      BY Zenon, <2>1 DEF HasSigned
    <2>4. \A c \in Accounts : Clock(c)' >= Clock(c)
      BY <2>1, ClockTypes DEF Clock, IInv
    <2>. QED BY Zenon, <2>1, <2>2, <2>3, <2>4, QuietStep
  <1>3. CASE IncludeLate
    BY Zenon, <1>3, IncludeLateInv
  <1>4. CASE PublishByHand
    BY Zenon, <1>4, PublishByHandInv
  <1>5. CASE Request
    BY Zenon, <1>5, RequestInv
  <1>6. CASE Process
    BY Zenon, <1>6, ProcessInv
  <1>7. CASE Tick
    BY Zenon, <1>7, TickInv
  <1>. QED BY Zenon, <1>1, <1>2, <1>3, <1>4, <1>5, <1>6, <1>7 DEF Next

(***************************************************************************)
(* The inductive invariant holds in every behaviour of the signers: what   *)
(* is signed is on file as long as it can execute, each signer has one     *)
(* live approval per subject, and every payout executed or approved was    *)
(* right (Pass, voteAndPropose, publish, execute).                         *)
(***************************************************************************)
THEOREM Invariance == Spec => []IInv
  BY InitInv, NextInv, PTL DEF Spec

(***************************************************************************)
(* The variables keep their types; in particular what a signer proposes is *)
(* a change of the authority to that of a checkpoint of the chain, at any  *)
(* height and for any spacing and lag of the checkpoints (Checkpoint).     *)
(***************************************************************************)
THEOREM Types == Spec => []TypeOK
  <1>1. IInv => TypeOK
    BY Zenon DEF IInv
  <1>. QED BY <1>1, Invariance, PTL

(***************************************************************************)
(* No withdrawal is paid twice, for any number of signers, crashes, lost   *)
(* and delayed publications and broadcasts, as long as quorums overlap.    *)
(***************************************************************************)
THEOREM NeverPaidTwice == Spec => []PaidOnce
  <1>1. IInv => PaidOnce
    BY Zenon DEF IInv
  <1>. QED BY <1>1, Invariance, PTL

(***************************************************************************)
(* What a signer has signed and can still be executed is in its journal's  *)
(* file, and never twice for one subject.                                  *)
(***************************************************************************)
THEOREM JournalHolds == Spec => []JournalSound
  <1>1. IInv => JournalSound
    <2>. SUFFICES ASSUME IInv PROVE WriteAhead /\ OneLiveApproval
      BY Zenon DEF JournalSound
    <2>1. ASSUME NEW a \in Accounts, NEW p \in Signed(a)
          PROVE  HasSigned(a, p) /\ p \in Proposals
      <3>. DEFINE L == UNION {b.yes : b \in late[a]}
                  T == {tx.of : tx \in {t \in pool : a \in t.sigs}}
      <3>4. Signed(a) = ballot[a].yes \cup L \cup T
        BY Zenon DEF Signed
      <3>5. p \in L => \E b \in late[a] : p \in b.yes
        BY Zenon
      <3>6. p \in T => \E tx \in pool : a \in tx.sigs /\ p = tx.of
        BY Zenon
      <3>. HIDE DEF L, T
      <3>1. \/ p \in ballot[a].yes \/ \E b \in late[a] : p \in b.yes
            \/ \E tx \in pool : a \in tx.sigs /\ p = tx.of
        BY Zenon, <2>1, <3>4, <3>5, <3>6
      <3>2. ballot[a].yes \subseteq Proposals /\ \A b \in late[a] : b.yes \subseteq Proposals
        <4>1. ballot[a] \in Ballots /\ \A b \in late[a] : b \in Ballots
          BY Zenon DEF IInv, TypeOK
        <4>2. \A b \in Ballots : b.yes \subseteq Proposals
          BY Zenon DEF Ballots
        <4>. QED BY Zenon, <4>1, <4>2
      <3>3. \A tx \in pool : tx.of \in Proposals
        BY Zenon DEF IInv, TypeOK, Transactions
      <3>. QED BY Zenon, <3>1, <3>2, <3>3 DEF HasSigned
    <2>2. ASSUME NEW a \in Accounts, NEW p \in Signed(a), now < Expiration(p)
          PROVE  p \in saved[a] /\ p \in journal[a]
      <3>1. Clock(a) < Expiration(p)
        <4>1. Clock(a) \in Nat /\ Clock(a) <= now /\ now \in Nat /\ Expiration(p) \in Int
          BY Zenon, <2>1, ClockTypes, ProposalTypes DEF IInv
        <4>. QED BY ONLY <2>2, <4>1
      <3>. QED BY Zenon, <2>1, <3>1 DEF IInv, OnFile
    <2>3. WriteAhead
      BY Zenon, <2>2 DEF WriteAhead
    <2>4. ASSUME NEW a \in Accounts, NEW p \in Signed(a), NEW q \in Signed(a), Same(p, q)
          PROVE  now >= Expiration(p) \/ now >= Expiration(q)
      <3>0. p \in Proposals /\ q \in Proposals
        BY Zenon, <2>1
      <3>1. now \in Int /\ Expiration(p) \in Int /\ Expiration(q) \in Int
        <4>1. now \in 0 .. MaxTime /\ Expiration(p) \in Int /\ Expiration(q) \in Int
          BY Zenon, <3>0, ProposalTypes DEF IInv, TypeOK
        <4>. QED BY ONLY <4>1, Numbers
      <3>2. CASE now < Expiration(p) /\ now < Expiration(q)
        BY Zenon, <2>2, <2>4, <3>2 DEF IInv, OneEach
      <3>. QED BY <3>1, <3>2
    <2>. QED BY Zenon, <2>3, <2>4 DEF OneLiveApproval, Same
  <1>. QED BY <1>1, Invariance, PTL

Payments == {[id |-> p.of, exact |-> p.exact] : p \in {q \in executed : q.kind = "payout"}}

\* A transaction Steem may get to see: a signer is broadcasting it, or it is pending.
OnItsWay(tx) == tx \in pool \/ \E a \in Accounts : pass[a].step = "execute" /\ tx \in pass[a].send

\* What Steem executes of a signer's, or of what was delayed.
LEMMA InclusionSigned ==
    ASSUME IInv, NEW tx,
           tx \in pool \/ \E a \in Accounts : tx \in pass[a].send
    PROVE  tx \in Transactions /\ \A b \in tx.sigs : HasSigned(b, tx.of)
  <1>1. tx \in Transactions /\ tx.sigs \subseteq Accounts
    <2>1. tx \in Transactions
      BY Zenon DEF IInv, TypeOK
    <2>. QED BY ONLY <2>1 DEF Transactions
  <1>. QED BY Zenon, <1>1 DEF HasSigned

\* A step executes nothing, or one accepted transaction and changes nothing on the chain.
LEMMA StepExecutes ==
    ASSUME IInv, [Next]_vars
    PROVE  \/ executed' = executed
           \/ \E tx \in Transactions :
                 /\ Accepts(tx) /\ Included(tx) /\ \A b \in tx.sigs : HasSigned(b, tx.of)
                 /\ UNCHANGED <<height, owed>> /\ OnItsWay(tx)
  <1>1. ASSUME NEW a \in fleet.signers, Execute(a), executed' # executed
        PROVE  \E tx \in Transactions :
                 /\ Accepts(tx) /\ Included(tx) /\ \A b \in tx.sigs : HasSigned(b, tx.of)
                 /\ UNCHANGED <<height, owed>> /\ OnItsWay(tx)
    <2>1. PICK tx \in pass[a].send : Accepts(tx) /\ Included(tx) /\ pass[a].step = "execute"
      BY Zenon, <1>1 DEF Execute, Pass
    <2>2. a \in Accounts
      BY Zenon, SignersAreAccounts
    <2>. QED BY Zenon, <1>1, <2>1, <2>2, InclusionSigned DEF Execute, svmVars, OnItsWay
  <1>2. ASSUME IncludeLate
        PROVE  \E tx \in Transactions :
                 /\ Accepts(tx) /\ Included(tx) /\ \A b \in tx.sigs : HasSigned(b, tx.of)
                 /\ UNCHANGED <<height, owed>> /\ OnItsWay(tx)
    <2>1. PICK tx \in pool : Accepts(tx) /\ Included(tx)
      BY Zenon, <1>2 DEF IncludeLate
    <2>. QED BY Zenon, <1>2, <2>1, InclusionSigned DEF IncludeLate, svmVars, OnItsWay
  <1>3. ASSUME NEW a \in fleet.signers, Step(a), ~Execute(a)
        PROVE  executed' = executed
    BY Zenon, <1>3 DEF Step, Sync, VoteAndPropose, Publish, EndPass, Restart, Arrive, steemVars
  <1>4. PublishByHand \/ Request \/ Process \/ Tick \/ UNCHANGED vars => executed' = executed
    BY Zenon DEF PublishByHand, Request, Process, Tick, steemVars, vars
  <1>. QED BY ZenonT(40), <1>1, <1>2, <1>3, <1>4 DEF Next, Step

\* The chain's height only grows, and a withdrawal keeps its date.
LEMMA ChainGoesOn ==
    ASSUME IInv, [Next]_vars
    PROVE  /\ height' >= height
           /\ \A id \in Wids : owed[id].status # "NONE" => owed'[id].createdAt = owed[id].createdAt
  <1>1. height \in Nat /\ owed \in [Wids -> [status : {"NONE", "REQUESTED", "PROCESSED", "REFUNDED"},
                                            createdAt : 0 .. MaxHeight]]
    BY DEF IInv, TypeOK
  <1>2. CASE Tick
    <2>1. height' >= height
      BY SMTT(60), <1>1, <1>2, GatewayAssumption DEF Tick
    <2>2. PICK swept : owed' = [id \in Wids |-> IF id \in swept
                                                  THEN [owed[id] EXCEPT !.status = "REFUNDED"]
                                                  ELSE owed[id]]
      BY Zenon, <1>2 DEF Tick
    <2>3. \A id \in Wids : owed'[id].createdAt = owed[id].createdAt
      BY Zenon, <1>1, <2>2
    <2>. QED BY Zenon, <2>1, <2>3
  <1>3. CASE Request
    BY <1>1, <1>3 DEF Request
  <1>4. CASE Process
    <2>1. PICK id : owed' = [owed EXCEPT ![id].status = "PROCESSED"]
      BY ZenonT(40), <1>4 DEF Process
    <2>. QED BY <1>1, <1>4, <2>1 DEF Process
  <1>5. CASE UNCHANGED <<height, owed>>
    BY <1>1, <1>5
  <1>6. \A a \in fleet.signers : Step(a) => UNCHANGED <<height, owed>>
    BY Zenon DEF Step, Sync, VoteAndPropose, Publish, Execute, EndPass, Restart, Arrive, svmVars
  <1>7. IncludeLate \/ PublishByHand \/ UNCHANGED vars => UNCHANGED <<height, owed>>
    BY Zenon DEF IncludeLate, PublishByHand, svmVars, vars
  <1>. QED BY Zenon, <1>2, <1>3, <1>4, <1>5, <1>6, <1>7 DEF Next

\* A withdrawal that is settled stays so, and one that was requested is never forgotten.
LEMMA StatusGoesOn ==
    ASSUME IInv, [Next]_vars, NEW id \in Wids
    PROVE  /\ owed[id].status \in {"PROCESSED", "REFUNDED"} => owed'[id].status = owed[id].status
           /\ owed[id].status # "NONE" => owed'[id].status # "NONE"
  <1>1. owed \in [Wids -> [status : {"NONE", "REQUESTED", "PROCESSED", "REFUNDED"},
                           createdAt : 0 .. MaxHeight]]
    BY Zenon DEF IInv, TypeOK
  <1>2. CASE Tick
    <2>1. PICK swept : /\ swept \subseteq {i \in Wids : owed[i].status = "REQUESTED"}
                       /\ owed' = [i \in Wids |-> IF i \in swept
                                                    THEN [owed[i] EXCEPT !.status = "REFUNDED"]
                                                    ELSE owed[i]]
      BY Zenon, <1>2 DEF Tick
    <2>2. owed'[id] = IF id \in swept THEN [owed[id] EXCEPT !.status = "REFUNDED"] ELSE owed[id]
      BY Zenon, <2>1
    <2>. QED BY <1>1, <2>1, <2>2
  <1>3. CASE Request
    BY <1>1, <1>3 DEF Request
  <1>4. CASE Process
    <2>1. PICK i : /\ owed[i].status = "REQUESTED"
                   /\ owed' = [owed EXCEPT ![i].status = "PROCESSED"]
      BY ZenonT(40), <1>4 DEF Process
    <2>. QED BY <1>1, <2>1
  <1>5. CASE UNCHANGED owed
    BY <1>5
  <1>6. \A a \in fleet.signers : Step(a) => UNCHANGED owed
    BY Zenon DEF Step, Sync, VoteAndPropose, Publish, Execute, EndPass, Restart, Arrive, svmVars
  <1>7. IncludeLate \/ PublishByHand \/ UNCHANGED vars => UNCHANGED owed
    BY Zenon DEF IncludeLate, PublishByHand, svmVars, vars
  <1>. QED BY Zenon, <1>2, <1>3, <1>4, <1>5, <1>6, <1>7 DEF Next

-----------------------------------------------------------------------------
(* Time. *)

\* The margin before p's refund is used up by no more than t ticks.
InTime(p, t) ==
    p.kind = "payout" =>
        /\ owed[p.of].status # "NONE"
        /\ height + PayoutMarginBlocks <= Deadline(p.of) + Speed * t

(***************************************************************************)
(* A pass takes no more than MaxSpan; what it sends had the margin left    *)
(* when it began, and what is pending since it was broadcast has, then,    *)
(* lost no more than MaxSpan and the time that it is pending.              *)
(***************************************************************************)
Timing ==
    /\ \A a \in Accounts : pass[a].step # "idle" => now <= pass[a].now + MaxSpan
    /\ \A a \in Accounts : \A tx \in pass[a].send : InTime(tx.of, now - pass[a].now)
    /\ \A tx \in pool : InTime(tx.of, MaxSpan + MaxAhead - (Expiration(tx.of) - now))

\* Heights are numbers.
LEMMA ChainNumbers ==
    ASSUME IInv, NEW id \in Wids
    PROVE  owed[id].createdAt \in Int /\ height \in Int
  <1>1. height \in 0 .. MaxHeight /\ owed[id].createdAt \in 0 .. MaxHeight
    BY Zenon DEF IInv, TypeOK
  <1>. QED BY ONLY <1>1, Numbers

\* What is in time is so with more time allowed.
LEMMA MoreTime ==
    ASSUME IInv, NEW p \in Proposals, NEW s \in Int, NEW t \in Int, s <= t, InTime(p, s)
    PROVE  InTime(p, t)
  <1>. SUFFICES ASSUME p.kind = "payout" PROVE InTime(p, t)
    BY Zenon DEF InTime
  <1>1. /\ owed[p.of].status # "NONE"
        /\ height + PayoutMarginBlocks <= Deadline(p.of) + Speed * s
    BY Zenon DEF InTime
  <1>2. p.of \in Wids
    BY Zenon, ProposalTypes
  <1>3. owed[p.of].createdAt \in Int /\ height \in Int
    BY Zenon, <1>2, ChainNumbers
  <1>4. Speed * s <= Speed * t /\ Speed * s \in Int /\ Speed * t \in Int
    BY Zenon, Numbers, TimesMonotone
  <1>5. height + PayoutMarginBlocks <= Deadline(p.of) + Speed * t
    <2>. DEFINE x == Speed * s
                y == Speed * t
    <2>1. /\ height + PayoutMarginBlocks <= Deadline(p.of) + x
          /\ x <= y /\ x \in Int /\ y \in Int
      BY Zenon, <1>1, <1>4
    <2>. HIDE DEF x, y
    <2>2. height + PayoutMarginBlocks <= Deadline(p.of) + y
      BY ONLY <1>3, <2>1, Numbers DEF Deadline
    <2>. QED BY Zenon, <2>2 DEF y
  <1>. QED BY Zenon, <1>1, <1>5 DEF InTime

\* What is on its way when Steem sees it was reviewed not long ago.
LEMMA SentInTime ==
    ASSUME IInv, Timing, NEW tx \in Transactions, Accepts(tx), OnItsWay(tx)
    PROVE  InTime(tx.of, MaxSpan + MaxAhead)
  <1>1. tx.of \in Proposals /\ Expiration(tx.of) \in Int
    BY Zenon, ProposalTypes DEF Transactions
  <1>2. now \in 0 .. MaxTime /\ now < Expiration(tx.of)
    BY Zenon DEF IInv, TypeOK, Accepts
  <1>3. CASE tx \in pool
    <2>1. InTime(tx.of, MaxSpan + MaxAhead - (Expiration(tx.of) - now))
      BY Zenon, <1>3 DEF Timing
    <2>. DEFINE t == MaxSpan + MaxAhead - (Expiration(tx.of) - now)
    <2>2. t \in Int /\ MaxSpan + MaxAhead \in Int /\ t <= MaxSpan + MaxAhead
      BY ONLY <1>1, <1>2, Numbers
    <2>. HIDE DEF t
    <2>. QED BY Zenon, <1>1, <2>1, <2>2, MoreTime DEF t
  <1>4. ASSUME NEW a \in Accounts, pass[a].step = "execute", tx \in pass[a].send
        PROVE  InTime(tx.of, MaxSpan + MaxAhead)
    <2>1. InTime(tx.of, now - pass[a].now) /\ now <= pass[a].now + MaxSpan
      BY Zenon, <1>4 DEF Timing
    <2>2. pass[a].now \in 0 .. MaxTime
      BY Zenon DEF IInv, TypeOK
    <2>. DEFINE t == now - pass[a].now
    <2>3. t \in Int /\ MaxSpan + MaxAhead \in Int /\ t <= MaxSpan + MaxAhead
      BY ONLY <1>2, <2>1, <2>2, Numbers
    <2>. HIDE DEF t
    <2>. QED BY Zenon, <1>1, <2>1, <2>3, MoreTime DEF t
  <1>. QED BY Zenon, <1>3, <1>4 DEF OnItsWay

\* What a step that takes no time must do to keep to it.
LEMMA TimingKept ==
    ASSUME Timing, UNCHANGED <<now, height>>,
           \A id \in Wids : owed[id].status # "NONE" =>
               owed'[id].status # "NONE" /\ owed'[id].createdAt = owed[id].createdAt,
           TypeOK, TypeOK',
           \A tx \in pool' :
               \/ tx \in pool
               \/ InTime(tx.of, MaxSpan + MaxAhead - (Expiration(tx.of) - now)),
           \A b \in Accounts : \A tx \in pass'[b].send :
               \/ tx \in pass[b].send /\ pass'[b].now = pass[b].now
               \/ InTime(tx.of, now - pass'[b].now),
           \A b \in Accounts : pass'[b].step # "idle" =>
               \/ pass[b].step # "idle" /\ pass'[b].now = pass[b].now
               \/ pass'[b].now = now
    PROVE  Timing'
  <1>1. \A p \in Proposals : \A t : InTime(p, t) => InTime(p, t)'
    BY Zenon, ProposalTypes DEF InTime, Deadline
  <1>2. ASSUME NEW b \in Accounts, NEW tx \in pass'[b].send
        PROVE  InTime(tx.of, now - pass[b].now)'
    <2>1. tx.of \in Proposals
      <3>1. tx \in Transactions
        BY Zenon DEF TypeOK
      <3>. QED BY Zenon, <3>1 DEF Transactions
    <2>2. InTime(tx.of, now - pass'[b].now)
      BY Zenon DEF Timing
    <2>3. \A t : InTime(tx.of, t) => InTime(tx.of, t)'
      BY Zenon, <1>1, <2>1
    <2>. QED BY Zenon, <2>2, <2>3 DEF InTime
  <1>3. ASSUME NEW tx \in pool'
        PROVE  InTime(tx.of, MaxSpan + MaxAhead - (Expiration(tx.of) - now))'
    <2>1. tx.of \in Proposals
      BY Zenon DEF TypeOK, Transactions
    <2>2. InTime(tx.of, MaxSpan + MaxAhead - (Expiration(tx.of) - now))
      BY Zenon DEF Timing
    <2>. QED BY Zenon, <1>1, <2>1, <2>2 DEF InTime, Expiration
  <1>4. ASSUME NEW b \in Accounts, pass'[b].step # "idle"
        PROVE  now' <= pass'[b].now + MaxSpan
    <2>1. \/ now <= pass[b].now + MaxSpan /\ pass'[b].now = pass[b].now
          \/ pass'[b].now = now
      BY Zenon, <1>4 DEF Timing
    <2>2. now \in 0 .. MaxTime
      BY Zenon DEF TypeOK
    <2>3. now' = now
      OBVIOUS
    <2>. QED BY ONLY <2>1, <2>2, <2>3, Numbers
  <1>. QED BY Zenon, <1>2, <1>3, <1>4 DEF Timing

\* The rest of a pass has the time of the pass, or nothing to send.
OfTime(o, t, send) ==
    /\ o.step # "idle" => o.now = t
    /\ o.send \subseteq send
    /\ o.send # {} => o.now = t

LEMMA OnwardTimes ==
    ASSUME NEW v, NEW new, NEW send
    PROVE  OfTime(Onward(v, new, send), v.now, send)
  <1>. DEFINE o == Onward(v, new, send)
  <1>1. \/ o = [Idle EXCEPT !.step = "publish", !.now = v.now, !.new = new, !.send = send]
        \/ o = [Idle EXCEPT !.step = "execute", !.now = v.now, !.send = send]
        \/ o = Idle
    BY Zenon DEF Onward
  <1>. HIDE DEF o
  <1>2. ASSUME o = [Idle EXCEPT !.step = "publish", !.now = v.now, !.new = new, !.send = send]
        PROVE  OfTime(o, v.now, send)
    <2>1. o.now = v.now /\ o.send = send
      BY ONLY <1>2 DEF Idle
    <2>. QED BY Zenon, <2>1 DEF OfTime
  <1>3. ASSUME o = [Idle EXCEPT !.step = "execute", !.now = v.now, !.send = send]
        PROVE  OfTime(o, v.now, send)
    <2>1. o.now = v.now /\ o.send = send
      BY ONLY <1>3 DEF Idle
    <2>. QED BY Zenon, <2>1 DEF OfTime
  <1>4. ASSUME o = Idle
        PROVE  OfTime(o, v.now, send)
    BY Zenon, <1>4, EmptyIsBallot DEF OfTime
  <1>5. OfTime(o, v.now, send)
    BY Zenon, <1>1, <1>2, <1>3, <1>4
  <1>. QED BY Zenon, <1>5 DEF o

\* What a pass sends has the margin left by what it has read.
LEMMA ExecutableInTime ==
    ASSUME IInv, NEW a \in Accounts, NEW entries, NEW tx \in Executable(a, Seen(a), entries)
    PROVE  tx.of \in Proposals /\ InTime(tx.of, 0)
  <1>. DEFINE v == Seen(a)
  <1>0. v.height = height /\ v.requested = {id \in Wids : owed[id].status = "REQUESTED"}
    BY Zenon, SeenFields
  <1>1. PICK p : /\ tx = [of |-> p, sigs |-> MinimalSignatures(v, p)]
                 /\ Review(v, p, entries, v.ballots[a].yes \ {p}) = "approve"
    BY Zenon DEF Executable
  <1>. HIDE DEF v
  <1>2. tx.of = p
    BY ONLY <1>1
  <1>3. tx.of \in Proposals
    BY Zenon, ExecutableSigned DEF Known
  <1>4. ASSUME p.kind = "payout"
        PROVE  owed[p.of].status = "REQUESTED" /\ height + PayoutMarginBlocks <= Deadline(p.of)
    <2>1. PayoutFacts(v, p) = "approve"
      BY Zenon, <1>1, <1>4 DEF Review, ReviewTransfer
    <2>2. /\ ~TooClose(v, p.of)
          /\ p.of \in v.requested \/ owed[p.of].status = "REQUESTED"
      BY Zenon, <2>1 DEF PayoutFacts
    <2>3. p.of \in Wids
      BY Zenon, <1>2, <1>3, <1>4, ProposalTypes
    <2>4. owed[p.of].createdAt \in Int /\ height \in Int
      BY Zenon, <2>3, ChainNumbers
    <2>5. ~(height + PayoutMarginBlocks > Deadline(p.of))
      BY Zenon, <1>0, <2>2 DEF TooClose, Deadline
    <2>6. height + PayoutMarginBlocks <= Deadline(p.of)
      BY ONLY <2>4, <2>5, Numbers DEF Deadline
    <2>. QED BY Zenon, <1>0, <2>2, <2>6
  <1>5. ASSUME p.kind = "payout"
        PROVE  height + PayoutMarginBlocks <= Deadline(p.of) + Speed * 0
    <2>1. p.of \in Wids
      BY Zenon, <1>2, <1>3, <1>5, ProposalTypes
    <2>2. owed[p.of].createdAt \in Int /\ height \in Int
      BY Zenon, <2>1, ChainNumbers
    <2>3. Speed * 0 = 0
      BY ONLY Numbers
    <2>4. height + PayoutMarginBlocks <= Deadline(p.of)
      BY Zenon, <1>4, <1>5
    <2>. QED BY ONLY <2>2, <2>3, <2>4, Numbers DEF Deadline
  <1>. QED BY Zenon, <1>2, <1>3, <1>4, <1>5 DEF InTime

\* A signer's steps.
LEMMA StepTiming ==
    ASSUME IInv, Timing, NEW a \in Accounts, Step(a), TypeOK'
    PROVE  Timing'
  <1>1. /\ UNCHANGED <<now, height, owed>> /\ TypeOK
        /\ pass = [c \in Accounts |-> pass[c]] /\ pass[a] \in PassRecords
    BY Zenon DEF Step, Sync, VoteAndPropose, Publish, Execute, EndPass, Restart, Arrive,
                 svmVars, steemVars, IInv, TypeOK, PassRecords
  <1>2. ASSUME NEW o, pass' = [pass EXCEPT ![a] = o],
               \A tx \in pool' :
                  \/ tx \in pool
                  \/ InTime(tx.of, MaxSpan + MaxAhead - (Expiration(tx.of) - now)),
               \A tx \in o.send :
                  \/ tx \in pass[a].send /\ o.now = pass[a].now
                  \/ InTime(tx.of, now - o.now),
               o.step # "idle" =>
                  \/ pass[a].step # "idle" /\ o.now = pass[a].now
                  \/ o.now = now
        PROVE  Timing'
    <2>1. pass'[a] = o /\ \A c \in Accounts \ {a} : pass'[c] = pass[c]
      BY Zenon, <1>1, <1>2
    <2>2. \A b \in Accounts : \A tx \in pass'[b].send :
               \/ tx \in pass[b].send /\ pass'[b].now = pass[b].now
               \/ InTime(tx.of, now - pass'[b].now)
      BY Zenon, <1>2, <2>1
    <2>3. \A b \in Accounts : pass'[b].step # "idle" =>
               \/ pass[b].step # "idle" /\ pass'[b].now = pass[b].now
               \/ pass'[b].now = now
      BY Zenon, <1>2, <2>1
    <2>. QED BY Zenon, <1>1, <1>2, <2>2, <2>3, TimingKept
  <1>3. CASE Sync(a)
    <2>. DEFINE o == [Idle EXCEPT !.step = "synced", !.now = now, !.done = executed,
                                  !.changedAt = changedAt]
    <2>1. o.now = now /\ o.send = {}
      BY DEF Idle
    <2>2. pool' = pool /\ pass' = [pass EXCEPT ![a] = o]
      BY Zenon, <1>3 DEF Sync, Pass
    <2>. HIDE DEF o
    <2>. QED BY Zenon, <1>2, <2>1, <2>2
  <1>4. CASE VoteAndPropose(a)
    <2>. DEFINE v == Seen(a)
    <2>1. PICK new, entries :
              /\ pass' = [pass EXCEPT ![a] = Onward(v, new, Executable(a, v, entries))]
              /\ pass[a].step = "synced"
      <3>1. CASE a \notin Members(auth)
        <4>1. Pass(a, "synced", Onward(v, EmptyBallot, Executable(a, v, journal[a])))
          BY Zenon, <1>4, <3>1 DEF VoteAndPropose
        <4>. QED BY Zenon, <4>1 DEF Pass
      <3>2. CASE a \in Members(auth)
        <4>1. PICK new, entries : Pass(a, "synced", Onward(v, new, Executable(a, v, entries)))
          BY ZenonT(40), <1>4, <3>2 DEF VoteAndPropose
        <4>. QED BY Zenon, <4>1 DEF Pass
      <3>. QED BY Zenon, <3>1, <3>2
    <2>. DEFINE send == Executable(a, v, entries)
                o == Onward(v, new, send)
    <2>2. \A tx \in send : tx.of \in Proposals /\ InTime(tx.of, 0)
      BY Zenon, ExecutableInTime
    <2>3. v.now = pass[a].now
      BY Zenon, SeenFields
    <2>4. /\ o.step # "idle" => o.now = pass[a].now
          /\ o.send \subseteq send /\ (o.send # {} => o.now = pass[a].now)
      <3>1. OfTime(o, v.now, send)
        BY Zenon, OnwardTimes
      <3>. HIDE DEF o
      <3>. QED BY Zenon, <2>3, <3>1 DEF OfTime
    <2>5. pool' = pool /\ pass' = [pass EXCEPT ![a] = o]
      BY Zenon, <1>4, <2>1 DEF VoteAndPropose
    <2>. HIDE DEF o, send, v
    <2>6. ASSUME NEW tx \in o.send
          PROVE  InTime(tx.of, now - o.now)
      <3>1. tx.of \in Proposals /\ InTime(tx.of, 0) /\ o.now = pass[a].now
        BY Zenon, <2>2, <2>4
      <3>2. pass[a].now \in Nat /\ now \in Nat /\ pass[a].now <= now
        <4>1. pass[a].now \in Nat /\ now \in Nat
          BY Zenon, ClockTypes DEF IInv
        <4>. QED BY Zenon, <4>1 DEF IInv, Past
      <3>. DEFINE t == now - o.now
      <3>3. t \in Int /\ 0 \in Int /\ 0 <= t
        BY ONLY <3>1, <3>2
      <3>. HIDE DEF t
      <3>4. InTime(tx.of, t)
        BY Zenon, <3>1, <3>3, MoreTime
      <3>. QED BY Zenon, <3>4 DEF t
    <2>. QED BY Zenon, <1>2, <2>1, <2>4, <2>5, <2>6
  <1>5. CASE Publish(a)
    <2>. DEFINE o == Onward(pass[a], EmptyBallot, pass[a].send)
    <2>1. pool' = pool /\ pass' = [pass EXCEPT ![a] = o] /\ pass[a].step = "publish"
      BY Zenon, <1>5 DEF Publish, Pass
    <2>2. /\ o.step # "idle" => o.now = pass[a].now
          /\ o.send \subseteq pass[a].send /\ (o.send # {} => o.now = pass[a].now)
      <3>1. OfTime(o, pass[a].now, pass[a].send)
        BY Zenon, OnwardTimes
      <3>. HIDE DEF o
      <3>. QED BY Zenon, <3>1 DEF OfTime
    <2>. HIDE DEF o
    <2>. QED BY Zenon, <1>2, <2>1, <2>2
  <1>6. CASE Execute(a)
    <2>. DEFINE rest(tx) == {t \in pass[a].send : t # tx /\ t.of.at >= tx.of.at}
    <2>1. PICK tx \in pass[a].send :
              /\ pool' = pool \/ (pool' = pool \cup {tx} /\ Accepts(tx))
              /\ Pass(a, "execute", Onward(pass[a], EmptyBallot, rest(tx)))
      BY Zenon, <1>6 DEF Execute
    <2>2. rest(tx) \subseteq pass[a].send
      BY Zenon
    <2>. HIDE DEF rest
    <2>. DEFINE o == Onward(pass[a], EmptyBallot, rest(tx))
    <2>3. pass' = [pass EXCEPT ![a] = o] /\ pass[a].step = "execute"
      BY Zenon, <2>1 DEF Pass
    <2>4. /\ o.step # "idle" => o.now = pass[a].now
          /\ o.send \subseteq rest(tx) /\ (o.send # {} => o.now = pass[a].now)
      <3>1. OfTime(o, pass[a].now, rest(tx))
        BY Zenon, OnwardTimes
      <3>. HIDE DEF o
      <3>. QED BY Zenon, <3>1 DEF OfTime
    <2>. HIDE DEF o
    <2>5. ASSUME Accepts(tx)
          PROVE  InTime(tx.of, MaxSpan + MaxAhead - (Expiration(tx.of) - now))
      <3>1. tx.of \in Proposals
        <4>1. tx \in Transactions
          BY Zenon DEF IInv, TypeOK
        <4>. QED BY Zenon, <4>1 DEF Transactions
      <3>2. InTime(tx.of, now - pass[a].now) /\ now <= pass[a].now + MaxSpan
        BY Zenon, <2>3 DEF Timing
      <3>3. Expiration(tx.of) \in Int /\ Expiration(tx.of) <= now + MaxAhead
        BY Zenon, <2>5, <3>1, ProposalTypes DEF Accepts
      <3>4. now \in 0 .. MaxTime /\ pass[a].now \in 0 .. MaxTime
        BY Zenon DEF IInv, TypeOK
      <3>. DEFINE t == now - pass[a].now
                  u == MaxSpan + MaxAhead - (Expiration(tx.of) - now)
      <3>5. t \in Int /\ u \in Int /\ t <= u
        BY ONLY <3>2, <3>3, <3>4, Numbers
      <3>6. InTime(tx.of, t)
        BY Zenon, <3>2
      <3>. HIDE DEF t, u
      <3>7. InTime(tx.of, u)
        BY Zenon, <3>1, <3>5, <3>6, MoreTime
      <3>. QED BY Zenon, <3>7 DEF u
    <2>. QED BY Zenon, <1>2, <2>1, <2>2, <2>3, <2>4, <2>5
  <1>7. CASE EndPass(a) \/ Restart(a)
    <2>1. pool' = pool /\ pass' = [pass EXCEPT ![a] = Idle]
      BY Zenon, <1>7 DEF EndPass, Restart, Pass
    <2>. QED BY Zenon, <1>2, <2>1, EmptyIsBallot
  <1>8. CASE Arrive(a)
    <2>1. pool' = pool /\ pass' = pass
      BY Zenon, <1>8 DEF Arrive, signerVars
    <2>. QED BY Zenon, <1>1, <2>1, TimingKept
  <1>. QED BY Zenon, <1>3, <1>4, <1>5, <1>6, <1>7, <1>8 DEF Step

\* One tick of Steem's clock, and the blocks of the chain that it brings.
LEMMA TickTiming ==
    ASSUME IInv, Timing, Tick
    PROVE  Timing'
  <1>1. /\ now' = now + 1 /\ UNCHANGED <<pass, fleet>>
        /\ pool' \subseteq pool /\ height' \in {height + n : n \in Speeds}
    BY Zenon DEF Tick, signerVars
  <1>2. height \in Int /\ height' \in Int /\ height' <= height + Speed
    <2>1. height \in 0 .. MaxHeight
      BY Zenon DEF IInv, TypeOK
    <2>2. Speeds \subseteq 0 .. Speed
      BY Zenon, GatewayAssumption
    <2>. QED BY ONLY <1>1, <2>1, <2>2, Numbers
  <1>3. ASSUME NEW p \in Proposals, NEW t \in Int, InTime(p, t)
        PROVE  p.kind = "payout" =>
                  /\ owed'[p.of].status # "NONE"
                  /\ height' + PayoutMarginBlocks <= Deadline(p.of)' + Speed * (t + 1)
    <2>. HAVE p.kind = "payout"
    <2>1. p.of \in Wids
      BY Zenon, ProposalTypes
    <2>2. /\ owed[p.of].status # "NONE"
          /\ height + PayoutMarginBlocks <= Deadline(p.of) + Speed * t
      BY Zenon, <1>3 DEF InTime
    <2>3. owed'[p.of].status # "NONE" /\ owed'[p.of].createdAt = owed[p.of].createdAt
      BY Zenon, <2>1, <2>2, ChainGoesOn, StatusGoesOn DEF Next
    <2>4. owed[p.of].createdAt \in Int
      BY Zenon, <2>1, ChainNumbers
    <2>5. Speed * (t + 1) = Speed * t + Speed /\ Speed * t \in Int
      BY ONLY Numbers, t \in Int
    <2>. DEFINE x == Speed * t
    <2>6. height + PayoutMarginBlocks <= Deadline(p.of) + x /\ x \in Int
      BY Zenon, <2>2, <2>5
    <2>. HIDE DEF x
    <2>7. height' + PayoutMarginBlocks <= Deadline(p.of) + (x + Speed)
      BY ONLY <1>2, <2>4, <2>6, Numbers DEF Deadline
    <2>8. height' + PayoutMarginBlocks <= Deadline(p.of)' + Speed * (t + 1)
      BY Zenon, <2>3, <2>5, <2>7 DEF Deadline, x
    <2>. QED BY Zenon, <2>3, <2>8
  <1>4. now \in 0 .. MaxTime /\ \A b \in Accounts : pass[b].now \in 0 .. MaxTime
    BY Zenon DEF IInv, TypeOK
  <1>5. ASSUME NEW b \in Accounts, NEW tx \in pass[b].send
        PROVE  InTime(tx.of, now - pass[b].now)'
    <2>1. tx.of \in Proposals
      <3>1. tx \in Transactions
        BY Zenon DEF IInv, TypeOK
      <3>. QED BY Zenon, <3>1 DEF Transactions
    <2>. DEFINE t == now - pass[b].now
    <2>2. t \in Int /\ now' - pass[b].now = t + 1
      BY ONLY <1>1, <1>4
    <2>3. InTime(tx.of, t)
      BY Zenon DEF Timing
    <2>. HIDE DEF t
    <2>4. tx.of.kind = "payout" =>
              /\ owed'[tx.of.of].status # "NONE"
              /\ height' + PayoutMarginBlocks <= Deadline(tx.of.of)' + Speed * (t + 1)
      BY Zenon, <1>3, <2>1, <2>2, <2>3
    <2>. QED BY Zenon, <1>1, <2>2, <2>4 DEF InTime, t
  <1>6. ASSUME NEW tx \in pool
        PROVE  InTime(tx.of, MaxSpan + MaxAhead - (Expiration(tx.of) - now))'
    <2>1. tx.of \in Proposals
      BY Zenon DEF IInv, TypeOK, Transactions
    <2>. DEFINE t == MaxSpan + MaxAhead - (Expiration(tx.of) - now)
    <2>2. /\ t \in Int
          /\ MaxSpan + MaxAhead - (Expiration(tx.of) - now') = t + 1
      <3>1. Expiration(tx.of) \in Int
        BY Zenon, <2>1, ProposalTypes
      <3>. QED BY ONLY <1>1, <1>4, <3>1, Numbers
    <2>3. InTime(tx.of, t)
      BY Zenon DEF Timing
    <2>. HIDE DEF t
    <2>4. tx.of.kind = "payout" =>
              /\ owed'[tx.of.of].status # "NONE"
              /\ height' + PayoutMarginBlocks <= Deadline(tx.of.of)' + Speed * (t + 1)
      BY Zenon, <1>3, <2>1, <2>2, <2>3
    <2>. QED BY Zenon, <2>2, <2>4 DEF InTime, Expiration, t
  <1>7. ASSUME NEW b \in Accounts, pass[b].step # "idle"
        PROVE  now' <= pass[b].now + MaxSpan
    <2>1. now < pass[b].now + fleet.span
      BY Zenon, <1>7 DEF Tick
    <2>2. fleet.span \in 0 .. MaxSpan
      BY Zenon, GatewayAssumption DEF IInv, TypeOK
    <2>. QED BY ONLY <1>1, <1>4, <2>1, <2>2, Numbers
  <1>. QED BY Zenon, <1>1, <1>5, <1>6, <1>7 DEF Timing

\* Every step keeps to the time.
LEMMA NextTiming ==
    ASSUME IInv, Timing, [Next]_vars
    PROVE  Timing'
  <1>1. TypeOK /\ TypeOK'
    BY Zenon, NextInv DEF IInv
  <1>2. ASSUME NEW a \in fleet.signers, Step(a)
        PROVE  Timing'
    BY Zenon, <1>1, <1>2, SignersAreAccounts, StepTiming
  <1>3. CASE Tick
    BY Zenon, <1>3, TickTiming
  <1>4. CASE IncludeLate \/ PublishByHand \/ Request \/ Process \/ UNCHANGED vars
    <2>1. UNCHANGED <<now, height, pass>> /\ pool' \subseteq pool
      BY Zenon, <1>4 DEF IncludeLate, PublishByHand, Request, Process, vars, svmVars, steemVars,
                         signerVars
    <2>2. \A id \in Wids : owed[id].status # "NONE" =>
              owed'[id].status # "NONE" /\ owed'[id].createdAt = owed[id].createdAt
      BY Zenon, ChainGoesOn, StatusGoesOn
    <2>. QED BY Zenon, <1>1, <2>1, <2>2, TimingKept
  <1>. QED BY Zenon, <1>2, <1>3, <1>4 DEF Next

\* And it holds at first.
LEMMA InTimeAlways == Spec => []Timing
  <1>1. Init => Timing
    <2>. SUFFICES ASSUME Init PROVE Timing
      OBVIOUS
    <2>1. \A a \in Accounts : pass[a] = Idle
      BY Zenon DEF Init
    <2>2. pool = {}
      BY Zenon DEF Init
    <2>. QED BY Zenon, <2>1, <2>2, EmptyIsBallot DEF Timing
  <1>. QED BY <1>1, NextTiming, Invariance, PTL DEF Spec

(***************************************************************************)
(* The signers implement Payouts: each payout is of a withdrawal still     *)
(* owed, exact, the first, and leaves what the margin exceeds the blocks   *)
(* of MaxSpan + MaxAhead by, whatever expiration its proposal was given:   *)
(* execute's second review is what bounds it (payoutFacts, execute).       *)
(***************************************************************************)
THEOREM SignersKeepPromise == Spec => PaidAsPromised
  <1>1. Init => Promise!Init
    <2>. SUFFICES ASSUME Init PROVE Promise!Init
      OBVIOUS
    <2>1. /\ owed = [id \in Wids |-> [status |-> "NONE", createdAt |-> 0]]
          /\ executed = {}
      BY Zenon DEF Init
    <2>2. \A id \in Wids : owed[id].status = "NONE"
      BY ONLY <2>1
    <2>3. {[id |-> p.of, exact |-> p.exact] : p \in {q \in executed : q.kind = "payout"}} = {}
      BY ONLY <2>1
    <2>. QED BY Zenon, <2>2, <2>3 DEF Promise!Init
  <1>2. IInv /\ Timing /\ [Next]_vars => [Promise!Next]_<<height, owed, Payments>>
    <2>. SUFFICES ASSUME IInv, Timing, [Next]_vars
                  PROVE  Promise!Next
      BY Zenon
    <2>1. CASE Payments' = Payments
      BY Zenon, <2>1, ChainGoesOn DEF Payments, Promise!Next, Promise!Chain
    <2>2. ASSUME Payments' # Payments
          PROVE  \E id \in Wids : Promise!Pay(id)
      <3>1. executed' # executed
        BY Zenon, <2>2 DEF Payments
      <3>2. PICK tx \in Transactions :
                /\ Accepts(tx) /\ Included(tx) /\ \A b \in tx.sigs : HasSigned(b, tx.of)
                /\ UNCHANGED <<height, owed>> /\ OnItsWay(tx)
        BY Zenon, <3>1, StepExecutes
      <3>. DEFINE q == tx.of
      <3>3. executed' = executed \cup {q} /\ q \in Proposals
        BY Zenon, <3>2 DEF Included, Transactions
      <3>4. q.kind = "payout"
        BY Zenon, <2>2, <3>3 DEF Payments
      <3>5. /\ \A p \in executed : p.kind = "payout" => p.of # q.of
            /\ q.exact /\ owed[q.of].status \in {"REQUESTED", "REFUNDED"}
        BY Zenon, <3>2, <3>4, Inclusion
      <3>6. q.of \in Wids /\ q.exact = TRUE
        BY Zenon, <3>3, <3>4, <3>5, ProposalTypes
      <3>50. height + PayoutMarginBlocks <= Deadline(q.of) + Speed * (MaxSpan + MaxAhead)
        BY Zenon, <3>2, <3>4, SentInTime DEF InTime
      <3>51. owed[q.of].createdAt \in Int /\ height \in Int
        BY Zenon, <3>6, ChainNumbers
      <3>52. owed[q.of].status = "REQUESTED"
        <4>1. owed[q.of].status # "REFUNDED" \/ Deadline(q.of) < height
          BY Zenon, <3>6 DEF IInv, Settled
        <4>2. PayoutMarginBlocks >= Speed * (MaxSpan + MaxAhead)
          BY Zenon, TimingAssumption
        <4>3. ~(Deadline(q.of) < height)
          BY ONLY <3>50, <3>51, <4>2, Numbers DEF Deadline
        <4>. QED BY Zenon, <3>5, <4>1, <4>3
      <3>7. Payments' = Payments \cup {[id |-> q.of, exact |-> TRUE]}
        BY Zenon, <3>3, <3>4, <3>6 DEF Payments
      <3>8. \A p \in Payments : p.id # q.of
        BY <3>5 DEF Payments
      <3>9. height + (PayoutMarginBlocks - Speed * (MaxSpan + MaxAhead))
                <= owed[q.of].createdAt + Timeout
        BY ONLY <3>50, <3>51, Numbers DEF Deadline
      <3>. QED BY Zenon, <3>2, <3>5, <3>52, <3>6, <3>7, <3>8, <3>9 DEF Promise!Pay, Payments
    <2>. QED BY Zenon, <2>1, <2>2 DEF Promise!Next
  <1>. QED BY <1>1, <1>2, Invariance, InTimeAlways, PTL DEF Spec, PaidAsPromised, Promise!Spec, Promise!vars, Payments

-----------------------------------------------------------------------------
(* Denials. *)

(***************************************************************************)
(* What makes a payout wrong for good: unlike the mere date, which a       *)
(* request may still set, the date of a withdrawal that was requested.     *)
(***************************************************************************)
Wrong(p) ==
    p.kind = "payout" =>
        \/ ~p.exact
        \/ p.of \in PaidBy(executed)
        \/ owed[p.of].status \in {"PROCESSED", "REFUNDED"}
        \/ /\ owed[p.of].status # "NONE"
           /\ height + PayoutMarginBlocks > owed[p.of].createdAt + Timeout

\* Denials of a, published, on their way, or about to be.
Denials(a) == ballot[a].no \cup pass[a].new.no \cup UNION {b.no : b \in late[a]}

\* A pass has read no payout that was not executed, and denied none that may be right.
Justified ==
    \A a \in Accounts : pass[a].done \subseteq executed /\ \A p \in Denials(a) : Wrong(p)

\* What is wrong stays wrong.
LEMMA WrongForGood ==
    ASSUME IInv, [Next]_vars, NEW p \in Proposals, Wrong(p)
    PROVE  Wrong(p)'
  <1>. SUFFICES ASSUME p.kind = "payout" PROVE Wrong(p)'
    BY Zenon DEF Wrong
  <1>. DEFINE w == owed[p.of]
  <1>1. p.of \in Wids
    BY Zenon, ProposalTypes
  <1>2. executed \subseteq executed'
    <2>1. \A tx : Included(tx) => executed \subseteq executed'
      BY Zenon DEF Included
    <2>. QED BY Zenon, <2>1, StepExecutes
  <1>3. p.of \in PaidBy(executed) => p.of \in PaidBy(executed)'
    BY Zenon, <1>2 DEF PaidBy
  <1>4. /\ w.status \in {"PROCESSED", "REFUNDED"} => w'.status = w.status
        /\ w.status # "NONE" => w'.status # "NONE" /\ w'.createdAt = w.createdAt
        /\ height' >= height
    BY Zenon, <1>1, StatusGoesOn, ChainGoesOn
  <1>5. height \in Int /\ height' \in Int
    <2>1. height \in 0 .. MaxHeight /\ height' \in 0 .. MaxHeight
      BY Zenon, NextInv DEF IInv, TypeOK
    <2>. QED BY ONLY <2>1, Numbers
  <1>6. w.createdAt \in Int
    <2>1. owed \in [Wids -> [status : {"NONE", "REQUESTED", "PROCESSED", "REFUNDED"},
                             createdAt : 0 .. MaxHeight]]
      BY Zenon DEF IInv, TypeOK
    <2>. QED BY ONLY <1>1, <2>1
  <1>7. PayoutMarginBlocks \in Int /\ Timeout \in Int
    BY Numbers
  <1>. HIDE DEF w
  <1>8. height + PayoutMarginBlocks > w.createdAt + Timeout
            => height' + PayoutMarginBlocks > w.createdAt + Timeout
    BY <1>4, <1>5, <1>6, <1>7
  <1>. QED BY Zenon, <1>3, <1>4, <1>8 DEF Wrong, w

\* What a pass denies is wrong by what it has read.
LEMMA DeniedIsWrong ==
    ASSUME IInv, NEW a \in Accounts, pass[a].done \subseteq executed,
           NEW p \in Undecided(a, Seen(a)), Verdicts(a, Seen(a))[p] = "deny"
    PROVE  Wrong(p)
  <1>. DEFINE v == Seen(a)
  <1>1. /\ v.done = pass[a].done /\ v.height = height
        /\ v.requested = {id \in Wids : owed[id].status = "REQUESTED"}
        /\ Visible(v) \subseteq Known
    BY Zenon, SeenFields
  <1>. HIDE DEF v
  <1>2. p \in Proposals
    BY Zenon, <1>1 DEF Undecided, Known, v
  <1>. SUFFICES ASSUME p.kind = "payout" PROVE Wrong(p)
    BY Zenon DEF Wrong
  <1>3. p.of \in Wids
    BY Zenon, <1>2, ProposalTypes
  <1>4. ReviewTransfer(v, p, journal[a], v.ballots[a].yes) = "deny"
    BY Zenon DEF Verdicts, Review, v
  <1>5. PayoutFacts(v, p) = "deny"
    BY <1>4 DEF ReviewTransfer
  <1>6. CASE p.of \in PaidBy(v.done)
    BY Zenon, <1>1, <1>6 DEF Wrong, PaidBy
  <1>7. CASE p.of \notin v.requested /\ owed[p.of].status \notin {"NONE", "REQUESTED"}
    <2>1. owed[p.of].status \in {"NONE", "REQUESTED", "PROCESSED", "REFUNDED"}
      BY Zenon, <1>3 DEF IInv, TypeOK
    <2>. QED BY Zenon, <1>7, <2>1 DEF Wrong
  <1>8. CASE owed[p.of].status = "REQUESTED" /\ (~p.exact \/ TooClose(v, p.of))
    BY Zenon, <1>1, <1>8 DEF Wrong, TooClose
  <1>. QED BY <1>1, <1>3, <1>5, <1>6, <1>7, <1>8 DEF PayoutFacts, AlreadyPaid

\* A pass that publishes nothing new.
LEMMA NothingDenied ==
    ASSUME NEW o, o = Idle \/ \E v, send : o = Onward(v, EmptyBallot, send)
    PROVE  o.new.no = {} /\ o.done = {}
  <1>1. Idle.new = EmptyBallot /\ Idle.done = {} /\ EmptyBallot.no = {}
    BY DEF Idle, EmptyBallot
  <1>2. ASSUME NEW v, NEW send, o = Onward(v, EmptyBallot, send)
        PROVE  o.new = EmptyBallot /\ o.done = {}
    <2>1. o = Idle \/ o = [Idle EXCEPT !.step = "execute", !.now = v.now, !.send = send]
      BY Zenon, <1>2 DEF Onward
    <2>2. CASE o = [Idle EXCEPT !.step = "execute", !.now = v.now, !.send = send]
      BY <2>2 DEF Idle
    <2>. QED BY Zenon, <1>1, <2>1, <2>2
  <1>. QED BY Zenon, <1>1, <1>2

\* The denials after a step of a.
LEMMA StepDenials ==
    ASSUME IInv, Justified, NEW a \in Accounts, Step(a)
    PROVE  \A c \in Accounts :
              /\ pass'[c].done \subseteq executed
              /\ \A p \in Denials(c)' : Wrong(p)
  <1>1. pass = [c \in Accounts |-> pass[c]] /\ ballot = [c \in Accounts |-> ballot[c]]
        /\ late = [c \in Accounts |-> late[c]]
    BY Zenon DEF IInv, TypeOK
  <1>2. \A c \in Accounts : pass[c].done \subseteq executed /\ \A p \in Denials(c) : Wrong(p)
    BY Zenon DEF Justified
  <1>3. ASSUME ballot' = ballot, late' = late, 
               NEW o, pass' = [pass EXCEPT ![a] = o], o.done \subseteq executed,
               \A p \in o.new.no : Wrong(p)
        PROVE  \A c \in Accounts :
                  /\ pass'[c].done \subseteq executed
                  /\ \A p \in Denials(c)' : Wrong(p)
    <2>. TAKE c \in Accounts
    <2>1. pass'[c] = IF c = a THEN o ELSE pass[c]
      BY Zenon, <1>1, <1>3
    <2>. QED BY Zenon, <1>2, <1>3, <2>1 DEF Denials
  <1>4. CASE Sync(a)
    <2>. DEFINE o == [Idle EXCEPT !.step = "synced", !.now = now, !.done = executed,
                                  !.changedAt = changedAt]
    <2>1. o.done = executed /\ o.new.no = {}
      BY DEF Idle, EmptyBallot
    <2>2. ballot' = ballot /\ late' = late /\ pass' = [pass EXCEPT ![a] = o]
      BY Zenon, <1>4 DEF Sync, Pass
    <2>. HIDE DEF o
    <2>. QED BY Zenon, <1>3, <2>1, <2>2
  <1>5. CASE VoteAndPropose(a)
    <2>. DEFINE v == Seen(a)
                no == {p \in DOMAIN Verdicts(a, v) : Verdicts(a, v)[p] = "deny"}
    <2>1. PICK new, send : /\ pass' = [pass EXCEPT ![a] = Onward(v, new, send)]
                           /\ new = EmptyBallot \/ new.no = no
      <3>1. CASE a \notin Members(auth)
        <4>1. Pass(a, "synced", Onward(v, EmptyBallot, Executable(a, v, journal[a])))
          BY Zenon, <1>5, <3>1 DEF VoteAndPropose
        <4>. QED BY Zenon, <4>1 DEF Pass
      <3>2. CASE a \in Members(auth)
        <4>. DEFINE yes == Approved(Verdicts(a, v))
                    new(i) == [props |-> i, yes |-> yes \cup i, no |-> no]
                    send(i) == Executable(a, v, Pruned(journal[a] \cup yes \cup i,
                                                       v.now - PruneAfter))
        <4>1. PICK i : \/ Pass(a, "synced", Onward(v, new(i), send(i)))
                       \/ Pass(a, "synced", Onward(v, EmptyBallot, send(i)))
          BY ZenonT(40), <1>5, <3>2 DEF VoteAndPropose
        <4>. HIDE DEF send, yes, v, no
        <4>2. new(i).no = no
          OBVIOUS
        <4>. HIDE DEF new
        <4>. QED BY Zenon, <4>1, <4>2 DEF Pass
      <3>. QED BY <3>1, <3>2
    <2>2. Onward(v, new, send).new \in {new, EmptyBallot} /\ Onward(v, new, send).done = {}
      BY DEF Onward, Idle
    <2>3. \A p \in no : Wrong(p)
      BY Zenon, <1>2, DeniedIsWrong DEF Verdicts
    <2>4. EmptyBallot.no = {}
      BY DEF EmptyBallot
    <2>5. \A p \in Onward(v, new, send).new.no : Wrong(p)
      BY Zenon, <2>1, <2>2, <2>3, <2>4
    <2>6. ballot' = ballot /\ late' = late
      BY Zenon, <1>5 DEF VoteAndPropose
    <2>. QED BY Zenon, <1>3, <2>1, <2>2, <2>5, <2>6
  <1>6. CASE Publish(a)
    <2>. DEFINE o == Onward(pass[a], EmptyBallot, pass[a].send)
    <2>1. o.new.no = {} /\ o.done = {}
      BY Zenon, NothingDenied
    <2>2. pass' = [pass EXCEPT ![a] = o]
      BY Zenon, <1>6 DEF Publish, Pass
    <2>. HIDE DEF o
    <2>3. PICK cut : LET b == PrunedBallot(Merged(ballot[a], pass[a].new), cut)
                     IN  \/ ballot' = [ballot EXCEPT ![a] = b] /\ late' = late
                         \/ late' \in {late, [late EXCEPT ![a] = {b}]} /\ ballot' = ballot
      BY Zenon, <1>6 DEF Publish
    <2>. DEFINE b == PrunedBallot(Merged(ballot[a], pass[a].new), cut)
    <2>4. b.no \subseteq ballot[a].no \cup pass[a].new.no
      BY DEF PrunedBallot, Merged, Pruned
    <2>5. \/ ballot' = [ballot EXCEPT ![a] = b] /\ late' = late
          \/ late' = late /\ ballot' = ballot
          \/ late' = [late EXCEPT ![a] = {b}] /\ ballot' = ballot
      BY Zenon, <2>3
    <2>6. \A p \in b.no : Wrong(p)
      BY Zenon, <1>2, <2>4 DEF Denials
    <2>. HIDE DEF b
    <2>. TAKE c \in Accounts
    <2>7. pass'[c] = IF c = a THEN o ELSE pass[c]
      BY Zenon, <1>1, <2>2
    <2>8. CASE ballot' = [ballot EXCEPT ![a] = b] /\ late' = late
      <3>1. ballot'[c] = IF c = a THEN b ELSE ballot[c]
        BY Zenon, <1>1, <2>8
      <3>2. \A p \in ballot'[c].no : Wrong(p)
        BY Zenon, <1>2, <2>6, <3>1 DEF Denials
      <3>3. \A p \in pass'[c].new.no : Wrong(p)
        BY Zenon, <1>2, <2>1, <2>7 DEF Denials
      <3>4. \A d \in late'[c] : \A p \in d.no : Wrong(p)
        BY Zenon, <1>2, <2>8 DEF Denials
      <3>. QED BY Zenon, <1>2, <2>1, <2>7, <3>2, <3>3, <3>4 DEF Denials
    <2>9. CASE late' = [late EXCEPT ![a] = {b}] /\ ballot' = ballot
      <3>1. late'[c] = IF c = a THEN {b} ELSE late[c]
        BY Zenon, <1>1, <2>9
      <3>2. \A p \in ballot'[c].no : Wrong(p)
        BY Zenon, <1>2, <2>9 DEF Denials
      <3>3. \A p \in pass'[c].new.no : Wrong(p)
        BY Zenon, <1>2, <2>1, <2>7 DEF Denials
      <3>4. \A d \in late'[c] : \A p \in d.no : Wrong(p)
        BY Zenon, <1>2, <2>6, <3>1 DEF Denials
      <3>. QED BY Zenon, <1>2, <2>1, <2>7, <3>2, <3>3, <3>4 DEF Denials
    <2>10. CASE late' = late /\ ballot' = ballot
      BY Zenon, <1>2, <2>1, <2>7, <2>10 DEF Denials
    <2>. QED BY Zenon, <2>5, <2>8, <2>9, <2>10
  <1>7. CASE Execute(a) \/ EndPass(a) \/ Restart(a)
    <2>1. ballot' = ballot /\ late' = late
      BY Zenon, <1>7 DEF Execute, EndPass, Restart
    <2>2. PICK o : /\ pass' = [pass EXCEPT ![a] = o]
                   /\ o = Idle \/ \E v, send : o = Onward(v, EmptyBallot, send)
      BY Zenon, <1>7 DEF Execute, EndPass, Restart, Pass
    <2>3. o.new.no = {} /\ o.done = {}
      BY Zenon, <2>2, NothingDenied
    <2>. QED BY Zenon, <1>3, <2>1, <2>2, <2>3
  <1>8. CASE Arrive(a)
    <2>1. PICK b \in late[a] : ballot' = [ballot EXCEPT ![a] = b]
      BY Zenon, <1>8 DEF Arrive
    <2>2. late' = [late EXCEPT ![a] = {}] /\ pass' = pass
      BY Zenon, <1>8 DEF Arrive, signerVars
    <2>. TAKE c \in Accounts
    <2>3. /\ ballot'[c] = IF c = a THEN b ELSE ballot[c]
          /\ late'[c] = IF c = a THEN {} ELSE late[c]
      BY Zenon, <1>1, <2>1, <2>2
    <2>4. \A p \in b.no : Wrong(p)
      BY Zenon, <1>2, <2>1 DEF Denials
    <2>5. \A p \in ballot'[c].no : Wrong(p)
      BY Zenon, <1>2, <2>3, <2>4 DEF Denials
    <2>6. \A p \in pass'[c].new.no : Wrong(p)
      BY Zenon, <1>2, <2>2 DEF Denials
    <2>7. \A d \in late'[c] : \A p \in d.no : Wrong(p)
      BY Zenon, <1>2, <2>3 DEF Denials
    <2>8. \A p \in Denials(c)' : Wrong(p)
      BY Zenon, <2>5, <2>6, <2>7 DEF Denials
    <2>9. pass'[c].done \subseteq executed
      BY Zenon, <1>2, <2>2
    <2>. QED BY Zenon, <2>8, <2>9
  <1>. QED BY Zenon, <1>4, <1>5, <1>6, <1>7, <1>8 DEF Step

\* Every step keeps denials justified.
LEMMA NextJustified ==
    ASSUME IInv, Justified, [Next]_vars
    PROVE  Justified'
  <1>1. \A c \in Accounts :
           /\ pass'[c].done \subseteq executed
           /\ \A p \in Denials(c)' : Wrong(p)
    <2>1. \A c \in Accounts : pass[c].done \subseteq executed /\ \A p \in Denials(c) : Wrong(p)
      BY Zenon DEF Justified
    <2>2. CASE \E a \in fleet.signers : Step(a)
      BY Zenon, <2>1, <2>2, SignersAreAccounts, StepDenials
    <2>3. CASE UNCHANGED <<ballot, late, pass>>
      BY Zenon, <2>1, <2>3 DEF Denials
    <2>4. CASE PublishByHand
      <3>1. PICK h \in HandMade : ballot' = [ballot EXCEPT ![h[1]].props = @ \cup {h[2]}]
        BY Zenon, <2>4 DEF PublishByHand
      <3>2. \A c \in Accounts : ballot'[c].no = ballot[c].no
        <4>1. ballot \in [Accounts -> Ballots]
          BY Zenon DEF IInv, TypeOK
        <4>. QED BY <3>1, <4>1 DEF Ballots
      <3>3. UNCHANGED <<late, pass>>
        BY Zenon, <2>4 DEF PublishByHand, signerVars
      <3>. QED BY Zenon, <2>1, <3>2, <3>3 DEF Denials
    <2>. QED BY Zenon, <2>2, <2>3, <2>4
             DEF Next, IncludeLate, Request, Process, Tick, signerVars, vars
  <1>2. \A c \in Accounts : Denials(c)' \subseteq Proposals
    <2>1. TypeOK'
      BY Zenon, NextInv DEF IInv
    <2>2. /\ ballot' \in [Accounts -> Ballots] /\ late' \in [Accounts -> SUBSET Ballots]
          /\ pass' \in [Accounts -> PassRecords]
      BY Zenon, <2>1 DEF TypeOK, PassRecords
    <2>3. \A b \in Ballots : b.no \subseteq Proposals
      BY DEF Ballots
    <2>4. \A r \in PassRecords : r.new \in Ballots
      BY DEF PassRecords
    <2>. QED BY Zenon, <2>2, <2>3, <2>4 DEF Denials
  <1>3. executed \subseteq executed'
    <2>1. \A tx : Included(tx) => executed \subseteq executed'
      BY Zenon DEF Included
    <2>. QED BY Zenon, <2>1, StepExecutes
  <1>. QED BY Zenon, <1>1, <1>2, <1>3, WrongForGood DEF Justified

(***************************************************************************)
(* A denial, which its signer never takes back, is right for good, however *)
(* old the reading it was based on and however late it is published        *)
(* (payoutFacts, voteAndPropose, publish).                                 *)
(***************************************************************************)
THEOREM DenialsStand == Spec => []DeniedForGood
  <1>1. Init => Justified
    <2>. SUFFICES ASSUME Init, NEW a \in Accounts
                  PROVE  pass[a].done \subseteq executed /\ Denials(a) = {}
      BY Zenon DEF Justified
    <2>1. ballot[a] = EmptyBallot /\ pass[a] = Idle /\ late[a] = {}
      BY Zenon DEF Init
    <2>2. EmptyBallot.no = {} /\ Idle.new = EmptyBallot /\ Idle.done = {}
      BY Zenon DEF Idle, EmptyBallot
    <2>. QED BY Zenon, <2>1, <2>2 DEF Denials
  <1>2. IInv /\ Justified => DeniedForGood
    BY Zenon DEF Justified, Denials, Wrong, DeniedForGood
  <1>. QED BY <1>1, <1>2, NextJustified, Invariance, PTL DEF Spec

-----------------------------------------------------------------------------
(* The authority. *)

(***************************************************************************)
(* No update on file is of a snapshot that lies ahead, and the authority   *)
(* is that of a height that was reached.                                   *)
(***************************************************************************)
Reached(p) == p.kind = "update" => p.of <= height
OfThePast == \A a \in Accounts : \A p \in journal[a] \cup saved[a] : Reached(p)
\* A signer approves and proposes updates to snapshots it has reached.
LEMMA AddedReached ==
    ASSUME IInv, NEW a \in Accounts
    PROVE  /\ \A p \in Approved(Verdicts(a, Seen(a))) : Reached(p)
           /\ \A e : \A i \in Intents(Seen(a), e) : \A p \in i : Reached(p)
  <1>. DEFINE v == Seen(a)
  <1>1. v.height = height /\ Visible(v) \subseteq Known /\ Known \subseteq Proposals /\ height \in Nat
    <2>1. height \in 0 .. MaxHeight
      BY Zenon DEF IInv, TypeOK
    <2>2. height \in Nat
      BY ONLY <2>1, Numbers
    <2>. QED BY Zenon, <2>2, SeenFields DEF Known
  <1>. HIDE DEF v
  <1>2. ASSUME NEW p \in Approved(Verdicts(a, v)), p.kind = "update"
        PROVE  p.of <= height
    <2>1. p \in Undecided(a, v) /\ Review(v, p, journal[a], v.ballots[a].yes) = "approve"
      BY Zenon DEF Approved, Verdicts
    <2>2. ~(p.of > v.height)
      BY Zenon, <1>2, <2>1 DEF Review, ReviewAccountUpdate
    <2>3. p \in Proposals
      BY Zenon, <1>1, <2>1 DEF Undecided
    <2>4. p.of \in Snapshots
      BY Zenon, <1>2, <2>3, ProposalTypes
    <2>5. p.of \in Int
      BY <2>4 DEF Snapshots
    <2>. QED BY ONLY <1>1, <2>2, <2>5
  <1>3. ASSUME NEW e, NEW i \in Intents(v, e), NEW p \in i, p.kind = "update"
        PROVE  p.of <= height
    <2>1. \/ \E id \in PayoutsDue(v, e) : p = NewProposal("payout", id, v)
          \/ \E s \in SnapshotDue(v, e) : p = NewProposal("update", s, v)
      BY Zenon DEF Intents
    <2>2. \A id : NewProposal("payout", id, v).kind = "payout"
      BY DEF NewProposal
    <2>3. PICK s \in SnapshotDue(v, e) : p = NewProposal("update", s, v)
      BY Zenon, <1>3, <2>1, <2>2
    <2>4. p.of = s
      BY <2>3 DEF NewProposal
    <2>5. s = Checkpoint(height)
      BY Zenon, <1>1 DEF SnapshotDue
    <2>. QED BY Zenon, <1>1, <2>4, <2>5, CheckpointBehind
  <1>. QED BY Zenon, <1>2, <1>3 DEF Reached, v

\* Every step keeps it so.
LEMMA NextOfThePast ==
    ASSUME IInv, OfThePast, [Next]_vars
    PROVE  OfThePast'
  <1>1. \A c \in Accounts : \A p \in journal'[c] \cup saved'[c] : Reached(p)
    <2>1. journal \in [Accounts -> SUBSET Proposals] /\ saved \in [Accounts -> SUBSET Proposals]
      BY Zenon DEF IInv, TypeOK
    <2>2. ASSUME NEW a \in Accounts, VoteAndPropose(a)
          PROVE  \A c \in Accounts : \A p \in journal'[c] \cup saved'[c] : Reached(p)
      <3>. DEFINE v == Seen(a)
                  yes == Approved(Verdicts(a, v))
                  entries(i) == Pruned(journal[a] \cup yes \cup i, v.now - PruneAfter)
      <3>1. CASE UNCHANGED <<journal, saved>>
        BY Zenon, <3>1 DEF OfThePast
      <3>2. ASSUME NEW i \in Intents(v, journal[a] \cup yes),
                   journal' = [journal EXCEPT ![a] = entries(i)],
                   saved' = saved \/ saved' = [saved EXCEPT ![a] = entries(i)]
            PROVE  \A c \in Accounts : \A p \in journal'[c] \cup saved'[c] : Reached(p)
        <4>1. \A p \in journal[a] \cup yes \cup i : Reached(p)
          BY Zenon, AddedReached DEF OfThePast
        <4>2. \A p \in entries(i) : Reached(p)
          BY Zenon, <4>1 DEF Pruned
        <4>. HIDE DEF entries
        <4>3. \A c \in Accounts : /\ journal'[c] = journal[c] \/ journal'[c] = entries(i)
                                  /\ saved'[c] = saved[c] \/ saved'[c] = entries(i)
          BY Zenon, <2>1, <3>2
        <4>. QED BY Zenon, <4>2, <4>3 DEF OfThePast
      <3>3. \/ UNCHANGED <<journal, saved>>
            \/ \E i \in Intents(v, journal[a] \cup yes) :
                  /\ journal' = [journal EXCEPT ![a] = entries(i)]
                  /\ saved' = saved \/ saved' = [saved EXCEPT ![a] = entries(i)]
        BY ZenonT(40), <2>2 DEF VoteAndPropose, Save
      <3>. QED BY Zenon, <3>1, <3>2, <3>3
    <2>3. ASSUME NEW a \in Accounts, Restart(a)
          PROVE  \A c \in Accounts : \A p \in journal'[c] \cup saved'[c] : Reached(p)
      <3>1. saved' = saved /\ \A c \in Accounts : journal'[c] \in {journal[c], saved[c]}
        BY Zenon, <2>1, <2>3 DEF Restart
      <3>. QED BY Zenon, <3>1 DEF OfThePast
    <2>4. CASE UNCHANGED <<journal, saved>>
      BY Zenon, <2>4 DEF OfThePast
    <2>5. ASSUME NEW a \in fleet.signers, Step(a)
          PROVE  VoteAndPropose(a) \/ Restart(a) \/ UNCHANGED <<journal, saved>>
      BY Zenon, <2>5 DEF Step, Sync, Publish, Execute, EndPass, Arrive, signerVars
    <2>. QED BY Zenon, <2>2, <2>3, <2>4, <2>5, SignersAreAccounts
             DEF Next, IncludeLate, PublishByHand, Request, Process, Tick, signerVars, vars
  <1>2. height \in Int /\ height' \in Int /\ height <= height'
    <2>1. height \in 0 .. MaxHeight /\ height' \in 0 .. MaxHeight
      BY Zenon, NextInv DEF IInv, TypeOK
    <2>2. height' >= height
      BY Zenon, ChainGoesOn
    <2>. QED BY ONLY <2>1, <2>2, Numbers
  <1>3. \A c \in Accounts : \A p \in journal'[c] \cup saved'[c] : p \in Proposals
    BY Zenon, NextInv DEF IInv, TypeOK
  <1>4. ASSUME NEW p \in Proposals, Reached(p)
        PROVE  Reached(p)'
    <2>1. p.kind = "update" => p.of \in Int
      <3>1. p.kind = "update" => p.of \in Snapshots
        BY Zenon, ProposalTypes
      <3>. QED BY <3>1 DEF Snapshots
    <2>. QED BY ONLY <1>2, <1>4, <2>1 DEF Reached
  <1>. QED BY Zenon, <1>1, <1>3, <1>4 DEF OfThePast

\* Steem takes over only authorities of snapshots that were reached.
LEMMA NextFollows ==
    ASSUME IInv, OfThePast, FollowsStakes, [Next]_vars
    PROVE  FollowsStakes'
  <1>1. height \in Int /\ height' \in Int /\ height <= height'
    <2>1. height \in 0 .. MaxHeight /\ height' \in 0 .. MaxHeight
      BY Zenon, NextInv DEF IInv, TypeOK
    <2>2. height' >= height
      BY Zenon, ChainGoesOn
    <2>. QED BY ONLY <2>1, <2>2, Numbers
  <1>2. stakeAt' = stakeAt
    BY Zenon DEF Next, Step, Sync, VoteAndPropose, Publish, Execute, EndPass, Restart, Arrive,
                 IncludeLate, PublishByHand, Request, Process, Tick, svmVars, vars
  <1>3. \A n : DesiredAt(n)' = DesiredAt(n)
    BY Zenon, <1>2 DEF DesiredAt, AuthorityFor
  <1>4. 0 .. height \subseteq 0 .. height'
    BY <1>1
  <1>5. CASE auth' = auth
    BY Zenon, <1>3, <1>4, <1>5 DEF FollowsStakes
  <1>6. CASE auth' # auth
    <2>1. PICK tx \in Transactions :
              Accepts(tx) /\ Included(tx) /\ \A b \in tx.sigs : HasSigned(b, tx.of)
      <3>1. ASSUME NEW a \in fleet.signers, Execute(a)
            PROVE  \E tx \in Transactions :
                     Accepts(tx) /\ Included(tx) /\ \A b \in tx.sigs : HasSigned(b, tx.of)
        <4>1. PICK tx \in pass[a].send : Accepts(tx) /\ Included(tx)
          BY Zenon, <1>6, <3>1 DEF Execute
        <4>. QED BY Zenon, <4>1, SignersAreAccounts, InclusionSigned
      <3>2. ASSUME IncludeLate
            PROVE  \E tx \in Transactions :
                     Accepts(tx) /\ Included(tx) /\ \A b \in tx.sigs : HasSigned(b, tx.of)
        <4>1. PICK tx \in pool : Accepts(tx) /\ Included(tx)
          BY Zenon, <3>2 DEF IncludeLate
        <4>. QED BY Zenon, <4>1, InclusionSigned
      <3>3. ASSUME NEW a \in fleet.signers, Step(a), ~Execute(a)
            PROVE  auth' = auth
        BY Zenon, <3>3 DEF Step, Sync, VoteAndPropose, Publish, EndPass, Restart, Arrive, steemVars
      <3>4. PublishByHand \/ Request \/ Process \/ Tick \/ UNCHANGED vars => auth' = auth
        BY Zenon DEF PublishByHand, Request, Process, Tick, steemVars, vars
      <3>. QED BY ZenonT(40), <1>6, <3>1, <3>2, <3>3, <3>4 DEF Next
    <2>2. tx.of \in Proposals /\ tx.sigs \subseteq Accounts
      BY Zenon DEF Transactions
    <2>3. tx.of.kind = "update" /\ auth' = DesiredAt(tx.of.of)
      <3>1. tx.of.exact
        BY Zenon, <2>1, Inclusion
      <3>. QED BY Zenon, <1>6, <2>1, <2>2, <3>1, ProposalTypes DEF Included
    <2>4. PICK a \in Accounts : a \in tx.sigs
      BY Zenon, <2>1, <2>2, Inclusion, OverlapAssumption
    <2>5. Clock(a) < Expiration(tx.of)
      <3>1. now < Expiration(tx.of) /\ Expiration(tx.of) \in Int
        BY Zenon, <2>1, <2>2, ProposalTypes DEF Accepts
      <3>2. Clock(a) \in Nat /\ Clock(a) <= now /\ now \in Nat
        BY Zenon, ClockTypes DEF IInv
      <3>. QED BY ONLY <3>1, <3>2
    <2>6. tx.of \in saved[a]
      BY Zenon, <2>1, <2>2, <2>4, <2>5 DEF IInv, OnFile
    <2>7. tx.of.of <= height
      BY Zenon, <2>3, <2>6 DEF OfThePast, Reached
    <2>8. tx.of.of \in Snapshots
      BY Zenon, <2>2, <2>3, ProposalTypes
    <2>9. tx.of.of \in 0 .. height
      <3>1. tx.of.of \in 1 .. MaxHeight
        BY Zenon, <2>8 DEF Snapshots
      <3>. QED BY ONLY <1>1, <2>7, <3>1, Numbers
    <2>. QED BY Zenon, <1>3, <1>4, <2>3, <2>9 DEF FollowsStakes
  <1>. QED BY Zenon, <1>5, <1>6

(***************************************************************************)
(* svm.bank's authority is at all times the apportionment of stakes the    *)
(* chain has had: no quorum of stale, early or forgotten approvals brings  *)
(* in another, and an update that sets any other authority, by whomever it *)
(* is proposed, is never signed by a quorum (reviewAccountUpdate, Intents, *)
(* execute).                                                               *)
(***************************************************************************)
THEOREM AuthorityFollowsStakes == Spec => []FollowsStakes
  <1>1. Init => OfThePast /\ FollowsStakes
    <2>. SUFFICES ASSUME Init PROVE OfThePast /\ FollowsStakes
      BY Zenon
    <2>1. OfThePast
      BY Zenon DEF Init, OfThePast
    <2>2. 0 \in 0 .. height
      BY DEF Init
    <2>. QED BY Zenon, <2>1, <2>2 DEF Init, FollowsStakes
  <1>. QED BY <1>1, NextOfThePast, NextFollows, Invariance, PTL DEF Spec

=============================================================================
