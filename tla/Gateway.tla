-------------------------------- MODULE Gateway --------------------------------
(***************************************************************************)
(* The automated signers of the gateway account svm.bank                   *)
(* (oracle/go/multisig).  The account's authority names validators with    *)
(* weights by stake.  Each signer publishes proposals and votes in the     *)
(* metadata of its own Steem account, its ballot; reads the ballots of the *)
(* others; decides by itself; and sends a proposal to Steem once the       *)
(* approvals it sees reach the threshold.  There is no other coordination. *)
(*                                                                         *)
(* A proposal is a Steem transaction, identified by its content: what it   *)
(* does, to which withdrawal or from which snapshot of stakes, whether     *)
(* that is exactly what the chain says, the Steem time it was built at,    *)
(* and its expiration, which its maker chooses.                            *)
(*                                                                         *)
(* A pass of a signer is several calls to Steem and the chain, with other  *)
(* signers, blocks and crashes in between:                                 *)
(*   head and history -> accounts and chain state, votes and intents, the  *)
(*   journal -> publish -> execute                                         *)
(***************************************************************************)
EXTENDS Apportion

CONSTANTS
    Wids,                \* withdrawal ids
    StakeHistories,      \* how the validators' stakes may develop with the height
    StakeSamples,        \* further stakes for which the apportionment is checked
    Life,                \* lifetime of a signer's own proposals (58 minutes)
    MaxAhead,            \* how far ahead Steem lets a transaction expire (an hour)
    PruneAfter,          \* how long an expired entry is kept (72 hours)
    PayoutMarginBlocks,
    Timeout,             \* WithdrawalTimeoutBlocks, while governance leaves it alone
    SnapshotEvery,
    SnapshotMaxAge,
    SnapshotLag,
    ReweightTolerance,
    OwnerCooldown,
    Funds,               \* payouts the gateway's balance covers
    OverCap,             \* withdrawals above MaxPerTxMilli
    HandMade,            \* what people publish by hand: <<account, proposal>>
    Distorted,           \* what an update that is not exact would make the authority
    Speeds,              \* blocks of the chain per unit of Steem time,
    Speed,               \* and a limit of that
    MaxTime,             \* bound: Steem time
    Fleets,              \* who runs a signer; bounds: how many passes are under way
                         \* at once; the time a pass takes; crashes, failed saves,
                         \* lost and delayed calls
    MaxSpan,             \* a limit of the time a pass takes
    LastRequest,         \* bound: when the last withdrawal is requested
    LastIntent,          \* bound: when the last proposal is made
    MaxProposals         \* bound: proposals on record

MaxHeight == Speed * MaxTime
Snapshots == {s \in 1 .. MaxHeight : s % SnapshotEvery = 0}

Proposals ==
    [kind : {"payout"}, of : Wids, exact : BOOLEAN, at : 0 .. MaxTime, exp : Nat]
        \cup [kind : {"update"}, of : Snapshots, exact : BOOLEAN, at : 0 .. MaxTime, exp : Nat]

ASSUME GatewayAssumption ==
    /\ Wids \subseteq Nat
    /\ StakeHistories \subseteq [0 .. MaxHeight -> [Accounts -> Nat]]
    /\ \A h \in StakeHistories : \A n \in 0 .. MaxHeight : \E a \in Accounts : h[n][a] > 0
    /\ StakeSamples \subseteq [Accounts -> Nat]
    /\ HandMade \subseteq Accounts \X Proposals
    /\ \A x \in {Life, MaxAhead, MaxSpan, PruneAfter, PayoutMarginBlocks, Timeout, SnapshotMaxAge, SnapshotLag,
                 ReweightTolerance, OwnerCooldown, Funds, MaxTime, LastRequest, LastIntent,
                 MaxProposals} :
           x \in Nat
    /\ SnapshotEvery \in Nat \ {0}
    /\ Fleets \subseteq [signers : SUBSET Accounts, passes : Nat, span : 0 .. MaxSpan,
                      faults : Nat]
    /\ Speed \in Nat /\ Speeds \subseteq 0 .. Speed

VARIABLES
    now,        \* head block time of Steem
    height,     \* height of the chain
    stakeAt,    \* the stakes at each height; read only once it is reached
    owed,       \* the chain's withdrawals: [status, createdAt]
    auth,       \* authority of svm.bank on Steem
    changedAt,  \* when it was last changed
    ballot,     \* what each account's metadata holds: [props, yes, no]
    late,       \* a publication still on its way, per account: at most one ballot
    pool,       \* transactions of svm.bank broadcast: [of, sigs]
    executed,   \* proposals included in a block of Steem
    pass,       \* each signer's pass
    journal,    \* each signer's ApprovalJournal in memory
    saved,      \* and in its file
    fleet,      \* who runs a signer, fixed
    faults      \* faults so far

svmVars == <<height, stakeAt, owed, fleet>>
steemVars == <<now, auth, changedAt, executed>>
signerVars == <<pass, journal, saved>>
vars == <<now, height, stakeAt, owed, auth, changedAt, ballot, late, pool, executed,
          pass, journal, saved, fleet, faults>>

Never == -1 - OwnerCooldown

EmptyBallot == [props |-> {}, yes |-> {}, no |-> {}]

Idle ==
    [step |-> "idle", now |-> 0, done |-> {}, changedAt |-> Never,
     new |-> EmptyBallot, send |-> {}]

-----------------------------------------------------------------------------
(* Proposals, journals and ballots. *)

Expiration(p) == p.exp

\* The order in which proposals are gone through: by creation, then by hash, for
\* which any other order does.
Before(p, q) ==
    \/ p.at < q.at
    \/ p.at = q.at /\ p.of < q.of
    \/ p.at = q.at /\ p.of = q.of /\ p.exp < q.exp

\* SubjectOf.
Subject(p) == <<p.kind, IF p.kind = "payout" THEN p.of ELSE 0>>

(***************************************************************************)
(* Whether one of these approvals has the subject and can still execute.   *)
(***************************************************************************)
Conflicts(subject, entries, t) ==
    \E q \in entries : Subject(q) = subject /\ t < Expiration(q)

\* Entries that expired before the cut are dropped.
Pruned(entries, cut) == {p \in entries : Expiration(p) >= cut}

PaidBy(done) == {p.of : p \in {q \in done : q.kind = "payout"}}

-----------------------------------------------------------------------------
(* BuildView, for what v, a signer's pass, has read. *)

WeightOf(a, S) == Total(a.weight, S)

\* Proposals of accounts that are members now.
Visible(v) == UNION {v.ballots[a].props : a \in Members(v.auth)}

Approvers(v, p) == {a \in Members(v.auth) : p \in v.ballots[a].yes}
Deniers(v, p) == {a \in Members(v.auth) : p \in v.ballots[a].no}

StatusOf(v, p) ==
    IF p \in v.done THEN "executed"
    ELSE IF v.now >= Expiration(p) THEN "expired"
    ELSE IF WeightOf(v.auth, Deniers(v, p)) > TotalWeight - v.auth.threshold THEN "rejected"
    ELSE IF WeightOf(v.auth, Approvers(v, p)) >= v.auth.threshold THEN "ready"
    ELSE "open"

Live(v, p) == StatusOf(v, p) \in {"open", "ready"}

(***************************************************************************)
(* The first approvals in the order of names that reach the threshold.     *)
(***************************************************************************)
MinimalSignatures(v, p) ==
    {a \in Approvers(v, p) :
        WeightOf(v.auth, {b \in Approvers(v, p) : b < a}) < v.auth.threshold}

-----------------------------------------------------------------------------
(* Policy. *)

AuthorityFor == [s \in UNION {{h[n] : n \in DOMAIN h} : h \in StakeHistories} |-> Authority(s)]

DesiredAt(s) == AuthorityFor[stakeAt[s]]

\* Signers that reach the threshold of one of the authorities.
Quorums ==
    {S \in SUBSET Accounts :
        \E s \in DOMAIN AuthorityFor : WeightOf(AuthorityFor[s], S) >= AuthorityFor[s].threshold}

(***************************************************************************)
(* Stake does not move so far that a quorum has nobody of an earlier one,  *)
(* and what is executed at the last moment lands before the refund.        *)
(***************************************************************************)
ASSUME OverlapAssumption == \A S, T \in Quorums : S \cap T # {}
ASSUME TimingAssumption == PayoutMarginBlocks >= Speed * (MaxSpan + MaxAhead)

\* Variant: any height will do as a snapshot.
CheckpointUnrounded(tip) == IF tip <= SnapshotLag THEN 0 ELSE tip - SnapshotLag

Checkpoint(tip) ==
    LET s == tip - SnapshotLag IN IF s <= 0 THEN 0 ELSE s - (s % SnapshotEvery)

TooClose(v, id) == v.height + PayoutMarginBlocks > owed[id].createdAt + Timeout

\* Variant: the history of the gateway is not consulted.
AlreadyPaidIgnored(v, id) == FALSE

AlreadyPaid(v, id) == id \in PaidBy(v.done)

\* Variant: a withdrawal this signer's node does not know yet is denied.
PayoutFactsHasty(v, p) ==
    IF AlreadyPaid(v, p.of) THEN "deny"
    ELSE IF p.of \notin v.requested /\ owed[p.of].status # "REQUESTED" THEN "deny"
    ELSE IF ~p.exact \/ TooClose(v, p.of) THEN "deny"
    ELSE "approve"

\* Variant: the refund is not looked at.
PayoutFactsUnhurried(v, p) ==
    IF AlreadyPaid(v, p.of) THEN "deny"
    ELSE IF p.of \notin v.requested /\ owed[p.of].status = "NONE" THEN "abstain"
    ELSE IF p.of \notin v.requested /\ owed[p.of].status # "REQUESTED" THEN "deny"
    ELSE IF ~p.exact THEN "deny"
    ELSE "approve"

(***************************************************************************)
(* payoutFacts.  A withdrawal that was not in the list of requested ones   *)
(* is looked up again.                                                     *)
(***************************************************************************)
PayoutFacts(v, p) ==
    IF AlreadyPaid(v, p.of) THEN "deny"
    ELSE IF p.of \notin v.requested /\ owed[p.of].status = "NONE" THEN "abstain"
    ELSE IF p.of \notin v.requested /\ owed[p.of].status # "REQUESTED" THEN "deny"
    ELSE IF ~p.exact \/ TooClose(v, p.of) THEN "deny"
    ELSE "approve"

(***************************************************************************)
(* reviewTransfer, for a signer with this journal and these approvals on   *)
(* its ballot.                                                             *)
(***************************************************************************)
ReviewTransfer(v, p, entries, mine) ==
    IF PayoutFacts(v, p) # "approve" THEN PayoutFacts(v, p)
    ELSE IF /\ p.of \notin OverCap
            /\ ~Conflicts(Subject(p), entries \ {p}, v.now)
            /\ \A q \in Visible(v) \ {p} :
                  Subject(q) = Subject(p) =>
                     /\ StatusOf(v, q) # "expired" => q \notin mine
                     /\ Live(v, q) /\ PayoutFacts(v, q) = "approve" => Before(p, q)
         THEN "approve"
    ELSE "abstain"

\* No other change of the authority that this signer has approved is open.
Unopposed(v, p, entries, mine) ==
    /\ ~Conflicts(Subject(p), entries \ {p}, v.now)
    /\ \A q \in Visible(v) \ {p} :
          Subject(q) = Subject(p) /\ StatusOf(v, q) \notin {"expired", "executed"}
             => q \notin mine

\* Variant: the authority is not compared with that of the snapshot.
ReviewAccountUpdateLoose(v, p, entries, mine) ==
    IF p.of \notin Snapshots \/ v.height - p.of > SnapshotMaxAge THEN "deny"
    ELSE IF p.of > v.height THEN "abstain"
    ELSE IF ~ExceedsTolerance(v.auth, DesiredAt(p.of), ReweightTolerance) THEN "deny"
    ELSE IF Unopposed(v, p, entries, mine) THEN "approve"
    ELSE "abstain"

(***************************************************************************)
(* reviewAccountUpdate.                                                    *)
(***************************************************************************)
ReviewAccountUpdate(v, p, entries, mine) ==
    IF p.of \notin Snapshots \/ v.height - p.of > SnapshotMaxAge THEN "deny"
    ELSE IF p.of > v.height THEN "abstain"
    ELSE IF ~p.exact \/ ~ExceedsTolerance(v.auth, DesiredAt(p.of), ReweightTolerance) THEN "deny"
    ELSE IF Unopposed(v, p, entries, mine) THEN "approve"
    ELSE "abstain"

Review(v, p, entries, mine) ==
    IF p.kind = "payout" THEN ReviewTransfer(v, p, entries, mine)
    ELSE ReviewAccountUpdate(v, p, entries, mine)

-----------------------------------------------------------------------------
(* One pass of signer a. *)

\* Step from of a's pass is followed by v.
Pass(a, from, v) ==
    /\ pass[a].step = from
    /\ pass' = [pass EXCEPT ![a] = v]

(***************************************************************************)
(* GetDynamicProps and HistoryIndex.Sync: the head time, then the payouts, *)
(* executed transactions and last change of authority up to now.           *)
(***************************************************************************)
Sync(a) ==
    /\ Cardinality({b \in Accounts : pass[b].step # "idle"}) < fleet.passes
    /\ Pass(a, "idle", [Idle EXCEPT !.step = "synced", !.now = now, !.done = executed,
                                    !.changedAt = changedAt])
    /\ UNCHANGED <<svmVars, steemVars, ballot, late, pool, journal, saved, faults>>

\* All that a's pass has read once it knows the accounts and the chain's state.
Seen(a) ==
    [now |-> pass[a].now, done |-> pass[a].done, changedAt |-> pass[a].changedAt,
     auth |-> auth, ballots |-> ballot, height |-> height,
     requested |-> {id \in Wids : owed[id].status = "REQUESTED"}]

\* Live proposals on which a has not voted.
Undecided(a, v) ==
    {p \in Visible(v) : p \notin v.ballots[a].yes \cup v.ballots[a].no /\ Live(v, p)}

\* What Review says of each.
Verdicts(a, v) == [p \in Undecided(a, v) |-> Review(v, p, journal[a], v.ballots[a].yes)]

(***************************************************************************)
(* The approvals of the voting loop.  It goes through the proposals in     *)
(* order, and an approval bars later ones with the same subject; of the    *)
(* payouts of a withdrawal only the earliest passes anyway.                *)
(***************************************************************************)
Approved(verdicts) ==
    LET ok == {p \in DOMAIN verdicts : verdicts[p] = "approve"}
    IN  {p \in ok : \A q \in ok \ {p} :
            Subject(q) = Subject(p) => Before(p, q)}

PayoutsDue(v, entries) ==
    {id \in v.requested :
        /\ \A q \in Visible(v) : q.kind = "payout" /\ q.of = id => ~Live(v, q)
        /\ ~AlreadyPaid(v, id)
        /\ ~Conflicts(<<"payout", id>>, entries, v.now)
        /\ ~TooClose(v, id)
        /\ id \notin OverCap}

SnapshotDue(v, entries) ==
    {s \in {Checkpoint(v.height)} \ {0} :
        /\ \A q \in Visible(v) : q.kind = "update" => ~Live(v, q)
        /\ ~Conflicts(<<"update", 0>>, entries, v.now)
        /\ v.now - v.changedAt >= OwnerCooldown
        /\ ExceedsTolerance(v.auth, DesiredAt(s), ReweightTolerance)}

Balance == Funds - Cardinality({p \in executed : p.kind = "payout"})

NewProposal(kind, of, v) ==
    [kind |-> kind, of |-> of, exact |-> TRUE, at |-> v.now, exp |-> v.now + Life]

OnRecord == UNION {journal[a] \cup ballot[a].props : a \in Accounts}

(***************************************************************************)
(* Intents.  The designated member proposes at once, the others after a    *)
(* delay by their own clocks: any of what is due may be proposed, as far   *)
(* as the balance goes.                                                    *)
(***************************************************************************)
Intents(v, entries) ==
    LET payouts == {NewProposal("payout", id, v) : id \in PayoutsDue(v, entries)}
        update == {NewProposal("update", s, v) : s \in SnapshotDue(v, entries)}
    IN  {i \in SUBSET (payouts \cup update) :
            /\ Cardinality(i \cap payouts) <= Balance
            /\ i # {} =>
                  v.now <= LastIntent /\ Cardinality(OnRecord \cup i) <= MaxProposals}

\* Variant: votes are published before the journal is saved.
SaveLater(a, entries) == saved' \in {saved, [saved EXCEPT ![a] = entries]}

(***************************************************************************)
(* Journal.Save, which publication waits for.                              *)
(***************************************************************************)
Save(a, entries) == saved' = [saved EXCEPT ![a] = entries]

(***************************************************************************)
(* What execute broadcasts: the ready proposals that pass another review,  *)
(* each with the fewest signatures.  It works with what the pass has read, *)
(* so that is settled here.                                                *)
(***************************************************************************)
Executable(a, v, entries) ==
    {[of |-> p, sigs |-> MinimalSignatures(v, p)] :
        p \in {q \in Visible(v) :
                  /\ StatusOf(v, q) = "ready"
                  /\ Review(v, q, entries, v.ballots[a].yes \ {q}) = "approve"}}

\* The rest of a pass: to publish new, if there is any, and to send.
Onward(v, new, send) ==
    IF new # EmptyBallot
      THEN [Idle EXCEPT !.step = "publish", !.now = v.now, !.new = new, !.send = send]
    ELSE IF send # {} THEN [Idle EXCEPT !.step = "execute", !.now = v.now, !.send = send]
    ELSE Idle

(***************************************************************************)
(* Pass from the accounts of svm.bank and its members to the journal:      *)
(* BuildView, the chain's state and voteAndPropose.  If the journal cannot *)
(* be saved nothing is published.                                          *)
(***************************************************************************)
VoteAndPropose(a) ==
    LET v == Seen(a)
        verdicts == Verdicts(a, v)
        yes == Approved(verdicts)
        no == {p \in DOMAIN verdicts : verdicts[p] = "deny"}
    IN  /\ pass[a].step = "synced"
        /\ \/ /\ a \notin Members(auth)
              /\ Pass(a, "synced", Onward(v, EmptyBallot, Executable(a, v, journal[a])))
              /\ UNCHANGED <<journal, saved, faults>>
           \/ /\ a \in Members(auth)
              /\ \E intents \in Intents(v, journal[a] \cup yes) :
                    LET entries == Pruned(journal[a] \cup yes \cup intents, v.now - PruneAfter)
                        new == [props |-> intents, yes |-> yes \cup intents, no |-> no]
                        send == Executable(a, v, entries)
                    IN  /\ journal' = [journal EXCEPT ![a] = entries]
                        /\ \/ /\ new # EmptyBallot => Save(a, entries)
                              /\ new = EmptyBallot => UNCHANGED saved
                              /\ Pass(a, "synced", Onward(v, new, send))
                              /\ UNCHANGED faults
                           \/ /\ new # EmptyBallot /\ faults < fleet.faults
                              /\ faults' = faults + 1
                              /\ Pass(a, "synced", Onward(v, EmptyBallot, send))
                              /\ UNCHANGED saved
        /\ UNCHANGED <<svmVars, steemVars, ballot, late, pool>>

Merged(b, new) ==
    [props |-> b.props \cup new.props,
     yes |-> (b.yes \ new.no) \cup new.yes,
     no |-> (b.no \ new.yes) \cup new.no]

PrunedBallot(b, cut) ==
    [props |-> Pruned(b.props, cut), yes |-> Pruned(b.yes, cut), no |-> Pruned(b.no, cut)]

(***************************************************************************)
(* publish: a's ballot is read again, merged with what is new, pruned, and *)
(* cut further, though never by what is live, if it does not fit.  The     *)
(* update is included at once, or later.                                   *)
(***************************************************************************)
Publish(a) ==
    /\ Pass(a, "publish", Onward(pass[a], EmptyBallot, pass[a].send))
    /\ \E cut \in (pass[a].now - PruneAfter) .. pass[a].now :
          LET b == PrunedBallot(Merged(ballot[a], pass[a].new), cut)
          IN  \/ /\ ballot' = [ballot EXCEPT ![a] = b]
                 /\ UNCHANGED <<late, faults>>
              \/ /\ faults < fleet.faults
                 /\ faults' = faults + 1
                 /\ late' \in {late, [late EXCEPT ![a] = {b}]}
                 /\ UNCHANGED ballot
    /\ UNCHANGED <<svmVars, steemVars, pool, journal, saved>>

(***************************************************************************)
(* What Steem's consensus asks of a transaction of svm.bank (external):    *)
(* not expired, not a duplicate, signatures that meet the authority and    *)
(* none beyond, the balance, and one change of owner per cooldown.         *)
(***************************************************************************)
Accepts(tx) ==
    /\ now < Expiration(tx.of) /\ Expiration(tx.of) <= now + MaxAhead
    /\ tx.of \notin executed
    /\ tx.sigs \subseteq Members(auth)
    /\ WeightOf(auth, tx.sigs) >= auth.threshold
    /\ \A a \in tx.sigs : WeightOf(auth, {b \in tx.sigs : b < a}) < auth.threshold
    /\ IF tx.of.kind = "payout" THEN Balance > 0 ELSE now - changedAt >= OwnerCooldown

Included(tx) ==
    /\ executed' = executed \cup {tx.of}
    /\ IF tx.of.kind = "payout" THEN UNCHANGED <<auth, changedAt>>
       ELSE /\ auth' = IF tx.of.exact THEN DesiredAt(tx.of.of) ELSE Distorted
            /\ changedAt' = now

(***************************************************************************)
(* execute, for one proposal: Steem includes it in a block or refuses it   *)
(* while the broadcast waits, or takes it and includes it later.  They are *)
(* taken in the order of their creation; any may be skipped, a's rank and  *)
(* clock permitting.                                                       *)
(***************************************************************************)
Execute(a) ==
    /\ \E tx \in pass[a].send :
          /\ \/ Accepts(tx) /\ Included(tx) /\ UNCHANGED <<pool, faults>>
             \/ /\ Accepts(tx) /\ faults < fleet.faults
                /\ pool' = pool \cup {tx}
                /\ faults' = faults + 1
                /\ UNCHANGED <<executed, auth, changedAt>>
             \/ ~Accepts(tx) /\ UNCHANGED <<executed, auth, changedAt, pool, faults>>
          /\ Pass(a, "execute", Onward(pass[a], EmptyBallot,
                {t \in pass[a].send : t # tx /\ t.of.at >= tx.of.at}))
    /\ UNCHANGED <<svmVars, now, ballot, late, journal, saved>>

\* The pass is over; the rest of what is ready waits for a's rank or for good.
EndPass(a) ==
    /\ Pass(a, "execute", Idle)
    /\ UNCHANGED <<svmVars, steemVars, ballot, late, pool, journal, saved, faults>>

\* The process dies and starts again with the journal LoadJournal reads.
Restart(a) ==
    /\ faults < fleet.faults
    /\ faults' = faults + 1
    /\ pass' = [pass EXCEPT ![a] = Idle]
    /\ journal' = [journal EXCEPT ![a] = saved[a]]
    /\ UNCHANGED <<svmVars, steemVars, ballot, late, pool, saved>>

-----------------------------------------------------------------------------
(* Steem, people, and the chain as far as signers see it; Withdrawals models *)
(* bridge-out itself. *)

\* A delayed publication replaces what the metadata holds meanwhile.
Arrive(a) ==
    /\ \E b \in late[a] : ballot' = [ballot EXCEPT ![a] = b]
    /\ late' = [late EXCEPT ![a] = {}]
    /\ UNCHANGED <<svmVars, steemVars, pool, signerVars, faults>>

IncludeLate ==
    /\ \E tx \in pool : Accepts(tx) /\ Included(tx) /\ pool' = pool \ {tx}
    /\ UNCHANGED <<now, svmVars, ballot, late, signerVars, faults>>

PublishByHand ==
    /\ \E h \in HandMade :
          /\ h[2].at = now
          /\ h[2] \notin OnRecord /\ Cardinality(OnRecord) < MaxProposals
          /\ ballot' = [ballot EXCEPT ![h[1]].props = @ \cup {h[2]}]
    /\ UNCHANGED <<svmVars, steemVars, late, pool, signerVars, faults>>

\* A user bridges out.
Request ==
    /\ now <= LastRequest
    /\ \E id \in Wids :
          /\ owed[id].status = "NONE"
          /\ owed' = [owed EXCEPT ![id] = [status |-> "REQUESTED", createdAt |-> height]]
    /\ UNCHANGED <<height, stakeAt, fleet, steemVars, ballot, late, pool, signerVars, faults>>

\* The validators' oracles have attested the payout.
Process ==
    /\ \E id \in PaidBy(executed) :
          /\ owed[id].status = "REQUESTED"
          /\ owed' = [owed EXCEPT ![id].status = "PROCESSED"]
    /\ UNCHANGED <<height, stakeAt, fleet, steemVars, ballot, late, pool, signerVars, faults>>

\* Steem's clock goes on; so does the chain, whose bounded sweep refunds of what
\* is overdue as much as it gets to.
Tick ==
    /\ now < MaxTime
    /\ \A a \in Accounts : pass[a].step = "idle" \/ now < pass[a].now + fleet.span
    /\ now' = now + 1
    /\ height' \in {height + n : n \in Speeds}
    /\ \E swept \in SUBSET {id \in Wids : /\ owed[id].status = "REQUESTED"
                                         /\ owed[id].createdAt + Timeout < height'} :
          owed' = [id \in Wids |-> IF id \in swept
                                     THEN [owed[id] EXCEPT !.status = "REFUNDED"]
                                     ELSE owed[id]]
    /\ pool' = {tx \in pool : now' < Expiration(tx.of)}
    /\ UNCHANGED <<stakeAt, fleet, auth, changedAt, executed, ballot, late, signerVars, faults>>

Init ==
    /\ now = 0 /\ height = 0
    /\ stakeAt \in StakeHistories
    /\ owed = [id \in Wids |-> [status |-> "NONE", createdAt |-> 0]]
    /\ auth = DesiredAt(0)
    /\ changedAt = Never
    /\ ballot = [a \in Accounts |-> EmptyBallot]
    /\ late = [a \in Accounts |-> {}]
    /\ pool = {} /\ executed = {}
    /\ pass = [a \in Accounts |-> Idle]
    /\ journal = [a \in Accounts |-> {}]
    /\ saved = journal
    /\ fleet \in Fleets
    /\ faults = 0

Step(a) ==
    \/ Sync(a) \/ VoteAndPropose(a) \/ Publish(a) \/ Execute(a)
    \/ EndPass(a) \/ Restart(a) \/ Arrive(a)

Next ==
    \/ \E a \in fleet.signers : Step(a)
    \/ IncludeLate \/ PublishByHand \/ Request \/ Process \/ Tick

Spec == Init /\ [][Next]_vars

-----------------------------------------------------------------------------
(* Properties. *)

Ballots == [props : SUBSET Proposals, yes : SUBSET Proposals, no : SUBSET Proposals]
Transactions == [of : Proposals, sigs : SUBSET Accounts]

(***************************************************************************)
(* The variables keep their shape; in particular every change of the       *)
(* authority that a signer proposes is from a checkpoint the others accept *)
(* as one (Checkpoint).                                                    *)
(***************************************************************************)
TypeOK ==
    /\ now \in 0 .. MaxTime /\ height \in 0 .. MaxHeight
    /\ stakeAt \in StakeHistories
    /\ owed \in [Wids -> [status : {"NONE", "REQUESTED", "PROCESSED", "REFUNDED"},
                          createdAt : 0 .. MaxHeight]]
    /\ auth \in {AuthorityFor[s] : s \in DOMAIN AuthorityFor} \cup {Distorted}
    /\ changedAt \in {Never} \cup 0 .. MaxTime
    /\ ballot \in [Accounts -> Ballots] /\ late \in [Accounts -> SUBSET Ballots]
    /\ pool \subseteq Transactions
    /\ executed \subseteq Proposals
    /\ pass \in [Accounts ->
          [step : {"idle", "synced", "publish", "execute"}, now : 0 .. MaxTime,
           done : SUBSET Proposals, changedAt : {Never} \cup 0 .. MaxTime,
           new : Ballots, send : SUBSET Transactions]]
    /\ journal \in [Accounts -> SUBSET Proposals] /\ saved \in [Accounts -> SUBSET Proposals]
    /\ fleet \in Fleets
    /\ faults \in Nat

(***************************************************************************)
(* No withdrawal is paid twice, whatever the signers see late or not at    *)
(* all: "at most one can ever reach the threshold" (reviewTransfer, the    *)
(* journal, HistoryIndex).                                                 *)
(***************************************************************************)
PaidOnce ==
    \A p, q \in executed :
        p.kind = "payout" /\ q.kind = "payout" /\ p.of = q.of => p = q

Promise == INSTANCE Payouts WITH
    Slack <- PayoutMarginBlocks - Speed * (MaxSpan + MaxAhead),
    paid <- {[id |-> p.of, exact |-> p.exact] : p \in {q \in executed : q.kind = "payout"}}

(***************************************************************************)
(* The signers implement Payouts: each transfer out of the gateway pays a  *)
(* withdrawal that the chain still owes, exactly, for the first time, and  *)
(* before the last Slack blocks of its timeout, whatever expiration the    *)
(* proposal has: execute reviews it once more, and Steem takes nothing     *)
(* that expires later than MaxAhead from then (payoutFacts, execute).      *)
(***************************************************************************)
PaidAsPromised == Promise!Spec

\* Approvals of a that have left its process.
Signed(a) ==
    ballot[a].yes \cup (UNION {b.yes : b \in late[a]})
        \cup {tx.of : tx \in {t \in pool : a \in t.sigs}}

(***************************************************************************)
(* A signature that has left the process and can still be used is in the   *)
(* journal's file, so a signer that starts again knows of it though its    *)
(* ballot may not show it ("the journal must hold every approval before    *)
(* any signature leaves this process"; voteAndPropose, Save, LoadJournal). *)
(***************************************************************************)
WriteAhead ==
    \A a \in Accounts : \A p \in Signed(a) : now < Expiration(p) => p \in saved[a]

(***************************************************************************)
(* At no time do two signatures of one signer stand for the same           *)
(* withdrawal, or for two changes of the authority, that could both still  *)
(* be executed (Conflicts, reviewTransfer, reviewAccountUpdate, Intents).  *)
(***************************************************************************)
OneLiveApproval ==
    \A a \in Accounts : \A p, q \in Signed(a) :
        p # q /\ Subject(p) = Subject(q) => now >= Expiration(p) \/ now >= Expiration(q)

(***************************************************************************)
(* The journal does its work: what a signer has let out it still knows,    *)
(* and so it never signs against it (voteAndPropose with the Journal).     *)
(***************************************************************************)
JournalSound == WriteAhead /\ OneLiveApproval

(***************************************************************************)
(* A payout that a signer has denied, a vote it never takes back, is wrong *)
(* for good: it misstates the withdrawal, or that is paid, settled or too  *)
(* close to its refund by now ("Deny is final, so the policy only denies   *)
(* content that can never become correct"; payoutFacts).                   *)
(***************************************************************************)
DeniedForGood ==
    \A a \in Accounts : \A p \in ballot[a].no :
        p.kind = "payout" =>
            \/ ~p.exact
            \/ p.of \in PaidBy(executed)
            \/ owed[p.of].status \in {"PROCESSED", "REFUNDED"}
            \/ height + PayoutMarginBlocks > owed[p.of].createdAt + Timeout

(***************************************************************************)
(* The apportionment of stake s: the weights sum to exactly TotalWeight,   *)
(* no validator with a place is without a say, and none has more than its  *)
(* share rounded up, except the one unit everybody has.  Rounding keeps    *)
(* the order of the stakes, and who gains stake while the others keep      *)
(* theirs loses nothing by it.  Raising the weights of 0 can cost the      *)
(* larger of two stakes one unit, and no more, when it is the one that     *)
(* pays: the largest weight does, and of equal weights the first by name.  *)
(***************************************************************************)
FairTo(s) ==
    LET w == Authority(s).weight
        r == Rounded(s)
        T == Total(s, Kept(s))
        Gains(a) == [s EXCEPT ![a] = @ + 1]
    IN  Kept(s) # {} =>
        /\ Total(w, Accounts) = TotalWeight
        /\ Members(Authority(s)) = Kept(s)
        /\ \A a \in Kept(s) : w[a] = 1 \/ (w[a] - 1) * T < TotalWeight * s[a]
        /\ \A a, b \in Kept(s) : s[a] > s[b] => r[a] >= r[b] /\ w[a] + 1 >= w[b]
        /\ \A a \in Kept(s) : /\ Rounded(Gains(a))[a] >= r[a]
                              /\ Authority(Gains(a)).weight[a] + 1 >= w[a]

\* So the stakes of the histories and of the samples are apportioned.
SharesFair == \A s \in StakeSamples \cup DOMAIN AuthorityFor : FairTo(s)

(***************************************************************************)
(* Rounding, the limit of MaxAccountAuths and the minimum weight lose and  *)
(* invent nothing and move no weight by more than a unit from the order of *)
(* the stakes, for any of the sampled stakes, settled where behaviours     *)
(* begin (Apportion).                                                      *)
(***************************************************************************)
Proportional == Init => SharesFair

(***************************************************************************)
(* svm.bank's authority is at all times the apportionment of stakes that   *)
(* the validators had at a height the chain has reached: whatever is       *)
(* proposed, by hand too, no other comes to be signed by a quorum and      *)
(* executed (reviewAccountUpdate, execute).                                *)
(***************************************************************************)
FollowsStakes == \E n \in 0 .. height : auth = DesiredAt(n)

=============================================================================
