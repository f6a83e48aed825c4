-------------------------------- MODULE Relayer --------------------------------
(***************************************************************************)
(* One validator's oracle client (oracle/go/relayer): it scans the         *)
(* irreversible blocks of Steem behind a cursor kept in a file, turns the  *)
(* gateway's transfers and payouts into attestations, sends them as one    *)
(* fee-exempt transaction per cycle, and moves the cursor once that        *)
(* transaction has been executed.                                          *)
(*                                                                         *)
(* Of the chain the model keeps what the client meets: which of its        *)
(* attestations are recorded, which keys no longer take any, and the       *)
(* acceptance checks that the ante handler and the handlers share.  Of a   *)
(* block it keeps the operations that concern the gateway:                 *)
(*   [op |-> "transfer", id, memo, asset, amount]                          *)
(*   [op |-> "payout", id, matches]                                        *)
(* where memo is "svm-register", "svm-deposit", "blocked" (a deposit to an *)
(* address that the bank does not credit) or "note" (no destination can be *)
(* derived from it), and matches tells whether the payout is what the      *)
(* withdrawal it names asked for.                                          *)
(***************************************************************************)
EXTENDS Integers, FiniteSets, FiniteSetsExt

CONSTANTS
    Steem,             \* the blocks of Steem: 1 .. n -> set of operations
    LocalStart,        \* start-block of the client's own configuration, 0 if unset
    ChainStart,        \* relayer_start_block, 0 if unset
    SavedCursors,      \* what the state file may hold at first, 0 if there is none
    MinRegistration,   \* name_registration_min_millisteem
    FlagChoices,       \* the feature flags governance may set
    MaxBlocksPerPoll,
    MaxMsgsPerTx,
    MaxFaults          \* bound: crashes, lost or late transactions, changes of status or flags

Heights == DOMAIN Steem
Operations == UNION {Steem[n] : n \in Heights}

ASSUME RelayerAssumption ==
    /\ \A x \in {LocalStart, ChainStart, MinRegistration, MaxFaults} : x \in Nat
    /\ \A x \in {MaxBlocksPerPoll, MaxMsgsPerTx} : x \in Nat \ {0}
    /\ SavedCursors \subseteq Nat
    /\ IsFiniteSet(Heights) /\ Heights # {} /\ Heights = 1 .. Cardinality(Heights)
    /\ \A m, n \in Heights : m # n => Steem[m] \cap Steem[n] = {}
    /\ FlagChoices \subseteq
           [BridgeEnabled : BOOLEAN, NameServiceEnabled : BOOLEAN, BridgeOutEnabled : BOOLEAN]

VARIABLES
    lib,        \* last irreversible block of Steem
    flags,      \* feature flags of the bridge's parameters
    able,       \* the validator is bonded and not jailed
    confirmed,  \* attestations of this validator that the chain has recorded
    closed,     \* keys the chain has resolved with others' attestations
    tx,         \* the client's latest transaction: [status, msgs]
    cursor,     \* State.LastScannedBlock in memory
    file,       \* the same in the state file
    waiting,    \* lastFullBlock of the cycle that waits for tx; 0 between cycles
    skipped,    \* operations passed over because their feature was disabled
    faults      \* faults so far

chainVars == <<confirmed, closed>>
clientVars == <<cursor, file, waiting>>
vars == <<lib, flags, able, chainVars, tx, clientVars, skipped, faults>>

-----------------------------------------------------------------------------
(* Messages, and what the chain says to them. *)

(***************************************************************************)
(* RouteMemo.                                                              *)
(***************************************************************************)
RouteMemo(t) == IF t.memo = "svm-register" THEN "register" ELSE "deposit"

(***************************************************************************)
(* BuildMsg, and the payout message of runCycle.  SBD is never registered. *)
(***************************************************************************)
BuildMsg(o) ==
    IF o.op = "payout" THEN [kind |-> "payout", of |-> o]
    ELSE [kind |-> IF o.asset = "SBD" THEN "deposit" ELSE RouteMemo(o), of |-> o]

Messages == {BuildMsg(o) : o \in Operations}

Redundant(m) == m \in confirmed \cup closed

(***************************************************************************)
(* ValidateDepositAcceptance, ValidateNameRegistrationAcceptance and       *)
(* ValidateWithdrawalProcessedAcceptance, up to the benign errors; no      *)
(* message is about a block before the chain's anchor.                     *)
(***************************************************************************)
DepositAcceptance(m) == flags.BridgeEnabled

NameRegistrationAcceptance(m) ==
    flags.NameServiceEnabled /\ m.of.amount >= MinRegistration

PayoutAcceptance(m) == flags.BridgeOutEnabled /\ (Redundant(m) \/ m.of.matches)

Acceptable(m) ==
    CASE m.kind = "deposit"  -> DepositAcceptance(m)
      [] m.kind = "register" -> NameRegistrationAcceptance(m)
      [] m.kind = "payout"   -> PayoutAcceptance(m)

\* Variant: a redundant attestation is refused like any other.
AcceptedStrict(m) == Acceptable(m) /\ ~Redundant(m)

(***************************************************************************)
(* The message is recorded, or a benign no-op.                             *)
(***************************************************************************)
Accepted(m) == Acceptable(m)

(***************************************************************************)
(* qualifiesForFeeExemption, which a transaction without a fee needs.  The *)
(* validator's quota of free attestations per block is above what one      *)
(* transaction of the client takes.                                        *)
(***************************************************************************)
Qualifies(msgs) == able /\ \A m \in msgs : Accepted(m)

\* resolveDeposit cannot credit the destination.
Uncreditable(m) == m.of.op = "transfer" /\ m.of.memo = "blocked"

(***************************************************************************)
(* The handlers AttestDeposit, SubmitNameRegistration and                  *)
(* AttestWithdrawalPayout on accepted messages: a redundant one changes    *)
(* nothing, any other is recorded.  One that reaches the threshold         *)
(* resolves its key, and where that fails the transaction fails with it.   *)
(***************************************************************************)
Recorded(msgs) == confirmed \cup {m \in msgs : ~Redundant(m)}

MayFail(msgs) == \E m \in msgs : ~Redundant(m) /\ Uncreditable(m)

-----------------------------------------------------------------------------
(* One cycle. *)

AnchoredCursor(c) == IF ChainStart > 0 /\ c < ChainStart - 1 THEN ChainStart - 1 ELSE c

InitialCursor ==
    CASE LocalStart > 0 -> LocalStart - 1
      [] LocalStart = 0 /\ ChainStart > 0 -> ChainStart - 1
      [] OTHER -> lib

(***************************************************************************)
(* SaveState writes a new file and renames it: it succeeds or changes      *)
(* nothing, and in memory the cursor has moved either way.                 *)
(***************************************************************************)
SaveState(c) ==
    /\ cursor' = c
    /\ file' \in {file, c}

\* Some feature is on, and the validator can submit.
Active == (flags.BridgeEnabled \/ flags.NameServiceEnabled) /\ able

FeatureOn(o) ==
    IF o.op = "payout" THEN flags.BridgeOutEnabled
    ELSE IF RouteMemo(o) = "register" THEN flags.NameServiceEnabled
    ELSE flags.BridgeEnabled

\* What the client holds to be worth attesting.
Actionable(o) == IF o.op = "payout" THEN o.matches ELSE o.memo # "note"

(***************************************************************************)
(* alreadyAttested looks the transfer up under the intent of its memo;     *)
(* payouts are not looked up.                                              *)
(***************************************************************************)
AlreadyAttested(o) ==
    o.op = "transfer" /\ Redundant([kind |-> RouteMemo(o), of |-> o])

BlockMsgs(n) ==
    {BuildMsg(o) : o \in {x \in Steem[n] :
        FeatureOn(x) /\ Actionable(x) /\ ~AlreadyAttested(x)}}

MsgsUpTo(n) == UNION {BlockMsgs(b) : b \in (cursor + 1) .. n}

\* Variant: blocks that may yet be undone are scanned as well.
ScanToHead == Min({Max(Heights), cursor + MaxBlocksPerPoll})

ScanTo == Min({lib, cursor + MaxBlocksPerPoll})

(***************************************************************************)
(* The last block that fits into one transaction with all before it.       *)
(***************************************************************************)
LastFullBlock ==
    Max({cursor} \cup {n \in (cursor + 1) .. ScanTo :
                          Cardinality(MsgsUpTo(n)) <= MaxMsgsPerTx})

ScannedOps(upto) == UNION {Steem[n] : n \in (cursor + 1) .. upto}

\* A rescan decides anew what is passed over.
PassedOver(upto) ==
    (skipped \ ScannedOps(upto)) \cup {o \in ScannedOps(upto) : ~FeatureOn(o)}

(***************************************************************************)
(* broadcastTx up to waitForDelivery.  A transaction still in the mempool  *)
(* bars another with the account's sequence number; the same one again is  *)
(* "already seen", and the client goes back to waiting for it.             *)
(***************************************************************************)
Broadcast(msgs, upto) ==
    /\ \/ /\ tx.status = "pending" /\ tx.msgs = msgs
          /\ UNCHANGED tx
       \/ /\ tx.status # "pending"
          /\ Qualifies(msgs)
          /\ tx' = [status |-> "pending", msgs |-> msgs]
    /\ waiting' = upto
    /\ UNCHANGED <<cursor, file>>

(***************************************************************************)
(* runCycle, up to the point where it waits for the delivery.  A failed    *)
(* query or a refused broadcast ends the cycle and changes nothing.        *)
(***************************************************************************)
RunCycle ==
    /\ waiting = 0
    /\ Active
    /\ \/ /\ cursor = 0
          /\ SaveState(AnchoredCursor(InitialCursor))
          /\ UNCHANGED <<waiting, tx, skipped>>
       \/ /\ cursor # 0 /\ AnchoredCursor(cursor) # cursor
          /\ SaveState(AnchoredCursor(cursor))
          /\ UNCHANGED <<waiting, tx, skipped>>
       \/ /\ cursor # 0 /\ AnchoredCursor(cursor) = cursor
          /\ LastFullBlock # cursor
          /\ IF MsgsUpTo(LastFullBlock) = {}
               THEN SaveState(LastFullBlock) /\ UNCHANGED <<waiting, tx>>
               ELSE Broadcast(MsgsUpTo(LastFullBlock), LastFullBlock)
          /\ skipped' = PassedOver(LastFullBlock)
    /\ UNCHANGED <<lib, flags, able, chainVars, faults>>

\* The deadline passes; a fault if the transaction was still on its way.
DeadlinePassed ==
    \/ tx.status = "none" /\ UNCHANGED faults
    \/ tx.status = "pending" /\ faults < MaxFaults /\ faults' = faults + 1

\* Variant: a transaction that is not seen in time is taken to have landed.
GiveUpTrusting == DeadlinePassed /\ SaveState(waiting)

\* waitForDelivery runs into its deadline.
GiveUp == DeadlinePassed /\ UNCHANGED <<cursor, file>>

WaitForDelivery ==
    /\ waiting # 0
    /\ \/ tx.status = "ok" /\ SaveState(waiting) /\ UNCHANGED faults
       \/ tx.status = "failed" /\ UNCHANGED <<cursor, file, faults>>
       \/ GiveUp
    /\ waiting' = 0
    /\ UNCHANGED <<lib, flags, able, chainVars, tx, skipped>>

(***************************************************************************)
(* The process dies and starts again with what LoadState reads.            *)
(***************************************************************************)
Restart ==
    /\ faults < MaxFaults
    /\ cursor' = file
    /\ waiting' = 0
    /\ faults' = faults + 1
    /\ UNCHANGED <<lib, flags, able, chainVars, tx, file, skipped>>

-----------------------------------------------------------------------------
(* The surroundings. *)

\* Steem finalizes a block.
Irreversible ==
    /\ lib + 1 \in Heights
    /\ lib' = lib + 1
    /\ UNCHANGED <<flags, able, chainVars, tx, clientVars, skipped, faults>>

(***************************************************************************)
(* The transaction is executed in a block, all of it or nothing.           *)
(***************************************************************************)
Deliver ==
    /\ tx.status = "pending"
    /\ \/ /\ Qualifies(tx.msgs)
          /\ confirmed' = Recorded(tx.msgs)
          /\ tx' = [tx EXCEPT !.status = "ok"]
       \/ /\ ~Qualifies(tx.msgs) \/ MayFail(tx.msgs)
          /\ tx' = [tx EXCEPT !.status = "failed"]
          /\ UNCHANGED confirmed
    /\ UNCHANGED <<lib, flags, able, closed, clientVars, skipped, faults>>

\* The mempool forgets the transaction.
Drop ==
    /\ faults < MaxFaults
    /\ tx.status = "pending"
    /\ tx' = [tx EXCEPT !.status = "none"]
    /\ faults' = faults + 1
    /\ UNCHANGED <<lib, flags, able, chainVars, clientVars, skipped>>

\* Other validators' attestations resolve a key.
Close ==
    /\ \E n \in Max({1, ChainStart}) .. lib : \E o \in Steem[n] :
          /\ Actionable(o)
          /\ ~Redundant(BuildMsg(o))
          /\ Accepted(BuildMsg(o)) /\ ~Uncreditable(BuildMsg(o))
          /\ closed' = closed \cup {BuildMsg(o)}
    /\ UNCHANGED <<lib, flags, able, confirmed, tx, clientVars, skipped, faults>>

\* The validator is jailed or leaves the bonded set, or comes back; governance
\* sets the flags.
Change ==
    /\ faults < MaxFaults
    /\ \/ able' = ~able /\ UNCHANGED flags
       \/ flags' \in FlagChoices \ {flags} /\ UNCHANGED able
    /\ faults' = faults + 1
    /\ UNCHANGED <<lib, chainVars, tx, clientVars, skipped>>

Init ==
    /\ lib = 1
    /\ flags \in FlagChoices
    /\ able = TRUE
    /\ confirmed = {} /\ closed = {}
    /\ tx = [status |-> "none", msgs |-> {}]
    /\ file \in SavedCursors
    /\ cursor = file
    /\ waiting = 0
    /\ skipped = {}
    /\ faults = 0

Next ==
    \/ RunCycle \/ WaitForDelivery \/ Restart
    \/ Irreversible \/ Deliver \/ Drop \/ Close \/ Change

Fairness ==
    /\ WF_vars(RunCycle)
    /\ WF_vars(WaitForDelivery)
    /\ WF_vars(Deliver)

Spec == Init /\ [][Next]_vars /\ Fairness

-----------------------------------------------------------------------------
(* Properties. *)

(***************************************************************************)
(* The variables keep their shape, and what was saved was scanned.         *)
(***************************************************************************)
TypeOK ==
    /\ lib \in Heights
    /\ flags \in FlagChoices
    /\ able \in BOOLEAN
    /\ confirmed \subseteq Messages /\ closed \subseteq Messages
    /\ tx \in [status : {"none", "pending", "ok", "failed"}, msgs : SUBSET Messages]
    /\ file \in Nat /\ cursor \in Nat /\ waiting \in Nat
    /\ file <= cursor
    /\ skipped \subseteq Operations
    /\ faults \in 0 .. MaxFaults

FirstScanned == Max({LocalStart, ChainStart})

(***************************************************************************)
(* The client or the chain sets a start, and no earlier life of the client *)
(* has scanned from there.                                                 *)
(***************************************************************************)
KnownStart == FirstScanned > 0 /\ \A c \in SavedCursors : c < FirstScanned

(***************************************************************************)
(* The cursor passes no operation that the client should attest before the *)
(* chain has this validator's attestation, or no longer needs it, whatever *)
(* crashes, lost transactions and late deliveries come between; except     *)
(* those whose feature was switched off when they were scanned (runCycle,  *)
(* broadcastTx, SaveState).                                                *)
(***************************************************************************)
NothingMissed ==
    \A n \in Heights : FirstScanned <= n /\ n <= cursor =>
        \A o \in Steem[n] :
            Actionable(o) => Redundant(BuildMsg(o)) \/ o \in skipped

(***************************************************************************)
(* The client attests nothing that a fork of Steem could still undo: all   *)
(* it sends is about irreversible blocks, none before the chain's anchor   *)
(* (runCycle, anchoredCursor).                                             *)
(***************************************************************************)
OnlySettled ==
    \A m \in tx.msgs : \E n \in ChainStart .. lib : n \in Heights /\ m.of \in Steem[n]

(***************************************************************************)
(* Nothing in the irreversible blocks ahead stops the client: no block has *)
(* more than one transaction takes, and the chain accepts and can resolve  *)
(* each of their attestations.  It refuses a registration below the        *)
(* minimum, and, while the bridge is off, the deposit that an SBD transfer *)
(* with a registration memo becomes.                                       *)
(***************************************************************************)
Passable ==
    \A n \in (cursor + 1) .. lib :
        /\ Cardinality(BlockMsgs(n)) <= MaxMsgsPerTx
        /\ \A o \in Steem[n] :
              FeatureOn(o) /\ Actionable(o) =>
                  Acceptable(BuildMsg(o)) /\ ~Uncreditable(BuildMsg(o))

(***************************************************************************)
(* If from some point on the validator can submit, some feature is on and  *)
(* nothing ahead is impassable, the client catches up with Steem's         *)
(* irreversible blocks: a failed cycle is retried, and what a cycle leaves *)
(* out is taken up by the next (Run, runCycle, broadcastTx).               *)
(***************************************************************************)
CatchesUp ==
    <>[](Active /\ Passable) => []<>(cursor >= lib)

(***************************************************************************)
(* As the comments in runCycle have it, what a cycle leaves out "is picked *)
(* up next cycle" and after a refused transaction "the same blocks are     *)
(* rescanned next cycle": while the validator can submit and some feature  *)
(* is on, the client catches up, whatever the blocks hold.                 *)
(***************************************************************************)
AlwaysCatchesUp ==
    <>[]Active => []<>(cursor >= lib)

=============================================================================
