# A TLA+ model of the SteemVM bridge and oracle

SteemVM is a Cosmos SDK chain with an EVM. Its STEEM and SBD come from Steem: users send
coins to the gateway account `svm.bank` on Steem, the chain's validators attest the
transfers, and the chain mints. The way back burns on the chain, and a multisignature of
the validators pays out on Steem. The same validators attest registrations of Steem account
names and vote on exchange rates, and one engine slashes those who neglect these duties.

This directory holds TLA+ modules translated from the Go code, TLC configurations that check
them on small instances, and proofs that TLAPS checks for every instance. `PROJECT.json`
lists components, runs, mutants, the map from definitions to source lines, findings,
hazards and theorems.

## The system's parts

| Part | Code | Module | Status |
|---|---|---|---|
| parameters, voting power, coins, duty queue | `x/oracle/bridge/keeper/{power,deposit,oracle_report}.go`, `types/{params,amounts}.go` | `BridgeBase`, `LegacyDec`, `Sums` | modelled, lemmas proved |
| bridge-in (deposits) | `msg_server_submit_steem_deposit.go`, `deposit.go`, `abci.go` | `Deposits`, `MintLedger` | modelled, proved |
| bridge-out (withdrawals) | `msg_server_bridge_out.go`, `msg_server_attest_withdrawal_payout.go`, `abci.go`, `blackhole.go` | `Withdrawals` | modelled, proved |
| name service | `msg_server_submit_name_registration.go`, `name_registration.go`, `msg_server_confirm_name.go`, `abci.go` | `Names` | modelled, proved |
| duty engine | `x/oracle/keeper/{abci,tally}.go`, `types/eval.go` | `OracleDuty` | modelled, proved |
| price feed | `x/oracle/data/keeper/{abci,msg_server_prevote,msg_server_vote}.go` | `PriceFeed` | modelled, proved |
| relayer client | `oracle/go/relayer` | `Relayer` | partly, safety proved |
| price feeder client | `oracle/go/relayer/pricefeeder*.go`, `relayer.go` | `PriceFeeder` | all but the price sources |
| gateway signers | `oracle/go/multisig` | `Gateway`, `Apportion`, `Payouts` | modelled, proved |
| genesis export and import | `*/keeper/genesis.go` | `DepositsGenesis` | bridge-in, proved |
| fee split, black hole | `feesplit.go`, `blackhole.go` | `Withdrawals` | modelled |
| fee exemption, quotas | `app/ante_steembridge.go`, `bridge/keeper/ante.go` | | not modelled |
| staking gate, validator identity | `app/stakinggate`, `validator_identity.go` | | not modelled |
| queries, EVM precompiles, wiring, `steemtx`, `x/steemvm`, Python and TypeScript clients, scripts | | | not modelled |

How they interact. A validator's client (`Relayer`) scans the irreversible blocks of Steem and
sends attestations to the chain. The bridge (`Deposits`, `Withdrawals`, `Names`) tallies them
against the stake bonded now (`BridgeBase`), mints, settles or refunds, and queues every
finalized deposit or payout. At the end of a block the staking module elects the bonded set, then the
bridge flushes the queue into the counters of `x/oracle` and sweeps overdue records, then the
price feed (`PriceFeed`) tallies and reports, then the engine (`OracleDuty`) judges a window
that has ended. The order is the one of `app/app_config.go:125-138` and of the bridge's
`EndBlock` (`x/oracle/bridge/module/module.go:144-163`).

Rates reach `PriceFeed` from the same client (`PriceFeeder`), one commit and one reveal per vote
period. What bridge-out asks for is paid on Steem by the validators' signers (`Gateway`), who share
nothing but what each publishes in the metadata of its own Steem account. What they promise the
chain is `Payouts`: `Withdrawals` takes it as given, and `Gateway` is proved to keep it.

## Conventions

* A transaction is one step. A handler that returns an error reverts its writes, so the
  action is not enabled. What the code calls a benign no-op is a stuttering step.
* A block's end is one step (`NextBlock`): staking election, queue, sweeps, in the code's order.
* Governance (`Govern`) may act between any two transactions; on the chain it acts in its
  EndBlocker, so the models allow more.
* Store collections are variables of the same name: a map is a function, a key set a set of
  tuples. A record's list of confirmations is kept as a count per validator.
* A fact-set's hash is taken to be injective, so votes carry the facts themselves. A price
  commit stands for the value it hides. A memo is kept as the destination it derives to.
* Amounts are small integers; `Factor` stands for 10^15, `UintMod` for 2^64, and `Precision`
  for the 10^18 of `LegacyDec`, whose rounding is the library's (half to even).
* `Faulty` validators may report anything; the others report `Truth`. This is an assumption
  about operators, not about the code, and each run says which validators are faulty.
* Definitions marked *Variant* are the mutants: plausible slips in the code that a property
  has to notice.

## Modules

**LegacyDec, Sums, BridgeBase.** `Sum` adds stake or coins over a set. `ReachesThreshold` is `factsCandidateRatio` and
`candidatePayoutRatio`: stake of the voters still bonded over the stake bonded now, rounded,
compared with `>=`. `CreditBridged` is `creditBridged`; it fails for a module account
(`Blocked`), which aborts the transaction. `FlushBridgeDuty` is the report to `x/oracle`.
`Oldest` is the bounded walk of the sweeps, `Overdue` their comparison in unsigned arithmetic.

**Deposits.** State: the records, the sequence, the by-txid and by-status indexes, the
confirmation markers and the votes per fact-set. `AttestDeposit` is the whole handler, with
`ResolveDeposit` when the votes for the facts just attested cross the threshold;
`ExpireDeposits` is the sweep. `MintLedger` is the abstract specification: a transfer is
credited at most once, and the total grows by exactly what is credited.

**DepositsGenesis.** `Deposits` with one more step between two blocks, `RoundTrip`: the records and the
sequence are exported, and `InitGenesis` rebuilds indexes, markers and votes from them, at the same height or
at the first.

**Withdrawals.** `BridgeOut` sends the net amount to the black hole and the fee to
`bridge_reward`, and opens a record. `AttestWithdrawalPayout` tallies per candidate (a transfer on
Steem). `RefundExpiredWithdrawals` mints the net amount again and `SweepBlackHole` burns
what lies in the black hole; the next block begins with `SplitFees`. `steemPayouts`, `PayWithdrawal` and `StrayPayout` are the gateway
on Steem, reduced to what `Policy.payoutFacts` approves and to a payment at once: `PayoutMargin` stands for the blocks that are
sure to be left when Steem includes a payout, which is the `Slack` that `Gateway` is proved to keep. `enabledSince` is the block that last
enabled bridge-out, history for the properties.

**Names.** `SubmitNameRegistration`, `ResolveNameRegistration` with the credit of the fee,
`ConfirmName` with the replacement of an older link, `ExpireNameRegistrations` with the one
budget that pending and awaiting records share.

**OracleDuty, PriceFeed.** `RecordDuty`, `EvaluateWindow`, `ShouldSlash` and `Score` are the engine;
`AggregateExchangeRatePrevote`, `AggregateExchangeRateVote` and `TallyExchangeRates` the feed.
`NextBlock` composes the two, with the bridge's reports as an input. Tokens are counted in units of
consensus power; a slash burns a fraction of them. `judged` (the tally just judged) and `peeked` (whose
commits were made when others' votes were public) are history the properties need.

**Relayer.** One client: `cursor` in memory, `file` on disk, `waiting` for a transaction. `RunCycle` is
`runCycle` up to the broadcast, `WaitForDelivery` its end, `Restart` a crash at any point.
`SaveState` may fail and leave the old file. The chain is reduced to which attestations it has
(`confirmed`), which keys it no longer needs them for (`closed`), the acceptance checks that
the ante handler and the handlers share, and the handlers' effect on an accepted message (`Recorded`). An attestation that reaches the threshold
for an address the bank does not credit fails, and the transaction with it; whether it is the deciding one depends on other validators, so the
model lets `Deliver` take either outcome (`MayFail`). The quota of the ante handler is above what one transaction holds and is left out of `Qualifies`.
`skipped` is history: the operations passed over while their feature was off.

**PriceFeeder.** One client and the validator's commit and vote on the chain. `Tick` is `runPriceFeederCycle` with
`Feeder.Step` up to the broadcast; `Finish`, `GiveUp` and `SaveFails` are its ends; `Crash` may come at any point and
forgets `lastHandledPeriod`. `file` is the state file, written after the delivery. `trouble` is the height at which something was last out of order
and `lost` the periods in which the client lost what it had not saved. A transaction that slips into the next period is out of order, too
(`Straddles`), although it takes no fault: its commit cannot be revealed in that period, every reveal fails, and the last one may slip again.

**Gateway, Apportion, Payouts.** A signer's pass is three steps with others in between: `Sync` and `VoteAndPropose`
(head and history, then accounts and chain; votes, own proposals, the journal written ahead), `Publish` (the ballot read again, merged,
pruned and published, perhaps late or never), `Execute` (the proposals whose approvals reach the threshold, with the minimal signatures).
A publication that fails is logged, and the pass goes on to `Execute`. `Restart` forgets all but the journal's file.
Proposals carry an expiration on Steem's clock (`exp`): a signer's own live for `Life`, one made by hand for as long as its maker likes, and the policy
does not look at it. What bounds them all is Steem, which takes no transaction that expires more than `MaxAhead` (an hour) from then, and the second
review in `execute`, at most `MaxSpan` before the broadcast. Withdrawals have a refund by the chain's height;
`Tick` advances both clocks, at a bounded ratio. Steem accepts a transaction before its expiration, once, if its signatures reach the
authority at that moment. An `update` proposal that is exact changes the authority to the stakes of a snapshot, any other to `Distorted`. Proposals published by hand
and Steem itself are outside the repository and marked external. `Apportion` is the division of the
weights (largest remainder, a place for at most `MaxAccountAuths`), a pure operator.

## Runs

Passing runs:

| Run | What it shows | States (distinct) |
|---|---|---|
| `deposits_genesis` | all three validators faulty, and exports at any block: minted at most once, resolved deposits final, indexes, markers and votes consistent before and after an import | 636,024 |
| `deposits_minority` | one faulty of three: only true facts resolve; a transfer that all honest validators have attested is resolved, whatever came first or expired before; one attestation by each honest client resolves it unless its record expires first; coins and duty reports add up, the sweep keeps up, the ledger is implemented | 61,492 |
| `withdrawals` | chain and gateway, one faulty of three: never owes more than came in, coins add up, bridge fees reach the stakers whole, votes and indexes agree, settled is final; what is overdue is refunded as fast as the bounded sweep can; processed means paid; paid is refunded only if bridge-out was paused after the payout | 915,352 |
| `names_registry` | links and indexes stay consistent and true, the full window, every registration leaves its phase within a bound that grows with the number of the others | 470,680 |
| `price_feed` | medians belong to the majority, agreeing majorities score, nobody diligent is jailed, nobody idle is spared, nobody is slashed twice, a commit of the period in force has a whole period to be revealed, and one made with others' votes in view counts for their tally only if revealed in the tallying block itself | 423,108 |
| `relayer_scan` | nothing missed, only irreversible blocks attested, the client catches up while nothing ahead is refused for good, through crashes and lost, late or failing transactions | 137,074 |
| `price_feeder` | back in step four periods after anything was out of order; a loss of unsaved state costs one tally | 947,213 |
| `gateway` | no withdrawal paid twice, too late or wrongly; signatures on file before they can be used, one live approval per payout and signer; denials are right for good; the weights add up and follow the stake; no authority but that of stakes the chain has had | 1,021,108 |

Runs that refute a statement of the repository (each with a finding):

| Run | Statement | What the code does |
|---|---|---|
| `deposits_blocked_destination` | `deposit.go:119-121`: a resolved deposit is minted or marked UNCLAIMABLE | a module account as destination makes the deciding attestation fail every time |
| `withdrawals_same_block` | `types/keys.go:87-92`: an attestation in the block that settled the withdrawal, after the deciding one, "is still credited, not marked a miss"; `attest_withdrawal_payout.go:156-158` and `oracle_report.go:26-31` say the same | line 53 of the handler drops it, and its sender is counted as a miss |
| `names_double_credit` | `name_registration.go:199-200`: the fee is "backed 1:1 exactly like a deposit" | a registration that expires after the credit frees its key, and is credited again |
| `relayer_refused` | `relayer.go:389, 397-398`: what failed is picked up next cycle | a registration below the minimum fails the whole transaction in every cycle (two more operations do, see `Passable`) |

### Bounds, and why they are enough

*Validators.* Three (two in the runs on names and the price feed), with stakes
1-1-1 and 2-1-1 (1-1 and 2-1). With the default threshold, 667 at `Precision` 1000, two of three equal validators are exactly at the
boundary: their ratio reaches it only by the library's rounding, which is why `LegacyDec` is modelled. One validator never
reaches it, and with 2-1-1 a change of stake between two votes decides. The bonded set loses and regains a validator in `deposits_minority` and `withdrawals_same_block`, and by jailing in `price_feed`; in the other runs it stays the same.
`Restake` changes the stake in the runs of all three parts of the bridge but `deposits_minority`.

*Records and blocks.* `SweepLimit` is 1, so two open records already exceed the sweep's budget.
Timeouts are 1 or 2 blocks, and `MaxHeight` leaves room for a record to expire, to be opened
again and to be resolved. `MaxDeposits`, `MaxWithdrawals` and `MaxRegistrations` (2 or 3) allow a
key to be used twice, or two keys to compete.

A `Names` instance has at most two registrations and attestations up to block 4; `ClosedInTime` is stated so that it does not lean on that: its bound
grows with the number of registrations (see below for what happens when they never end).

*Facts.* For one transfer: the true facts, a rival set with another destination or amount, one without a
destination, and one before the anchor block (in `deposits_minority` each of two transfers has the other's facts as its rival). Withdrawal requests include six that are refused.

*Price feed.* Two pairs, the market's ballot and one with a rate outside the band and a zero; vote periods
1 and 2 against slash windows 2 and 4, so that tallies fall on the ends of windows and between them within five blocks. The price
duty weighs nothing, so that only the floor guards it.

*Relayer.* Five Steem blocks around an anchor at 3, with every kind of operation, among them a registration in SBD and a deposit to a blocked address; two blocks per poll, two
messages per transaction, and two faults (a crash, a lost transaction, a missed deadline, a change of flags
or of the validator's status). The bridge may be off with the name service on, and the other way round. Blocks hold no more messages than a transaction may; with more, the client
stops before the block, as the code does (`relayer.go:388`).

*Price feeder.* Vote periods 2 and 3, eighteen blocks and four faults: six to nine periods, so that two faults can fall into
one cycle or be a full recovery apart, and the bound of four periods has room to fail. Three periods would do if governance
never changed `VotePeriod`.

*Gateway.* Four accounts of which three have a place; any quorum holds two. One withdrawal, requested at time 0. The chain makes three blocks in a unit of time; a proposal
of a signer lives for two units, and Steem takes none that expires later than that; a pass may last one unit. The margin is 9 blocks, what the chain makes in those three units, so `Slack` is 0 and `TimingAssumption` is tight;
the timeout is 12 blocks, the refund falls due after four units, and time runs to five: a first payout can expire while a second is proposed, the margin begins while proposals are alive, and the refund is
reached with and without a payout before it. Two signers with one fault (crash, failed save, lost or late publication or execution), with overlapping passes, or with passes that last one unit, or three one after the
other; the stake moves once, so that the authority changes. A third party may publish the right payout, early, to expire soon or only after the refund, a wrong payout, or an update
to an authority of its own. The apportionment is checked for all 1,296 stakes of four validators from six values, two of which are so close that the unit which the minimum weight costs turns their order around.

`UintMod` never wraps in the runs; the proofs cover every modulus. Deadlock is not checked where a
bound ends the run (`CHECK_DEADLOCK FALSE`): every module stops at its last height or block.

### Fairness

* `deposits_minority`, `deposits_blocked_destination`: weak fairness on each honest validator's *first* accepted attestation of each transfer with a destination, with
  parameters and stake as they are at first (`SteadyNext`). The client retries every cycle until the chain has recorded it (`Relayer`, run `relayer_scan`); then its cursor is past the block for good
  (`relayer.go:404-406`), so nothing is assumed after the record has expired, and `HonestFactsResolve` promises nothing then. A transfer without a destination is skipped (`relayer.go:335`). Blocks are not required to advance.
* `withdrawals`: no fairness, but a timing assumption (`AttestedInTime`): honest validators attest
  a payout within `AttestLag` blocks of it, or of the block that enabled bridge-out again, and the margin is at least that.
* `names_registry`, `price_feed`, `price_feeder`, `gateway`, `deposits_genesis`: no fairness; what they say of progress is bounded in blocks.
* `relayer_scan`: weak fairness on the client's cycle and its wait (`Run` loops with a ticker), and on
  delivery of a transaction in the mempool, whatever its outcome. Steem need not advance, and crashes, losses, missed deadlines
  and changes are bounded in number, not in place.

## Proofs

All theorems hold for every value of the constants, under the assumptions named with the constants (their types, unless
said otherwise below).

| Module | Theorem | Statement |
|---|---|---|
| `SumsProofs` | (lemmas) | induction over finite sets and numbers; sums over unions, changes and groups; highest elements |
| `BridgeBaseProofs` | `FeeConserved` | net + fee = gross, neither negative, even if the fee multiplication wraps |
| `DepositsProofs` | `TypeCorrect`, `Consistency` | `Spec => []TypeOK`, `[]StoreConsistent` |
| | `NoDoubleMint`, `Finality` | `Spec => []MintedOnce`, `Spec => ResolvedIsFinal` |
| | `OnlyTruthMinted` | if no set of faulty validators holds the threshold, `Spec => []MintedFactsTrue` |
| | `HonestDecide` | if, besides, the honest ones hold it whoever is bonded (`HonestSuffice`), `Spec => []HonestVotesDecide` |
| | `NoCoinWithoutDeposit`, `DutyCountedOnce` | `Spec => []CoinsConserved`, `[]DutyAccounting` |
| | `SweepNeverIdles` | if no deadline wraps (`DeadlinesFit`), `Spec => SweepKeepsUp` |
| | `LedgerRefinement` | `Spec => ImplementsLedger` |
| | `NoDoubleMintAcrossExports`, `ConsistentAcrossExports`, `ImportRestores` | the invariants with exports at any block, and `RestoresIndexes` |
| `WithdrawalsProofs` | `TypeCorrect`, `OneVotePerValidator`, `Finality` | `[]TypeOK`, `[]VotesAgree`, `SettledIsFinal` |
| | `ProcessedMeansPaid` | if no set of faulty validators holds the threshold, `Spec => []ProcessedWasPaid` |
| | `PaidAndRefundedOnlyIfPaused` | on a chain whose set and timeout stay as they are (`SteadyChain`), `Spec => []RefundedOnlyIfPaused` |
| | `NoCoinLost`, `OwesNoMore`, `FeesGoRound` | `[]CoinsAccounted`, `[]NeverOwesMore`, `[]FeesShared` |
| `NamesProofs` | `TypeCorrect`, `OneStory`, `OneLinkPerAccount` | `Spec => []TypeOK`, `[]StoreConsistent`, `[]LinksAgree` |
| | `OnlyTrueLinks` | if no set of faulty validators holds the threshold, `Spec => []LinksTrue` |
| | `WholeWindow` | if governance leaves the window alone (`SteadyWindow`), `Spec => []FullWindow` |
| | `FeesInFull` | `Spec => []FeesCredited`: the coins are the fees of the records that reached the threshold (no run checks it) |
| `PriceFeedProofs` | `MajorityVouches`, `AgreementPays` | `Spec => MedianOfMajority`, `Spec => AgreeingMajorityScores` |
| | `FairJudgement` | `Spec => JudgedFairly` |
| | `CommitsKeepTheirPeriod` | `Spec => CommitWindow` |
| `RelayerProofs` | `TypeCorrect`, `AttestsSettled` | `Spec => []TypeOK`, `[]OnlySettled` |
| | `MissesNothing` | if the saved cursors lie before the first block to scan (`KnownStart`), `Spec => []NothingMissed` |
| `GatewayProofs` | `Types`, `JournalHolds` | `Spec => []TypeOK`, `[]JournalSound` |
| | `NeverPaidTwice`, `DenialsStand` | `Spec => []PaidOnce`, `[]DeniedForGood` |
| | `AuthorityFollowsStakes` | `Spec => []FollowsStakes` |
| | `SignersKeepPromise` | `Spec => PaidAsPromised`: the signers implement `Payouts` |

*Sums.* `Sum` is a fold of the community modules, a recursion chosen over the subsets of a set. `SumsProofs` shows that the
function it chooses exists, by induction on the size of a subset, and derives the rest from it. The prover cannot use the
library's induction rules, which take a predicate; the inductions here go through a minimal counterexample, which well-foundedness
of the strict subset relation (or of `<` on the naturals) provides.

*Bridge-in.* `MintedOnce` is not inductive: a state with a minted record that the by-txid index does not
point at satisfies it, and the next attestation of the key breaks it. The invariant is
`IInv == TypeOK /\ IndexesAgree /\ MintedIsStatus`: the index points at every record that has not
expired, and a record is minted exactly when its status says so. Expiry only touches records in the PENDING
bucket, so a minted record never leaves the index, and an attestation of its key works on it and
finds it resolved. `AttestEffect` and `ExpireEffect` say once what a handler does to the
records; the invariants, finality and the refinement rest on them. For truth the invariant adds that honest votes are for true facts: a
fact-set over the threshold then has an honest voter, since faulty ones alone do not reach it. `HonestDecide` goes the other way: a marker and its vote are written and removed together,
so when the last honest validator is marked, all honest votes for the true facts count, and they reach the threshold in that step. Across an export, the index that import
rebuilds is the one there was, because at most one record of a key has not expired; that is `IndexesAgree` again.

The coins of an asset are the worth of its minted deposits because a deposit becomes minted in the step that credits it, once; the running totals are
carried along in the same invariant. For the duty reports the invariant adds `QueueFinal`: only resolved deposits
wait in the queue, so a flush, which empties it, counts each deposit once.

`SweepNeverIdles` needs that ids are in the order of creation (`InOrder`). All records share one timeout at a time, so of two open deposits the older is
overdue whenever the younger is; what the sweep examines, the oldest of the bucket, is then overdue as soon as anything it leaves is, and the sweep expires as many as it may examine. With a
deadline that wraps around, a young deposit can be overdue before an old one, which the sweep then meets first: `DeadlinesFit` excludes that.

*Bridge-out.* The invariant joins the shape of the records, the status index and one vote per marker; the sweep works from the REQUESTED bucket and
attestation from the status, and `Indexed` says the two agree. `ProcessedMeansPaid` adds that honest votes name transfers that are on Steem.
`Books` is the accountant's invariant, asset by asset: the totals differ by what is not owed; the spendable coins, the fee pots and what was burned add up to what there was
at first, less what is owed; the black hole, `bridge_reward` and the fee collector hold what this block's withdrawals brought and what the last block's fees left; and the earlier fees are with the stakers,
with the community, or burned. It is needed in full: what the sweep burns and what the split deals out are balances, and only these equations tie them to records. All theorems on coins and types
follow from it, with the chain alone and with the gateway.

`PaidAndRefundedOnlyIfPaused` follows a payout from the block it was made in: it was made with `PayoutMargin` left, and before `AttestLag` blocks are over every honest bonded validator
has attested it, unless bridge-out was paused since (`InTime`). The last of these attestations meets the threshold, so the withdrawal is processed before it is overdue. Each condition of `SteadyChain`
is needed. When validators join after the last vote nothing counts the votes again. A timeout that governance shortens makes a withdrawal overdue at once. A start block
that moves past the payout lets its attestations be refused. A deadline that wraps is over before it began.

*Names.* `LinksAgree` needs `IndexesTrue`: the awaiting index by destination and the records agree, so that `ConfirmName` displaces exactly the record the link points at.
`StoreConsistent` adds the phases a record goes through, all its indexes and one vote per marker (`SInv`). `FullWindow` needs that no record awaits confirmation since a height to come; with a window that
governance shortens, or a height near the modulus, it is false, and `SteadyWindow` excludes both. `FeesCredited` counts
the records that reached the threshold, by the same sums as for deposits; a transfer that has two such records is credited twice, which is what `names_double_credit` shows.

*Price feed and engine.* The median is the lowest rate at which the ballots so far hold half the power. Two sets of voters of which one holds more than half and the other
half meet (`HalvesMeet`), so a majority has a rate at or below the median; and the highest rate of a majority is itself a candidate, so the median is not above it. An agreeing
majority of the bonded power is a majority of those who voted on any pair, so the median is its rate. For the engine the invariant says that hits do not exceed opportunities and that a jailed
validator has an empty counter: the election drops it before the next report, and a window resets the rest. Then the arithmetic of `LegacyDec` makes a full score exactly one, with and without weights.
For commits it says that since a commit made with votes in view no block has tallied (`Peeks`). A commit of a vote period that governance has changed since
(`kept`) is outside of `CommitWindow`: the code compares its block with periods of the new length.

*Relayer.* `NothingMissed` needs `Waits`: while a cycle waits, its transaction holds what is missing up to the block it waits for, and a transaction that was executed has left
nothing to do. The saved cursor is never ahead of the one in memory, so a restart only repeats. An operation is in one block (`RelayerAssumption`). `KnownStart` says that the client or the chain sets a start
and that no earlier life of the client has scanned from there: without a start the client begins at the head, and what a saved cursor has passed is not scanned again.

*Gateway.* That no withdrawal is paid twice rests on three facts. Any two quorums of the authorities in question have a signer in common
(`OverlapAssumption`). That signer has both approvals in its journal as long as they can be executed, since it writes them ahead, and
signs no second one while the first is live (`JournalSound`). And once the first payout has expired, a history read from then on shows
whether it was executed, so the signer denies the second. The invariant says this of every place a signature can be: ballot, late publication, pool,
pass. `SignersKeepPromise` follows a payout's time (`InTime`, `StepTiming`): no signer can hold others to an expiration, so the promise rests on `execute`, which reviews a proposal once more before
it broadcasts. A payout it sends had the whole margin left at the head it read; the pass takes `MaxSpan` at most from there, Steem takes the transaction only if it expires within `MaxAhead`,
and includes it before that. So `Slack == PayoutMarginBlocks - Speed * (MaxSpan + MaxAhead)` blocks are left at least, which `TimingAssumption` says is not negative.
`DenialsStand` needs that a denial, wherever it is on its way, is of a payout that is wrong for good: not what was asked for, of a withdrawal that is paid or settled, or too late for one that
was requested (`Justified`).
`AuthorityFollowsStakes` needs that no approval, wherever it is on its way, is of an inexact update (`Right`: `reviewAccountUpdate` compares the whole authority and signs no other, so the one in force is always of some stakes, `Ruled`), and that no update on file is of
a snapshot ahead of the chain (`OfThePast`): a signer abstains from one that is, and the checkpoint it proposes itself is a snapshot behind the tip (`CheckpointIsSnapshot`). An update that executes has the
approval of a signer that still has it on file, so the authority it brings is that of a height the chain has reached.

`OverlapAssumption` is about stake: with a threshold of 75% two quorums of one authority share half the weight, so it holds while less than half
moves between two authorities whose approvals are alive together. `TimingAssumption` holds with the defaults: the margin is 14,400 blocks, and an hour of Steem's time is some 1,200.
Both are checked on the instance by TLC.

Only model-checked:

* liveness (`HonestFactsResolve`, `CatchesUp`): fairness and `ENABLED` are outside the prover;
* the bounds in blocks on the sweeps, `RefundedInTime` and `ClosedInTime`;
* `Proportional`, what the apportionment computes for the sampled stakes;
* `PriceFeeder`, whose bounds in blocks are arithmetic over four consecutive periods and their interleavings.

## Disagreements without a run

Noted while translating or checking, and without an instance of their own.

* `oracle/PROTOCOL.md:460-461`: "A payout never races the automatic refund." A pause of bridge-out refuses the attestations
  (`msg_server_attest_withdrawal_payout.go:26`) while the refund goes on (`abci.go:120`), so a payout made with the whole margin left
  may be refunded too. `RefundedOnlyIfPaused` says that this is the only way.
* `msg_server_vote.go:46-48`: a commit "could not have been crafted with knowledge of this period's revealed votes". Votes are tallied
  at the end of the first block of the period that line 54 counts from (`abci.go:27`): a commit of the last block before it
  may follow votes revealed for that tally and be revealed in the tallying block. `CommitWindow` says that this block is the only one.
* `policy.go:185-188`: of two proposals "at most one can ever reach the threshold". That holds while two quorums overlap (see Proofs); after a
  change of the authority that moves more stake it is the history and the expiration that keep the second from being paid.
* `pricefeeder_state.go:37`: losing a pending commit "only costs one missed reveal". So it is when the transaction stays in its
  period; one that slips into the next period's first block costs two tallies.
* `relayer.go:74-77`: period 0 "sees at most a handful of redundant prevotes"; the code sends none, since 0 is also the mark for "nothing handled".
* `bridge/keeper/genesis.go:57-61`: "a genesis round-trip preserves who attested and the per-candidate tally". For an open withdrawal the
  markers and votes are dropped (line 62) and the confirmations stay, so a validator can appear twice on the record. For an open deposit all
  confirmers are counted for the facts first reported, so `MintedFactsTrue` does not survive an import. The totals of SBD restart at zero (line 91) and x/oracle's
  tallies empty. `types/genesis.go` refuses an export in which a key expired and was attested again.
* `policy.go:32`: "never pay within this many SVM blocks of the automatic refund". The margin is counted when a signer reviews, and Steem may include the payout up to an hour and
  a pass later; what never happens is a payment within `Slack` blocks of the refund (`PaidAsPromised`), some 13,000 of the 14,400.
* `oracle/PROTOCOL.md:490`: "Anyone may broadcast a `ready` proposal that its own policy still approves." Nothing on Steem checks that, and somebody who broadcasts one by hand may skip the
  review; the model has only the signers' broadcasts.
* The threshold is compared with `>=` against a rounded ratio, and exactly two thirds pass at
  0.666666666666666667 (`power.go:56`), while `readme.md:35` says more than two thirds.
* Bridge-out does not compare the maximum (`msg_server_bridge_out.go:64`), `docs/CLI_REFERENCE.md:506` asks for an "amount within min/max bounds".
* `docs/CLI_REFERENCE.md:63` says that a registration at the threshold "does not mint or link anything by itself"; the fee is
  minted then (`name_registration.go:203`), as `FeesInFull` proves of the code.
* `MissBand` (`x/oracle/data/types/params.go:20`) is read nowhere.
* "do not penalize non-voters on an unfinalized pair" (`x/oracle/data/keeper/abci.go:141-142`): a validator
  that did not vote at all is charged an opportunity even if no pair finalized.
* `router.go:23-27` says that any other memo is routed as a deposit and left to the chain; `relayer.go:335` skips a
  transfer without a destination.
* `relayer.go:470-471` says that a repeated attestation disqualifies the batch; on the chain it is benign.
* The comment at `bridge/keeper/genesis.go:59-61` says every confirmation on a paid withdrawal voted for the recorded
  candidate; a validator may have voted for another one.
* `name_registration.go:180` checks the minimum again at resolution; the deciding message has just passed the
  same check, so the branch is never taken for that reason.

Edges of the code that no text speaks of, and that properties exclude or bound by name:

* A registration that awaits confirmation is examined by the sweep only with what pending ones leave of its budget (`abci.go:243-272`). While new pending
  ones keep coming as fast as the sweep examines them, which one faulty validator can bring about, an overdue one stays open and keeps its key. `ClosedInTime` therefore
  bounds the wait by the number of registrations.
* A pause of the name service refuses `ConfirmName`, and the window runs on: `FullWindow` is about the time until the sweep, not about the time in which one can confirm.
* When governance shortens the vote period, a commit may be dropped in the block of the change, before it could be revealed. `CommitWindow` is about commits
  of the vote period in force.
* Three operations stop the relayer for good, with the same transaction refused or failing in every cycle: a registration below the minimum (`relayer_refused`); while the bridge is off and the
  name service on, an SBD transfer with a registration memo, which `relayer.go:323-328` lets pass as a registration and `router.go:43-45` turns into a deposit; and a deposit to a blocked address,
  when this client's attestation is the deciding one (`submit_steem_deposit.go:183-185`). `CatchesUp` excludes them (`Passable`), as it does a block with more
  operations than a transaction takes.
* A feeder transaction that slips into a period's first block leaves a commit that cannot be revealed in that period; all reveals of the period fail, and the last may slip again, for ever and without
  a further fault. `OneMissedReveal` promises nothing while that lasts.
* `Timeout` is a constant of `Gateway`; `signer.go:232` reads `WithdrawalTimeoutBlocks` in every pass. If governance raises it, a payout that was denied as too close to its refund would be right again (`DeniedForGood`); if
  governance shortens it, a payout under way may come after the refund (`PaidAsPromised`).
* `EvaluateWindow` always slashes and jails; the code logs a failing slash and goes on (`x/oracle/keeper/abci.go:76-95`), which the default window does not let happen.
* `DutyAccounting` counts opportunities exactly and bounds hits from above.

And edges that the runs leave out: a `WithdrawalTimeoutBlocks` of 0 (legal while bridge-out is
disabled) stops the refund sweep; a `DutyFloor` of 1 slashes validators that missed nothing, since the floor is compared with `<=`;
a start block of 1 makes the relayer's cursor 0, its mark for "none", and it never scans; transfers of a disabled feature are passed over for
good; a deposit whose votes come to suffice by a change of stake waits for one more vote.

## Not modelled, and why

Queries only read, and the indexes they read are checked against the records. The EVM precompiles unpack
arguments and call the same handlers. The wiring is construction; the order of the block hooks is what the models use of it.
`steemtx` is serialization and signing. `x/steemvm` is a parameter record. The Python and TypeScript clients
implement the same protocol as the Go client, which is the one modelled. Scripts and commands set up hosts. More than half of
the repository's lines are generated from the protobuf definitions.

Left out of what is modelled: in genesis, the sections of withdrawals and names (import breaks their invariants, see above) and of the oracle
modules, which are parameters. The fee exemption and its quotas decide who pays for a transaction and change no record; the
client's batch of 50 messages is below the quota of 100. The staking gate reads the links of `Names` when a validator is created or edited, and nothing
looks at them again when a link moves. Of the fees that `SplitFees` deals with, only those of bridge-out transactions are
modelled; a transaction of any other kind adds to the collector in the same way.

## Plan

1. **Fee exemption and quotas** in front of `Relayer`'s transactions, and the **staking gate** as an extension of `Names`.
2. **Genesis** of withdrawals and names, once import keeps their votes.
3. **Proofs** of the bounds in blocks: the price feeder's, and those of the refund and registration sweeps.
