------------------------------ MODULE BridgeBase ------------------------------
(***************************************************************************)
(* What the record kinds of x/oracle/bridge (deposits, withdrawals, name   *)
(* registrations) share: the module parameters, the live voting power they *)
(* weigh attestations with, the coins and running totals they move, and    *)
(* the queue through which they report finalized events to x/oracle.       *)
(*                                                                         *)
(* A transaction is one step: an error in a handler reverts all its        *)
(* writes, so a rejected message is simply not enabled, and a "benign      *)
(* no-op" is a stuttering step.                                            *)
(***************************************************************************)
EXTENDS LegacyDec, Sums

CONSTANTS
    Val,            \* validators, bonded or not
    TokenChoices,   \* the token distributions delegations and slashes lead to
    BondedChoices,  \* the bonded sets the staking module may elect
    ParamChoices,   \* the parameter records governance may set
    Users,          \* ordinary accounts
    Blocked,        \* module accounts: the bank refuses to pay them
    Factor,         \* MillisteemToAsteemFactor (10^15 on the chain)
    UintMod,        \* 2^64: the modulus of the chain's unsigned arithmetic
    SweepLimit,     \* MaxExpirySweepPerBlock (1000 on the chain)
    MaxHeight       \* bound: the last block height explored

Assets == {"STEEM", "SBD"}

GatewayAccount == "svm.bank"

BlackHole == "steemblackhole"
BridgeReward == "bridge_reward"
Holders == Users \cup {BlackHole, BridgeReward}

(***************************************************************************)
(* Records are numbered by collections.Sequence from 0; NoId stands for a  *)
(* key with no entry in a by-txid index.                                   *)
(***************************************************************************)
NoId == -1
Ids(seq) == 0 .. (seq - 1)

ParamRecords ==
    [BridgeEnabled : BOOLEAN, BridgeOutEnabled : BOOLEAN,
     NameServiceEnabled : BOOLEAN, BridgeConfirmationThreshold : Int,
     MinimumBridgeAmount : Nat, MaximumBridgeAmount : Nat,
     DepositTimeoutBlocks : Nat, WithdrawalTimeoutBlocks : Nat,
     NamePendingTimeoutBlocks : Nat, NameRegistrationMinMillisteem : Nat,
     BridgeFeeBps : Nat, RelayerStartBlock : Nat]

ASSUME BaseAssumption ==
    /\ Factor \in Nat /\ Factor > 0
    /\ UintMod \in Nat /\ UintMod > 0
    /\ SweepLimit \in Nat /\ SweepLimit > 0
    /\ TokenChoices \subseteq [Val -> Nat]
    /\ BondedChoices \subseteq SUBSET Val
    /\ ParamChoices \subseteq ParamRecords
    /\ IsFiniteSet(Val) /\ IsFiniteSet(Users)
    /\ BlackHole \notin Users /\ BridgeReward \notin Users

VARIABLES
    height,      \* height of the block being executed
    params,      \* Keeper.Params
    bonded,      \* validators whose status is Bonded
    tokens,      \* each validator's tokens
    bank,        \* base-unit balances of the accounts the bridge moves coins between
    totals,      \* Keeper.Totals: amounts minted and burned, per asset
    dutyQueue,   \* Keeper.BridgeDutyQueue: <<kind, id>> finalized in this block
    tally        \* x/oracle: bridge opportunities and hits of the slash window

stakeVars == <<bonded, tokens>>
coinVars  == <<bank, totals>>
dutyVars  == <<dutyQueue, tally>>
baseVars  == <<height, params, bonded, tokens, bank, totals, dutyQueue, tally>>

BaseTypeOK ==
    /\ height \in Nat
    /\ params \in ParamChoices
    /\ bonded \in BondedChoices
    /\ tokens \in TokenChoices
    /\ bank \in [Holders -> [Assets -> Nat]]
    /\ totals \in [minted : [Assets -> Nat], burned : [Assets -> Nat]]
    /\ tally \in [Val -> [opportunities : Nat, hits : Nat]]

-----------------------------------------------------------------------------
(* Parameters. *)

(***************************************************************************)
(* Params.Validate, on the fields the models keep.                         *)
(***************************************************************************)
Validate(p) ==
    /\ p.BridgeConfirmationThreshold > 0
    /\ p.BridgeConfirmationThreshold <= Precision
    /\ p.NameRegistrationMinMillisteem > 0
    /\ p.MaximumBridgeAmount # 0 =>
           p.MaximumBridgeAmount >= p.MinimumBridgeAmount
    /\ p.NameServiceEnabled => p.NamePendingTimeoutBlocks # 0
    /\ p.BridgeFeeBps <= 10000
    /\ p.BridgeOutEnabled => p.WithdrawalTimeoutBlocks # 0

CheckSteemBlock(steemBlock) ==
    params.RelayerStartBlock > 0 => steemBlock >= params.RelayerStartBlock

(***************************************************************************)
(* MsgUpdateParams: governance replaces the whole record, in any block and *)
(* with records still open.                                                *)
(***************************************************************************)
UpdateParams(p) ==
    /\ p # params
    /\ Validate(p)
    /\ params' = p

-----------------------------------------------------------------------------
(* Voting power.  Delegations and slashes change tokens inside a block; the *)
(* bonded set changes when the staking EndBlocker runs.                     *)

ChangeTokens(t) ==
    /\ t # tokens
    /\ tokens' = t

Power(set, toks) == Sum(toks, set)

(***************************************************************************)
(* factsCandidateRatio and candidatePayoutRatio: the share of the stake    *)
(* bonded now that the voters hold; a voter that has left the bonded set   *)
(* counts for nothing.                                                     *)
(***************************************************************************)
CandidateRatio(voters, toks, bond) ==
    LET total == Power(bond, toks)
    IN  IF total > 0 THEN QuoInt(Power(voters \cap bond, toks), total) ELSE 0

ReachesThreshold(voters) ==
    CandidateRatio(voters, tokens, bonded) >= params.BridgeConfirmationThreshold

-----------------------------------------------------------------------------
(* Amounts and coins. *)

MillisteemToAsteem(milli) == milli * Factor

(***************************************************************************)
(* ApplyBridgeFee, in unsigned arithmetic modulo UintMod.                  *)
(***************************************************************************)
BridgeFee(gross, bps) ==
    IF bps = 0 THEN 0
    ELSE IF bps >= 10000 THEN gross
    ELSE ((gross * bps) % UintMod) \div 10000

ApplyBridgeFee(gross, bps) ==
    [net |-> gross - BridgeFee(gross, bps), fee |-> BridgeFee(gross, bps)]

\* Variant: only the net amount is minted before net and fee are sent on.
CreditedBankMintsNet(dest, asset, gross, bps) ==
    LET split == ApplyBridgeFee(gross, bps)
    IN  [h \in Holders |->
           [bank[h] EXCEPT ![asset] =
              @ + (IF h = dest THEN split.net * Factor ELSE 0)
                + (IF h = BridgeReward THEN split.fee * Factor ELSE 0)
                - (IF h = BlackHole THEN split.fee * Factor ELSE 0)]]

\* Variant: the fee is sent on top of the gross amount.
CreditedBankFeeOnTop(dest, asset, gross, bps) ==
    [h \in Holders |->
       [bank[h] EXCEPT ![asset] =
          @ + (IF h = dest THEN gross * Factor ELSE 0)
            + (IF h = BridgeReward THEN ApplyBridgeFee(gross, bps).fee * Factor ELSE 0)]]

(***************************************************************************)
(* creditBridged: mint the gross amount into the black hole, send the net  *)
(* to dest and the fee to bridge_reward, and add the gross to the total.   *)
(* The bank refuses a positive payment to a module account, and the error  *)
(* aborts the transaction that credits.                                    *)
(***************************************************************************)
CanCredit(dest, gross, bps) ==
    ApplyBridgeFee(gross, bps).net > 0 => dest \notin Blocked

CreditedBank(dest, asset, gross, bps) ==
    LET net == MillisteemToAsteem(ApplyBridgeFee(gross, bps).net)
        fee == MillisteemToAsteem(ApplyBridgeFee(gross, bps).fee)
    IN  [h \in Holders |->
           [a \in Assets |->
              IF a # asset THEN bank[h][a]
              ELSE bank[h][a]
                   + (IF h = BlackHole
                        THEN MillisteemToAsteem(gross) - net - fee ELSE 0)
                   + (IF h = dest THEN net ELSE 0)
                   + (IF h = BridgeReward THEN fee ELSE 0)]]

\* Variant: the total is kept for STEEM only.
AddMintedSteemOnly(asset, amount) ==
    [totals EXCEPT !.minted["STEEM"] = @ + amount]

AddMinted(asset, amount) ==
    [totals EXCEPT !.minted[asset] = @ + amount]

CreditBridged(dest, asset, gross, bps) ==
    /\ CanCredit(dest, gross, bps)
    /\ bank' = CreditedBank(dest, asset, gross, bps)
    /\ totals' = AddMinted(asset, MillisteemToAsteem(gross))

-----------------------------------------------------------------------------
(* Reporting to x/oracle, and the sweeps of the block's end. *)

(***************************************************************************)
(* FlushBridgeDuty with RecordBridgeEvent: for every queued event, each    *)
(* validator bonded now (the staking EndBlocker has already run) gains an  *)
(* opportunity, and a hit if it is among attesters[event].                 *)
(***************************************************************************)
FlushBridgeDuty(attesters) ==
    /\ tally' = [v \in Val |->
          IF v \in bonded'
            THEN [opportunities |-> tally[v].opportunities + Cardinality(dutyQueue),
                  hits |-> tally[v].hits
                           + Cardinality({e \in dutyQueue : v \in attesters[e]})]
            ELSE tally[v]]
    /\ dutyQueue' = {}

(***************************************************************************)
(* A record opened (or moved to its phase) at block "since" is overdue.    *)
(***************************************************************************)
Overdue(since, timeout) == (since + timeout) % UintMod < height

\* Variant: the sweep examines the newest ids.
Newest(ids, limit) ==
    {i \in ids : Cardinality({j \in ids : j > i}) < limit}

(***************************************************************************)
(* The ids a sweep examines: the oldest of an index bucket, up to a limit. *)
(***************************************************************************)
Oldest(ids, limit) ==
    {i \in ids : Cardinality({j \in ids : j < i}) < limit}

(***************************************************************************)
(* Block boundary: the staking EndBlocker elects the bonded set first.     *)
(***************************************************************************)
AdvanceBlock ==
    /\ height < MaxHeight
    /\ height' = height + 1
    /\ bonded' \in BondedChoices

BaseInit ==
    /\ height = 1
    /\ params \in {p \in ParamChoices : Validate(p)}
    /\ bonded \in BondedChoices
    /\ tokens \in TokenChoices
    /\ dutyQueue = {}
    /\ tally = [v \in Val |-> [opportunities |-> 0, hits |-> 0]]

=============================================================================
