------------------------------- MODULE PriceFeed -------------------------------
(***************************************************************************)
(* The price feed of x/oracle/data on top of the x/oracle engine: bonded   *)
(* validators commit to exchange rates (prevote) and reveal them (vote);   *)
(* at the end of every vote period the revealed votes are tallied into     *)
(* power-weighted medians, and who stayed within the reward band of all of *)
(* them scores the price duty.                                             *)
(*                                                                         *)
(* A commit's hash is taken to be injective and stands for what it hides:  *)
(* a function from some pairs to rates, scaled by Precision.               *)
(***************************************************************************)
EXTENDS OracleDuty

CONSTANTS
    FeedParams,     \* parameter records governance may set
    Ballots,        \* rate functions that validators may commit to
    Market,         \* the one among them that the validators outside Faulty see
    Faulty,         \* validators that may commit to anything
    BridgeReports,  \* attester sets of the bridge event a block may finalize
    MaxHeight       \* bound: the height at which exploration stops

FeedParamRecords ==
    [VotePeriod : Nat, VoteThreshold : Nat, RewardBand : Nat, Whitelist : SUBSET STRING]

(***************************************************************************)
(* Params.Validate of x/oracle/data, on the fields that the code reads.    *)
(***************************************************************************)
ValidateFeed(p) ==
    /\ p.VotePeriod # 0
    /\ p.VoteThreshold > 0 /\ p.VoteThreshold <= Precision
    /\ p.RewardBand <= Precision
    /\ p.Whitelist # {}

ASSUME FeedAssumption ==
    /\ \A p \in FeedParams : \A x \in {p.VotePeriod, p.VoteThreshold, p.RewardBand} :
           x \in Nat
    /\ \A f \in Ballots : \A pair \in DOMAIN f : f[pair] \in Nat
    /\ Market \in Ballots
    /\ BridgeReports \subseteq SUBSET Val

VARIABLES
    feed,      \* Keeper.Params of x/oracle/data
    prevote,   \* Keeper.Prevote: validator -> [ballot, block, peeked, kept]
    vote,      \* Keeper.Vote: validator -> [ballot], on some validators
    rate       \* Keeper.ExchangeRate: pair -> rate, on some pairs

\* "peeked" and "kept" are no fields of the code's records.  They tell whether
\* votes for the coming tally were already revealed when the commit was made,
\* and whether the vote period is still the one it was made in.

feedVars == <<feed, prevote, vote, rate>>
dutyVars == <<height, oracle, bonded, jailed, tokens, tally, judged>>
vars == <<dutyVars, feedVars>>

Without(f, set) == [v \in DOMAIN f \ set |-> f[v]]
With(f, v, x) == [u \in DOMAIN f \cup {v} |-> IF u = v THEN x ELSE f[u]]

-----------------------------------------------------------------------------
(* Messages. *)

(***************************************************************************)
(* AggregateExchangeRatePrevote: replaces an earlier commit.               *)
(***************************************************************************)
AggregateExchangeRatePrevote(v, ballot) ==
    /\ v \in bonded
    /\ prevote' = With(prevote, v,
                       [ballot |-> ballot, block |-> height,
                        peeked |-> DOMAIN vote # {}, kept |-> TRUE])
    /\ UNCHANGED <<dutyVars, feed, vote, rate>>

\* Variant: the commit may be of the same period.
PeriodStartNext(h) == h + 1

PeriodStart(h) == h - (h % feed.VotePeriod)

(***************************************************************************)
(* AggregateExchangeRateVote: reveals what was committed to in an earlier  *)
(* period, replacing an earlier vote.                                      *)
(***************************************************************************)
AggregateExchangeRateVote(v) ==
    /\ v \in bonded
    /\ v \in DOMAIN prevote
    /\ prevote[v].block < PeriodStart(height)
    /\ vote' = With(vote, v, [ballot |-> prevote[v].ballot])
    /\ prevote' = Without(prevote, {v})
    /\ UNCHANGED <<dutyVars, feed, rate>>

-----------------------------------------------------------------------------
(* The tally, with the bonded set bond. *)

Voters(bond, pair) ==
    {v \in DOMAIN vote \cap bond :
        pair \in DOMAIN vote[v].ballot /\ vote[v].ballot[pair] > 0}

RateOf(v, pair) == vote[v].ballot[pair]

RatesOf(set, pair) == {RateOf(v, pair) : v \in set}

\* Variant: every ballot weighs the same.
WeightedMedianCount(voters, pair) ==
    Min({r \in RatesOf(voters, pair) :
            2 * Cardinality({v \in voters : RateOf(v, pair) <= r})
                >= Cardinality(voters)})

(***************************************************************************)
(* weightedMedian: in ascending order, the first rate at which the ballots *)
(* so far hold half of the power that voted for the pair.                  *)
(***************************************************************************)
WeightedMedian(voters, pair) ==
    Min({r \in RatesOf(voters, pair) :
            2 * Power({v \in voters : RateOf(v, pair) <= r}, tokens)
                >= Power(voters, tokens)})

Finalizes(bond, pair) ==
    LET voters == Voters(bond, pair)
    IN  /\ voters # {}
        /\ ~(Power(voters, tokens) * Precision
               < feed.VoteThreshold * Power(bond, tokens))

Finalized(bond) == {pair \in feed.Whitelist : Finalizes(bond, pair)}

\* Variant: the edges of the band are outside it.
WithinBandStrict(v, pair, median) ==
    LET spread == MulDec(median, feed.RewardBand)
    IN  /\ pair \in DOMAIN vote[v].ballot
        /\ RateOf(v, pair) > median - spread
        /\ RateOf(v, pair) < median + spread

WithinBand(v, pair, median) ==
    LET spread == MulDec(median, feed.RewardBand)
    IN  /\ pair \in DOMAIN vote[v].ballot
        /\ RateOf(v, pair) >= median - spread
        /\ RateOf(v, pair) <= median + spread

InBand(bond) ==
    {v \in DOMAIN vote \cap bond :
        \A pair \in Finalized(bond) :
            WithinBand(v, pair, WeightedMedian(Voters(bond, pair), pair))}

(***************************************************************************)
(* expireStalePrevotes: older than one full period.                        *)
(***************************************************************************)
StalePrevotes ==
    {v \in DOMAIN prevote :
        height >= feed.VotePeriod /\ prevote[v].block < height - feed.VotePeriod}

Unpeeked(set) == [v \in set |-> [prevote[v] EXCEPT !.peeked = FALSE]]

AtPeriod == height % feed.VotePeriod = 0

(***************************************************************************)
(* EndBlocker with TallyExchangeRates; t is the counter after the report   *)
(* to the engine.                                                          *)
(***************************************************************************)
TallyExchangeRates(bond) ==
    /\ rate' = [pair \in DOMAIN rate \cup Finalized(bond) |->
                  IF pair \in Finalized(bond)
                    THEN WeightedMedian(Voters(bond, pair), pair)
                    ELSE rate[pair]]
    /\ vote' = Without(vote, DOMAIN vote)
    /\ prevote' = Unpeeked(DOMAIN prevote \ StalePrevotes)

PriceTally(t, bond) ==
    IF AtPeriod THEN RecordDuty(t, bond, "price", InBand(bond)) ELSE t

(***************************************************************************)
(* The end of a block: the staking election, the bridge's report of the    *)
(* events finalized in the block, the price tally, the engine's judgement. *)
(***************************************************************************)
NextBlock ==
    /\ height < MaxHeight
    /\ bonded' \in Elect(jailed)
    /\ \E events \in SUBSET BridgeReports :
          /\ Cardinality(events) <= 1
          /\ EvaluateWindow(PriceTally(
                IF events = {} THEN tally
                ELSE RecordDuty(tally, bonded', "bridge", UNION events), bonded'))
    /\ \/ AtPeriod /\ TallyExchangeRates(bonded')
       \/ ~AtPeriod /\ UNCHANGED <<rate, vote, prevote>>
    /\ height' = height + 1
    /\ UNCHANGED <<oracle, feed>>

Commit ==
    /\ height < MaxHeight
    /\ \E v \in Val : \E ballot \in IF v \in Faulty THEN Ballots ELSE {Market} :
          AggregateExchangeRatePrevote(v, ballot)

Reveal == height < MaxHeight /\ \E v \in Val : AggregateExchangeRateVote(v)

Return ==
    /\ height < MaxHeight
    /\ \E v \in Val : Unjail(v)
    /\ UNCHANGED <<feedVars, height, oracle, bonded, tokens, tally, judged>>

Govern ==
    \/ /\ \E p \in FeedParams : p # feed /\ ValidateFeed(p) /\ feed' = p
       /\ prevote' = [v \in DOMAIN prevote |->
                         [prevote[v] EXCEPT !.kept = @ /\ feed'.VotePeriod = feed.VotePeriod]]
       /\ UNCHANGED <<dutyVars, vote, rate>>
    \/ /\ \E p \in OracleParams : UpdateOracleParams(p)
       /\ UNCHANGED <<feedVars, height, bonded, jailed, tokens, tally, judged>>

Init ==
    /\ DutyInit
    /\ feed \in {p \in FeedParams : ValidateFeed(p)}
    /\ prevote = [v \in {} |-> {}]
    /\ vote = [v \in {} |-> {}]
    /\ rate = [p \in {} |-> {}]

Next == Commit \/ Reveal \/ NextBlock \/ Return \/ Govern

Spec == Init /\ [][Next]_vars

-----------------------------------------------------------------------------
(* Properties. *)

(***************************************************************************)
(* A finalized rate is one that a majority can vouch for: whenever a set   *)
(* of voters holds more than half of the power that voted on the pair, the *)
(* rate lies between the lowest and the highest they reported, so the rest *)
(* cannot move it beyond them (weightedMedian, TallyExchangeRates).        *)
(***************************************************************************)
VouchedFor ==
    height' # height /\ AtPeriod =>
        \A pair \in Finalized(bonded') :
           \A set \in SUBSET Voters(bonded', pair) :
              2 * Power(set, tokens) > Power(Voters(bonded', pair), tokens) =>
                 \E u, v \in set : /\ RateOf(u, pair) <= rate'[pair]
                                   /\ rate'[pair] <= RateOf(v, pair)

\* In every step, what is finalized is vouched for by every majority.
MedianOfMajority == [][VouchedFor]_vars

(***************************************************************************)
(* A validator the engine has jailed is not slashed again before it has    *)
(* returned: it loses its status before the next report, and the window's  *)
(* counters are gone (evaluateWindow, with the order of the EndBlockers).  *)
(***************************************************************************)
SlashedOnce == \A v \in jailed : tokens'[v] = tokens[v]

(***************************************************************************)
(* Perfect duty in one field does not mask none in another: whoever had    *)
(* opportunities in a duty and took none of them is jailed at the end of   *)
(* the window, whatever the weights (the DutyFloor of                      *)
(* EvaluateValidatorWindow).                                               *)
(***************************************************************************)
NoMasking ==
    height' # height =>
        \A v \in Val, d \in Duties :
            judged'[v][d].opportunities > 0 /\ judged'[v][d].hits = 0 => v \in jailed'

(***************************************************************************)
(* Whoever is jailed has missed something: no one with a hit for every     *)
(* opportunity of the window is, though a duty had none, and whatever the  *)
(* weights, as long as the floor is below one (EvaluateValidatorWindow).   *)
(***************************************************************************)
DiligentSpared ==
    \A v \in jailed' \ jailed :
        oracle.DutyFloor < Precision =>
            \E d \in Duties : judged'[v][d].hits < judged'[v][d].opportunities

(***************************************************************************)
(* The engine judges each window on its own and each duty on its own:      *)
(* nobody is slashed twice for one jailing, none is spared who took no     *)
(* opportunity of a duty, and nobody is jailed who took them all.          *)
(***************************************************************************)
JudgedFairly == [][SlashedOnce /\ NoMasking /\ DiligentSpared]_vars

\* The counter as the step has left it, before a window's reset.
Counted(v) == IF AtWindow THEN judged'[v] ELSE tally'[v]

(***************************************************************************)
(* Validators with more than half of the bonded power that reveal the same *)
(* positive rates for every pair all score the price duty, whatever the    *)
(* others reveal, even with a band of zero (TallyExchangeRates).           *)
(***************************************************************************)
AgreeingScore ==
    height' # height /\ AtPeriod =>
        \A b \in Ballots :
           LET set == {v \in DOMAIN vote \cap bonded' : vote[v].ballot = b}
           IN  /\ 2 * Power(set, tokens) > Power(bonded', tokens)
               /\ \A pair \in feed.Whitelist : pair \in DOMAIN b /\ b[pair] > 0
               => \A v \in set :
                     Counted(v)["price"].hits = tally[v]["price"].hits + 1

\* In every step, an agreeing majority scores.
AgreeingMajorityScores == [][AgreeingScore]_vars

(***************************************************************************)
(* A commit made in the vote period still in force is not dropped before   *)
(* it could have been revealed in every block of a whole period            *)
(* (expireStalePrevotes against the check of AggregateExchangeRateVote).   *)
(* When governance shortens the period there is no such promise: a commit  *)
(* that could not be revealed yet may be dropped in the very block of the  *)
(* change.                                                                 *)
(***************************************************************************)
RevealWindow ==
    \A v \in DOMAIN prevote :
        height' # height /\ v \notin DOMAIN prevote' /\ prevote[v].kept =>
            Cardinality({h \in prevote[v].block .. height :
                            prevote[v].block < PeriodStart(h)}) >= feed.VotePeriod

(***************************************************************************)
(* A commit made with knowledge of votes revealed for the coming tally is  *)
(* revealed for that tally in one block only, the one that tallies: the    *)
(* tally is made at the end of a period's first block, in which a commit   *)
(* of the last block before it may be revealed, though votes for the same  *)
(* tally were public when it was made (the check of                        *)
(* AggregateExchangeRateVote against the block of the tally).              *)
(***************************************************************************)
BlindBeforeTally ==
    \A v \in DOMAIN prevote :
        height' = height /\ v \notin DOMAIN prevote' =>
            (prevote[v].peeked /\ prevote[v].kept => AtPeriod)

(***************************************************************************)
(* As long as the vote period stays the same, a commit can be revealed     *)
(* throughout a whole period, and one whose owner had seen votes for a     *)
(* tally counts in that tally only if it is revealed in the tallying block *)
(* itself (expireStalePrevotes and AggregateExchangeRateVote).             *)
(***************************************************************************)
CommitWindow == [][RevealWindow /\ BlindBeforeTally]_vars

=============================================================================
