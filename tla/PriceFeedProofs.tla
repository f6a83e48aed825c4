---------------------------- MODULE PriceFeedProofs ----------------------------
(***************************************************************************)
(* Theorems about PriceFeed, for every number of validators, pairs and     *)
(* blocks, every distribution of stake, and all parameters that the        *)
(* modules' validation lets through.                                       *)
(***************************************************************************)
EXTENDS PriceFeed, SumsProofs

-----------------------------------------------------------------------------
(* Decimals. *)

(***************************************************************************)
(* Rounding keeps a multiple of the precision, and never goes below zero.  *)
(***************************************************************************)
LEMMA ChopExact ==
    ASSUME NEW k \in Nat
    PROVE  ChopPrecisionAndRound(k * Precision) = k
  <1>1. Precision \in Nat /\ Precision > 0
    BY PrecisionAssumption
  <1>2. (k * Precision) \div Precision = k /\ (k * Precision) % Precision = 0
    BY <1>1
  <1>. QED BY <1>1, <1>2 DEF ChopPrecisionAndRound

LEMMA ChopNat ==
    ASSUME NEW x \in Nat
    PROVE  ChopPrecisionAndRound(x) \in Nat
  <1>1. Precision \in Nat /\ Precision > 0
    BY PrecisionAssumption
  <1>2. x \div Precision \in Nat
    BY <1>1
  <1>. QED BY <1>2 DEF ChopPrecisionAndRound

(***************************************************************************)
(* A number over itself is one, nothing over a number is nothing.          *)
(***************************************************************************)
LEMMA QuoSelf ==
    ASSUME NEW n \in Nat, n > 0
    PROVE  QuoInt(n, n) = Precision /\ QuoInt(0, n) = 0
  <1>1. Precision \in Nat /\ Precision > 0
    BY PrecisionAssumption
  <1>. DEFINE pp == Precision * Precision
  <1>2. pp \in Nat
    BY <1>1
  <1>3. n * Precision * Precision = pp * n /\ 0 * Precision * Precision = 0
    BY <1>1
  <1>4. (n * Precision * Precision) \div n = pp
    <2>. HIDE DEF pp
    <2>1. (pp * n) \div n = pp
      BY <1>2
    <2>. QED BY <1>3, <2>1
  <1>5. (0 * Precision * Precision) \div n = 0
    BY <1>3
  <1>6. ChopPrecisionAndRound(pp) = Precision /\ ChopPrecisionAndRound(0) = 0
    <2>1. ChopPrecisionAndRound(0 * Precision) = 0 /\ 0 * Precision = 0
      BY <1>1, ChopExact
    <2>. QED BY <1>1, <2>1, ChopExact
  <1>. QED BY <1>4, <1>5, <1>6 DEF QuoInt

(***************************************************************************)
(* What is left of an amount after a fraction of it is taken.              *)
(***************************************************************************)
LEMMA FractionLeft ==
    ASSUME NEW t \in Nat, NEW f \in Nat, f <= Precision
    PROVE  t - (t * f) \div Precision \in Nat
  <1>1. Precision \in Nat /\ Precision > 0
    BY PrecisionAssumption
  <1>2. t * f <= t * Precision
    BY <1>1
  <1>3. (t * f) \div Precision \in 0 .. t
    BY <1>1, <1>2
  <1>. QED BY <1>3

-----------------------------------------------------------------------------
(* Power. *)

LEMMA MinOf ==
    ASSUME NEW S \in SUBSET Nat, S # {}
    PROVE  Min(S) \in S /\ \A x \in S : Min(S) <= x
  <1>1. PICK m \in S : \A t \in S : ~(<<t, m>> \in OpToRel(<, Nat))
    BY Zenon, NatLessThanWellFounded, WFMin
  <1>2. \A t \in S : t < m => <<t, m>> \in OpToRel(<, Nat)
    BY DEF OpToRel
  <1>3. \A t \in S : ~(t < m)
    BY Zenon, <1>1, <1>2
  <1>4. \A t \in S : m <= t
    BY <1>3
  <1>. QED BY Zenon, <1>4 DEF Min

LEMMA PowerMonotone ==
    ASSUME NEW R, IsFiniteSet(R), NEW S \in SUBSET R, NEW toks, \A x \in R : toks[x] \in Nat
    PROVE  /\ Power(S, toks) \in Nat /\ Power(R, toks) \in Nat
           /\ Power(S, toks) <= Power(R, toks)
           /\ Power(R, toks) = Power(S, toks) + Power(R \ S, toks)
           /\ Power(R \ S, toks) \in Nat
  <1>1. IsFiniteSet(S) /\ IsFiniteSet(R \ S)
    BY FS_Subset
  <1>2. S \cup (R \ S) = R /\ S \cap (R \ S) = {}
    OBVIOUS
  <1>3. Sum(toks, S \cup (R \ S)) = Sum(toks, S) + Sum(toks, R \ S)
    BY ONLY <1>1, <1>2, SumUnion, \A x \in R : toks[x] \in Nat, S \subseteq R
  <1>4. Sum(toks, S) \in Nat /\ Sum(toks, R \ S) \in Nat /\ Sum(toks, R) \in Nat
    BY <1>1, SumNat
  <1>. QED BY <1>2, <1>3, <1>4 DEF Power

(***************************************************************************)
(* Two sets of which one has more than half of the power, the other half   *)
(* or more, meet.                                                          *)
(***************************************************************************)
LEMMA HalvesMeet ==
    ASSUME NEW R, IsFiniteSet(R), NEW S \in SUBSET R, NEW T \in SUBSET R,
           NEW toks, \A x \in R : toks[x] \in Nat,
           2 * Power(S, toks) > Power(R, toks), 2 * Power(T, toks) >= Power(R, toks)
    PROVE  S \cap T # {}
  <1>. SUFFICES ASSUME S \cap T = {} PROVE FALSE
    OBVIOUS
  <1>1. T \subseteq R \ S /\ IsFiniteSet(R \ S)
    BY FS_Subset
  <1>2. /\ Power(R, toks) = Power(S, toks) + Power(R \ S, toks)
        /\ Power(S, toks) \in Nat /\ Power(R \ S, toks) \in Nat
    BY ONLY IsFiniteSet(R), S \in SUBSET R, \A x \in R : toks[x] \in Nat, PowerMonotone
  <1>3. Power(T, toks) <= Power(R \ S, toks) /\ Power(T, toks) \in Nat
    BY Zenon, <1>1, PowerMonotone
  <1>. QED BY <1>2, <1>3

-----------------------------------------------------------------------------
(* Medians. *)

(***************************************************************************)
(* The median of voters is a rate of one of them, and lies between two     *)
(* rates of every set that has more than half of their power.              *)
(***************************************************************************)
LEMMA MedianBetween ==
    ASSUME tokens \in [Val -> Nat], NEW voters \in SUBSET Val, voters # {}, NEW pair,
           \A v \in voters : RateOf(v, pair) \in Nat
    PROVE  LET m == WeightedMedian(voters, pair)
           IN  /\ m \in Nat
               /\ \A set \in SUBSET voters :
                     2 * Power(set, tokens) > Power(voters, tokens) =>
                        \E u, v \in set : RateOf(u, pair) <= m /\ m <= RateOf(v, pair)
  <1>. DEFINE R(v) == RateOf(v, pair)
              Upto(r) == {v \in voters : R(v) <= r}
              C == {r \in RatesOf(voters, pair) :
                       2 * Power(Upto(r), tokens) >= Power(voters, tokens)}
              m == WeightedMedian(voters, pair)
  <1>1. m = Min(C)
    BY DEF WeightedMedian
  <1>2. IsFiniteSet(voters) /\ \A v \in voters : tokens[v] \in Nat
    BY FS_Subset, DutyAssumption
  <1>3. \A v \in voters : R(v) \in Nat
    OBVIOUS
  <1>. HIDE DEF R
  <1>4. RatesOf(voters, pair) = {R(v) : v \in voters}
    BY DEF RatesOf, R
  <1>5. C \subseteq Nat
    BY <1>3, <1>4
  \* The highest rate of a set with half of the power is among the candidates.
  <1>6. ASSUME NEW set \in SUBSET voters, set # {},
               2 * Power(set, tokens) >= Power(voters, tokens)
        PROVE  \E v \in set : R(v) \in C
    <2>. DEFINE RS == {R(v) : v \in set}
    <2>1. IsFiniteSet(set)
      BY <1>2, FS_Subset
    <2>2. PICK v \in set : \A u \in set : R(u) <= R(v)
      <3>. DEFINE f == [u \in set |-> R(u)]
      <3>1. \A u \in set : f[u] \in Int /\ f[u] = R(u)
        BY <1>3
      <3>. HIDE DEF f
      <3>2. \E v \in set : \A u \in set : f[u] <= f[v]
        BY <3>1, <2>1, <1>6, HighestOf
      <3>. QED BY <3>1, <3>2
    <2>3. set \subseteq Upto(R(v)) /\ Upto(R(v)) \subseteq voters
      BY <2>2
    <2>4. IsFiniteSet(Upto(R(v)))
      BY <2>3, <1>2, FS_Subset
    <2>5. /\ Power(set, tokens) <= Power(Upto(R(v)), tokens)
          /\ Power(set, tokens) \in Nat /\ Power(Upto(R(v)), tokens) \in Nat
          /\ Power(voters, tokens) \in Nat
      <3>. HIDE DEF Upto
      <3>. QED BY Zenon, <2>3, <2>4, <1>2, PowerMonotone
    <2>6. R(v) \in RatesOf(voters, pair)
      BY <1>4
    <2>7. 2 * Power(Upto(R(v)), tokens) >= Power(voters, tokens)
      <3>. HIDE DEF Upto
      <3>. QED BY <1>6, <2>5
    <2>8. R(v) \in C
      BY Zenon, <2>6, <2>7
    <2>. QED BY Zenon, <2>8
  <1>7. C # {}
    <2>1. voters \in SUBSET voters
      OBVIOUS
    <2>2. Power(voters, tokens) \in Nat
      BY Zenon, <1>2, <2>1, PowerMonotone
    <2>3. 2 * Power(voters, tokens) >= Power(voters, tokens)
      BY <2>2
    <2>. QED BY Zenon, <1>6, <2>1, <2>3
  <1>8. m \in C /\ \A r \in C : m <= r
    <2>. HIDE DEF C, m
    <2>. QED BY <1>1, <1>5, <1>7, MinOf
  <1>9. ASSUME NEW set \in SUBSET voters, 2 * Power(set, tokens) > Power(voters, tokens)
        PROVE  \E u, v \in set : R(u) <= m /\ m <= R(v)
    <2>1. Upto(m) \subseteq voters /\ 2 * Power(Upto(m), tokens) >= Power(voters, tokens)
      BY <1>8
    <2>2. set \cap Upto(m) # {}
      <3>. HIDE DEF Upto, m
      <3>. QED BY <2>1, <1>9, <1>2, HalvesMeet
    <2>3. PICK u \in set : R(u) <= m
      BY <2>2
    <2>4. Power(set, tokens) \in Nat /\ Power(voters, tokens) \in Nat
      BY Zenon, <1>2, PowerMonotone
    <2>5. PICK v \in set : R(v) \in C
      BY <2>3, <2>4, <1>6, <1>9
    <2>. QED BY <2>3, <2>5, <1>8
  <1>. QED BY <1>5, <1>8, <1>9 DEF R

-----------------------------------------------------------------------------
(* The inductive invariant. *)

Tallies == [Val -> [Duties -> [opportunities : Nat, hits : Nat]]]

\* Nobody has more hits than opportunities.
TallyOK(t) ==
    /\ t \in Tallies
    /\ \A v \in Val, d \in Duties : t[v][d].hits <= t[v][d].opportunities

Commits == [ballot : Ballots, block : Nat, peeked : BOOLEAN, kept : BOOLEAN]

Typed ==
    /\ DutyTypeOK
    /\ ValidateOracle(oracle)
    /\ feed \in FeedParams /\ ValidateFeed(feed)
    /\ DOMAIN prevote \subseteq Val
    /\ \A v \in DOMAIN prevote :
          prevote[v] \in Commits /\ prevote[v].block <= height
    /\ DOMAIN vote \subseteq Val
    /\ \A v \in DOMAIN vote : vote[v].ballot \in Ballots

(***************************************************************************)
(* The counters make sense, and a jailed validator has none.               *)
(***************************************************************************)
CountersSound ==
    /\ \A v \in Val, d \in Duties : tally[v][d].hits <= tally[v][d].opportunities
    /\ \A v \in jailed : tally[v] = NoTally

(***************************************************************************)
(* Since a commit that knew of votes, no block has tallied, if the vote    *)
(* period is still the same.                                               *)
(***************************************************************************)
NoTallySince(block) == \A h \in block .. height - 1 : h % feed.VotePeriod # 0

Peeks ==
    \A v \in DOMAIN prevote :
        prevote[v].peeked /\ prevote[v].kept => NoTallySince(prevote[v].block)

IInv == Typed /\ CountersSound /\ Peeks

LEMMA ParamsAre ==
    ASSUME Typed
    PROVE  /\ feed.VotePeriod \in Nat /\ feed.VotePeriod > 0
           /\ feed.RewardBand \in Nat
           /\ oracle.SlashWindow \in Nat /\ oracle.SlashWindow > 0
           /\ oracle.SlashFraction \in Nat /\ oracle.SlashFraction <= Precision
           /\ oracle.MinValidPerWindow \in Nat /\ oracle.MinValidPerWindow <= Precision
           /\ oracle.DutyFloor \in Nat
           /\ oracle.WPrice \in Nat /\ oracle.WBridge \in Nat
  <1>1. oracle \in OracleParamRecords
    BY DutyAssumption DEF Typed, DutyTypeOK
  <1>2. /\ oracle.SlashWindow # 0
        /\ oracle.SlashFraction <= Precision
        /\ oracle.MinValidPerWindow <= Precision
    BY Zenon DEF Typed, ValidateOracle
  <1>3. feed.VotePeriod \in Nat /\ feed.RewardBand \in Nat
    BY Zenon, FeedAssumption DEF Typed
  <1>4. feed.VotePeriod # 0
    BY Zenon DEF Typed, ValidateFeed
  <1>. QED BY <1>1, <1>2, <1>3, <1>4 DEF OracleParamRecords

LEMMA NoTallyIs ==
    /\ NoTally \in [Duties -> [opportunities : Nat, hits : Nat]]
    /\ \A d \in Duties : NoTally[d].opportunities = 0 /\ NoTally[d].hits = 0
    /\ Cleared \in Tallies
    /\ \A v \in Val : Cleared[v] = NoTally
  BY DEF NoTally, Cleared, Tallies

(***************************************************************************)
(* u is t after a report: nobody outside bond and no other duty is         *)
(* touched, and everyone of set in bond has a hit.                         *)
(***************************************************************************)
Recorded(t, u, bond, duty, set) ==
    /\ TallyOK(u)
    /\ \A v \in Val : v \notin bond => u[v] = t[v]
    /\ \A v \in Val, d \in Duties : d # duty => u[v][d] = t[v][d]
    /\ \A v \in Val : v \in bond /\ v \in set => u[v][duty].hits = t[v][duty].hits + 1

LEMMA RecordEffect ==
    ASSUME NEW t, TallyOK(t), NEW bond, NEW duty \in Duties, NEW set
    PROVE  Recorded(t, RecordDuty(t, bond, duty, set), bond, duty, set)
  <1>. DEFINE u == RecordDuty(t, bond, duty, set)
  <1>. DEFINE one(v) == IF v \in set THEN 1 ELSE 0
              new(v) == [opportunities |-> t[v][duty].opportunities + 1,
                         hits |-> t[v][duty].hits + one(v)]
  <1>1. \A v \in Val : t[v] \in [Duties -> [opportunities : Nat, hits : Nat]]
    BY DEF TallyOK, Tallies
  <1>2. u = [v \in Val |-> IF v \notin bond THEN t[v] ELSE [t[v] EXCEPT ![duty] = new(v)]]
    BY Zenon DEF RecordDuty
  <1>. HIDE DEF u
  <1>3. ASSUME NEW v \in Val
        PROVE  /\ new(v) \in [opportunities : Nat, hits : Nat]
               /\ new(v).hits <= new(v).opportunities
               /\ v \in set => new(v).hits = t[v][duty].hits + 1
    <2>1. t[v][duty].hits \in Nat /\ t[v][duty].opportunities \in Nat
      BY <1>1
    <2>2. t[v][duty].hits <= t[v][duty].opportunities
      BY DEF TallyOK
    <2>. QED BY <2>1, <2>2
  <1>. HIDE DEF new
  <1>4. ASSUME NEW v \in Val
        PROVE  /\ v \notin bond => u[v] = t[v]
               /\ v \in bond => u[v] = [t[v] EXCEPT ![duty] = new(v)]
    BY Zenon, <1>2
  <1>5. ASSUME NEW v \in Val
        PROVE  u[v] \in [Duties -> [opportunities : Nat, hits : Nat]]
    <2>1. CASE v \notin bond
      BY Zenon, <1>1, <1>4, <2>1
    <2>2. CASE v \in bond
      <3>1. u[v] = [t[v] EXCEPT ![duty] = new(v)]
        BY Zenon, <1>4, <2>2
      <3>2. /\ t[v] \in [Duties -> [opportunities : Nat, hits : Nat]]
            /\ new(v) \in [opportunities : Nat, hits : Nat]
        BY Zenon, <1>1, <1>3
      <3>. QED BY ONLY <3>1, <3>2, duty \in Duties
    <2>. QED BY <2>1, <2>2
  <1>6. ASSUME NEW v \in Val, NEW d \in Duties
        PROVE  u[v][d] = IF v \in bond /\ d = duty THEN new(v) ELSE t[v][d]
    BY Zenon, <1>1, <1>4
  <1>7. u \in Tallies
    BY <1>2, <1>5 DEF Tallies
  <1>8. \A v \in Val, d \in Duties : u[v][d].hits <= u[v][d].opportunities
    BY Zenon, <1>3, <1>6 DEF TallyOK
  <1>9. \A v \in Val : v \in bond /\ v \in set => u[v][duty].hits = t[v][duty].hits + 1
    BY Zenon, <1>3, <1>6
  <1>10. \A v \in Val, d \in Duties : d # duty => u[v][d] = t[v][d]
    BY Zenon, <1>6
  <1>11. Recorded(t, u, bond, duty, set)
    BY Zenon, <1>4, <1>7, <1>8, <1>9, <1>10 DEF TallyOK, Recorded
  <1>. QED BY <1>11 DEF u

(***************************************************************************)
(* The counters that the engine is given at the end of a block.            *)
(***************************************************************************)
LEMMA BlockTally ==
    ASSUME IInv, NextBlock
    PROVE  \E t : /\ EvaluateWindow(t)
                  /\ TallyOK(t)
                  /\ \A v \in jailed : t[v] = NoTally
                  /\ AtPeriod => \A v \in (Val \cap bonded') \cap InBand(bonded') :
                                    t[v]["price"].hits = tally[v]["price"].hits + 1
  <1>1. PICK events : EvaluateWindow(PriceTally(
                IF events = {} THEN tally
                ELSE RecordDuty(tally, bonded', "bridge", UNION events), bonded'))
    BY Zenon DEF NextBlock
  <1>. DEFINE s == IF events = {} THEN tally
                   ELSE RecordDuty(tally, bonded', "bridge", UNION events)
              t == PriceTally(s, bonded')
  <1>2. TallyOK(tally)
    BY Zenon DEF IInv, Typed, CountersSound, TallyOK, Tallies, DutyTypeOK
  <1>3. bonded' \cap jailed = {} /\ jailed \subseteq Val
    <2>1. bonded' \in Elect(jailed) /\ jailed \subseteq Val
      BY Zenon DEF NextBlock, IInv, Typed, DutyTypeOK
    <2>. QED BY <2>1 DEF Elect
  <1>4. "price" \in Duties /\ "bridge" \in Duties \ {"price"} /\ "price" \in Duties \ {"bridge"}
    BY DEF Duties
  <1>5. /\ TallyOK(s)
        /\ \A v \in jailed : s[v] = NoTally
        /\ \A v \in Val : s[v]["price"] = tally[v]["price"]
    <2>0. \A v \in jailed : tally[v] = NoTally
      BY Zenon DEF IInv, CountersSound
    <2>1. CASE events = {}
      BY Zenon, <1>2, <2>0, <2>1
    <2>2. CASE events # {}
      <3>1. s = RecordDuty(tally, bonded', "bridge", UNION events)
        BY Zenon, <2>2
      <3>. HIDE DEF s
      <3>2. Recorded(tally, s, bonded', "bridge", UNION events)
        BY <1>2, <1>4, <3>1, RecordEffect
      <3>. QED BY Zenon, <1>3, <1>4, <2>0, <3>2 DEF Recorded
    <2>. QED BY Zenon, <2>1, <2>2
  <1>. HIDE DEF s
  <1>6. /\ TallyOK(t)
        /\ \A v \in jailed : t[v] = NoTally
        /\ AtPeriod => \A v \in (Val \cap bonded') \cap InBand(bonded') :
                          t[v]["price"].hits = tally[v]["price"].hits + 1
    <2>1. CASE ~AtPeriod
      BY Zenon, <1>5, <2>1 DEF PriceTally
    <2>2. CASE AtPeriod
      <3>1. t = RecordDuty(s, bonded', "price", InBand(bonded'))
        BY Zenon, <2>2 DEF PriceTally
      <3>. HIDE DEF t
      <3>2. Recorded(s, t, bonded', "price", InBand(bonded'))
        BY <1>5, <1>4, <3>1, RecordEffect
      <3>. QED BY Zenon, <1>3, <1>5, <3>2 DEF Recorded
    <2>. QED BY <2>1, <2>2
  <1>7. EvaluateWindow(t)
    BY Zenon, <1>1 DEF s
  <1>. QED BY Zenon, <1>6, <1>7

-----------------------------------------------------------------------------
(* The invariant holds. *)

LEMMA InitIInv == Init => IInv
  <1>. SUFFICES ASSUME Init PROVE IInv
    OBVIOUS
  <1>1. DutyTypeOK
    <2>1. tokens \in [Val -> Nat] /\ bonded \subseteq Val
      BY Zenon, DutyAssumption DEF Init, DutyInit
    <2>2. tally \in [Val -> [Duties -> [opportunities : Nat, hits : Nat]]]
      BY Zenon, NoTallyIs DEF Init, DutyInit, Tallies
    <2>. QED BY <2>1, <2>2 DEF Init, DutyInit, DutyTypeOK
  <1>2. DOMAIN prevote = {} /\ DOMAIN vote = {}
    BY DEF Init
  <1>3. Typed
    BY Zenon, <1>1, <1>2 DEF Typed, Init, DutyInit
  <1>4. CountersSound
    <2>1. \A v \in Val : tally[v] = NoTally
      BY Zenon, NoTallyIs DEF Init, DutyInit
    <2>2. \A v \in Val, d \in Duties : tally[v][d].hits <= tally[v][d].opportunities
      BY <2>1, NoTallyIs
    <2>. QED BY Zenon, <2>2 DEF CountersSound, Init, DutyInit
  <1>. QED BY Zenon, <1>2, <1>3, <1>4 DEF IInv, Peeks

(***************************************************************************)
(* Steps that leave the height and the counters alone: what is left to see *)
(* is the commits and the votes.                                           *)
(***************************************************************************)
LEMMA CommitKeeps == IInv /\ Commit => IInv'
  <1>. SUFFICES ASSUME IInv, Commit PROVE IInv'
    OBVIOUS
  <1>1. PICK v \in Val, ballot \in Ballots : AggregateExchangeRatePrevote(v, ballot)
    <2>1. PICK v \in Val : \E ballot \in IF v \in Faulty THEN Ballots ELSE {Market} :
                              AggregateExchangeRatePrevote(v, ballot)
      BY Zenon DEF Commit
    <2>2. Market \in Ballots
      BY Zenon, FeedAssumption
    <2>. QED BY Zenon, <2>1, <2>2
  <1>2. UNCHANGED <<dutyVars, feed, vote, rate>>
    BY Zenon, <1>1 DEF AggregateExchangeRatePrevote
  <1>3. UNCHANGED <<height, oracle, bonded, jailed, tokens, tally, judged, feed, vote>>
    BY Zenon, <1>2 DEF dutyVars
  <1>. DEFINE new == [ballot |-> ballot, block |-> height,
                      peeked |-> DOMAIN vote # {}, kept |-> TRUE]
  <1>4. prevote' = With(prevote, v, new)
    BY Zenon, <1>1 DEF AggregateExchangeRatePrevote
  <1>5. new \in Commits /\ new.block = height
    <2>1. height \in Nat
      BY Zenon DEF IInv, Typed, DutyTypeOK
    <2>. QED BY <2>1 DEF Commits
  <1>. HIDE DEF new
  <1>6. /\ DOMAIN prevote' = DOMAIN prevote \cup {v}
        /\ \A u \in DOMAIN prevote' : prevote'[u] = IF u = v THEN new ELSE prevote[u]
    BY Zenon, <1>4 DEF With
  <1>7. height \in Nat
    BY Zenon DEF IInv, Typed, DutyTypeOK
  <1>8. NoTallySince(height)
    BY <1>7 DEF NoTallySince
  <1>9. Typed'
    <2>1. DutyTypeOK' /\ ValidateOracle(oracle)' /\ feed' \in FeedParams
          /\ ValidateFeed(feed)' /\ DOMAIN vote' \subseteq Val
          /\ \A u \in DOMAIN vote' : vote'[u].ballot \in Ballots
      BY Zenon, <1>3 DEF IInv, Typed, DutyTypeOK, ValidateOracle, ValidateFeed
    <2>2. DOMAIN prevote' \subseteq Val
      BY Zenon, <1>6 DEF IInv, Typed
    <2>3. ASSUME NEW u \in DOMAIN prevote'
          PROVE  prevote'[u] \in Commits /\ prevote'[u].block <= height'
      <3>0. height <= height
        BY <1>7
      <3>1. CASE u = v
        BY Zenon, <1>3, <1>5, <1>6, <1>7, <3>0, <3>1
      <3>2. CASE u # v
        BY Zenon, <1>3, <1>6, <3>2 DEF IInv, Typed
      <3>. QED BY <3>1, <3>2
    <2>. QED BY Zenon, <2>1, <2>2, <2>3 DEF Typed
  <1>10. CountersSound'
    BY Zenon, <1>3 DEF IInv, CountersSound
  <1>11. Peeks'
    <2>1. \A b : NoTallySince(b)' <=> NoTallySince(b)
      BY Zenon, <1>3 DEF NoTallySince
    <2>2. \A u \in DOMAIN prevote' :
             prevote'[u].peeked /\ prevote'[u].kept => NoTallySince(prevote'[u].block)
      BY Zenon, <1>5, <1>6, <1>8 DEF IInv, Peeks
    <2>. QED BY Zenon, <2>1, <2>2, <1>3 DEF Peeks, NoTallySince
  <1>. QED BY Zenon, <1>9, <1>10, <1>11 DEF IInv

LEMMA RevealKeeps == IInv /\ Reveal => IInv'
  <1>. SUFFICES ASSUME IInv, Reveal PROVE IInv'
    OBVIOUS
  <1>1. PICK v \in Val : AggregateExchangeRateVote(v)
    BY Zenon DEF Reveal
  <1>2. UNCHANGED <<dutyVars, feed, rate>>
    BY Zenon, <1>1 DEF AggregateExchangeRateVote
  <1>3. UNCHANGED <<height, oracle, bonded, jailed, tokens, tally, judged, feed>>
    BY Zenon, <1>2 DEF dutyVars
  <1>4. /\ DOMAIN prevote' \subseteq DOMAIN prevote
        /\ \A u \in DOMAIN prevote' : prevote'[u] = prevote[u]
    BY Zenon, <1>1 DEF AggregateExchangeRateVote, Without
  <1>5. prevote[v].ballot \in Ballots
    <2>1. prevote[v] \in Commits
      BY Zenon, <1>1 DEF AggregateExchangeRateVote, IInv, Typed
    <2>. QED BY <2>1 DEF Commits
  <1>. DEFINE new == [ballot |-> prevote[v].ballot]
  <1>6. new.ballot \in Ballots
    BY <1>5
  <1>7. vote' = With(vote, v, new)
    BY Zenon, <1>1 DEF AggregateExchangeRateVote
  <1>. HIDE DEF new
  <1>8. /\ DOMAIN vote' = DOMAIN vote \cup {v}
        /\ \A u \in DOMAIN vote' : vote'[u] = IF u = v THEN new ELSE vote[u]
    BY Zenon, <1>7 DEF With
  <1>9. Typed'
    <2>1. DutyTypeOK' /\ ValidateOracle(oracle)' /\ feed' \in FeedParams
          /\ ValidateFeed(feed)'
      BY Zenon, <1>3 DEF IInv, Typed, DutyTypeOK, ValidateOracle, ValidateFeed
    <2>2. DOMAIN vote' \subseteq Val /\ \A u \in DOMAIN vote' : vote'[u].ballot \in Ballots
      BY Zenon, <1>6, <1>8 DEF IInv, Typed
    <2>3. /\ DOMAIN prevote' \subseteq Val
          /\ \A u \in DOMAIN prevote' :
                prevote'[u] \in Commits /\ prevote'[u].block <= height'
      BY Zenon, <1>3, <1>4 DEF IInv, Typed
    <2>. QED BY Zenon, <2>1, <2>2, <2>3 DEF Typed
  <1>10. CountersSound'
    BY Zenon, <1>3 DEF IInv, CountersSound
  <1>11. Peeks'
    BY Zenon, <1>3, <1>4 DEF IInv, Peeks, NoTallySince
  <1>. QED BY Zenon, <1>9, <1>10, <1>11 DEF IInv

LEMMA ReturnKeeps == IInv /\ Return => IInv'
  <1>. SUFFICES ASSUME IInv, Return PROVE IInv'
    OBVIOUS
  <1>1. jailed' \subseteq jailed
    <2>1. PICK v \in Val : Unjail(v)
      BY Zenon DEF Return
    <2>. QED BY <2>1 DEF Unjail
  <1>2. UNCHANGED <<height, oracle, bonded, tokens, tally, feed, prevote, vote>>
    BY DEF Return, feedVars
  <1>3. Typed'
    BY Zenon, <1>1, <1>2 DEF IInv, Typed, DutyTypeOK, ValidateOracle, ValidateFeed
  <1>4. CountersSound'
    BY Zenon, <1>1, <1>2 DEF IInv, CountersSound
  <1>5. Peeks'
    BY Zenon, <1>2 DEF IInv, Peeks, NoTallySince
  <1>. QED BY Zenon, <1>3, <1>4, <1>5 DEF IInv

(***************************************************************************)
(* Commits whose mark is taken away.                                       *)
(***************************************************************************)
LEMMA UnpeekedIs ==
    ASSUME IInv, NEW set \in SUBSET (DOMAIN prevote)
    PROVE  /\ DOMAIN Unpeeked(set) = set
           /\ \A v \in set : /\ Unpeeked(set)[v] \in Commits
                             /\ Unpeeked(set)[v].block = prevote[v].block
                             /\ Unpeeked(set)[v].peeked = FALSE
  <1>1. \A v \in set : prevote[v] \in Commits
    BY Zenon DEF IInv, Typed
  <1>2. DOMAIN Unpeeked(set) = set
        /\ \A v \in set : Unpeeked(set)[v] = [prevote[v] EXCEPT !.peeked = FALSE]
    BY Zenon DEF Unpeeked
  <1>3. ASSUME NEW v \in set
        PROVE  /\ Unpeeked(set)[v] \in Commits
               /\ Unpeeked(set)[v].block = prevote[v].block
               /\ Unpeeked(set)[v].peeked = FALSE
    <2>. DEFINE c == prevote[v]
    <2>1. c \in Commits /\ Unpeeked(set)[v] = [c EXCEPT !.peeked = FALSE]
      BY Zenon, <1>1, <1>2
    <2>. QED BY Zenon, <2>1 DEF Commits
  <1>. QED BY Zenon, <1>2, <1>3

LEMMA GovernKeeps == IInv /\ Govern => IInv'
  <1>. SUFFICES ASSUME IInv, Govern PROVE IInv'
    OBVIOUS
  <1>1. CASE /\ \E p \in FeedParams : p # feed /\ ValidateFeed(p) /\ feed' = p
             /\ prevote' = [v \in DOMAIN prevote |->
                   [prevote[v] EXCEPT !.kept = @ /\ feed'.VotePeriod = feed.VotePeriod]]
             /\ UNCHANGED <<dutyVars, vote, rate>>
    <2>1. UNCHANGED <<height, oracle, bonded, jailed, tokens, tally, judged, vote>>
      BY <1>1 DEF dutyVars
    <2>2. feed' \in FeedParams /\ ValidateFeed(feed')
      BY Zenon, <1>1
    <2>3. /\ DOMAIN prevote' = DOMAIN prevote
          /\ \A v \in DOMAIN prevote :
                /\ prevote'[v] \in Commits
                /\ prevote'[v].block = prevote[v].block
                /\ prevote'[v].peeked => prevote[v].peeked
                /\ prevote'[v].kept => prevote[v].kept /\ feed'.VotePeriod = feed.VotePeriod
      <3>1. DOMAIN prevote' = DOMAIN prevote
        BY Zenon, <1>1
      <3>2. ASSUME NEW v \in DOMAIN prevote
            PROVE  /\ prevote'[v] \in Commits
                   /\ prevote'[v].block = prevote[v].block
                   /\ prevote'[v].peeked => prevote[v].peeked
                   /\ prevote'[v].kept =>
                         prevote[v].kept /\ feed'.VotePeriod = feed.VotePeriod
        <4>. DEFINE c == prevote[v]
                    same == c.kept /\ feed'.VotePeriod = feed.VotePeriod
        <4>1. c \in Commits /\ prevote'[v] = [c EXCEPT !.kept = same]
          BY Zenon, <1>1 DEF IInv, Typed
        <4>2. same \in BOOLEAN
          BY Zenon
        <4>. QED BY Zenon, <4>1, <4>2 DEF Commits
      <3>. QED BY Zenon, <3>1, <3>2
    <2>4. Typed'
      <3>1. DutyTypeOK' /\ ValidateOracle(oracle)' /\ ValidateFeed(feed)'
        BY Zenon, <2>1, <2>2 DEF IInv, Typed, DutyTypeOK, ValidateOracle, ValidateFeed
      <3>2. /\ DOMAIN prevote' \subseteq Val
            /\ \A u \in DOMAIN prevote' :
                  prevote'[u] \in Commits /\ prevote'[u].block <= height'
        BY Zenon, <2>1, <2>3 DEF IInv, Typed
      <3>. QED BY Zenon, <2>1, <2>2, <3>1, <3>2 DEF IInv, Typed
    <2>5. CountersSound'
      BY Zenon, <2>1 DEF IInv, CountersSound
    <2>6. Peeks'
      BY Zenon, <2>1, <2>3 DEF IInv, Peeks, NoTallySince
    <2>. QED BY Zenon, <2>4, <2>5, <2>6 DEF IInv
  <1>2. CASE /\ \E p \in OracleParams : UpdateOracleParams(p)
             /\ UNCHANGED <<feedVars, height, bonded, jailed, tokens, tally, judged>>
    <2>1. UNCHANGED <<height, bonded, jailed, tokens, tally, judged, feed, prevote, vote>>
      BY <1>2 DEF feedVars
    <2>2. oracle' \in OracleParams /\ ValidateOracle(oracle')
      BY Zenon, <1>2 DEF UpdateOracleParams
    <2>3. Typed'
      BY Zenon, <2>1, <2>2 DEF IInv, Typed, DutyTypeOK, ValidateOracle, ValidateFeed
    <2>4. CountersSound'
      BY Zenon, <2>1 DEF IInv, CountersSound
    <2>5. Peeks'
      BY Zenon, <2>1 DEF IInv, Peeks, NoTallySince
    <2>. QED BY Zenon, <2>3, <2>4, <2>5 DEF IInv
  <1>. QED BY <1>1, <1>2 DEF Govern

LEMMA NextBlockKeeps == IInv /\ NextBlock => IInv'
  <1>. SUFFICES ASSUME IInv, NextBlock PROVE IInv'
    OBVIOUS
  <1>1. PICK t : /\ EvaluateWindow(t)
                 /\ TallyOK(t)
                 /\ \A v \in jailed : t[v] = NoTally
    BY Zenon, BlockTally
  <1>2. height' = height + 1 /\ oracle' = oracle /\ feed' = feed /\ height \in Nat
    BY Zenon DEF NextBlock, IInv, Typed, DutyTypeOK
  <1>3. bonded' \subseteq Val
    <2>1. bonded' \in Elect(jailed)
      BY Zenon DEF NextBlock
    <2>. QED BY <2>1, DutyAssumption DEF Elect
  <1>4. /\ tally' \in Tallies /\ jailed' \subseteq Val /\ tokens' \in [Val -> Nat]
        /\ CountersSound'
    <2>0. /\ jailed \subseteq Val /\ tokens \in [Val -> Nat]
      BY Zenon DEF IInv, Typed, DutyTypeOK
    <2>1. CASE ~AtWindow
      <3>1. tally' = t /\ tokens' = tokens /\ jailed' = jailed
        BY Zenon, <1>1, <2>1 DEF EvaluateWindow
      <3>. QED BY Zenon, <1>1, <2>0, <3>1 DEF TallyOK, CountersSound
    <2>2. CASE AtWindow
      <3>. DEFINE failed == {v \in Val : ShouldSlash(t[v])}
      <3>1. /\ tokens' = [v \in Val |-> IF v \in failed THEN SlashedTokens(tokens[v])
                                                         ELSE tokens[v]]
            /\ jailed' = jailed \cup failed
            /\ tally' = Cleared
        BY Zenon, <1>1, <2>2 DEF EvaluateWindow, WindowTally
      <3>2. \A v \in Val : tokens[v] \in Nat /\ SlashedTokens(tokens[v]) \in Nat
        <4>1. \A v \in Val : tokens[v] \in Nat
          BY <2>0
        <4>2. oracle.SlashFraction \in Nat /\ oracle.SlashFraction <= Precision
          BY Zenon, ParamsAre DEF IInv
        <4>. QED BY <4>1, <4>2, FractionLeft DEF SlashedTokens
      <3>3. tokens' \in [Val -> Nat]
        BY Zenon, <3>1, <3>2
      <3>4. jailed' \subseteq Val
        BY Zenon, <2>0, <3>1
      <3>5. \A v \in Val, d \in Duties : tally'[v][d].hits <= tally'[v][d].opportunities
        BY <3>1, NoTallyIs
      <3>6. \A v \in jailed' : tally'[v] = NoTally
        BY Zenon, <3>1, <3>4, NoTallyIs
      <3>. QED BY Zenon, <3>1, <3>3, <3>4, <3>5, <3>6, NoTallyIs DEF CountersSound
    <2>. QED BY <2>1, <2>2
  <1>5. /\ DOMAIN prevote' \subseteq DOMAIN prevote
        /\ \A v \in DOMAIN prevote' :
              /\ prevote'[v] \in Commits /\ prevote'[v].block = prevote[v].block
              /\ prevote'[v].peeked => prevote'[v] = prevote[v] /\ ~AtPeriod
        /\ DOMAIN vote' \subseteq DOMAIN vote
        /\ \A v \in DOMAIN vote' : vote'[v] = vote[v]
    <2>1. CASE AtPeriod /\ TallyExchangeRates(bonded')
      <3>1. vote' = Without(vote, DOMAIN vote)
            /\ prevote' = Unpeeked(DOMAIN prevote \ StalePrevotes)
        BY Zenon, <2>1 DEF TallyExchangeRates
      <3>2. DOMAIN vote' = {}
        BY <3>1 DEF Without
      <3>3. DOMAIN prevote \ StalePrevotes \in SUBSET (DOMAIN prevote)
        OBVIOUS
      <3>4. /\ DOMAIN prevote' = DOMAIN prevote \ StalePrevotes
            /\ \A v \in DOMAIN prevote' : /\ prevote'[v] \in Commits
                                          /\ prevote'[v].block = prevote[v].block
                                          /\ prevote'[v].peeked = FALSE
        <4>. DEFINE kept == DOMAIN prevote \ StalePrevotes
        <4>1. prevote' = Unpeeked(kept) /\ kept \in SUBSET (DOMAIN prevote)
          BY Zenon, <3>1, <3>3
        <4>. HIDE DEF kept
        <4>2. DOMAIN prevote' = kept
              /\ \A v \in kept : /\ prevote'[v] \in Commits
                                 /\ prevote'[v].block = prevote[v].block
                                 /\ prevote'[v].peeked = FALSE
          BY Zenon, <4>1, UnpeekedIs
        <4>. QED BY Zenon, <4>2 DEF kept
      <3>. QED BY Zenon, <3>2, <3>4
    <2>2. CASE ~AtPeriod /\ UNCHANGED <<rate, vote, prevote>>
      BY Zenon, <2>2 DEF IInv, Typed
    <2>. QED BY Zenon, <2>1, <2>2 DEF NextBlock
  <1>6. Typed'
    <2>1. DutyTypeOK'
      BY <1>2, <1>3, <1>4 DEF IInv, Typed, DutyTypeOK, Tallies
    <2>2. ValidateOracle(oracle)' /\ feed' \in FeedParams /\ ValidateFeed(feed)'
      BY Zenon, <1>2 DEF IInv, Typed, ValidateOracle, ValidateFeed
    <2>3. \A u \in DOMAIN prevote' : prevote'[u].block <= height'
      <3>1. \A u \in DOMAIN prevote' :
               prevote[u].block \in Nat /\ prevote[u].block <= height
        BY <1>5 DEF IInv, Typed, Commits
      <3>. QED BY <1>2, <1>5, <3>1
    <2>. QED BY Zenon, <1>5, <2>1, <2>2, <2>3 DEF IInv, Typed
  <1>7. Peeks'
    <2>1. ASSUME NEW v \in DOMAIN prevote', prevote'[v].peeked, prevote'[v].kept
          PROVE  \A h \in prevote'[v].block .. height' - 1 : h % feed'.VotePeriod # 0
      <3>1. v \in DOMAIN prevote /\ prevote[v].peeked /\ prevote[v].kept /\ ~AtPeriod
            /\ prevote'[v].block = prevote[v].block
        BY Zenon, <1>5, <2>1
      <3>2. NoTallySince(prevote[v].block)
        BY Zenon, <3>1 DEF IInv, Peeks
      <3>3. prevote[v].block \in Nat
        BY <3>1 DEF IInv, Typed, Commits
      <3>4. \A h \in prevote[v].block .. height : h % feed.VotePeriod # 0
        <4>1. \A h \in prevote[v].block .. height :
                 h = height \/ h \in prevote[v].block .. height - 1
          BY <1>2, <3>3
        <4>. QED BY Zenon, <4>1, <3>1, <3>2 DEF NoTallySince, AtPeriod
      <3>5. height' - 1 = height
        BY <1>2
      <3>. QED BY Zenon, <1>2, <3>1, <3>4, <3>5
    <2>. QED BY Zenon, <2>1 DEF Peeks, NoTallySince
  <1>. QED BY Zenon, <1>4, <1>6, <1>7 DEF IInv

LEMMA NextIInv == IInv /\ [Next]_vars => IInv'
  <1>. SUFFICES ASSUME IInv, [Next]_vars PROVE IInv'
    OBVIOUS
  <1>1. CASE UNCHANGED vars
    <2>1. UNCHANGED <<height, oracle, bonded, jailed, tokens, tally, feed, prevote, vote>>
      BY <1>1 DEF vars, dutyVars, feedVars
    <2>. QED BY Zenon, <2>1 DEF IInv, Typed, CountersSound, Peeks, NoTallySince, DutyTypeOK,
                                ValidateOracle, ValidateFeed
  <1>. QED BY Zenon, <1>1, CommitKeeps, RevealKeeps, ReturnKeeps, GovernKeeps,
              NextBlockKeeps DEF Next

(***************************************************************************)
(* The inductive invariant of the feed and the duty engine: types, no more *)
(* hits than opportunities, and commits that knew other votes only if      *)
(* those were not yet tallied (NextBlock, Commit, Reveal).                 *)
(***************************************************************************)
THEOREM Invariance == Spec => []IInv
  BY InitIInv, NextIInv, PTL DEF Spec

-----------------------------------------------------------------------------
(* Medians and the reward band. *)

LEMMA OnlyBlocks ==
    ASSUME [Next]_vars, height' # height
    PROVE  NextBlock
  <1>1. ASSUME NEW v, NEW ballot, AggregateExchangeRatePrevote(v, ballot) PROVE FALSE
    BY <1>1 DEF AggregateExchangeRatePrevote, dutyVars
  <1>2. ASSUME NEW v, AggregateExchangeRateVote(v) PROVE FALSE
    BY <1>2 DEF AggregateExchangeRateVote, dutyVars
  <1>3. ~(UNCHANGED vars) /\ ~Return /\ ~Govern
    BY DEF vars, dutyVars, Return, Govern
  <1>. QED BY Zenon, <1>1, <1>2, <1>3 DEF Next, Commit, Reveal

LEMMA VotersAre ==
    ASSUME IInv, NEW bond \in SUBSET Val, NEW pair
    PROVE  /\ Voters(bond, pair) \subseteq bond
           /\ \A v \in Voters(bond, pair) : RateOf(v, pair) \in Nat
  <1>1. ASSUME NEW v \in Voters(bond, pair) PROVE RateOf(v, pair) \in Nat
    <2>1. v \in DOMAIN vote /\ pair \in DOMAIN vote[v].ballot
      BY Zenon DEF Voters
    <2>2. vote[v].ballot \in Ballots
      BY Zenon, <2>1 DEF IInv, Typed
    <2>. QED BY Zenon, <2>1, <2>2, FeedAssumption DEF RateOf
  <1>. QED BY <1>1 DEF Voters

(***************************************************************************)
(* The tally's medians, of a block whose bonded set is bond.               *)
(***************************************************************************)
LEMMA FinalizedMedian ==
    ASSUME IInv, NEW bond \in SUBSET Val, NEW pair \in Finalized(bond)
    PROVE  LET m == WeightedMedian(Voters(bond, pair), pair)
           IN  /\ m \in Nat
               /\ \A set \in SUBSET Voters(bond, pair) :
                     2 * Power(set, tokens) > Power(Voters(bond, pair), tokens) =>
                        \E u, v \in set : RateOf(u, pair) <= m /\ m <= RateOf(v, pair)
  <1>. DEFINE voters == Voters(bond, pair)
  <1>1. voters # {}
    BY Zenon DEF Finalized, Finalizes
  <1>2. voters \subseteq Val /\ \A v \in voters : RateOf(v, pair) \in Nat
    <2>1. voters \subseteq bond /\ \A v \in voters : RateOf(v, pair) \in Nat
      BY Zenon, VotersAre
    <2>. QED BY Zenon, <2>1
  <1>3. tokens \in [Val -> Nat]
    BY Zenon DEF IInv, Typed, DutyTypeOK
  <1>. HIDE DEF voters
  <1>4. LET m == WeightedMedian(voters, pair)
        IN  /\ m \in Nat
            /\ \A set \in SUBSET voters :
                  2 * Power(set, tokens) > Power(voters, tokens) =>
                     \E u, v \in set : RateOf(u, pair) <= m /\ m <= RateOf(v, pair)
    BY Zenon, <1>1, <1>2, <1>3, MedianBetween
  <1>. QED BY <1>4 DEF voters

LEMMA BlockBonded ==
    ASSUME NextBlock
    PROVE  bonded' \in SUBSET Val
  <1>1. bonded' \in Elect(jailed)
    BY Zenon DEF NextBlock
  <1>. QED BY <1>1, DutyAssumption DEF Elect

LEMMA StepVouched == IInv /\ [Next]_vars => VouchedFor
  <1>. SUFFICES ASSUME IInv, [Next]_vars, height' # height, AtPeriod,
                       NEW pair \in Finalized(bonded'),
                       NEW set \in SUBSET Voters(bonded', pair),
                       2 * Power(set, tokens) > Power(Voters(bonded', pair), tokens)
                PROVE  \E u, v \in set : /\ RateOf(u, pair) <= rate'[pair]
                                         /\ rate'[pair] <= RateOf(v, pair)
    BY Zenon DEF VouchedFor
  <1>1. NextBlock /\ bonded' \in SUBSET Val
    BY Zenon, OnlyBlocks, BlockBonded
  <1>2. rate'[pair] = WeightedMedian(Voters(bonded', pair), pair)
    <2>1. TallyExchangeRates(bonded')
      BY Zenon, <1>1 DEF NextBlock
    <2>. QED BY Zenon, <2>1 DEF TallyExchangeRates
  <1>. QED BY Zenon, <1>1, <1>2, FinalizedMedian

(***************************************************************************)
(* A finalized rate lies between rates of every majority of the power that *)
(* voted on the pair (weightedMedian, TallyExchangeRates).                 *)
(***************************************************************************)
THEOREM MajorityVouches == Spec => MedianOfMajority
  <1>1. IInv /\ [Next]_vars => [VouchedFor]_vars
    BY Zenon, StepVouched
  <1>. QED BY <1>1, Invariance, PTL DEF Spec, MedianOfMajority

(***************************************************************************)
(* Whoever agrees with more than half of the bonded power is in the band   *)
(* of every median.                                                        *)
(***************************************************************************)
LEMMA AgreeingInBand ==
    ASSUME IInv, NEW bond \in SUBSET Val, NEW b \in Ballots,
           NEW set, set = {v \in DOMAIN vote \cap bond : vote[v].ballot = b},
           2 * Power(set, tokens) > Power(bond, tokens),
           \A pair \in feed.Whitelist : pair \in DOMAIN b /\ b[pair] > 0
    PROVE  set \subseteq InBand(bond)
  <1>1. \A v \in set : v \in DOMAIN vote /\ v \in bond /\ vote[v].ballot = b
    OBVIOUS
  <1>2. IsFiniteSet(bond) /\ \A x \in bond : tokens[x] \in Nat
    <2>1. tokens \in [Val -> Nat]
      BY Zenon DEF IInv, Typed, DutyTypeOK
    <2>. QED BY <2>1, FS_Subset, DutyAssumption
  <1>3. ASSUME NEW pair \in Finalized(bond), NEW w \in set
        PROVE  WithinBand(w, pair, WeightedMedian(Voters(bond, pair), pair))
    <2>. DEFINE voters == Voters(bond, pair)
                m == WeightedMedian(voters, pair)
    <2>1. pair \in DOMAIN b /\ b[pair] > 0
      BY Zenon DEF Finalized
    <2>2. b[pair] \in Nat
      BY Zenon, <2>1, FeedAssumption
    <2>3. \A v \in set : RateOf(v, pair) = b[pair]
      BY Zenon, <1>1 DEF RateOf
    <2>4. set \subseteq voters /\ voters \subseteq bond
      BY Zenon, <1>1, <2>1 DEF Voters
    <2>5. /\ m \in Nat
          /\ \A s \in SUBSET voters :
                2 * Power(s, tokens) > Power(voters, tokens) =>
                   \E u, v \in s : RateOf(u, pair) <= m /\ m <= RateOf(v, pair)
      BY FinalizedMedian
    <2>. HIDE DEF voters, m
    <2>6. 2 * Power(set, tokens) > Power(voters, tokens)
      <3>1. /\ Power(voters, tokens) <= Power(bond, tokens)
            /\ Power(voters, tokens) \in Nat /\ Power(bond, tokens) \in Nat
        BY Zenon, <1>2, <2>4, PowerMonotone
      <3>2. Power(set, tokens) \in Nat
        BY Zenon, <1>2, <2>4, PowerMonotone
      <3>. QED BY <3>1, <3>2
    <2>7. m = b[pair]
      <3>1. \E u, v \in set : RateOf(u, pair) <= m /\ m <= RateOf(v, pair)
        BY Zenon, <2>4, <2>5, <2>6
      <3>2. b[pair] <= m /\ m <= b[pair]
        BY Zenon, <3>1, <2>3
      <3>. QED BY <2>2, <2>5, <3>2
    <2>8. MulDec(m, feed.RewardBand) \in Nat
      <3>1. feed.RewardBand \in Nat
        BY Zenon, ParamsAre DEF IInv
      <3>2. m * feed.RewardBand \in Nat
        BY <2>5, <3>1
      <3>. QED BY <3>2, ChopNat DEF MulDec
    <2>9. RateOf(w, pair) = m /\ pair \in DOMAIN vote[w].ballot
      BY Zenon, <1>1, <2>1, <2>3, <2>7
    <2>10. WithinBand(w, pair, m)
      BY <2>5, <2>8, <2>9 DEF WithinBand
    <2>. QED BY <2>10 DEF m, voters
  <1>. QED BY Zenon, <1>1, <1>3 DEF InBand

LEMMA StepAgreeing == IInv /\ [Next]_vars => AgreeingScore
  <1>. SUFFICES ASSUME IInv, [Next]_vars, height' # height, AtPeriod, NEW b \in Ballots,
                       NEW set, set = {v \in DOMAIN vote \cap bonded' : vote[v].ballot = b},
                       2 * Power(set, tokens) > Power(bonded', tokens),
                       \A pair \in feed.Whitelist : pair \in DOMAIN b /\ b[pair] > 0,
                       NEW v \in set
                PROVE  Counted(v)["price"].hits = tally[v]["price"].hits + 1
    BY Zenon DEF AgreeingScore
  <1>1. NextBlock /\ bonded' \in SUBSET Val
    BY Zenon, OnlyBlocks, BlockBonded
  <1>2. set \subseteq InBand(bonded')
    BY <1>1, AgreeingInBand
  <1>3. PICK t : /\ EvaluateWindow(t)
                 /\ AtPeriod => \A u \in (Val \cap bonded') \cap InBand(bonded') :
                                   t[u]["price"].hits = tally[u]["price"].hits + 1
    BY Zenon, <1>1, BlockTally
  <1>4. v \in (Val \cap bonded') \cap InBand(bonded')
    BY Zenon, <1>1, <1>2
  <1>5. Counted(v) = t[v]
    BY Zenon, <1>3 DEF EvaluateWindow, Counted
  <1>. QED BY Zenon, <1>3, <1>4, <1>5

(***************************************************************************)
(* Validators with more than half of the bonded power that reveal the same *)
(* rates for every pair score the price duty (TallyExchangeRates).         *)
(***************************************************************************)
THEOREM AgreementPays == Spec => AgreeingMajorityScores
  <1>1. IInv /\ [Next]_vars => [AgreeingScore]_vars
    BY Zenon, StepAgreeing
  <1>. QED BY <1>1, Invariance, PTL DEF Spec, AgreeingMajorityScores

-----------------------------------------------------------------------------
(* The engine's judgement. *)

LEMMA IdleSpared == ~ShouldSlash(NoTally)
  <1>1. Active(NoTally) = {}
    BY NoTallyIs DEF Active
  <1>. QED BY Zenon, <1>1 DEF ShouldSlash

LEMMA NeglectSlashed ==
    ASSUME IInv, NEW t, NEW d \in Duties, t[d].opportunities \in Nat,
           t[d].opportunities > 0, t[d].hits = 0
    PROVE  ShouldSlash(t)
  <1>1. QuoInt(0, t[d].opportunities) = 0
    BY QuoSelf
  <1>2. Rate(t[d]) = 0
    BY <1>1 DEF Rate
  <1>3. 0 <= oracle.DutyFloor
    <2>1. oracle.DutyFloor \in Nat
      BY Zenon, ParamsAre DEF IInv
    <2>. QED BY <2>1
  <1>4. d \in Active(t)
    BY Zenon DEF Active
  <1>. QED BY Zenon, <1>2, <1>3, <1>4 DEF ShouldSlash

(***************************************************************************)
(* A hit for every opportunity makes every rate, and so their mean, one.   *)
(***************************************************************************)
LEMMA DiligentScore ==
    ASSUME IInv, NEW t \in [Duties -> [opportunities : Nat, hits : Nat]],
           \A d \in Duties : t[d].hits = t[d].opportunities, Active(t) # {}
    PROVE  /\ \A d \in Active(t) : Rate(t[d]) = Precision
           /\ Score(t) = Precision
  <1>. DEFINE A == Active(t)
              rates == [d \in A |-> Rate(t[d])]
              weigh == [d \in A |-> Weight(d)]
              shares == [d \in A |-> MulDec(Weight(d), rates[d])]
              weights == Sum(weigh, A)
  <1>1. Precision \in Nat /\ Precision > 0
    BY PrecisionAssumption
  <1>2. \A d \in A : Rate(t[d]) = Precision
    <2>1. ASSUME NEW d \in A PROVE Rate(t[d]) = Precision
      <3>1. d \in Duties /\ t[d].opportunities > 0
        BY Zenon DEF Active
      <3>2. t[d].opportunities \in Nat /\ t[d].hits = t[d].opportunities
        BY <3>1
      <3>3. QuoInt(t[d].opportunities, t[d].opportunities) = Precision
        BY <3>1, <3>2, QuoSelf
      <3>. QED BY <3>1, <3>2, <3>3 DEF Rate
    <2>. QED BY <2>1
  <1>3. IsFiniteSet(A) /\ Cardinality(A) \in Nat /\ Cardinality(A) > 0
    <2>1. IsFiniteSet(Duties)
      <3>1. Duties = {"price"} \cup {"bridge"}
        BY DEF Duties
      <3>. QED BY Zenon, <3>1, FS_Singleton, FS_Union
    <2>2. A \subseteq Duties
      BY DEF Active
    <2>3. IsFiniteSet(A)
      BY <2>1, <2>2, FS_Subset
    <2>4. Cardinality(A) \in Nat /\ Cardinality(A) # 0
      <3>. HIDE DEF A
      <3>1. A # {}
        BY DEF A
      <3>. QED BY <2>3, <3>1, FS_CardinalityType, FS_EmptySet
    <2>. QED BY <2>3, <2>4
  <1>4. \A d \in A : rates[d] = Precision
    BY Zenon, <1>2
  <1>5. \A d \in A : weigh[d] \in Nat /\ shares[d] = weigh[d]
    <2>1. ASSUME NEW d \in A PROVE weigh[d] \in Nat /\ shares[d] = weigh[d]
      <3>1. weigh[d] = Weight(d) /\ shares[d] = MulDec(Weight(d), Precision)
        BY Zenon, <1>4
      <3>2. Weight(d) \in Nat
        <4>1. oracle.WPrice \in Nat /\ oracle.WBridge \in Nat
          BY Zenon, ParamsAre DEF IInv
        <4>. QED BY Zenon, <4>1 DEF Weight
      <3>3. MulDec(Weight(d), Precision) = Weight(d)
        BY Zenon, <3>2, ChopExact DEF MulDec
      <3>. QED BY Zenon, <3>1, <3>2, <3>3
    <2>. QED BY <2>1
  <1>6. Score(t) = IF weights = 0
                     THEN QuoDec(Sum(rates, A), Cardinality(A) * Precision)
                     ELSE QuoDec(Sum(shares, A), weights)
    BY Zenon DEF Score
  <1>. HIDE DEF A, rates, weigh, shares
  <1>7. CASE weights = 0
    <2>1. Sum(rates, A) = Cardinality(A) * Precision
      BY <1>1, <1>3, <1>4, SumConstant
    <2>2. Cardinality(A) * Precision \in Nat /\ Cardinality(A) * Precision > 0
      BY <1>1, <1>3
    <2>3. QuoDec(Cardinality(A) * Precision, Cardinality(A) * Precision) = Precision
      BY <2>2, QuoSelf DEF QuoDec
    <2>4. Score(t) = Precision
      BY Zenon, <1>6, <1>7, <2>1, <2>3
    <2>. QED BY Zenon, <1>2, <2>4 DEF A
  <1>8. CASE weights # 0
    <2>1. weights \in Nat
      BY <1>3, <1>5, SumNat
    <2>2. Sum(shares, A) = weights
      BY <1>3, <1>5, SumSame
    <2>. HIDE DEF weights
    <2>3. QuoDec(weights, weights) = Precision
      BY <1>8, <2>1, QuoSelf DEF QuoDec
    <2>4. Score(t) = Precision
      BY Zenon, <1>6, <1>8, <2>2, <2>3
    <2>. QED BY Zenon, <1>2, <2>4 DEF A
  <1>. QED BY <1>7, <1>8

LEMMA DiligenceSpared ==
    ASSUME IInv, NEW t \in [Duties -> [opportunities : Nat, hits : Nat]],
           \A d \in Duties : t[d].hits = t[d].opportunities,
           oracle.DutyFloor < Precision
    PROVE  ~ShouldSlash(t)
  <1>. SUFFICES ASSUME Active(t) # {} PROVE ~ShouldSlash(t)
    BY Zenon DEF ShouldSlash
  <1>1. /\ \A d \in Active(t) : Rate(t[d]) = Precision
        /\ Score(t) = Precision
    BY DiligentScore
  <1>2. ~(Precision <= oracle.DutyFloor) /\ ~(Precision < oracle.MinValidPerWindow)
    <2>1. /\ oracle.DutyFloor \in Nat
          /\ oracle.MinValidPerWindow \in Nat /\ oracle.MinValidPerWindow <= Precision
      BY Zenon, ParamsAre DEF IInv
    <2>. QED BY <2>1, PrecisionAssumption
  <1>. QED BY Zenon, <1>1, <1>2 DEF ShouldSlash

LEMMA StepJudged == IInv /\ [Next]_vars => [SlashedOnce /\ NoMasking /\ DiligentSpared]_vars
  <1>. SUFFICES ASSUME IInv, [Next]_vars, ~UNCHANGED vars
                PROVE  SlashedOnce /\ NoMasking /\ DiligentSpared
    OBVIOUS
  <1>1. CASE ~NextBlock
    <2>1. height' = height
      BY Zenon, <1>1, OnlyBlocks
    <2>2. tokens' = tokens /\ jailed' \subseteq jailed
      <3>1. ASSUME NEW v, NEW ballot, AggregateExchangeRatePrevote(v, ballot)
            PROVE  tokens' = tokens /\ jailed' = jailed
        BY <3>1 DEF AggregateExchangeRatePrevote, dutyVars
      <3>2. ASSUME NEW v, AggregateExchangeRateVote(v)
            PROVE  tokens' = tokens /\ jailed' = jailed
        BY <3>2 DEF AggregateExchangeRateVote, dutyVars
      <3>3. Return => tokens' = tokens /\ jailed' \subseteq jailed
        BY DEF Return, Unjail
      <3>4. Govern => tokens' = tokens /\ jailed' = jailed
        BY DEF Govern, dutyVars
      <3>. QED BY Zenon, <1>1, <3>1, <3>2, <3>3, <3>4 DEF Next, Commit, Reveal
    <2>. QED BY Zenon, <2>1, <2>2 DEF SlashedOnce, NoMasking, DiligentSpared
  <1>2. CASE NextBlock
    <2>1. PICK t : /\ EvaluateWindow(t)
                   /\ TallyOK(t)
                   /\ \A v \in jailed : t[v] = NoTally
      BY Zenon, <1>2, BlockTally
    <2>2. \A v \in Val : t[v] \in [Duties -> [opportunities : Nat, hits : Nat]]
      BY <2>1 DEF TallyOK, Tallies
    <2>3. CASE ~AtWindow
      <3>1. judged' = Cleared /\ tokens' = tokens /\ jailed' = jailed
        BY Zenon, <2>1, <2>3 DEF EvaluateWindow
      <3>2. \A v \in Val, d \in Duties : ~(judged'[v][d].opportunities > 0)
        BY <3>1, NoTallyIs
      <3>. QED BY Zenon, <3>1, <3>2 DEF SlashedOnce, NoMasking, DiligentSpared
    <2>4. CASE AtWindow
      <3>. DEFINE failed == {v \in Val : ShouldSlash(t[v])}
      <3>1. /\ tokens' = [v \in Val |-> IF v \in failed THEN SlashedTokens(tokens[v])
                                                         ELSE tokens[v]]
            /\ jailed' = jailed \cup failed
            /\ judged' = t
        BY Zenon, <2>1, <2>4 DEF EvaluateWindow
      <3>2. SlashedOnce
        <4>1. jailed \subseteq Val
          BY Zenon DEF IInv, Typed, DutyTypeOK
        <4>2. \A v \in jailed : v \notin failed
          BY Zenon, <2>1, IdleSpared
        <4>. QED BY Zenon, <3>1, <4>1, <4>2 DEF SlashedOnce
      <3>3. NoMasking
        <4>1. ASSUME NEW v \in Val, NEW d \in Duties,
                     t[v][d].opportunities > 0, t[v][d].hits = 0
              PROVE  ShouldSlash(t[v])
          <5>1. t[v][d].opportunities \in Nat
            BY <2>2
          <5>. QED BY <4>1, <5>1, NeglectSlashed
        <4>. QED BY Zenon, <3>1, <4>1 DEF NoMasking
      <3>4. DiligentSpared
        <4>1. ASSUME NEW v \in Val, ShouldSlash(t[v]), oracle.DutyFloor < Precision
              PROVE  \E d \in Duties : t[v][d].hits < t[v][d].opportunities
          <5>1. ~(\A d \in Duties : t[v][d].hits = t[v][d].opportunities)
            BY <2>2, <4>1, DiligenceSpared
          <5>2. PICK d \in Duties : t[v][d].hits # t[v][d].opportunities
            BY Zenon, <5>1
          <5>3. /\ t[v][d].hits \in Nat /\ t[v][d].opportunities \in Nat
                /\ t[v][d].hits <= t[v][d].opportunities
            BY <2>1, <2>2 DEF TallyOK
          <5>4. t[v][d].hits < t[v][d].opportunities
            BY <5>2, <5>3
          <5>. QED BY Zenon, <5>4
        <4>. QED BY Zenon, <3>1, <4>1 DEF DiligentSpared
      <3>. QED BY <3>2, <3>3, <3>4
    <2>. QED BY <2>3, <2>4
  <1>. QED BY <1>1, <1>2

(***************************************************************************)
(* Nobody is slashed twice for one jailing, nobody who took no opportunity *)
(* of a duty is spared, and nobody who took them all is jailed             *)
(* (evaluateWindow, EvaluateValidatorWindow).                              *)
(***************************************************************************)
THEOREM FairJudgement == Spec => JudgedFairly
  BY StepJudged, Invariance, PTL DEF Spec, JudgedFairly

-----------------------------------------------------------------------------
(* The window of a commit. *)

(***************************************************************************)
(* The blocks before a multiple k of the period n all belong to the period *)
(* that starts at k - n; and the start of a period is a multiple of n.     *)
(***************************************************************************)
LEMMA PeriodBefore ==
    ASSUME NEW n \in Nat, n > 0, NEW k \in Nat, k >= n, k % n = 0,
           NEW h \in k - n .. k - 1
    PROVE  h - (h % n) = k - n
  <1>. DEFINE q == k \div n
              r == h - (k - n)
  <1>1. k = n * q /\ q \in Nat
    BY DivMod
  <1>2. r \in Nat /\ r < n /\ q - 1 \in Int
    BY <1>1
  <1>3. h = (q - 1) * n + r
    BY <1>1
  <1>. HIDE DEF q, r
  <1>4. ((q - 1) * n + r) % n = r
    BY <1>2
  <1>5. h % n = r
    BY <1>3, <1>4
  <1>. QED BY <1>5 DEF r

LEMMA StartIsMultiple ==
    ASSUME NEW n \in Nat, n > 0, NEW h \in Nat
    PROVE  /\ h - (h % n) \in Nat /\ h - (h % n) <= h
           /\ (h - (h % n)) % n = 0
  <1>1. h = n * (h \div n) + (h % n) /\ h % n \in 0 .. n - 1 /\ h \div n \in Nat
    BY Zenon, DivMod
  <1>2. PICK q \in Nat : h = n * q + (h % n)
    BY Zenon, <1>1
  <1>3. PICK r \in 0 .. n - 1 : r = h % n
    BY Zenon, <1>1
  <1>4. h = n * q + r
    BY Zenon, <1>2, <1>3
  <1>5. h - r = q * n /\ h - r \in Nat /\ h - r <= h
    BY ONLY <1>4, n \in Nat, q \in Nat, r \in 0 .. n - 1
  <1>6. (q * n) % n = 0
    BY ONLY n \in Nat, n > 0, q \in Nat
  <1>. QED BY Zenon, <1>3, <1>5, <1>6

LEMMA StepWindow == IInv /\ [Next]_vars => RevealWindow
  <1>. SUFFICES ASSUME IInv, [Next]_vars, NEW v \in DOMAIN prevote,
                       height' # height, v \notin DOMAIN prevote'
                PROVE  Cardinality({h \in prevote[v].block .. height :
                            prevote[v].block < PeriodStart(h)}) >= feed.VotePeriod
    BY Zenon DEF RevealWindow
  <1>. DEFINE n == feed.VotePeriod
              block == prevote[v].block
              open == {h \in block .. height : block < PeriodStart(h)}
  <1>1. NextBlock
    BY Zenon, OnlyBlocks
  <1>2. AtPeriod /\ prevote' = Unpeeked(DOMAIN prevote \ StalePrevotes)
    BY Zenon, <1>1 DEF NextBlock, TallyExchangeRates
  <1>3. v \in StalePrevotes
    BY Zenon, <1>2 DEF Unpeeked
  <1>4. height >= n /\ block < height - n /\ height % n = 0
    BY Zenon, <1>2, <1>3 DEF StalePrevotes, AtPeriod
  <1>5. n \in Nat /\ n > 0 /\ height \in Nat /\ block \in Nat
    <2>1. n \in Nat /\ n > 0
      BY Zenon, ParamsAre DEF IInv
    <2>2. prevote[v] \in Commits /\ height \in Nat
      BY Zenon DEF IInv, Typed, DutyTypeOK
    <2>. QED BY <2>1, <2>2 DEF Commits
  <1>6. \A h : PeriodStart(h) = h - (h % n)
    BY DEF PeriodStart
  <1>. HIDE DEF n, block
  <1>7. height - n .. height - 1 \subseteq open
    <2>1. ASSUME NEW h \in height - n .. height - 1 PROVE h \in open
      <3>1. PeriodStart(h) = height - n
        BY Zenon, <1>4, <1>5, <1>6, PeriodBefore
      <3>2. h \in block .. height
        BY <1>4, <1>5
      <3>. QED BY <1>4, <3>1, <3>2
    <2>. QED BY <2>1
  <1>8. IsFiniteSet(open)
    <2>1. IsFiniteSet(block .. height)
      BY <1>5, FS_Interval
    <2>. QED BY Zenon, <2>1, FS_Subset
  <1>9. Cardinality(height - n .. height - 1) = n
    <2>1. height - n \in Int /\ height - 1 \in Int
      BY <1>5
    <2>2. Cardinality(height - n .. height - 1) =
             IF height - n > height - 1 THEN 0 ELSE (height - 1) - (height - n) + 1
      BY <2>1, FS_Interval
    <2>. QED BY <1>5, <2>2
  <1>10. Cardinality(height - n .. height - 1) <= Cardinality(open)
    BY Zenon, <1>7, <1>8, FS_Subset
  <1>11. Cardinality(open) \in Nat
    BY <1>8, FS_CardinalityType
  <1>12. Cardinality(open) >= n
    BY <1>5, <1>9, <1>10, <1>11
  <1>. QED BY <1>12 DEF n, block

LEMMA StepBlind == IInv /\ [Next]_vars => BlindBeforeTally
  <1>. SUFFICES ASSUME IInv, [Next]_vars, NEW v \in DOMAIN prevote,
                       height' = height, v \notin DOMAIN prevote',
                       prevote[v].peeked, prevote[v].kept
                PROVE  AtPeriod
    BY Zenon DEF BlindBeforeTally
  <1>. DEFINE n == feed.VotePeriod
              block == prevote[v].block
              start == PeriodStart(height)
  <1>1. n \in Nat /\ n > 0 /\ height \in Nat /\ block \in Nat
    <2>1. n \in Nat /\ n > 0
      BY Zenon, ParamsAre DEF IInv
    <2>2. prevote[v] \in Commits /\ height \in Nat
      BY Zenon DEF IInv, Typed, DutyTypeOK
    <2>. QED BY <2>1, <2>2 DEF Commits
  <1>2. AggregateExchangeRateVote(v)
    <2>1. ~NextBlock
      <3>1. NextBlock => height' = height + 1
        BY Zenon DEF NextBlock
      <3>2. height' = height /\ height \in Nat
        BY Zenon, <1>1
      <3>. QED BY ONLY <3>1, <3>2
    <2>2. ~Return /\ ~UNCHANGED vars
      BY DEF Return, vars, feedVars
    <2>3. ~Govern
      BY DEF Govern, feedVars
    <2>4. ASSUME NEW u, NEW ballot, AggregateExchangeRatePrevote(u, ballot) PROVE FALSE
      BY Zenon, <2>4 DEF AggregateExchangeRatePrevote, With
    <2>5. ASSUME NEW u, AggregateExchangeRateVote(u) PROVE u = v
      BY Zenon, <2>5 DEF AggregateExchangeRateVote, Without
    <2>. QED BY Zenon, <2>1, <2>2, <2>3, <2>4, <2>5 DEF Next, Commit, Reveal
  <1>3. block < start
    BY Zenon, <1>2 DEF AggregateExchangeRateVote
  <1>4. start \in Nat /\ start <= height /\ start % n = 0
    BY <1>1, StartIsMultiple DEF PeriodStart
  <1>5. \A h \in block .. height - 1 : h % n # 0
    BY Zenon DEF IInv, Peeks, NoTallySince
  <1>. HIDE DEF n, block, start
  <1>6. start \notin block .. height - 1
    BY Zenon, <1>4, <1>5
  <1>7. start = height
    BY <1>1, <1>3, <1>4, <1>6
  <1>. QED BY <1>4, <1>7 DEF AtPeriod, n

(***************************************************************************)
(* As long as the vote period stays the same, a commit can be revealed     *)
(* throughout a whole period before it is dropped, and one whose owner had *)
(* seen votes for a tally counts in that tally only if it is revealed in   *)
(* the tallying block itself, where the code does accept it                *)
(* (expireStalePrevotes, AggregateExchangeRateVote).                       *)
(***************************************************************************)
THEOREM CommitsKeepTheirPeriod == Spec => CommitWindow
  <1>1. IInv /\ [Next]_vars => [RevealWindow /\ BlindBeforeTally]_vars
    BY Zenon, StepWindow, StepBlind
  <1>. QED BY <1>1, Invariance, PTL DEF Spec, CommitWindow

=============================================================================
