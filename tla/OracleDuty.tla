------------------------------ MODULE OracleDuty ------------------------------
(***************************************************************************)
(* The x/oracle engine: one counter per validator, fed by the price feed   *)
(* and the bridge, judged once per slash window; who falls short is        *)
(* slashed and jailed.                                                     *)
(*                                                                         *)
(* Decimals are integers scaled by Precision (LegacyDec).                  *)
(***************************************************************************)
EXTENDS LegacyDec, Sums

CONSTANTS
    Val,            \* validators
    BondedChoices,  \* the sets the staking module may elect, jailed ones left out
    TokenChoices,   \* initial token distributions
    OracleParams    \* parameter records governance may set

OracleParamRecords ==
    [SlashWindow : Nat, SlashFraction : Nat, MinValidPerWindow : Nat,
     WPrice : Nat, WBridge : Nat, DutyFloor : Nat]

(***************************************************************************)
(* Params.Validate of x/oracle.                                            *)
(***************************************************************************)
ValidateOracle(p) ==
    /\ p.SlashWindow # 0
    /\ \A x \in {p.SlashFraction, p.MinValidPerWindow, p.DutyFloor} : x <= Precision
    /\ p.WPrice + p.WBridge # 0

ASSUME DutyAssumption ==
    /\ BondedChoices \subseteq SUBSET Val
    /\ TokenChoices \subseteq [Val -> Nat]
    /\ OracleParams \subseteq OracleParamRecords
    /\ IsFiniteSet(Val)

VARIABLES
    height,   \* height of the block being executed
    oracle,   \* Keeper.Params of x/oracle
    bonded,   \* validators whose status is Bonded
    jailed,   \* validators that are jailed; they lose the status at the next election
    tokens,   \* each validator's tokens
    tally,    \* Keeper.Tally: validator -> duty -> [opportunities, hits]
    judged    \* the tally that the engine judged in the last step, for the properties

Duties == {"price", "bridge"}

NoTally == [d \in Duties |-> [opportunities |-> 0, hits |-> 0]]
Cleared == [v \in Val |-> NoTally]

Power(set, toks) == Sum(toks, set)

(***************************************************************************)
(* The staking EndBlocker, which runs before the ones of this project.     *)
(***************************************************************************)
Elect(jail) == {b \ jail : b \in BondedChoices}

(***************************************************************************)
(* recordDuty: everyone in the bonded set gains an opportunity, and a hit  *)
(* if it participated.                                                     *)
(***************************************************************************)
RecordDuty(t, bond, duty, participants) ==
    [v \in Val |->
        IF v \notin bond THEN t[v]
        ELSE [t[v] EXCEPT ![duty] =
                [opportunities |-> @.opportunities + 1,
                 hits |-> @.hits + (IF v \in participants THEN 1 ELSE 0)]]]

-----------------------------------------------------------------------------
(* EvaluateValidatorWindow, on one validator's tally t. *)

Active(t) == {d \in Duties : t[d].opportunities > 0}

Rate(d) == IF d.opportunities = 0 THEN 0 ELSE QuoInt(d.hits, d.opportunities)

Weight(d) == IF d = "price" THEN oracle.WPrice ELSE oracle.WBridge

(***************************************************************************)
(* The weighted mean of the active duties' rates; unweighted when the      *)
(* active duties weigh nothing.                                            *)
(***************************************************************************)
Score(t) ==
    LET rates == [d \in Active(t) |-> Rate(t[d])]
        weights == Sum([d \in Active(t) |-> Weight(d)], Active(t))
    IN  IF weights = 0
          THEN QuoDec(Sum(rates, Active(t)), Cardinality(Active(t)) * Precision)
          ELSE QuoDec(Sum([d \in Active(t) |-> MulDec(Weight(d), rates[d])], Active(t)),
                      weights)

\* Variant: the floor is not looked at.
ShouldSlashPooled(t) == Active(t) # {} /\ Score(t) < oracle.MinValidPerWindow

ShouldSlash(t) ==
    /\ Active(t) # {}
    /\ \/ \E d \in Active(t) : Rate(t[d]) <= oracle.DutyFloor
       \/ Score(t) < oracle.MinValidPerWindow

(***************************************************************************)
(* Slash, of the staking module: a fraction of the tokens is burned.       *)
(***************************************************************************)
SlashedTokens(t) == t - (t * oracle.SlashFraction) \div Precision

AtWindow == height % oracle.SlashWindow = 0

\* The tally of the next window.
WindowTally(t) == Cleared

(***************************************************************************)
(* EndBlock with evaluateWindow and slashAndJail, on the tally t that the  *)
(* duty modules have left.  slashAndJail logs and goes on where a          *)
(* validator is gone or the staking module refuses: with a window shorter  *)
(* than the unbonding time none of them is, and here it never does.        *)
(***************************************************************************)
EvaluateWindow(t) ==
    LET failed == {v \in Val : ShouldSlash(t[v])}
    IN  \/ /\ ~AtWindow
           /\ tally' = t
           /\ judged' = Cleared
           /\ UNCHANGED <<tokens, jailed>>
        \/ /\ AtWindow
           /\ tokens' = [v \in Val |-> IF v \in failed THEN SlashedTokens(tokens[v])
                                                        ELSE tokens[v]]
           /\ jailed' = jailed \cup failed
           /\ tally' = WindowTally(t)
           /\ judged' = t

\* MsgUnjail of the slashing module.
Unjail(v) ==
    /\ v \in jailed
    /\ jailed' = jailed \ {v}

UpdateOracleParams(p) ==
    /\ p # oracle
    /\ ValidateOracle(p)
    /\ oracle' = p

DutyInit ==
    /\ height = 1
    /\ oracle \in {p \in OracleParams : ValidateOracle(p)}
    /\ bonded \in BondedChoices
    /\ jailed = {}
    /\ tokens \in TokenChoices
    /\ tally = Cleared
    /\ judged = Cleared

DutyTypeOK ==
    /\ height \in Nat
    /\ oracle \in OracleParams
    /\ bonded \subseteq Val
    /\ jailed \subseteq Val
    /\ tokens \in [Val -> Nat]
    /\ tally \in [Val -> [Duties -> [opportunities : Nat, hits : Nat]]]

=============================================================================
