------------------------------ MODULE MCPriceFeed ------------------------------
(***************************************************************************)
(* An instance of PriceFeed for TLC.  Rates and fractions are in           *)
(* hundredths.                                                             *)
(***************************************************************************)
EXTENDS PriceFeed, TLC

CONSTANTS v1, v2

\* The market's rates, and a ballot with one rate beyond the band and a zero.
mcMarket == ("A" :> 100) @@ ("B" :> 200)
mcBallots == {mcMarket, ("A" :> 97) @@ ("B" :> 0)}

\* The faulty v2 can finalize a rate alone, but not outweigh v1.
mcTokens == {(v1 :> 3) @@ (v2 :> 2)}

mcFeed == {[VotePeriod |-> p, VoteThreshold |-> 40, RewardBand |-> 0,
            Whitelist |-> {"A", "B"}] : p \in {1, 2}}

\* The price duty weighs nothing, so that only the floor guards it.
mcOracle == {[SlashWindow |-> w, SlashFraction |-> 50, MinValidPerWindow |-> 50,
              WPrice |-> 0, WBridge |-> 50, DutyFloor |-> 0] : w \in {2, 4}}

mcBonded == {Val}
mcReports == {{v1}}

=============================================================================
