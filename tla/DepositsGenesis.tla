---------------------------- MODULE DepositsGenesis ----------------------------
(***************************************************************************)
(* Bridge-in across exports: between two blocks the chain may be exported  *)
(* and started again from the exported genesis, at the same height or from *)
(* the beginning.  The export holds the records and the sequence; import   *)
(* rebuilds every index, marker and vote from the records.                 *)
(***************************************************************************)
EXTENDS Deposits

VARIABLE boundary   \* whether no transaction was executed since the last block

genesisVars == <<vars, boundary>>

\* Variant: expired records are indexed as well.
ImportedAll == DOMAIN deposit

\* Expired records keep their status only; their keys can be attested afresh.
Imported == {i \in DOMAIN deposit : deposit[i].status # "EXPIRED"}

ImportedTxids ==
    [k \in Keys |-> LET ids == {i \in Imported : deposit[i].key = k}
                    IN  IF ids = {} THEN NoId ELSE CHOOSE i \in ids :
                                                       \A j \in ids : j <= i]

\* Variant: markers are not rebuilt for a pending record.
ImportedMarkersResolved ==
    {c \in Keys \X Val :
        \E i \in Imported : /\ deposit[i].key = c[1]
                            /\ deposit[i].confirmations[c[2]] > 0
                            /\ deposit[i].status # "PENDING"}

ImportedMarkers ==
    {c \in Keys \X Val :
        \E i \in Imported : /\ deposit[i].key = c[1]
                            /\ deposit[i].confirmations[c[2]] > 0}

(***************************************************************************)
(* Every confirmation becomes a vote for the facts on the record, which    *)
(* are those of the first attestation, or of the resolution.               *)
(***************************************************************************)
ImportedVotes ==
    {x \in Keys \X DepositFacts \X Val :
        \E i \in Imported : /\ deposit[i].key = x[1]
                            /\ deposit[i].facts = x[2]
                            /\ deposit[i].confirmations[x[3]] > 0}

\* The totals of SBD are not part of the genesis state.
ImportedTotals ==
    [minted |-> [totals.minted EXCEPT !["SBD"] = 0],
     burned |-> [totals.burned EXCEPT !["SBD"] = 0]]

(***************************************************************************)
(* ExportGenesis and InitGenesis; x/oracle's tallies start empty.          *)
(***************************************************************************)
RoundTrip ==
    /\ boundary
    /\ height' \in {height, 1}
    /\ depositByStatus' = {x \in DepositStatuses \X DOMAIN deposit :
                              deposit[x[2]].status = x[1]}
    /\ depositByTxid' = ImportedTxids
    /\ depositConfirmedBy' = ImportedMarkers
    /\ depositFactsVote' = ImportedVotes
    /\ totals' = ImportedTotals
    /\ dutyQueue' = {}
    /\ tally' = [v \in Val |-> [opportunities |-> 0, hits |-> 0]]
    /\ UNCHANGED <<deposit, depositSeq, params, stakeVars, bank, boundary>>

GenesisInit == Init /\ boundary = TRUE

GenesisNext ==
    \/ NextBlock /\ boundary' = TRUE
    \/ (Attest \/ Govern \/ Restake) /\ boundary' = FALSE
    \/ RoundTrip

GenesisSpec == GenesisInit /\ [][GenesisNext]_genesisVars

-----------------------------------------------------------------------------
(* Properties. *)

(***************************************************************************)
(* An export and import loses none of what bars a second attestation or a  *)
(* second mint: every index and every marker is rebuilt as it was, and     *)
(* whoever had a vote still has one (InitGenesis).                         *)
(***************************************************************************)
RestoresIndexes ==
    [][RoundTrip =>
         /\ depositByTxid' = depositByTxid
         /\ depositByStatus' = depositByStatus
         /\ depositConfirmedBy' = depositConfirmedBy
         /\ \A k \in Keys, v \in Val : VotesOf(k, v)' = {} <=> VotesOf(k, v) = {}
      ]_genesisVars

=============================================================================
