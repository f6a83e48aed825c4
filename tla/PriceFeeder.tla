------------------------------ MODULE PriceFeeder ------------------------------
(***************************************************************************)
(* The price feeder of the oracle client (oracle/go/relayer): once per     *)
(* vote period it reveals the commit of the period before and commits to   *)
(* fresh prices, in one transaction, and then saves the commit's salt for  *)
(* the next reveal.  The chain holds one commit and one vote of the        *)
(* validator (x/oracle/data).                                              *)
(*                                                                         *)
(* The client may crash between any two steps, a transaction may be late   *)
(* or vanish, prices may not be had, the validator may be jailed, and      *)
(* governance may change the vote period.                                  *)
(*                                                                         *)
(* A salt stands for the rates that were committed with it.                *)
(***************************************************************************)
EXTENDS Naturals, FiniteSets, FiniteSetsExt

CONSTANTS
    VotePeriods,  \* vote periods that governance may set
    MaxHeight,    \* bound: the height at which exploration stops
    MaxFaults     \* bound: how often something goes wrong

ASSUME FeederAssumption ==
    /\ VotePeriods \subseteq Nat \ {0}
    /\ MaxHeight \in Nat
    /\ MaxFaults \in Nat

VARIABLES
    height,      \* the latest block
    votePeriod,  \* Params.VotePeriod
    status,      \* the validator's: "active", "jailed" but still bonded, or "unbonded"
    prevote,     \* Keeper.Prevote of the validator: [salt, block]
    vote,        \* whether Keeper.Vote has a vote of the validator
    pool,        \* the feeder's transaction in the mempool: [reveal, commit]
    file,        \* price_feeder_state.json: [period, salt]
    handled,     \* lastHandledPeriod, in memory
    cycle,       \* runPriceFeederCycle under way: [period, salt, stage]
    ticked,      \* whether a cycle was run since the latest block
    made,        \* the period in which the transaction was made
    faults,      \* how often something has gone wrong
    trouble,     \* the height of the latest disturbance
    lost         \* recent periods in which the client lost what it had not saved

chainVars == <<height, votePeriod, status, prevote, vote>>
clientVars == <<file, handled, cycle, ticked>>
faultVars == <<faults, trouble, lost>>
vars == <<chainVars, pool, clientVars, made, faultVars>>

\* Something goes wrong; a disturbance is one other than a loss of what the
\* client had not saved.
Fault == faults < MaxFaults /\ faults' = faults + 1
Disturbance == Fault /\ trouble' = height /\ UNCHANGED lost

NoSalt == 0
Salts == 1 .. 5
NoPrevote == [salt |-> NoSalt, block |-> 0]
NoTx == [reveal |-> NoSalt, commit |-> NoSalt]
NoState == [period |-> 0, salt |-> NoSalt]
Idle == [period |-> 0, salt |-> NoSalt, stage |-> "idle"]

Period == height \div votePeriod

\* NewSalt: one that is in use nowhere.
NewSalt == Min(Salts \ {prevote.salt, pool.reveal, pool.commit, file.salt})

-----------------------------------------------------------------------------
(* The chain. *)

PeriodStart(h) == h - (h % votePeriod)

(***************************************************************************)
(* AggregateExchangeRateVote's checks, in block h.                         *)
(***************************************************************************)
Reveals(h, salt) ==
    /\ prevote.salt # NoSalt
    /\ prevote.block < PeriodStart(h)
    /\ prevote.salt = salt

\* Whether the whole transaction succeeds in block h.
Succeeds(h) ==
    /\ status # "unbonded"
    /\ pool.reveal # NoSalt => Reveals(h, pool.reveal)

(***************************************************************************)
(* The commit and the vote in the store after the messages of block h.     *)
(***************************************************************************)
Delivered(h, included) ==
    LET ok == included /\ Succeeds(h)
    IN  [vote |-> vote \/ (ok /\ pool.reveal # NoSalt),
         prevote |-> IF ok /\ pool.commit # NoSalt
                       THEN [salt |-> pool.commit, block |-> h]
                     ELSE IF ok THEN NoPrevote
                     ELSE prevote]

\* Whether the end of block h tallies, and whether it expires the commit p.
Tallies(h) == h % votePeriod = 0
Expires(h, p) == Tallies(h) /\ h >= votePeriod /\ p.block < h - votePeriod

\* Nothing is late: the client has run its cycle, and the block has its
\* transaction.
Prompt(included) ==
    /\ cycle = Idle => ticked \/ handled = Period
    /\ cycle # Idle => cycle.stage = "waiting" /\ included
    /\ pool # NoTx => included

\* The transaction succeeds in a block after the period that it was made in.
\* Its commit is then of a period's first block and cannot be revealed in that
\* period: every reveal of the period fails, and the last one sent may slip into
\* the next period in its turn, without any further fault.
Straddles(included) ==
    /\ included /\ Succeeds(height + 1)
    /\ (height + 1) \div votePeriod # made

(***************************************************************************)
(* The next block, with or without the transaction, whose outcome the      *)
(* client can look up from then on.                                        *)
(***************************************************************************)
NextBlock ==
    /\ height < MaxHeight
    /\ height' = height + 1
    /\ \E included \in {FALSE, pool # NoTx} :
          LET after == Delivered(height', included)
          IN  /\ vote' = (after.vote /\ ~Tallies(height'))
              /\ prevote' = IF Expires(height', after.prevote) THEN NoPrevote
                                                               ELSE after.prevote
              /\ pool' = IF included THEN NoTx ELSE pool
              /\ cycle' = IF included /\ cycle.stage = "waiting"
                            THEN [cycle EXCEPT !.stage =
                                    IF Succeeds(height') THEN "delivered" ELSE "failed"]
                            ELSE cycle
              /\ \/ Prompt(included) /\ UNCHANGED faults
                 \/ ~Prompt(included) /\ Fault
              /\ trouble' = IF Prompt(included) /\ status = "active" /\ ~Straddles(included)
                              THEN trouble ELSE height'
    /\ status' = IF status = "jailed" THEN "unbonded" ELSE status
    /\ ticked' = FALSE
    /\ lost' = {p \in lost : p + 4 >= height' \div votePeriod}
    /\ UNCHANGED <<votePeriod, file, handled, made>>

-----------------------------------------------------------------------------
(* The client. *)

\* Variant: a commit is tried for two periods.
RevealOfLate(period, prev) ==
    IF prev.salt # NoSalt /\ period \in {prev.period + 1, prev.period + 2}
      THEN prev.salt ELSE NoSalt

\* Feeder.Step: the salt to reveal, only from the period right before.
RevealOf(period, prev) ==
    IF prev.salt # NoSalt /\ prev.period + 1 = period THEN prev.salt ELSE NoSalt

(***************************************************************************)
(* Feeder.Step: the messages and the state to save.                        *)
(***************************************************************************)
Step(period, prev, priced) ==
    LET salt == IF priced THEN NewSalt ELSE NoSalt
    IN  [tx |-> [reveal |-> RevealOf(period, prev), commit |-> salt],
         state |-> IF priced THEN [period |-> period, salt |-> salt] ELSE NoState]

(***************************************************************************)
(* broadcastTx up to the wait.  With a transaction of the signer still in  *)
(* the mempool, the same one is waited for and another is rejected for its *)
(* sequence number, which ends the cycle.                                  *)
(***************************************************************************)
Broadcast(tx, state) ==
    \/ /\ pool \in {NoTx, tx}
       /\ pool' = tx
       /\ made' = Period
       /\ cycle' = [period |-> Period, salt |-> state.salt, stage |-> "waiting"]
    \/ /\ pool \notin {NoTx, tx}
       /\ UNCHANGED <<pool, made, cycle>>

(***************************************************************************)
(* runPriceFeederCycle in a period not yet handled, up to the wait for the *)
(* delivery.                                                               *)
(***************************************************************************)
Tick(priced) ==
    /\ cycle = Idle
    /\ Period # handled
    /\ ticked' = TRUE
    /\ \/ /\ status # "active"
          /\ handled' = Period
          /\ UNCHANGED <<pool, made, cycle>>
       \/ /\ status = "active"
          /\ LET step == Step(Period, file, priced)
             IN  \/ /\ step.tx = NoTx
                    /\ handled' = Period
                    /\ UNCHANGED <<pool, made, cycle>>
                 \/ /\ step.tx # NoTx
                    /\ Broadcast(step.tx, step.state)
                    /\ UNCHANGED handled
    /\ \/ priced /\ UNCHANGED faultVars
       \/ ~priced /\ Disturbance
    /\ UNCHANGED <<chainVars, file>>

SaveFeederState(s) == file' = s

(***************************************************************************)
(* The rest of the cycle once the transaction is found in a block.         *)
(***************************************************************************)
Finish ==
    /\ cycle' = Idle
    /\ \/ /\ cycle.stage = "delivered"
          /\ SaveFeederState(IF cycle.salt = NoSalt THEN NoState
                             ELSE [period |-> cycle.period, salt |-> cycle.salt])
          /\ handled' = cycle.period
       \/ /\ cycle.stage = "failed"
          /\ UNCHANGED <<file, handled>>
    /\ UNCHANGED <<chainVars, pool, ticked, faultVars, made>>

(***************************************************************************)
(* waitForDelivery runs into its deadline, or a query of the cycle fails.  *)
(***************************************************************************)
GiveUp ==
    /\ cycle.stage \in {"idle", "waiting"}
    /\ cycle' = Idle
    /\ ticked' = TRUE
    /\ \/ Disturbance
       \/ /\ cycle.stage = "waiting" /\ pool = NoTx
          /\ trouble' = height
          /\ UNCHANGED <<faults, lost>>
    /\ UNCHANGED <<chainVars, pool, file, handled, made>>

(***************************************************************************)
(* The state cannot be saved, or the process dies; the latter forgets      *)
(* lastHandledPeriod.                                                      *)
(***************************************************************************)
SaveFails ==
    /\ cycle.stage = "delivered"
    /\ cycle' = Idle
    /\ Fault
    /\ lost' = lost \cup {cycle.period}
    /\ UNCHANGED <<chainVars, pool, file, handled, ticked, trouble, made>>

Crash ==
    /\ cycle' = Idle
    /\ handled' = 0
    /\ Fault
    /\ lost' = IF cycle = Idle THEN lost ELSE lost \cup {cycle.period}
    /\ UNCHANGED <<chainVars, pool, file, ticked, trouble, made>>

-----------------------------------------------------------------------------
(* What happens around them. *)

\* The mempool drops the transaction.
Vanish ==
    /\ pool # NoTx
    /\ pool' = NoTx
    /\ Disturbance
    /\ UNCHANGED <<chainVars, clientVars, made>>

ChangeStatus ==
    /\ \/ status = "active" /\ status' = "jailed" /\ Disturbance
       \/ status # "active" /\ status' = "active" /\ UNCHANGED faultVars
    /\ UNCHANGED <<height, votePeriod, prevote, vote, pool, clientVars, made>>

Govern ==
    /\ \E p \in VotePeriods \ {votePeriod} : votePeriod' = p
    /\ Disturbance
    /\ UNCHANGED <<height, status, prevote, vote, pool, clientVars, made>>

Init ==
    /\ height = 0
    /\ votePeriod \in VotePeriods
    /\ status = "active"
    /\ prevote = NoPrevote
    /\ vote = FALSE
    /\ pool = NoTx
    /\ file = NoState
    /\ handled = 0
    /\ cycle = Idle
    /\ ticked = FALSE
    /\ made = 0
    /\ faults = 0
    /\ trouble = 0
    /\ lost = {}

Next ==
    \/ NextBlock
    \/ \E priced \in BOOLEAN : Tick(priced)
    \/ Finish \/ GiveUp \/ SaveFails \/ Crash
    \/ Vanish \/ ChangeStatus \/ Govern

Spec == Init /\ [][Next]_vars

-----------------------------------------------------------------------------
(* Properties. *)

\* The tally in this step finds no vote of the validator.
Misses ==
    /\ height' # height
    /\ Tallies(height')
    /\ ~Delivered(height', pool # NoTx /\ pool' = NoTx).vote

(***************************************************************************)
(* "Losing a pending commit only costs one missed reveal"                  *)
(* (SaveFeederState): once everything else has gone well for four periods, *)
(* a tally is missed only if the client lost what it had not saved in the  *)
(* period for which the commit was made, so that each such loss costs one  *)
(* tally.  A transaction that slips into the next period is not "well":    *)
(* while one follows another (Straddles) nothing is promised.              *)
(***************************************************************************)
OneMissedReveal ==
    [][Misses /\ height' >= trouble' + 4 * votePeriod =>
          (height' \div votePeriod) - 2 \in lost]_vars

=============================================================================
