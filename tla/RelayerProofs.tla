----------------------------- MODULE RelayerProofs -----------------------------
(***************************************************************************)
(* The oracle client misses nothing and attests nothing unsettled, for     *)
(* every chain of Steem blocks, every setting of the client and every      *)
(* number of crashes, lost transactions and changes of status.             *)
(***************************************************************************)
EXTENDS Relayer, SumsProofs

LEMMA FirstScannedIs ==
    /\ FirstScanned \in Nat /\ FirstScanned \in {LocalStart, ChainStart}
    /\ FirstScanned >= LocalStart /\ FirstScanned >= ChainStart
<1>1. LocalStart \in Nat /\ ChainStart \in Nat
  BY RelayerAssumption
<1>2. QED
  BY <1>1, MaxOfTwo DEF FirstScanned

LEMMA HeightsAre ==
    /\ Cardinality(Heights) \in Nat /\ Heights = 1 .. Cardinality(Heights)
    /\ 1 \in Heights
<1>1. Cardinality(Heights) \in Nat
  BY RelayerAssumption, FS_CardinalityType
<1>2. QED
  BY <1>1, RelayerAssumption

-----------------------------------------------------------------------------
(* Messages. *)

LEMMA OfMessage ==
    ASSUME NEW o
    PROVE  BuildMsg(o).of = o
  BY DEF BuildMsg

(***************************************************************************)
(* Whatever the memo says, what alreadyAttested finds is the message that  *)
(* the client would send: the chain records no other about the operation.  *)
(***************************************************************************)
LEMMA AttestedIsRedundant ==
    ASSUME confirmed \subseteq Messages, closed \subseteq Messages,
           NEW o \in Operations, AlreadyAttested(o)
    PROVE  Redundant(BuildMsg(o))
<1> DEFINE m == [kind |-> RouteMemo(o), of |-> o]
<1>1. m \in Messages /\ Redundant(m)
  BY DEF AlreadyAttested, Redundant
<1>2. PICK p \in Operations : m = BuildMsg(p)
  BY <1>1 DEF Messages
<1>3. m.of = o
  OBVIOUS
<1>4. p = o
  BY <1>2, <1>3, OfMessage
<1>5. QED
  BY <1>1, <1>2, <1>4

(***************************************************************************)
(* The messages of a stretch of blocks, and what they leave out.           *)
(***************************************************************************)
LEMMA MsgsAre ==
    ASSUME NEW up, NEW m \in MsgsUpTo(up)
    PROVE  \E n \in (cursor + 1) .. up : \E o \in Steem[n] : m = BuildMsg(o)
  BY DEF MsgsUpTo, BlockMsgs

LEMMA MsgsCover ==
    ASSUME confirmed \subseteq Messages, closed \subseteq Messages,
           NEW up, NEW n \in (cursor + 1) .. up, n \in Heights, NEW o \in Steem[n],
           Actionable(o)
    PROVE  \/ Redundant(BuildMsg(o)) 
           \/ BuildMsg(o) \in MsgsUpTo(up)
           \/ o \in PassedOver(up)
<1>1. o \in Operations /\ o \in ScannedOps(up)
  BY DEF Operations, ScannedOps
<1>2. CASE ~FeatureOn(o)
  BY <1>1, <1>2 DEF PassedOver
<1>3. CASE AlreadyAttested(o)
  BY <1>1, <1>3, AttestedIsRedundant
<1>4. CASE FeatureOn(o) /\ ~AlreadyAttested(o)
  BY <1>4 DEF MsgsUpTo, BlockMsgs
<1>5. QED
  BY <1>2, <1>3, <1>4

-----------------------------------------------------------------------------
(* The invariant. *)

Done(o) == Actionable(o) => Redundant(BuildMsg(o)) \/ o \in skipped

(***************************************************************************)
(* While a cycle waits, its transaction holds what is missing up to the    *)
(* block it waits for; a transaction that was executed has left nothing to *)
(* do.                                                                     *)
(***************************************************************************)
Waits ==
    /\ waiting # 0 =>
          /\ cursor < waiting /\ waiting <= lib
          /\ \A n \in Heights : cursor < n /\ n <= waiting =>
                \A o \in Steem[n] : Done(o) \/ BuildMsg(o) \in tx.msgs
    /\ tx.status = "ok" => \A m \in tx.msgs : Redundant(m)

IInv == TypeOK /\ OnlySettled /\ Waits

(***************************************************************************)
(* The last block that fits, and what the cycle scans and sends.           *)
(***************************************************************************)
LEMMA LastFullBlockIs ==
    ASSUME TypeOK
    PROVE  /\ LastFullBlock \in Nat
           /\ LastFullBlock = cursor \/ (cursor < LastFullBlock /\ LastFullBlock <= lib)
<1> DEFINE S == {cursor} \cup {n \in (cursor + 1) .. ScanTo :
                                  Cardinality(MsgsUpTo(n)) <= MaxMsgsPerTx}
           b == IF ScanTo <= cursor THEN cursor ELSE ScanTo
<1>1. lib \in Int /\ cursor \in Nat /\ cursor + MaxBlocksPerPoll \in Int
  BY HeightsAre, RelayerAssumption DEF TypeOK
<1>2. ScanTo \in Int /\ ScanTo <= lib
  BY <1>1, MinOfTwo DEF ScanTo
<1>3. S \in SUBSET Int /\ S # {} /\ b \in Int /\ \A x \in S : x <= b
  BY <1>1, <1>2
<1>4. LastFullBlock = Max(S)
  BY DEF LastFullBlock
<1>5. Max(S) \in S
  <2> HIDE DEF S, b
  <2> QED BY <1>3, MaxOf
<1>6. QED
  BY <1>1, <1>2, <1>4, <1>5

LEMMA Anchored ==
    ASSUME NEW c \in Nat
    PROVE  /\ AnchoredCursor(c) \in Nat /\ AnchoredCursor(c) >= c
           /\ AnchoredCursor(c) >= ChainStart - 1
           /\ AnchoredCursor(c) = c \/ AnchoredCursor(c) = ChainStart - 1
  BY RelayerAssumption DEF AnchoredCursor

LEMMA InitialIs ==
    ASSUME TypeOK
    PROVE  /\ InitialCursor \in Nat
           /\ FirstScanned > 0 => AnchoredCursor(InitialCursor) < FirstScanned
<1>1. lib \in Nat /\ LocalStart \in Nat /\ ChainStart \in Nat
  BY HeightsAre, RelayerAssumption DEF TypeOK
<1>2. InitialCursor = IF LocalStart > 0 THEN LocalStart - 1
                      ELSE IF ChainStart > 0 THEN ChainStart - 1 ELSE lib
  BY <1>1 DEF InitialCursor
<1>3. FirstScanned >= LocalStart /\ FirstScanned >= ChainStart
      /\ FirstScanned \in {LocalStart, ChainStart}
  BY FirstScannedIs
<1>4. QED
  BY <1>1, <1>2, <1>3 DEF AnchoredCursor

-----------------------------------------------------------------------------
(* The steps. *)

(***************************************************************************)
(* A scan and the broadcast of what it found.                              *)
(***************************************************************************)
LEMMA ScanKeeps ==
    ASSUME IInv, waiting = 0, cursor # 0, AnchoredCursor(cursor) = cursor,
           LastFullBlock # cursor,
           Broadcast(MsgsUpTo(LastFullBlock), LastFullBlock),
           skipped' = PassedOver(LastFullBlock),
           UNCHANGED <<lib, flags, able, chainVars, faults>>
    PROVE  IInv'
<1> DEFINE up == LastFullBlock
           msgs == MsgsUpTo(LastFullBlock)
<1>1. /\ lib \in Heights /\ lib \in Nat /\ cursor \in Nat
      /\ confirmed \subseteq Messages /\ closed \subseteq Messages
  BY HeightsAre DEF IInv, TypeOK
<1>2. up \in Nat /\ cursor < up /\ up <= lib
  BY LastFullBlockIs DEF IInv
<1>3. cursor >= ChainStart - 1 /\ ChainStart \in Nat
  BY <1>1, Anchored, RelayerAssumption
<1>4. \A n \in (cursor + 1) .. up : n \in Heights /\ n \in ChainStart .. lib
  BY <1>1, <1>2, <1>3, HeightsAre
<1>5. tx'.msgs = msgs /\ tx'.status = "pending" /\ waiting' = up
  BY DEF Broadcast, IInv, TypeOK
<1>6. cursor' = cursor /\ file' = file
  BY DEF Broadcast
<1>7. \A m \in msgs : \E n \in (cursor + 1) .. up : \E o \in Steem[n] : m = BuildMsg(o)
  BY MsgsAre
<1>8. msgs \subseteq Messages
  BY <1>4, <1>7 DEF Messages, Operations
<1>9. tx' \in [status : {"none", "pending", "ok", "failed"}, msgs : SUBSET Messages]
  <2>1. CASE UNCHANGED tx
    BY <2>1 DEF IInv, TypeOK
  <2>2. CASE tx' = [status |-> "pending", msgs |-> msgs]
    <3> HIDE DEF msgs
    <3> QED BY <2>2, <1>8
  <2>3. QED
    BY <2>1, <2>2 DEF Broadcast
<1>10. skipped' \subseteq Operations
  <2>1. ScannedOps(up) \subseteq Operations
    BY <1>4 DEF ScannedOps, Operations
  <2>2. QED
    BY <2>1 DEF PassedOver, IInv, TypeOK
<1>11. TypeOK'
  BY <1>1, <1>2, <1>5, <1>6, <1>9, <1>10 DEF IInv, TypeOK, chainVars
<1>12. OnlySettled'
  <2> SUFFICES ASSUME NEW m \in msgs
               PROVE  \E n \in ChainStart .. lib' : n \in Heights /\ m.of \in Steem[n]
    BY <1>5 DEF OnlySettled
  <2>1. PICK n \in (cursor + 1) .. up : \E o \in Steem[n] : m = BuildMsg(o)
    BY <1>7
  <2>2. m.of \in Steem[n]
    BY <2>1, OfMessage
  <2>3. lib' = lib
    OBVIOUS
  <2>4. QED
    BY <2>1, <2>2, <2>3, <1>4
<1>13. Waits'
  <2>1. ASSUME NEW n \in Heights, cursor < n, n <= up, NEW o \in Steem[n]
        PROVE  Done(o)' \/ BuildMsg(o) \in tx'.msgs
    <3>1. n \in (cursor + 1) .. up
      BY <2>1, <1>1, <1>2, HeightsAre
    <3>2. Actionable(o) => \/ Redundant(BuildMsg(o)) \/ BuildMsg(o) \in msgs
                           \/ o \in skipped'
      BY <3>1, <1>1, MsgsCover
    <3>3. Redundant(BuildMsg(o))' = Redundant(BuildMsg(o))
      BY DEF Redundant, chainVars
    <3>4. QED
      BY <3>2, <3>3, <1>5 DEF Done
  <2>2. QED
    BY <2>1, <1>2, <1>5, <1>6 DEF Waits
<1>14. QED
  BY <1>11, <1>12, <1>13 DEF IInv

(***************************************************************************)
(* The cursor moves and no cycle waits.                                    *)
(***************************************************************************)
LEMMA SaveKeeps ==
    ASSUME IInv, NEW c \in Nat, c >= cursor, SaveState(c), waiting' = 0,
           skipped' \subseteq Operations,
           UNCHANGED <<lib, flags, able, chainVars, tx, faults>>
    PROVE  IInv'
<1>1. TypeOK'
  BY DEF SaveState, IInv, TypeOK, chainVars
<1>2. OnlySettled'
  BY DEF IInv, OnlySettled
<1>3. Waits'
  BY DEF IInv, Waits, Redundant, chainVars
<1>4. QED
  BY <1>1, <1>2, <1>3 DEF IInv

LEMMA RunCycleKeeps ==
    ASSUME IInv, RunCycle
    PROVE  IInv'
<1>1. TypeOK /\ cursor \in Nat /\ waiting = 0
  BY DEF IInv, TypeOK, RunCycle
<1>2. UNCHANGED <<lib, flags, able, chainVars, faults>>
  BY DEF RunCycle
<1>3. CASE /\ cursor = 0
           /\ SaveState(AnchoredCursor(InitialCursor))
           /\ UNCHANGED <<waiting, tx, skipped>>
  <2>1. AnchoredCursor(InitialCursor) \in Nat /\ AnchoredCursor(InitialCursor) >= cursor
    BY <1>1, <1>3, InitialIs, Anchored
  <2>2. skipped' \subseteq Operations /\ waiting' = 0
    BY <1>1, <1>3 DEF TypeOK
  <2>3. QED
    BY <1>2, <1>3, <2>1, <2>2, SaveKeeps
<1>4. CASE /\ cursor # 0 /\ AnchoredCursor(cursor) # cursor
           /\ SaveState(AnchoredCursor(cursor))
           /\ UNCHANGED <<waiting, tx, skipped>>
  <2>1. AnchoredCursor(cursor) \in Nat /\ AnchoredCursor(cursor) >= cursor
    BY <1>1, Anchored
  <2>2. skipped' \subseteq Operations /\ waiting' = 0
    BY <1>1, <1>4 DEF TypeOK
  <2>3. QED
    BY <1>2, <1>4, <2>1, <2>2, SaveKeeps
<1>5. CASE /\ cursor # 0 /\ AnchoredCursor(cursor) = cursor
           /\ LastFullBlock # cursor
           /\ SaveState(LastFullBlock) /\ UNCHANGED <<waiting, tx>>
           /\ skipped' = PassedOver(LastFullBlock)
  <2>1. LastFullBlock \in Nat /\ LastFullBlock >= cursor /\ LastFullBlock <= lib
    BY <1>1, <1>5, LastFullBlockIs
  <2>2. ScannedOps(LastFullBlock) \subseteq Operations
    <3>1. \A n \in (cursor + 1) .. LastFullBlock : n \in Heights
      BY <1>1, <2>1, HeightsAre DEF TypeOK
    <3>2. QED
      BY <3>1 DEF ScannedOps, Operations
  <2>3. skipped' \subseteq Operations /\ waiting' = 0
    BY <1>1, <1>5, <2>2 DEF TypeOK, PassedOver
  <2>4. QED
    BY <1>2, <1>5, <2>1, <2>3, SaveKeeps
<1>6. CASE /\ cursor # 0 /\ AnchoredCursor(cursor) = cursor
           /\ LastFullBlock # cursor
           /\ Broadcast(MsgsUpTo(LastFullBlock), LastFullBlock)
           /\ skipped' = PassedOver(LastFullBlock)
  BY <1>1, <1>2, <1>6, ScanKeeps
<1>7. QED
  BY <1>3, <1>4, <1>5, <1>6, Zenon DEF RunCycle

LEMMA WaitKeeps ==
    ASSUME IInv, WaitForDelivery
    PROVE  IInv'
<1>1. waiting \in Nat /\ cursor \in Nat /\ cursor < waiting
  BY DEF IInv, TypeOK, Waits, WaitForDelivery
<1>2. waiting' = 0 /\ UNCHANGED <<lib, flags, able, chainVars, tx, skipped>>
  BY DEF WaitForDelivery
<1>3. CASE SaveState(waiting) /\ UNCHANGED faults
  BY <1>1, <1>2, <1>3, SaveKeeps DEF IInv, TypeOK
<1>4. CASE UNCHANGED <<cursor, file, faults>>
  BY <1>1, <1>2, <1>4, SaveKeeps DEF IInv, TypeOK, SaveState
<1>5. CASE GiveUp
  <2>1. faults' \in 0 .. MaxFaults
    BY <1>5, RelayerAssumption DEF GiveUp, DeadlinePassed, IInv, TypeOK
  <2>2. TypeOK'
    BY <1>2, <1>5, <2>1 DEF GiveUp, IInv, TypeOK, chainVars
  <2>3. OnlySettled' /\ Waits'
    BY <1>2 DEF IInv, OnlySettled, Waits, Redundant, chainVars
  <2>4. QED
    BY <2>2, <2>3 DEF IInv
<1>6. QED
  BY <1>3, <1>4, <1>5 DEF WaitForDelivery

LEMMA RestartKeeps ==
    ASSUME IInv, Restart
    PROVE  IInv'
<1>1. TypeOK'
  BY RelayerAssumption DEF Restart, IInv, TypeOK, chainVars
<1>2. OnlySettled' /\ Waits'
  BY DEF Restart, IInv, OnlySettled, Waits, Redundant, chainVars
<1>3. QED
  BY <1>1, <1>2 DEF IInv

LEMMA IrreversibleKeeps ==
    ASSUME IInv, Irreversible
    PROVE  IInv'
<1>1. lib \in Nat /\ lib' = lib + 1 /\ lib' \in Heights
  BY HeightsAre DEF IInv, TypeOK, Irreversible
<1>2. UNCHANGED <<flags, able, chainVars, tx, clientVars, skipped, faults>>
  BY DEF Irreversible
<1>3. TypeOK'
  BY <1>1, <1>2 DEF IInv, TypeOK, chainVars, clientVars
<1>4. OnlySettled'
  <2>1. ChainStart .. lib \subseteq ChainStart .. lib'
    BY <1>1, RelayerAssumption
  <2>2. QED
    BY <1>2, <2>1 DEF IInv, OnlySettled
<1>5. Waits'
  <2>1. waiting \in Nat /\ waiting' = waiting /\ cursor' = cursor /\ tx' = tx
    BY <1>2 DEF IInv, TypeOK, clientVars
  <2>2. \A o : Done(o)' = Done(o)
    BY <1>2 DEF Done, Redundant, chainVars, Actionable
  <2>3. \A m : Redundant(m)' = Redundant(m)
    BY <1>2 DEF Redundant, chainVars
  <2>4. QED
    BY <1>1, <2>1, <2>2, <2>3 DEF IInv, Waits
<1>6. QED
  BY <1>3, <1>4, <1>5 DEF IInv

(***************************************************************************)
(* The chain records attestations and forgets none.                        *)
(***************************************************************************)
LEMMA ChainKeeps ==
    ASSUME IInv, confirmed \subseteq confirmed', closed \subseteq closed',
           confirmed' \subseteq Messages, closed' \subseteq Messages,
           tx'.msgs = tx.msgs,
           tx' \in [status : {"none", "pending", "ok", "failed"}, msgs : SUBSET Messages],
           tx'.status = "ok" => \A m \in tx.msgs : m \in confirmed' \cup closed',
           faults' \in 0 .. MaxFaults, flags' \in FlagChoices, able' \in BOOLEAN,
           UNCHANGED <<lib, clientVars, skipped>>
    PROVE  IInv'
<1>1. TypeOK'
  BY DEF IInv, TypeOK, clientVars
<1>2. OnlySettled'
  BY DEF IInv, OnlySettled
<1>3. Waits'
  <2>1. \A o : Done(o) => Done(o)'
    BY DEF Done, Redundant, Actionable
  <2>2. waiting' = waiting /\ cursor' = cursor /\ lib' = lib
    BY DEF clientVars
  <2>3. tx'.status = "ok" => \A m \in tx.msgs : Redundant(m)'
    BY DEF Redundant
  <2>4. QED
    BY <2>1, <2>2, <2>3 DEF IInv, Waits
<1>4. QED
  BY <1>1, <1>2, <1>3 DEF IInv

LEMMA DeliverKeeps ==
    ASSUME IInv, Deliver
    PROVE  IInv'
<1>1. /\ tx \in [status : {"none", "pending", "ok", "failed"}, msgs : SUBSET Messages]
      /\ confirmed \subseteq Messages /\ closed \subseteq Messages
  BY DEF IInv, TypeOK
<1>2. UNCHANGED <<lib, flags, able, closed, clientVars, skipped, faults>>
  BY DEF Deliver, Recorded
<1>3. CASE /\ confirmed' = confirmed \cup {m \in tx.msgs : ~Redundant(m)}
           /\ tx' = [tx EXCEPT !.status = "ok"]
  <2>1. tx.msgs \subseteq Messages /\ tx'.msgs = tx.msgs
    BY <1>1, <1>3
  <2>2. \A m \in tx.msgs : m \in confirmed' \cup closed'
    BY <1>2, <1>3 DEF Redundant
  <2>3. tx' \in [status : {"none", "pending", "ok", "failed"}, msgs : SUBSET Messages]
    BY <1>1, <1>3
  <2>4. confirmed \subseteq confirmed' /\ confirmed' \subseteq Messages
    BY <1>1, <1>3, <2>1
  <2>5. QED
    BY <1>1, <1>2, <2>1, <2>2, <2>3, <2>4, ChainKeeps DEF IInv, TypeOK
<1>4. CASE tx' = [tx EXCEPT !.status = "failed"] /\ UNCHANGED confirmed
  <2>1. /\ tx' \in [status : {"none", "pending", "ok", "failed"}, msgs : SUBSET Messages]
        /\ tx'.msgs = tx.msgs /\ tx'.status = "failed"
    BY <1>1, <1>4
  <2>2. QED
    BY <1>1, <1>2, <1>4, <2>1, ChainKeeps DEF IInv, TypeOK
<1>5. QED
  BY <1>3, <1>4 DEF Deliver, Recorded

LEMMA SurroundingsKeep ==
    ASSUME IInv, Drop \/ Close \/ Change
    PROVE  IInv'
<1>1. /\ tx \in [status : {"none", "pending", "ok", "failed"}, msgs : SUBSET Messages]
      /\ confirmed \subseteq Messages /\ closed \subseteq Messages
      /\ flags \in FlagChoices /\ able \in BOOLEAN
      /\ faults \in 0 .. MaxFaults /\ MaxFaults \in Nat /\ lib \in Heights
  BY RelayerAssumption DEF IInv, TypeOK
<1>2. tx.status = "ok" => \A m \in tx.msgs : m \in confirmed \cup closed
  BY DEF IInv, Waits, Redundant
<1>3. CASE Drop
  <2>1. /\ tx' \in [status : {"none", "pending", "ok", "failed"}, msgs : SUBSET Messages]
        /\ tx'.msgs = tx.msgs /\ tx'.status = "none"
    BY <1>1, <1>3 DEF Drop
  <2>2. faults' \in 0 .. MaxFaults
    BY <1>1, <1>3 DEF Drop
  <2>3. QED
    BY <1>1, <1>3, <2>1, <2>2, ChainKeeps DEF Drop, chainVars
<1>4. CASE Close
  <2>1. PICK n \in Max({1, ChainStart}) .. lib : \E o \in Steem[n] :
               closed' = closed \cup {BuildMsg(o)}
    BY <1>4 DEF Close
  <2>2. n \in Heights
    <3>1. Max({1, ChainStart}) \in Int /\ Max({1, ChainStart}) >= 1
      <4>1. 1 \in Int /\ ChainStart \in Int
        BY RelayerAssumption
      <4>2. /\ Max({1, ChainStart}) \in {1, ChainStart}
            /\ Max({1, ChainStart}) >= 1
        BY ONLY <4>1, MaxOfTwo
      <4>3. QED
        BY <4>1, <4>2
    <3>2. QED
      BY <1>1, <2>1, <3>1, HeightsAre
  <2>3. closed \subseteq closed' /\ closed' \subseteq Messages
    BY <1>1, <2>1, <2>2 DEF Messages, Operations
  <2>4. UNCHANGED <<lib, flags, able, confirmed, tx, clientVars, skipped, faults>>
    BY <1>4 DEF Close
  <2>5. QED
    BY <1>1, <1>2, <2>3, <2>4, ChainKeeps
<1>5. CASE Change
  <2>1. faults' \in 0 .. MaxFaults
    BY <1>1, <1>5 DEF Change
  <2>2. flags' \in FlagChoices /\ able' \in BOOLEAN
    BY Zenon, <1>1, <1>5 DEF Change
  <2>3. QED
    BY <1>1, <1>2, <1>5, <2>1, <2>2, ChainKeeps DEF Change, chainVars
<1>6. QED
  BY <1>3, <1>4, <1>5

LEMMA StutterKeeps ==
    ASSUME IInv, UNCHANGED vars
    PROVE  IInv'
  BY DEF IInv, TypeOK, OnlySettled, Waits, Done, Redundant, Actionable, vars,
         chainVars, clientVars

-----------------------------------------------------------------------------
(* The theorems. *)

(***************************************************************************)
(* The invariant holds throughout.                                         *)
(***************************************************************************)
THEOREM Invariance == Spec => []IInv
<1>1. Init => IInv
  <2> SUFFICES ASSUME Init PROVE IInv
    OBVIOUS
  <2>1. TypeOK
    BY HeightsAre, RelayerAssumption DEF Init, TypeOK
  <2>2. OnlySettled /\ Waits
    BY DEF Init, OnlySettled, Waits
  <2>3. QED
    BY <2>1, <2>2 DEF IInv
<1>2. IInv /\ [Next]_vars => IInv'
  BY RunCycleKeeps, WaitKeeps, RestartKeeps, IrreversibleKeeps, DeliverKeeps,
     SurroundingsKeep, StutterKeeps DEF Next
<1>3. QED
  BY <1>1, <1>2, PTL DEF Spec

(***************************************************************************)
(* The variables keep their shape, and the state file never runs ahead of  *)
(* the cursor (SaveState, LoadState).                                      *)
(***************************************************************************)
THEOREM TypeCorrect == Spec => []TypeOK
<1>1. IInv => TypeOK
  BY DEF IInv
<1>2. QED
  BY <1>1, Invariance, PTL

(***************************************************************************)
(* The client attests only what lies in irreversible blocks at or after    *)
(* the chain's anchor (runCycle, anchoredCursor).                          *)
(***************************************************************************)
THEOREM AttestsSettled == Spec => []OnlySettled
<1>1. IInv => OnlySettled
  BY DEF IInv
<1>2. QED
  BY <1>1, Invariance, PTL

(***************************************************************************)
(* A step in which the cursor does not grow, nothing recorded is forgotten *)
(* and nothing passed over is forgotten keeps all that was done.           *)
(***************************************************************************)
LEMMA NothingUndone ==
    ASSUME IInv, NothingMissed, cursor' \in Nat, cursor' <= cursor,
           confirmed \subseteq confirmed', closed \subseteq closed', skipped' = skipped
    PROVE  NothingMissed'
<1>1. cursor \in Nat /\ FirstScanned \in Int
  BY FirstScannedIs DEF IInv, TypeOK
<1>2. \A m : Redundant(m) => Redundant(m)'
  BY DEF Redundant
<1>3. \A n \in Heights : n <= cursor' => n <= cursor
  BY <1>1, HeightsAre
<1>4. QED
  BY <1>2, <1>3 DEF NothingMissed, Actionable

(***************************************************************************)
(* A scan decides anew about the blocks beyond the cursor only.            *)
(***************************************************************************)
LEMMA ScanForgetsNone ==
    ASSUME IInv, NEW up \in Nat, up <= lib, NEW n \in Heights, n <= cursor,
           NEW o \in Steem[n], o \in skipped
    PROVE  o \in PassedOver(up)
<1>1. \A k \in (cursor + 1) .. up : k \in Heights /\ k # n
  BY HeightsAre DEF IInv, TypeOK
<1>2. \A k \in (cursor + 1) .. up : o \notin Steem[k]
  BY <1>1, RelayerAssumption
<1>3. QED
  BY <1>2 DEF PassedOver, ScannedOps

LEMMA RunCycleMisses ==
    ASSUME KnownStart, IInv, NothingMissed, RunCycle
    PROVE  NothingMissed'
<1>1. /\ TypeOK /\ cursor \in Nat /\ lib \in Nat
      /\ confirmed \subseteq Messages /\ closed \subseteq Messages
  BY HeightsAre DEF IInv, TypeOK
<1>2. UNCHANGED chainVars
  BY DEF RunCycle
<1>3. \A m : Redundant(m)' = Redundant(m)
  BY <1>2 DEF Redundant, chainVars
<1>4. LocalStart \in Int /\ ChainStart \in Int
  BY RelayerAssumption
<1>5. FirstScanned \in Int /\ FirstScanned >= ChainStart
  BY FirstScannedIs
<1>6. CASE cursor = 0 /\ SaveState(AnchoredCursor(InitialCursor))
  <2>1. cursor' < FirstScanned /\ cursor' \in Nat
    BY <1>1, <1>6, InitialIs, Anchored DEF KnownStart, SaveState
  <2>2. QED
    BY <2>1, <1>5, HeightsAre DEF NothingMissed
<1>7. CASE /\ AnchoredCursor(cursor) # cursor
           /\ SaveState(AnchoredCursor(cursor))
  <2>1. cursor' < FirstScanned /\ cursor' \in Nat
    BY <1>1, <1>4, <1>5, <1>7, Anchored DEF SaveState
  <2>2. QED
    BY <2>1, <1>5, HeightsAre DEF NothingMissed
<1>8. ASSUME LastFullBlock # cursor, skipped' = PassedOver(LastFullBlock),
             \/ MsgsUpTo(LastFullBlock) = {} /\ cursor' = LastFullBlock
             \/ cursor' = cursor
      PROVE  NothingMissed'
  <2>1. LastFullBlock \in Nat /\ cursor < LastFullBlock /\ LastFullBlock <= lib
    BY <1>1, <1>8, LastFullBlockIs
  <2> SUFFICES ASSUME NEW n \in Heights, FirstScanned <= n, n <= cursor',
                      NEW o \in Steem[n], Actionable(o)
               PROVE  Redundant(BuildMsg(o)) \/ o \in skipped'
    BY <1>3 DEF NothingMissed, Actionable
  <2>2. CASE n <= cursor
    <3>1. Redundant(BuildMsg(o)) \/ o \in skipped
      BY <2>2 DEF NothingMissed
    <3>2. QED
      BY <3>1, <2>1, <2>2, <1>8, ScanForgetsNone
  <2>3. CASE ~(n <= cursor)
    <3>1. n \in (cursor + 1) .. LastFullBlock /\ MsgsUpTo(LastFullBlock) = {}
      BY <2>1, <2>3, <1>1, <1>8, HeightsAre
    <3>2. QED
      BY <3>1, <1>1, <1>8, MsgsCover
  <2>4. QED
    BY <2>2, <2>3
<1>9. QED
  BY <1>6, <1>7, <1>8, Zenon DEF RunCycle, SaveState, Broadcast

LEMMA WaitMisses ==
    ASSUME IInv, NothingMissed, WaitForDelivery
    PROVE  NothingMissed'
<1>1. cursor \in Nat /\ waiting \in Nat /\ waiting # 0
  BY DEF IInv, TypeOK, WaitForDelivery
<1>2. confirmed' = confirmed /\ closed' = closed /\ skipped' = skipped
  BY DEF WaitForDelivery, chainVars
<1>3. CASE cursor' = cursor
  BY <1>1, <1>2, <1>3, NothingUndone
<1>4. CASE tx.status = "ok" /\ cursor' = waiting
  <2>1. \A m : Redundant(m)' = Redundant(m)
    BY <1>2 DEF Redundant
  <2>2. \A n \in Heights : cursor < n /\ n <= waiting =>
            \A o \in Steem[n] : Done(o) \/ BuildMsg(o) \in tx.msgs
    BY <1>1 DEF IInv, Waits
  <2>3. \A m \in tx.msgs : Redundant(m)
    BY <1>4 DEF IInv, Waits
  <2>4. \A n \in Heights : n \in Int
    BY HeightsAre
  <2> SUFFICES ASSUME NEW n \in Heights, FirstScanned <= n, n <= waiting,
                      NEW o \in Steem[n], Actionable(o)
               PROVE  Redundant(BuildMsg(o)) \/ o \in skipped
    BY <1>2, <1>4, <2>1 DEF NothingMissed, Actionable
  <2>5. CASE n <= cursor
    BY <2>5 DEF NothingMissed
  <2>6. CASE ~(n <= cursor)
    <3>1. cursor < n
      BY <2>4, <2>6, <1>1
    <3>2. QED
      BY <3>1, <2>2, <2>3 DEF Done
  <2>7. QED
    BY <2>5, <2>6
<1>5. QED
  BY <1>3, <1>4 DEF WaitForDelivery, SaveState, GiveUp

(***************************************************************************)
(* Where the start is known, the cursor passes no operation before it is   *)
(* attested, redundant, or its feature was off: not when the process dies, *)
(* not when a transaction is lost or arrives late (runCycle, broadcastTx,  *)
(* waitForDelivery, SaveState).                                            *)
(***************************************************************************)
THEOREM MissesNothing ==
    ASSUME KnownStart
    PROVE  Spec => []NothingMissed
<1>1. Init => NothingMissed
  <2> SUFFICES ASSUME Init PROVE NothingMissed
    OBVIOUS
  <2>1. cursor < FirstScanned /\ cursor \in Nat
    BY RelayerAssumption DEF Init, KnownStart
  <2>2. FirstScanned \in Int
    BY FirstScannedIs
  <2>3. QED
    BY <2>1, <2>2, HeightsAre DEF NothingMissed
<1>2. IInv /\ NothingMissed /\ [Next]_vars => NothingMissed'
  <2> SUFFICES ASSUME IInv, NothingMissed, [Next]_vars PROVE NothingMissed'
    OBVIOUS
  <2>1. CASE RunCycle
    BY <2>1, RunCycleMisses
  <2>2. CASE WaitForDelivery
    BY <2>2, WaitMisses
  <2>3. CASE ~RunCycle /\ ~WaitForDelivery
    <3>1. cursor \in Nat /\ file \in Nat /\ file <= cursor
      BY DEF IInv, TypeOK
    <3>2. cursor' \in {cursor, file} /\ skipped' = skipped
      BY <2>3 DEF Next, Restart, Irreversible, Deliver, Recorded, Drop, Close, Change, vars,
                  clientVars
    <3>3. confirmed \subseteq confirmed' /\ closed \subseteq closed'
      BY <2>3 DEF Next, Restart, Irreversible, Deliver, Recorded, Drop, Close, Change, vars,
                  chainVars
    <3>4. QED
      BY <3>1, <3>2, <3>3, NothingUndone
  <2>4. QED
    BY <2>1, <2>2, <2>3
<1>3. QED
  BY <1>1, <1>2, Invariance, PTL DEF Spec

=============================================================================
