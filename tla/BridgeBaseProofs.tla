--------------------------- MODULE BridgeBaseProofs ---------------------------
(***************************************************************************)
(* Facts about the amounts that bridge-in, bridge-out and the name service *)
(* move, and about the bounded sweeps at the block's end.                  *)
(***************************************************************************)
EXTENDS BridgeBase, SumsProofs

-----------------------------------------------------------------------------
(* Amounts. *)

(***************************************************************************)
(* ApplyBridgeFee never takes more than there is, even when gross * bps    *)
(* overflows the machine word: the fee is at most the gross amount.        *)
(***************************************************************************)
LEMMA FeeBound ==
    ASSUME NEW gross \in Nat, NEW bps \in Nat
    PROVE  BridgeFee(gross, bps) \in Nat /\ BridgeFee(gross, bps) <= gross
<1>1. CASE bps = 0
  BY <1>1 DEF BridgeFee
<1>2. CASE bps >= 10000
  BY <1>2 DEF BridgeFee
<1>3. CASE bps # 0 /\ bps < 10000
  <2> DEFINE product == gross * bps
  <2>1. product \in Nat /\ product <= gross * 10000
    BY <1>3
  <2>2. UintMod \in Nat /\ UintMod > 0
    BY BaseAssumption
  <2> HIDE DEF product
  <2>3. product % UintMod \in Nat /\ product % UintMod <= product
    BY <2>1, <2>2
  <2>4. (product % UintMod) \div 10000 \in Nat
        /\ (product % UintMod) \div 10000 <= gross
    BY <2>1, <2>3
  <2>5. BridgeFee(gross, bps) = (product % UintMod) \div 10000
    BY <1>3 DEF BridgeFee, product
  <2>6. QED
    BY <2>4, <2>5
<1>4. QED
  BY <1>1, <1>2, <1>3

(***************************************************************************)
(* What creditBridged pays out is what it mints: net and fee are natural   *)
(* numbers that add up to the gross amount.                                *)
(***************************************************************************)
THEOREM FeeConserved ==
    ASSUME NEW gross \in Nat, NEW bps \in Nat
    PROVE  /\ ApplyBridgeFee(gross, bps).net \in Nat
           /\ ApplyBridgeFee(gross, bps).fee \in Nat
           /\ ApplyBridgeFee(gross, bps).net + ApplyBridgeFee(gross, bps).fee = gross
<1> DEFINE fee == BridgeFee(gross, bps)
<1>1. fee \in Nat /\ fee <= gross
  BY FeeBound
<1>2. /\ ApplyBridgeFee(gross, bps).net = gross - fee
      /\ ApplyBridgeFee(gross, bps).fee = fee
  BY DEF ApplyBridgeFee
<1> HIDE DEF fee
<1>3. QED
  BY <1>1, <1>2

LEMMA AsteemType ==
    ASSUME NEW m \in Nat
    PROVE  MillisteemToAsteem(m) \in Nat
  BY BaseAssumption DEF MillisteemToAsteem

(***************************************************************************)
(* creditBridged leaves every balance a natural number; in particular the  *)
(* black hole is never overdrawn.                                          *)
(***************************************************************************)
LEMMA CreditedBankType ==
    ASSUME bank \in [Holders -> [Assets -> Nat]],
           NEW dest, NEW asset \in Assets, NEW gross \in Nat, NEW bps \in Nat
    PROVE  /\ CreditedBank(dest, asset, gross, bps) \in [Holders -> [Assets -> Nat]]
           /\ CreditedBank(dest, asset, gross, bps)[BlackHole][asset] =
                 IF dest = BlackHole
                   THEN bank[BlackHole][asset]
                        + MillisteemToAsteem(ApplyBridgeFee(gross, bps).net)
                   ELSE bank[BlackHole][asset]
<1> DEFINE net == ApplyBridgeFee(gross, bps).net
           fee == ApplyBridgeFee(gross, bps).fee
<1>1. net \in Nat /\ fee \in Nat /\ net + fee = gross
  BY FeeConserved
<1> HIDE DEF net, fee
<1>2. /\ MillisteemToAsteem(net) \in Nat /\ MillisteemToAsteem(fee) \in Nat
      /\ MillisteemToAsteem(gross) \in Nat
      /\ MillisteemToAsteem(gross) = MillisteemToAsteem(net) + MillisteemToAsteem(fee)
  BY <1>1, AsteemType, BaseAssumption DEF MillisteemToAsteem
<1> DEFINE g == MillisteemToAsteem(gross)
           n == MillisteemToAsteem(net)
           e == MillisteemToAsteem(fee)
<1>3. g \in Nat /\ n \in Nat /\ e \in Nat /\ g - n - e = 0
  BY <1>2
<1>4. CreditedBank(dest, asset, gross, bps) =
        [h \in Holders |-> [a \in Assets |->
            IF a # asset THEN bank[h][a]
            ELSE bank[h][a] + (IF h = BlackHole THEN g - n - e ELSE 0)
                 + (IF h = dest THEN n ELSE 0)
                 + (IF h = BridgeReward THEN e ELSE 0)]]
  BY DEF CreditedBank, net, fee
<1> HIDE DEF g, n, e
<1>5. ASSUME NEW h \in Holders, NEW a \in Assets
      PROVE  bank[h][a] \in Nat
  OBVIOUS
<1>6. BlackHole \in Holders /\ BlackHole # BridgeReward
  BY DEF Holders, BlackHole, BridgeReward
<1>7. QED
  BY <1>3, <1>4, <1>5, <1>6 DEF n, net

(***************************************************************************)
(* creditBridged adds the gross amount to the coins of its asset and to no *)
(* other, and leaves nothing in the black hole: the recipient is a user,   *)
(* or gets nothing.                                                        *)
(***************************************************************************)
CoinsOf(bal, a) == Sum([h \in Holders |-> bal[h][a]], Holders)

LEMMA HoldersFinite ==
    /\ IsFiniteSet(Holders) /\ BlackHole \in Holders /\ BridgeReward \in Holders
    /\ Users \subseteq Holders /\ BlackHole # BridgeReward
    /\ BlackHole \notin Users /\ BridgeReward \notin Users
<1>1. BlackHole # BridgeReward
  BY DEF BlackHole, BridgeReward
<1>2. IsFiniteSet(Users \cup {BridgeReward})
  BY FS_AddElement, BaseAssumption
<1>3. IsFiniteSet((Users \cup {BridgeReward}) \cup {BlackHole})
  BY <1>2, FS_AddElement
<1>4. (Users \cup {BridgeReward}) \cup {BlackHole} = Holders
  BY Zenon DEF Holders
<1>5. QED
  BY Zenon, <1>1, <1>3, <1>4, BaseAssumption DEF Holders

LEMMA CreditMoves ==
    ASSUME bank \in [Holders -> [Assets -> Nat]],
           NEW dest, NEW asset \in Assets, NEW gross \in Nat, NEW bps \in Nat,
           dest \in Users \/ ApplyBridgeFee(gross, bps).net = 0,
           NEW new, new = CreditedBank(dest, asset, gross, bps), NEW a \in Assets
    PROVE  /\ new[BlackHole][a] = bank[BlackHole][a]
           /\ CoinsOf(new, a) = CoinsOf(bank, a)
                 + (IF a = asset THEN MillisteemToAsteem(gross) ELSE 0)
<1> DEFINE net == ApplyBridgeFee(gross, bps).net
           fee == ApplyBridgeFee(gross, bps).fee
           n == IF a = asset THEN MillisteemToAsteem(net) ELSE 0
           e == IF a = asset THEN MillisteemToAsteem(fee) ELSE 0
           g == IF a = asset THEN MillisteemToAsteem(gross) ELSE 0
           old == [h \in Holders |-> bank[h][a]]
           mid == [h \in Holders |-> old[h] + IF h = dest THEN n ELSE 0]
           end == [h \in Holders |-> mid[h] + IF h = BridgeReward THEN e ELSE 0]
<1>1. net \in Nat /\ fee \in Nat /\ net + fee = gross
  BY Zenon, FeeConserved
<1>2. dest \in Users \/ net = 0
  BY Zenon
<1>3. new = [h \in Holders |-> [b \in Assets |->
            IF b # asset THEN bank[h][b]
            ELSE bank[h][b]
                 + (IF h = BlackHole
                      THEN MillisteemToAsteem(gross) - MillisteemToAsteem(net)
                              - MillisteemToAsteem(fee) ELSE 0)
                 + (IF h = dest THEN MillisteemToAsteem(net) ELSE 0)
                 + (IF h = BridgeReward THEN MillisteemToAsteem(fee) ELSE 0)]]
  BY Zenon DEF CreditedBank
<1> HIDE DEF net, fee
<1>4. /\ MillisteemToAsteem(net) \in Nat /\ MillisteemToAsteem(fee) \in Nat
      /\ MillisteemToAsteem(gross) \in Nat
      /\ MillisteemToAsteem(gross) = MillisteemToAsteem(net) + MillisteemToAsteem(fee)
      /\ net = 0 => MillisteemToAsteem(net) = 0
  BY <1>1, AsteemType, BaseAssumption DEF MillisteemToAsteem
<1>5. n \in Nat /\ e \in Nat /\ g = n + e /\ (dest \in Users \/ n = 0)
  BY <1>2, <1>4
<1>6. \A h \in Holders : old[h] \in Nat /\ mid[h] \in Nat /\ end[h] \in Nat
  <2>1. \A h \in Holders : old[h] \in Nat
    BY Zenon
  <2> HIDE DEF old, n, e
  <2>2. \A h \in Holders : mid[h] \in Nat
    BY <1>5, <2>1
  <2> HIDE DEF mid
  <2>3. \A h \in Holders : end[h] \in Nat
    BY <1>5, <2>2
  <2>4. QED
    BY Zenon, <2>1, <2>2, <2>3
<1>7. \A h \in Holders : new[h][a] = end[h]
  <2> SUFFICES ASSUME NEW h \in Holders PROVE new[h][a] = end[h]
    BY Zenon
  <2>1. /\ end[h] = old[h] + (IF h = dest THEN n ELSE 0) + (IF h = BridgeReward THEN e ELSE 0)
        /\ old[h] = bank[h][a] /\ old[h] \in Nat
    BY Zenon, <1>6
  <2> HIDE DEF old, end
  <2>2. CASE a # asset
    BY <1>3, <2>1, <2>2
  <2>3. CASE a = asset
    <3> DEFINE ng == MillisteemToAsteem(gross)
               nn == MillisteemToAsteem(net)
               ne == MillisteemToAsteem(fee)
    <3>1. new[h][a] = old[h] + (IF h = BlackHole THEN ng - nn - ne ELSE 0)
                         + (IF h = dest THEN nn ELSE 0) + (IF h = BridgeReward THEN ne ELSE 0)
      BY <1>3, <2>1, <2>3
    <3>2. n = nn /\ e = ne
      BY Zenon, <2>3
    <3>3. ng - nn - ne = 0 /\ nn \in Nat /\ ne \in Nat
      BY <1>4
    <3> HIDE DEF ng, nn, ne, n, e
    <3>4. QED
      BY <2>1, <3>1, <3>2, <3>3
  <2>4. QED
    BY Zenon, <2>2, <2>3
<1> HIDE DEF n, e, g
<1>8. Sum(mid, Holders) = Sum(old, Holders) + n
  <2>1. \A h \in Holders : mid[h] = old[h] + IF h = dest THEN n ELSE 0
    BY Zenon
  <2> HIDE DEF old, mid
  <2>2. Sum(old, Holders) \in Int
    BY <1>6, SumInt, HoldersFinite
  <2>3. CASE dest \in Users
    <3>1. dest \in Holders /\ mid[dest] = old[dest] + n /\ \A h \in Holders : old[h] \in Int
      BY <1>6, <2>1, <2>3, HoldersFinite
    <3>2. /\ \A h \in Holders \ {dest} : mid[h] = old[h]
          /\ mid[dest] \in Int
      BY <1>5, <1>6, <2>1, <3>1
    <3>3. Sum(mid, Holders) = Sum(old, Holders) - old[dest] + mid[dest]
      BY <3>1, <3>2, SumChange, HoldersFinite
    <3>4. QED
      BY <1>5, <1>6, <2>2, <3>1, <3>3
  <2>4. CASE n = 0
    <3>1. \A h \in Holders : old[h] \in Int /\ mid[h] = old[h]
      BY <1>6, <2>1, <2>4
    <3>2. Sum(mid, Holders) = Sum(old, Holders)
      BY <3>1, SumSame, HoldersFinite
    <3>3. QED
      BY <2>2, <2>4, <3>2
  <2>5. QED
    BY Zenon, <1>5, <2>3, <2>4
<1>9. Sum(end, Holders) = Sum(mid, Holders) + e
  <2>1. \A h \in Holders : end[h] = mid[h] + IF h = BridgeReward THEN e ELSE 0
    BY Zenon
  <2> HIDE DEF mid, end
  <2>2. /\ \A h \in Holders \ {BridgeReward} : end[h] = mid[h]
        /\ end[BridgeReward] = mid[BridgeReward] + e /\ end[BridgeReward] \in Int
        /\ \A h \in Holders : mid[h] \in Int
    BY <1>5, <1>6, <2>1, HoldersFinite
  <2>3. Sum(end, Holders) = Sum(mid, Holders) - mid[BridgeReward] + end[BridgeReward]
    BY <2>2, SumChange, HoldersFinite
  <2>4. Sum(mid, Holders) \in Int
    BY <2>2, SumInt, HoldersFinite
  <2>5. QED
    BY <1>5, <1>6, <2>2, <2>3, <2>4, HoldersFinite
<1>10. CoinsOf(new, a) = Sum(end, Holders) /\ CoinsOf(bank, a) = Sum(old, Holders)
  <2> DEFINE coins == [h \in Holders |-> new[h][a]]
  <2>1. \A h \in Holders : coins[h] = end[h]
    BY Zenon, <1>7
  <2>2. CoinsOf(new, a) = Sum(coins, Holders) /\ CoinsOf(bank, a) = Sum(old, Holders)
    BY Zenon DEF CoinsOf
  <2> HIDE DEF coins, end, old
  <2>3. \A h \in Holders : end[h] \in Int /\ coins[h] = end[h]
    BY <1>6, <2>1
  <2>4. Sum(coins, Holders) = Sum(end, Holders)
    BY <2>3, SumSame, HoldersFinite
  <2>5. QED
    BY Zenon, <2>2, <2>4
<1>11. new[BlackHole][a] = bank[BlackHole][a]
  <2>1. new[BlackHole][a] = end[BlackHole] /\ old[BlackHole] = bank[BlackHole][a]
    BY Zenon, <1>7, HoldersFinite
  <2>2. end[BlackHole] = old[BlackHole] + (IF BlackHole = dest THEN n ELSE 0)
                            + (IF BlackHole = BridgeReward THEN e ELSE 0)
    BY Zenon, HoldersFinite
  <2>3. (IF BlackHole = dest THEN n ELSE 0) = 0
    BY Zenon, <1>5, HoldersFinite
  <2>4. old[BlackHole] \in Nat
    BY Zenon, <1>6, HoldersFinite
  <2> HIDE DEF old, end
  <2>5. QED
    BY <2>1, <2>2, <2>3, <2>4, HoldersFinite
<1>12. CoinsOf(new, a) = CoinsOf(bank, a) + g
  <2>1. Sum(old, Holders) \in Int
    BY <1>6, SumInt, HoldersFinite
  <2> HIDE DEF old, mid, end
  <2>2. QED
    BY <1>5, <1>8, <1>9, <1>10, <2>1
<1>13. QED
  BY Zenon, <1>11, <1>12 DEF g

-----------------------------------------------------------------------------
(* The bounded sweeps. *)

Before(S, i) == {j \in S : j < i}

LEMMA BeforeCounts ==
    ASSUME NEW S \in SUBSET Nat, IsFiniteSet(S)
    PROVE  /\ \A i \in S : IsFiniteSet(Before(S, i)) /\ Cardinality(Before(S, i)) \in Nat
           /\ \A i, j \in S : i <= j => Cardinality(Before(S, i)) <= Cardinality(Before(S, j))
           /\ \A i, j \in S : i < j => Cardinality(Before(S, i)) + 1 <= Cardinality(Before(S, j))
<1>1. \A i \in S : IsFiniteSet(Before(S, i)) /\ Cardinality(Before(S, i)) \in Nat
  BY FS_Subset, FS_CardinalityType DEF Before
<1>2. ASSUME NEW i \in S, NEW j \in S, i <= j
      PROVE  Cardinality(Before(S, i)) <= Cardinality(Before(S, j))
  <2>1. Before(S, i) \subseteq Before(S, j)
    <3>1. \A k \in S : k < i => k < j
      BY ONLY <1>2, S \in SUBSET Nat
    <3>2. QED
      BY Zenon, <3>1 DEF Before
  <2>2. QED
    BY <1>1, <2>1, FS_Subset
<1>3. ASSUME NEW i \in S, NEW j \in S, i < j
      PROVE  Cardinality(Before(S, i)) + 1 <= Cardinality(Before(S, j))
  <2>1. Before(S, i) \cup {i} \subseteq Before(S, j) /\ i \notin Before(S, i)
    <3>1. (\A k \in S : k < i => k < j) /\ ~(i < i)
      BY ONLY <1>3, S \in SUBSET Nat
    <3>2. QED
      BY Zenon, <1>3, <3>1 DEF Before
  <2>2. /\ IsFiniteSet(Before(S, i) \cup {i})
        /\ Cardinality(Before(S, i) \cup {i}) = Cardinality(Before(S, i)) + 1
    BY <1>1, <2>1, FS_AddElement
  <2>3. Cardinality(Before(S, i) \cup {i}) <= Cardinality(Before(S, j))
    BY <1>1, <2>1, <2>2, FS_Subset
  <2>4. QED
    BY <2>2, <2>3
<1>4. QED
  BY Zenon, <1>1, <1>2, <1>3

(***************************************************************************)
(* What a sweep examines is older than all it leaves for later.            *)
(***************************************************************************)
LEMMA OldestFirst ==
    ASSUME NEW S \in SUBSET Nat, IsFiniteSet(S), NEW n \in Nat,
           NEW i \in S, i \notin Oldest(S, n), NEW j \in Oldest(S, n)
    PROVE  j \in S /\ j < i
<1>1. j \in S /\ Cardinality(Before(S, j)) < n /\ ~(Cardinality(Before(S, i)) < n)
  BY Zenon DEF Oldest, Before
<1>2. i <= j => Cardinality(Before(S, i)) <= Cardinality(Before(S, j))
  BY Zenon, <1>1, BeforeCounts
<1>3. /\ Cardinality(Before(S, i)) \in Nat /\ Cardinality(Before(S, j)) \in Nat
      /\ i \in Nat /\ j \in Nat
  BY <1>1, BeforeCounts
<1>4. QED
  BY ONLY <1>1, <1>2, <1>3, n \in Nat

(***************************************************************************)
(* A sweep examines as many records as its limit allows when there are as  *)
(* many (the walk of an index bucket up to MaxExpirySweepPerBlock).        *)
(***************************************************************************)
LEMMA OldestCount ==
    ASSUME NEW S \in SUBSET Nat, IsFiniteSet(S), NEW n \in Nat, n <= Cardinality(S)
    PROVE  Cardinality(Oldest(S, n)) = n
<1> DEFINE T == {k \in Nat : k <= Cardinality(S) => Cardinality(Oldest(S, k)) = k}
<1>0. Cardinality(S) \in Nat
  BY FS_CardinalityType
<1>1. 0 \in T
  <2>1. Oldest(S, 0) = {}
    <3>1. \A i \in S : ~(Cardinality(Before(S, i)) < 0)
      BY BeforeCounts
    <3>2. QED
      BY Zenon, <3>1 DEF Oldest, Before
  <2>2. QED
    BY <2>1, FS_EmptySet
<1>2. ASSUME NEW k \in T PROVE k + 1 \in T
  <2>1. k \in Nat /\ k + 1 \in Nat
    OBVIOUS
  <2> SUFFICES ASSUME k + 1 <= Cardinality(S)
               PROVE  Cardinality(Oldest(S, k + 1)) = k + 1
    BY <2>1
  <2> DEFINE O == Oldest(S, k)
             R == S \ O
  <2>2. Cardinality(O) = k
    BY <1>0, <2>1
  <2>3. O \subseteq S /\ IsFiniteSet(O)
    BY Zenon, FS_Subset DEF Oldest
  <2>4. R # {}
    BY <1>0, <2>1, <2>2, <2>3
  <2>5. PICK m \in R : \A r \in R : m <= r
    <3> HIDE DEF O
    <3>1. R \subseteq Nat
      BY Zenon
    <3> HIDE DEF R
    <3>2. PICK m \in R : \A t \in R : ~(<<t, m>> \in OpToRel(<, Nat))
      BY Zenon, <2>4, <3>1, NatLessThanWellFounded, WFMin
    <3>3. \A t \in R : ~(t < m)
      BY Zenon, <3>1, <3>2 DEF OpToRel
    <3>4. \A t \in R : m <= t
      <4>1. SUFFICES ASSUME NEW t \in R PROVE m <= t
        BY Zenon
      <4>2. t \in Nat /\ m \in Nat /\ ~(t < m)
        BY Zenon, <3>1, <3>2, <3>3
      <4>3. QED
        BY ONLY <4>2
    <3>5. QED
      BY Zenon, <3>2, <3>4
  <2>6. m \in S /\ m \notin O
    BY Zenon, <2>5
  <2>7. Before(S, m) = O
    <3>1. \A j \in O : j \in S /\ j < m
      BY Zenon, <2>1, <2>6, OldestFirst
    <3>2. \A j \in S : j < m => j \in O
      <4>1. \A j \in S : j \notin O => m <= j
        BY Zenon, <2>5
      <4>2. QED
        BY ONLY <4>1, <2>6, S \in SUBSET Nat
    <3> HIDE DEF O
    <3>3. QED
      BY Zenon, <3>1, <3>2 DEF Before
  <2>8. ASSUME NEW i \in S PROVE i \in Oldest(S, k + 1) <=> i \in O \cup {m}
    <3>1. /\ i \in Oldest(S, k + 1) <=> Cardinality(Before(S, i)) < k + 1
          /\ i \in O <=> Cardinality(Before(S, i)) < k
      BY Zenon DEF Oldest, Before
    <3>2. Cardinality(Before(S, i)) \in Nat /\ Cardinality(Before(S, m)) = k
      BY Zenon, <2>2, <2>7, BeforeCounts
    <3>3. m < i => Cardinality(Before(S, m)) + 1 <= Cardinality(Before(S, i))
      BY Zenon, <2>6, BeforeCounts
    <3>4. i \notin O => m <= i
      BY Zenon, <2>5
    <3>5. i \in Nat /\ m \in Nat
      BY Zenon, <2>6
    <3> HIDE DEF O
    <3>6. CASE i = m
      BY ONLY <2>1, <3>1, <3>2, <3>6
    <3>7. CASE i # m
      BY ONLY <2>1, <3>1, <3>2, <3>3, <3>4, <3>5, <3>7
    <3>8. QED
      BY Zenon, <3>6, <3>7
  <2>9. Oldest(S, k + 1) = O \cup {m}
    <3>1. Oldest(S, k + 1) \subseteq S
      BY Zenon DEF Oldest
    <3>2. QED
      BY Zenon, <2>3, <2>6, <2>8, <3>1
  <2>10. QED
    BY Zenon, <2>2, <2>3, <2>6, <2>9, FS_AddElement
<1>3. n \in T
  <2>1. T \in SUBSET Nat
    BY Zenon
  <2> HIDE DEF T
  <2>2. QED
    BY Zenon, <1>1, <1>2, <2>1, Counting
<1>4. QED
  BY <1>3

=============================================================================
