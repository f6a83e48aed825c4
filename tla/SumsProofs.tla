------------------------------ MODULE SumsProofs ------------------------------
(***************************************************************************)
(* Induction over finite sets and numbers, and what it gives: facts about  *)
(* sums and extremes, on which the accounts of the bridge, the medians of  *)
(* the price feed and the scans of the client rest.                        *)
(***************************************************************************)
EXTENDS Sums, FiniteSetTheorems, TLAPS

-----------------------------------------------------------------------------
(* Induction over finite sets, from well-foundedness. *)

(***************************************************************************)
(* A set of subsets of a finite set has a member with no smaller one in    *)
(* it.                                                                     *)
(***************************************************************************)
LEMMA MinimalSubset ==
    ASSUME NEW S, IsFiniteSet(S), NEW T \in SUBSET (SUBSET S), T # {}
    PROVE  \E m \in T : \A t \in T : ~(t \subseteq m /\ t # m)
  <1>1. IsWellFoundedOn(StrictSubsetOrdering(S), SUBSET S)
    BY FS_StrictSubsetOrderingWellFounded, FS_FiniteSubsetsOfFinite
  <1>2. PICK m \in T : \A t \in T : ~(<<t, m>> \in StrictSubsetOrdering(S))
    BY <1>1, WFMin
  <1>3. \A t \in T : t \subseteq m /\ t # m => <<t, m>> \in StrictSubsetOrdering(S)
    BY DEF StrictSubsetOrdering
  <1>4. \A t \in T : ~(t \subseteq m /\ t # m)
    BY Zenon, <1>2, <1>3
  <1>. QED BY <1>4

(***************************************************************************)
(* Induction over a finite set: what holds of the empty set, and of a set  *)
(* with one element more, holds of the whole.                              *)
(***************************************************************************)
LEMMA SetInduction ==
    ASSUME NEW S, IsFiniteSet(S), NEW T \in SUBSET (SUBSET S), {} \in T,
           \A t \in T : \A x \in S \ t : t \cup {x} \in T
    PROVE  S \in T
  <1>. SUFFICES ASSUME S \notin T PROVE FALSE
    OBVIOUS
  <1>. DEFINE C == (SUBSET S) \ T
  <1>0. C \in SUBSET (SUBSET S) /\ C # {}
    OBVIOUS
  <1>1. PICK m \in C : \A t \in C : ~(t \subseteq m /\ t # m)
    <2>. HIDE DEF C
    <2>. QED BY <1>0, MinimalSubset
  <1>2. PICK x : x \in m
    BY Zenon, <1>1
  <1>3. m \ {x} \in T
    BY <1>1, <1>2
  <1>4. (m \ {x}) \cup {x} = m /\ x \in S \ (m \ {x})
    BY <1>1, <1>2
  <1>5. m \in T
    BY <1>3, <1>4
  <1>. QED BY <1>1, <1>5

(***************************************************************************)
(* Induction over the natural numbers.                                     *)
(***************************************************************************)
LEMMA Counting ==
    ASSUME NEW T \in SUBSET Nat, 0 \in T, \A n \in T : n + 1 \in T, NEW k \in Nat
    PROVE  k \in T
  <1>. SUFFICES ASSUME k \notin T PROVE FALSE
    OBVIOUS
  <1>. DEFINE C == Nat \ T
  <1>0. C \subseteq Nat /\ C # {}
    OBVIOUS
  <1>1. PICK m \in C : \A t \in C : ~(<<t, m>> \in OpToRel(<, Nat))
    BY <1>0, NatLessThanWellFounded, WFMin, Zenon
  <1>2. \A t \in C : ~(t < m)
    BY Zenon, <1>1 DEF OpToRel
  <1>. QED BY <1>2

LEMMA DivMod ==
    ASSUME NEW n \in Nat, n > 0, NEW a \in Nat
    PROVE  a = n * (a \div n) + (a % n) /\ a % n \in 0 .. n - 1 /\ a \div n \in Nat
  OBVIOUS

-----------------------------------------------------------------------------
(* Sums. *)

(***************************************************************************)
(* The equation by which a fold adds up: an element that CHOOSE picks, and *)
(* the sum over the others.                                                *)
(***************************************************************************)
Pick(s) == CHOOSE x \in s : TRUE
Unfolded(f, g, s) == IF s = {} THEN 0 ELSE f[Pick(s)] + g[s \ {Pick(s)}]
IsSum(f, S, g) == g = [s \in SUBSET S |-> Unfolded(f, g, s)]

LEMMA PickIn ==
    ASSUME NEW s, s # {}
    PROVE  Pick(s) \in s
  BY DEF Pick

(***************************************************************************)
(* The fold that defines Sum has a value: by induction on the size n of a  *)
(* subset there is a function that satisfies the equation up to n.         *)
(***************************************************************************)
LEMMA SumExists ==
    ASSUME NEW f, NEW S, IsFiniteSet(S)
    PROVE  \E g : IsSum(f, S, g)
  <1>. DEFINE Upto(n, g) == \A s \in SUBSET S :
                               Cardinality(s) <= n => g[s] = Unfolded(f, g, s)
              Has(n) == \E g : g = [s \in SUBSET S |-> g[s]] /\ Upto(n, g)
              T == {n \in Nat : Has(n)}
  <1>0. \A s \in SUBSET S : IsFiniteSet(s) /\ Cardinality(s) \in Nat
                            /\ Cardinality(s) <= Cardinality(S)
    BY FS_Subset, FS_CardinalityType
  <1>1. 0 \in T
    <2>. DEFINE g == [s \in SUBSET S |-> 0]
    <2>1. \A s \in SUBSET S : Cardinality(s) <= 0 => s = {}
      BY <1>0, FS_EmptySet
    <2>2. Upto(0, g)
      BY <2>1 DEF Unfolded
    <2>. QED BY Zenon, <2>2
  <1>2. ASSUME NEW n \in T PROVE n + 1 \in T
    <2>1. PICK g : Upto(n, g)
      OBVIOUS
    <2>. DEFINE h == [s \in SUBSET S |-> Unfolded(f, g, s)]
    <2>2. ASSUME NEW s \in SUBSET S, Cardinality(s) <= n + 1, s # {}
          PROVE  Unfolded(f, g, s) = Unfolded(f, h, s)
      <3>. DEFINE t == s \ {Pick(s)}
      <3>1. Pick(s) \in s
        BY <2>2, PickIn
      <3>2. t \in SUBSET S /\ Cardinality(t) = Cardinality(s) - 1
        BY <3>1, <1>0, FS_RemoveElement
      <3>3. Cardinality(t) <= n
        BY <3>2, <2>2, <1>0
      <3>4. h[t] = g[t]
        BY <3>2, <3>3, <2>1
      <3>. QED BY <2>2, <3>4 DEF Unfolded
    <2>3. Upto(n + 1, h)
      BY Zenon, <2>2 DEF Unfolded
    <2>4. h = [s \in SUBSET S |-> h[s]]
      OBVIOUS
    <2>. HIDE DEF h
    <2>5. Has(n + 1)
      BY Zenon, <2>3, <2>4
    <2>. HIDE DEF Has
    <2>. QED BY <2>5
  <1>3. Cardinality(S) \in T
    <2>. HIDE DEF T
    <2>1. T \subseteq Nat
      BY DEF T
    <2>. QED BY <1>0, <1>1, <1>2, <2>1, Counting
  <1>4. PICK g : g = [s \in SUBSET S |-> g[s]] /\ Upto(Cardinality(S), g)
    BY Zenon, <1>3
  <1>5. \A s \in SUBSET S : g[s] = Unfolded(f, g, s)
    BY Zenon, <1>0, <1>4
  <1>6. g = [s \in SUBSET S |-> Unfolded(f, g, s)]
    BY Zenon, <1>4, <1>5
  <1>. QED BY <1>6 DEF IsSum

(***************************************************************************)
(* That value is what Sum denotes.                                         *)
(***************************************************************************)
LEMMA SumIs ==
    ASSUME NEW f, NEW S, IsFiniteSet(S)
    PROVE  \E g : IsSum(f, S, g) /\ Sum(f, S) = g[S]
  <1>. DEFINE g == CHOOSE h : IsSum(f, S, h)
  <1>1. IsSum(f, S, g)
    BY SumExists
  <1>2. Sum(f, S) = (CHOOSE h : h = [s \in SUBSET S |->
                        IF s = {} THEN 0
                        ELSE f[CHOOSE x \in s : TRUE] + h[s \ {CHOOSE x \in s : TRUE}]])[S]
    BY DEF Sum, MapThenSumSet, MapThenFoldSet
  <1>3. Sum(f, S) = g[S]
    BY <1>2 DEF IsSum, Unfolded, Pick
  <1>. HIDE DEF g
  <1>. QED BY <1>1, <1>3

(***************************************************************************)
(* Two functions that satisfy the equation agree where both are defined.   *)
(***************************************************************************)
LEMMA SumUnique ==
    ASSUME NEW f, NEW S, IsFiniteSet(S), NEW R \in SUBSET S, NEW g, NEW h,
           IsSum(f, S, g), IsSum(f, R, h)
    PROVE  g[R] = h[R]
  <1>. DEFINE T == {s \in SUBSET R : g[s] # h[s]}
  <1>. SUFFICES ASSUME T # {} PROVE FALSE
    OBVIOUS
  <1>0. IsFiniteSet(R)
    BY FS_Subset
  <1>1. PICK m \in T : \A t \in T : ~(t \subseteq m /\ t # m)
    <2>1. T \in SUBSET (SUBSET R)
      OBVIOUS
    <2>. HIDE DEF T
    <2>. QED BY <1>0, <2>1, MinimalSubset
  <1>2. \A s \in SUBSET R : g[s] = Unfolded(f, g, s) /\ h[s] = Unfolded(f, h, s)
    BY DEF IsSum
  <1>3. m # {}
    BY Zenon, <1>2 DEF Unfolded
  <1>4. Pick(m) \in m
    BY <1>3, PickIn
  <1>5. m \ {Pick(m)} \in SUBSET R /\ m \ {Pick(m)} \subseteq m /\ m \ {Pick(m)} # m
    BY <1>4
  <1>6. g[m \ {Pick(m)}] = h[m \ {Pick(m)}]
    BY <1>1, <1>5
  <1>7. Unfolded(f, g, m) = Unfolded(f, h, m)
    BY <1>6 DEF Unfolded
  <1>. QED BY <1>2, <1>7

(***************************************************************************)
(* The sum over nothing is zero.                                           *)
(***************************************************************************)
LEMMA SumEmpty ==
    ASSUME NEW f
    PROVE  Sum(f, {}) = 0
  <1>1. PICK g : IsSum(f, {}, g) /\ Sum(f, {}) = g[{}]
    BY SumIs, FS_EmptySet
  <1>. QED BY <1>1 DEF IsSum, Unfolded

(***************************************************************************)
(* Sum takes its elements one by one.                                      *)
(***************************************************************************)
LEMMA SumPicked ==
    ASSUME NEW f, NEW S, IsFiniteSet(S), S # {}
    PROVE  Sum(f, S) = f[Pick(S)] + Sum(f, S \ {Pick(S)})
  <1>. DEFINE R == S \ {Pick(S)}
  <1>1. R \in SUBSET S /\ IsFiniteSet(R)
    BY FS_Subset
  <1>2. PICK g : IsSum(f, S, g) /\ Sum(f, S) = g[S]
    BY SumIs
  <1>3. PICK h : IsSum(f, R, h) /\ Sum(f, R) = h[R]
    BY <1>1, SumIs
  <1>4. g[R] = h[R]
    BY <1>1, <1>2, <1>3, SumUnique
  <1>5. g[S] = f[Pick(S)] + g[R]
    BY Zenon, <1>2 DEF IsSum, Unfolded
  <1>. QED BY <1>2, <1>3, <1>4, <1>5

(***************************************************************************)
(* A sum of integers is an integer.                                        *)
(***************************************************************************)
LEMMA SumInt ==
    ASSUME NEW f, NEW S, IsFiniteSet(S), \A x \in S : f[x] \in Int
    PROVE  Sum(f, S) \in Int
  <1>. DEFINE T == {s \in SUBSET S : Sum(f, s) \notin Int}
  <1>. SUFFICES ASSUME T # {} PROVE FALSE
    OBVIOUS
  <1>1. PICK m \in T : \A t \in T : ~(t \subseteq m /\ t # m)
    <2>1. T \in SUBSET (SUBSET S)
      OBVIOUS
    <2>. HIDE DEF T
    <2>. QED BY <2>1, MinimalSubset
  <1>2. m # {}
    BY SumEmpty
  <1>3. Pick(m) \in m /\ m \in SUBSET S /\ IsFiniteSet(m)
    BY <1>2, PickIn, FS_Subset
  <1>4. m \ {Pick(m)} \in SUBSET S /\ m \ {Pick(m)} \subseteq m /\ m \ {Pick(m)} # m
    BY <1>3
  <1>5. Sum(f, m \ {Pick(m)}) \in Int
    BY <1>1, <1>4
  <1>6. Sum(f, m) = f[Pick(m)] + Sum(f, m \ {Pick(m)})
    BY <1>2, <1>3, SumPicked
  <1>. QED BY <1>3, <1>5, <1>6

(***************************************************************************)
(* The order does not matter: any element can be taken first.              *)
(***************************************************************************)
LEMMA SumRemove ==
    ASSUME NEW f, NEW S, IsFiniteSet(S), \A x \in S : f[x] \in Int, NEW y \in S
    PROVE  Sum(f, S) = f[y] + Sum(f, S \ {y})
  <1>. DEFINE Good(s) == \A x \in s : Sum(f, s) = f[x] + Sum(f, s \ {x})
              T == {s \in SUBSET S : ~Good(s)}
  <1>. SUFFICES ASSUME T # {} PROVE FALSE
    OBVIOUS
  <1>1. PICK m \in T : \A t \in T : ~(t \subseteq m /\ t # m)
    <2>1. T \in SUBSET (SUBSET S)
      OBVIOUS
    <2>. HIDE DEF T
    <2>. QED BY <2>1, MinimalSubset
  <1>2. PICK x \in m : Sum(f, m) # f[x] + Sum(f, m \ {x})
    BY Zenon
  <1>3. \A s \in SUBSET S : s \subseteq m /\ s # m => Good(s)
    BY <1>1
  <1>. DEFINE p == Pick(m)
  <1>4. m \in SUBSET S /\ p \in m /\ IsFiniteSet(m)
    BY PickIn, FS_Subset
  <1>5. Sum(f, m) = f[p] + Sum(f, m \ {p})
    BY <1>4, SumPicked
  <1>6. p # x
    BY <1>2, <1>5
  <1>. HIDE DEF p
  <1>7. m \ {p} \in SUBSET S /\ m \ {p} # m /\ x \in m \ {p}
    BY <1>4, <1>6
  <1>8. m \ {x} \in SUBSET S /\ m \ {x} # m /\ p \in m \ {x}
    BY <1>4, <1>6
  <1>9. (m \ {p}) \ {x} = (m \ {x}) \ {p}
    OBVIOUS
  <1>10. Sum(f, m \ {p}) = f[x] + Sum(f, (m \ {x}) \ {p})
    BY <1>3, <1>7, <1>9
  <1>11. Sum(f, m \ {x}) = f[p] + Sum(f, (m \ {x}) \ {p})
    BY <1>3, <1>8
  <1>12. f[x] \in Int /\ f[p] \in Int /\ Sum(f, (m \ {x}) \ {p}) \in Int
    <2>1. (m \ {x}) \ {p} \in SUBSET S /\ IsFiniteSet((m \ {x}) \ {p})
      BY <1>4, FS_Subset
    <2>. QED BY <2>1, <1>4, SumInt
  <1>. QED BY <1>2, <1>5, <1>10, <1>11, <1>12

(***************************************************************************)
(* One element more adds its value.                                        *)
(***************************************************************************)
LEMMA SumAdd ==
    ASSUME NEW f, NEW S, IsFiniteSet(S), NEW y, y \notin S,
           \A x \in S : f[x] \in Int, f[y] \in Int
    PROVE  Sum(f, S \cup {y}) = Sum(f, S) + f[y]
  <1>1. IsFiniteSet(S \cup {y}) /\ \A x \in S \cup {y} : f[x] \in Int
    BY FS_AddElement
  <1>2. (S \cup {y}) \ {y} = S
    OBVIOUS
  <1>3. Sum(f, S \cup {y}) = f[y] + Sum(f, S)
    BY <1>1, <1>2, SumRemove
  <1>. QED BY <1>3, SumInt

(***************************************************************************)
(* The sum depends on the values over the set only.                        *)
(***************************************************************************)
LEMMA SumSame ==
    ASSUME NEW S, IsFiniteSet(S), NEW f, NEW g,
           \A x \in S : f[x] \in Int /\ g[x] = f[x]
    PROVE  Sum(g, S) = Sum(f, S)
  <1>. DEFINE T == {s \in SUBSET S : Sum(g, s) = Sum(f, s)}
  <1>1. {} \in T
    BY SumEmpty
  <1>2. ASSUME NEW t \in T, NEW y \in S \ t PROVE t \cup {y} \in T
    <2>1. IsFiniteSet(t)
      BY FS_Subset
    <2>2. /\ Sum(f, t \cup {y}) = Sum(f, t) + f[y]
          /\ Sum(g, t \cup {y}) = Sum(g, t) + g[y]
      BY <2>1, SumAdd
    <2>. QED BY <2>2
  <1>3. T \in SUBSET (SUBSET S)
    OBVIOUS
  <1>4. S \in T
    <2>. HIDE DEF T
    <2>. QED BY Zenon, <1>1, <1>2, <1>3, SetInduction
  <1>. QED BY <1>4

(***************************************************************************)
(* The sum of pointwise sums.                                              *)
(***************************************************************************)
LEMMA SumPlus ==
    ASSUME NEW S, IsFiniteSet(S), NEW f, NEW g, NEW h,
           \A x \in S : f[x] \in Int /\ g[x] \in Int /\ h[x] = f[x] + g[x]
    PROVE  Sum(h, S) = Sum(f, S) + Sum(g, S)
  <1>. DEFINE T == {s \in SUBSET S : Sum(h, s) = Sum(f, s) + Sum(g, s)}
  <1>1. {} \in T
    BY SumEmpty
  <1>2. ASSUME NEW t \in T, NEW y \in S \ t PROVE t \cup {y} \in T
    <2>1. IsFiniteSet(t)
      BY FS_Subset
    <2>2. /\ Sum(f, t \cup {y}) = Sum(f, t) + f[y]
          /\ Sum(g, t \cup {y}) = Sum(g, t) + g[y]
          /\ Sum(h, t \cup {y}) = Sum(h, t) + h[y]
      BY <2>1, SumAdd
    <2>3. Sum(f, t) \in Int /\ Sum(g, t) \in Int
      BY <2>1, SumInt
    <2>. QED BY <2>2, <2>3
  <1>3. T \in SUBSET (SUBSET S)
    OBVIOUS
  <1>4. S \in T
    <2>. HIDE DEF T
    <2>. QED BY Zenon, <1>1, <1>2, <1>3, SetInduction
  <1>. QED BY <1>4

(***************************************************************************)
(* The sum over two disjoint sets.                                         *)
(***************************************************************************)
LEMMA SumUnion ==
    ASSUME NEW R, NEW S, IsFiniteSet(R), IsFiniteSet(S), R \cap S = {},
           NEW f, \A x \in R \cup S : f[x] \in Int
    PROVE  Sum(f, R \cup S) = Sum(f, R) + Sum(f, S)
  <1>. DEFINE T == {s \in SUBSET S : Sum(f, R \cup s) = Sum(f, R) + Sum(f, s)}
  <1>1. {} \in T
    <2>1. R \cup {} = R
      OBVIOUS
    <2>. QED BY <2>1, SumEmpty, SumInt
  <1>2. ASSUME NEW t \in T, NEW y \in S \ t PROVE t \cup {y} \in T
    <2>1. IsFiniteSet(t) /\ IsFiniteSet(R \cup t)
      BY Zenon, FS_Subset, FS_Union
    <2>2. R \cup (t \cup {y}) = (R \cup t) \cup {y} /\ y \notin R \cup t
      OBVIOUS
    <2>3. Sum(f, t \cup {y}) = Sum(f, t) + f[y]
      BY <2>1, SumAdd
    <2>4. Sum(f, (R \cup t) \cup {y}) = Sum(f, R \cup t) + f[y]
      BY Zenon, <2>1, <2>2, SumAdd
    <2>5. Sum(f, t) \in Int /\ Sum(f, R) \in Int
      BY <2>1, SumInt
    <2>6. Sum(f, R \cup t) = Sum(f, R) + Sum(f, t) /\ f[y] \in Int
      OBVIOUS
    <2>7. Sum(f, (R \cup t) \cup {y}) = Sum(f, R) + Sum(f, t \cup {y})
      BY <2>3, <2>4, <2>5, <2>6
    <2>. QED BY <2>2, <2>7
  <1>3. T \in SUBSET (SUBSET S)
    OBVIOUS
  <1>4. S \in T
    <2>. HIDE DEF T
    <2>. QED BY Zenon, <1>1, <1>2, <1>3, SetInduction
  <1>. QED BY <1>4

(***************************************************************************)
(* A sum of natural numbers is one.                                        *)
(***************************************************************************)
LEMMA SumNat ==
    ASSUME NEW f, NEW S, IsFiniteSet(S), \A x \in S : f[x] \in Nat
    PROVE  Sum(f, S) \in Nat
  <1>. DEFINE T == {s \in SUBSET S : Sum(f, s) \in Nat}
  <1>1. {} \in T
    BY SumEmpty
  <1>2. ASSUME NEW t \in T, NEW y \in S \ t PROVE t \cup {y} \in T
    <2>1. IsFiniteSet(t)
      BY FS_Subset
    <2>2. Sum(f, t \cup {y}) = Sum(f, t) + f[y]
      BY <2>1, SumAdd
    <2>. QED BY <2>2
  <1>3. T \in SUBSET (SUBSET S)
    OBVIOUS
  <1>4. S \in T
    <2>. HIDE DEF T
    <2>. QED BY Zenon, <1>1, <1>2, <1>3, SetInduction
  <1>. QED BY <1>4

(***************************************************************************)
(* Adding up by key first, here the coins by holder, gives the same sum.   *)
(***************************************************************************)
SumsByKey(f, S, key, H, g) ==
    /\ \A x \in S : key[x] \in H
    /\ \A h \in H : g[h] = Sum(f, {x \in S : key[x] = h})

LEMMA SumByKey ==
    ASSUME NEW S, IsFiniteSet(S), NEW f, \A x \in S : f[x] \in Int,
           NEW H, IsFiniteSet(H), NEW key, NEW g, SumsByKey(f, S, key, H, g)
    PROVE  Sum(g, H) = Sum(f, S)
  <1>. /\ \A x \in S : key[x] \in H
       /\ \A h \in H : g[h] = Sum(f, {x \in S : key[x] = h})
    BY DEF SumsByKey
  <1>. DEFINE Part(t) == {x \in S : key[x] \in t}
              T == {t \in SUBSET H : Sum(g, t) = Sum(f, Part(t))}
  <1>0. \A h \in H : g[h] \in Int
    <2>. TAKE h \in H
    <2>. DEFINE Q == {x \in S : key[x] = h}
    <2>1. IsFiniteSet(Q) /\ Q \subseteq S /\ g[h] = Sum(f, Q)
      BY FS_Subset
    <2>. HIDE DEF Q
    <2>. QED BY <2>1, SumInt
  <1>1. {} \in T
    <2>1. Part({}) = {}
      OBVIOUS
    <2>. QED BY <2>1, SumEmpty
  <1>2. ASSUME NEW t \in T, NEW h \in H \ t PROVE t \cup {h} \in T
    <2>. DEFINE P == Part(t)
                Q == {x \in S : key[x] = h}
    <2>1. IsFiniteSet(t) /\ IsFiniteSet(P) /\ IsFiniteSet(Q)
      BY FS_Subset
    <2>2. P \cap Q = {} /\ Part(t \cup {h}) = P \cup Q /\ P \cup Q \subseteq S
      OBVIOUS
    <2>3. Sum(g, t \cup {h}) = Sum(g, t) + g[h]
      BY <1>0, <2>1, SumAdd
    <2>4. Sum(f, P \cup Q) = Sum(f, P) + Sum(f, Q)
      <3>. HIDE DEF P, Q
      <3>. QED BY <2>1, <2>2, SumUnion
    <2>5. Sum(g, t) = Sum(f, P) /\ g[h] = Sum(f, Q)
      OBVIOUS
    <2>6. Sum(g, t \cup {h}) = Sum(f, Part(t \cup {h}))
      <3>. HIDE DEF P, Q, Part
      <3>. QED BY Zenon, <2>2, <2>3, <2>4, <2>5
    <2>. HIDE DEF Part
    <2>. QED BY <2>6
  <1>3. T \in SUBSET (SUBSET H)
    OBVIOUS
  <1>4. H \in T
    <2>. HIDE DEF T
    <2>. QED BY Zenon, <1>1, <1>2, <1>3, SetInduction
  <1>5. Part(H) = S
    OBVIOUS
  <1>. QED BY <1>4, <1>5

(***************************************************************************)
(* A change of one value changes the sum by the difference.                *)
(***************************************************************************)
LEMMA SumChange ==
    ASSUME NEW S, IsFiniteSet(S), NEW y \in S, NEW f, NEW g,
           \A x \in S : f[x] \in Int, g[y] \in Int, \A x \in S \ {y} : g[x] = f[x]
    PROVE  Sum(g, S) = Sum(f, S) - f[y] + g[y]
  <1>1. IsFiniteSet(S \ {y}) /\ \A x \in S : g[x] \in Int
    BY FS_Subset
  <1>2. Sum(g, S \ {y}) = Sum(f, S \ {y}) /\ Sum(f, S \ {y}) \in Int
    BY <1>1, SumSame, SumInt
  <1>3. Sum(f, S) = f[y] + Sum(f, S \ {y}) /\ Sum(g, S) = g[y] + Sum(g, S \ {y})
    BY <1>1, SumRemove
  <1>. QED BY <1>2, <1>3

(***************************************************************************)
(* A sum of zeros is zero.                                                 *)
(***************************************************************************)
LEMMA SumZero ==
    ASSUME NEW S, IsFiniteSet(S), NEW f, \A x \in S : f[x] = 0
    PROVE  Sum(f, S) = 0
  <1>. DEFINE T == {s \in SUBSET S : Sum(f, s) = 0}
  <1>1. {} \in T
    BY SumEmpty
  <1>2. ASSUME NEW t \in T, NEW y \in S \ t PROVE t \cup {y} \in T
    <2>1. IsFiniteSet(t)
      BY FS_Subset
    <2>2. Sum(f, t \cup {y}) = Sum(f, t) + f[y]
      BY <2>1, SumAdd
    <2>. QED BY <2>2
  <1>3. T \in SUBSET (SUBSET S)
    OBVIOUS
  <1>4. S \in T
    <2>. HIDE DEF T
    <2>. QED BY Zenon, <1>1, <1>2, <1>3, SetInduction
  <1>. QED BY <1>4

-----------------------------------------------------------------------------
(* Extremes of sets of numbers. *)

(***************************************************************************)
(* A nonempty set of integers with an upper bound has a largest member,    *)
(* and that is what Max returns.                                           *)
(***************************************************************************)
LEMMA MaxOf ==
    ASSUME NEW S \in SUBSET Int, S # {}, NEW b \in Int, \A x \in S : x <= b
    PROVE  Max(S) \in S /\ \A x \in S : x <= Max(S)
<1> DEFINE C == {b - x : x \in S}
<1>1. C \subseteq Nat /\ C # {}
  <2>1. \A x \in S : b - x \in Nat
    OBVIOUS
  <2>2. QED
    BY Zenon, <2>1
<1>2. PICK m \in C : \A t \in C : ~(<<t, m>> \in OpToRel(<, Nat))
  BY <1>1, NatLessThanWellFounded, WFMin, Zenon
<1>3. \A t \in C : ~(t < m)
  BY Zenon, <1>1, <1>2 DEF OpToRel
<1>4. PICK y \in S : m = b - y
  BY Zenon, <1>2
<1>5. \A x \in S : y >= x
  <2> SUFFICES ASSUME NEW x \in S PROVE y >= x
    OBVIOUS
  <2>1. b - x \in C
    OBVIOUS
  <2>2. ~(b - x < b - y)
    BY <1>3, <1>4, <2>1
  <2>3. x \in Int /\ y \in Int
    BY <1>4
  <2>4. QED
    BY ONLY <2>2, <2>3, b \in Int
<1>6. \E x \in S : \A z \in S : x >= z
  BY <1>4, <1>5
<1>7. Max(S) \in S /\ \A z \in S : Max(S) >= z
  BY <1>6, Zenon DEF Max
<1>8. QED
  BY <1>7

(***************************************************************************)
(* A finite set has an element of the highest value.                       *)
(***************************************************************************)
LEMMA HighestOf ==
    ASSUME NEW S, IsFiniteSet(S), S # {}, NEW f, \A x \in S : f[x] \in Int
    PROVE  \E y \in S : \A x \in S : f[x] <= f[y]
  <1>. DEFINE T == {s \in SUBSET S : s = {} \/ \E y \in s : \A x \in s : f[x] <= f[y]}
  <1>1. {} \in T
    OBVIOUS
  <1>2. ASSUME NEW t \in T, NEW z \in S \ t PROVE t \cup {z} \in T
    <2>1. CASE t = {}
      BY <2>1
    <2>2. CASE t # {}
      <3>1. PICK y \in t : \A x \in t : f[x] <= f[y]
        BY <2>2
      <3>2. CASE f[z] <= f[y]
        BY <3>1, <3>2
      <3>3. CASE ~(f[z] <= f[y])
        <4>1. \A x \in t \cup {z} : f[x] <= f[z]
          BY <3>1, <3>3
        <4>. QED BY <4>1
      <3>. QED BY <3>2, <3>3
    <2>. QED BY <2>1, <2>2
  <1>3. S \in T
    <2>. HIDE DEF T
    <2>1. T \in SUBSET (SUBSET S)
      BY DEF T
    <2>. QED BY Zenon, <1>1, <1>2, <2>1, SetInduction
  <1>. QED BY <1>3

(***************************************************************************)
(* What is the same everywhere adds up to a multiple of it.                *)
(***************************************************************************)
LEMMA SumConstant ==
    ASSUME NEW S, IsFiniteSet(S), NEW f, NEW c \in Int, \A x \in S : f[x] = c
    PROVE  Sum(f, S) = Cardinality(S) * c
  <1>. DEFINE T == {s \in SUBSET S : Sum(f, s) = Cardinality(s) * c}
  <1>1. {} \in T
    BY SumEmpty, FS_EmptySet
  <1>2. ASSUME NEW t \in T, NEW y \in S \ t PROVE t \cup {y} \in T
    <2>1. IsFiniteSet(t) /\ Cardinality(t) \in Nat
      BY FS_Subset, FS_CardinalityType
    <2>2. Cardinality(t \cup {y}) = Cardinality(t) + 1
      BY Zenon, <2>1, FS_AddElement
    <2>3. Sum(f, t \cup {y}) = Sum(f, t) + c
      BY <2>1, SumAdd
    <2>4. Sum(f, t) = Cardinality(t) * c
      OBVIOUS
    <2>5. (Cardinality(t) + 1) * c = Cardinality(t) * c + c
      BY <2>1
    <2>. QED BY <2>2, <2>3, <2>4, <2>5
  <1>3. S \in T
    <2>. HIDE DEF T
    <2>1. T \in SUBSET (SUBSET S)
      BY DEF T
    <2>. QED BY Zenon, <1>1, <1>2, <2>1, SetInduction
  <1>. QED BY <1>3

LEMMA MinOfTwo ==
    ASSUME NEW a \in Int, NEW b \in Int
    PROVE  /\ Min({a, b}) \in {a, b}
           /\ Min({a, b}) <= a /\ Min({a, b}) <= b
<1>1. \E x \in {a, b} : \A y \in {a, b} : x <= y
  <2>1. CASE a <= b
    BY <2>1
  <2>2. CASE b <= a
    BY <2>2
  <2>3. QED
    BY <2>1, <2>2
<1>2. Min({a, b}) \in {a, b} /\ \A y \in {a, b} : Min({a, b}) <= y
  BY <1>1, Zenon DEF Min
<1>3. QED
  BY <1>2

LEMMA MaxOfTwo ==
    ASSUME NEW a \in Int, NEW b \in Int
    PROVE  /\ Max({a, b}) \in {a, b}
           /\ Max({a, b}) >= a /\ Max({a, b}) >= b
<1>1. \E x \in {a, b} : \A y \in {a, b} : x >= y
  <2>1. CASE a >= b
    BY <2>1
  <2>2. CASE b >= a
    BY <2>2
  <2>3. QED
    BY <2>1, <2>2
<1>2. Max({a, b}) \in {a, b} /\ \A y \in {a, b} : Max({a, b}) >= y
  BY <1>1, Zenon DEF Max
<1>3. QED
  BY <1>2

=============================================================================
