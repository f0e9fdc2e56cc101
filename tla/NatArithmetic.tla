---------------------------- MODULE NatArithmetic ----------------------------
(***************************************************************************)
(* Facts about products, truncating quotients and finite sums of naturals, *)
(* used in the proofs about the contracts.                                 *)
(***************************************************************************)
EXTENDS Sums, FiniteSetTheorems, TLAPS

LEMMA ProductNat == ASSUME NEW a \in Nat, NEW b \in Nat PROVE a * b \in Nat
OBVIOUS

LEMMA QuotientNat ==
    ASSUME NEW a \in Nat, NEW c \in Nat, c > 0
    PROVE  a \div c \in Nat /\ (a \div c) * c <= a /\ a < (a \div c + 1) * c
OBVIOUS

LEMMA ProductMonotone ==
    ASSUME NEW a \in Nat, NEW b \in Nat, NEW c \in Nat, a <= b
    PROVE  a * c <= b * c
OBVIOUS

LEMMA ProductCancels ==
    ASSUME NEW a \in Nat, NEW b \in Nat, NEW c \in Nat, c > 0, a * c <= b * c
    PROVE  a <= b
OBVIOUS

\* A larger dividend has a quotient at least as large.
LEMMA QuotientMonotone ==
    ASSUME NEW a \in Nat, NEW b \in Nat, NEW c \in Nat, c > 0, a <= b
    PROVE  a \div c <= b \div c
OBVIOUS

\* A smaller divisor has a quotient at least as large.
LEMMA QuotientAntitone ==
    ASSUME NEW a \in Nat, NEW c \in Nat, NEW d \in Nat, c > 0, c <= d
    PROVE  a \div d <= a \div c
OBVIOUS

-----------------------------------------------------------------------------
(* Prices: a pool of P with T shares, n of them or n of value, rounded down *)

\* What is issued at a price the pool has, rounded down, does not lower it.
LEMMA IssueKeepsPrice ==
    ASSUME NEW P \in Nat, NEW T \in Nat, NEW n \in Nat, NEW s \in Nat, s * P <= n * T
    PROVE  P * (T + s) <= (P + n) * T
<1>1. P * (T + s) = P * T + s * P /\ (P + n) * T = P * T + n * T
  OBVIOUS
<1>2. P * T \in Nat /\ s * P \in Nat /\ n * T \in Nat
  BY ProductNat
<1> QED BY <1>1, <1>2

LEMMA RedeemKeepsPrice ==
    ASSUME NEW P \in Nat, NEW T \in Nat, NEW n \in 0..T, NEW a \in 0..P, a * T <= n * P
    PROVE  P * (T - n) <= (P - a) * T
<1>1. P * (T - n) = P * T - n * P /\ (P - a) * T = P * T - a * T
  OBVIOUS
<1>2. P * T \in Nat /\ a * T \in Nat /\ n * P \in Nat
  BY ProductNat
<1> QED BY <1>1, <1>2

-----------------------------------------------------------------------------
(* Sums over finite sets *)

\* The element a sum over s takes first.
Pick(s) == CHOOSE x \in s : TRUE

SumStep(f, S, g) ==
    [s \in SUBSET S |-> IF s = {} THEN 0 ELSE f[Pick(s)] + g[s \ {Pick(s)}]]

LEMMA TotalUnfolds ==
    ASSUME NEW f, NEW S
    PROVE  Total(f, S) = (CHOOSE g : g = SumStep(f, S, g))[S]
BY DEF Total, MapThenSumSet, MapThenFoldSet, SumStep, Pick

\* A non-empty family of subsets of a finite set has a least one: every fact below about
\* a sum is proved on a least set on which it would fail.
LEMMA SmallestSubset ==
    ASSUME NEW U, IsFiniteSet(U), NEW B, B \subseteq SUBSET U, B # {}
    PROVE  \E s \in B : \A t \in B : t \subseteq s => t = s
<1>1. FiniteSubsetsOf(U) = SUBSET U
  BY FS_FiniteSubsetsOfFinite
<1>2. IsWellFoundedOn(StrictSubsetOrdering(U), SUBSET U)
  BY <1>1, FS_StrictSubsetOrderingWellFounded
<1>3. PICK s \in B : \A t \in B : ~ (<<t, s>> \in StrictSubsetOrdering(U))
  BY <1>2, WFMin
<1> QED
  BY <1>3 DEF StrictSubsetOrdering

Unfolded(f, s) ==
    Total(f, s) = IF s = {} THEN 0 ELSE f[Pick(s)] + Total(f, s \ {Pick(s)})

\* A solution of the recursion on the subsets of U is the sum on each of them
\* where the sums below unfold.
LEMMA SolutionIsTotal ==
    ASSUME NEW f, NEW U, IsFiniteSet(U), NEW g, g = SumStep(f, U, g),
           \A t \in SUBSET U : t # U => Unfolded(f, t)
    PROVE  \A t \in SUBSET U : t # U => g[t] = Total(f, t)
<1> DEFINE B == {t \in SUBSET U : t # U /\ g[t] # Total(f, t)}
<1> SUFFICES ASSUME B # {} PROVE FALSE
  OBVIOUS
<1>0. B \subseteq SUBSET U
  OBVIOUS
<1> HIDE DEF B
<1>1. PICK s \in B : \A t \in B : t \subseteq s => t = s
  BY <1>0, SmallestSubset
<1> USE DEF B
<1>2. g[s] = IF s = {} THEN 0 ELSE f[Pick(s)] + g[s \ {Pick(s)}]
  BY <1>1 DEF SumStep
<1>3. CASE s = {}
  BY <1>1, <1>2, <1>3 DEF Unfolded
<1>4. CASE s # {}
  <2>1. Pick(s) \in s
    BY <1>4 DEF Pick
  <2> DEFINE r == s \ {Pick(s)}
  <2>2. r \in SUBSET U /\ r # U /\ r \subseteq s /\ r # s
    BY <1>1, <2>1
  <2>3. g[r] = Total(f, r)
    BY <1>1, <2>2
  <2> QED
    BY <1>1, <1>2, <1>4, <2>3 DEF Unfolded
<1> QED
  BY <1>3, <1>4

LEMMA TotalStep ==
    ASSUME NEW f, NEW U, IsFiniteSet(U)
    PROVE  Unfolded(f, U)
<1> DEFINE B == {t \in SUBSET U : ~ Unfolded(f, t)}
<1> SUFFICES ASSUME B # {} PROVE FALSE
  OBVIOUS
<1>0. B \subseteq SUBSET U
  OBVIOUS
<1> HIDE DEF B
<1>1. PICK s \in B : \A t \in B : t \subseteq s => t = s
  BY <1>0, SmallestSubset
<1> USE DEF B
<1>2. \A t \in SUBSET s : t # s => Unfolded(f, t)
  BY <1>1
<1>3. IsFiniteSet(s)
  BY <1>1, FS_Subset
<1> DEFINE G == [t \in SUBSET s |->
                    IF t # s THEN Total(f, t)
                    ELSE IF s = {} THEN 0 ELSE f[Pick(s)] + Total(f, s \ {Pick(s)})]
<1>4. G = SumStep(f, s, G)
  <2> DEFINE H == SumStep(f, s, G)
  <2>1. ASSUME NEW t \in SUBSET s, t # {} PROVE Pick(t) \in t /\ t \ {Pick(t)} # s
                                     /\ t \ {Pick(t)} \in SUBSET s
    BY <2>1 DEF Pick
  <2>2. ASSUME NEW t \in SUBSET s PROVE G[t] = H[t]
    <3>1. H[t] = IF t = {} THEN 0 ELSE f[Pick(t)] + G[t \ {Pick(t)}]
      BY DEF SumStep
    <3>2. t # {} => G[t \ {Pick(t)}] = Total(f, t \ {Pick(t)})
      BY <2>1
    <3>3. t # s => G[t] = Total(f, t) /\ Unfolded(f, t)
      BY <1>2
    <3> QED
      BY <3>1, <3>2, <3>3 DEF Unfolded
  <2>3. H = [t \in SUBSET s |-> H[t]]
    BY DEF SumStep
  <2>4. G = [t \in SUBSET s |-> G[t]]
    OBVIOUS
  <2> HIDE DEF G, H
  <2> QED
    BY <2>2, <2>3, <2>4 DEF H
<1> DEFINE g == CHOOSE h : h = SumStep(f, s, h)
<1> HIDE DEF G
<1>5. g = SumStep(f, s, g)
  BY <1>4
<1> HIDE DEF g
<1>6. Total(f, s) = g[s]
  BY TotalUnfolds DEF g
<1>7. g[s] = IF s = {} THEN 0 ELSE f[Pick(s)] + g[s \ {Pick(s)}]
  BY <1>5 DEF SumStep
<1>8. s # {} => g[s \ {Pick(s)}] = Total(f, s \ {Pick(s)})
  <2> HAVE s # {}
  <2>1. Pick(s) \in s
    BY DEF Pick
  <2> QED
    <3>1. \A t \in SUBSET s : t # s => g[t] = Total(f, t)
      BY <1>2, <1>3, <1>5, SolutionIsTotal
    <3> QED
      BY <2>1, <3>1
<1> QED
  BY <1>1, <1>6, <1>7, <1>8 DEF Unfolded

LEMMA TotalEmpty == ASSUME NEW f PROVE Total(f, {}) = 0
BY TotalStep, FS_EmptySet DEF Unfolded

LEMMA TotalPick ==
    ASSUME NEW f, NEW S, IsFiniteSet(S), S # {}
    PROVE  /\ Pick(S) \in S
           /\ Total(f, S) = f[Pick(S)] + Total(f, S \ {Pick(S)})
BY TotalStep DEF Unfolded, Pick

LEMMA TotalNat ==
    ASSUME NEW f, NEW U, IsFiniteSet(U), \A x \in U : f[x] \in Nat
    PROVE  Total(f, U) \in Nat
<1> DEFINE B == {t \in SUBSET U : Total(f, t) \notin Nat}
<1> SUFFICES ASSUME B # {} PROVE FALSE
  OBVIOUS
<1>0. B \subseteq SUBSET U
  OBVIOUS
<1> HIDE DEF B
<1>1. PICK s \in B : \A t \in B : t \subseteq s => t = s
  BY <1>0, SmallestSubset
<1> USE DEF B
<1>2. s # {} /\ IsFiniteSet(s)
  <2>1. IsFiniteSet(s)
    BY <1>1, FS_Subset
  <2>2. Total(f, s) \notin Nat
    BY <1>1
  <2> QED
    BY <2>1, <2>2, TotalEmpty
<1>3. Pick(s) \in s /\ Total(f, s) = f[Pick(s)] + Total(f, s \ {Pick(s)})
  BY <1>2, TotalPick
<1>4. Total(f, s \ {Pick(s)}) \in Nat
  BY <1>1, <1>3
<1> QED
  BY <1>1, <1>3, <1>4

\* The order in which the elements are taken does not matter.
LEMMA TotalTake ==
    ASSUME NEW f, NEW U, IsFiniteSet(U), \A x \in U : f[x] \in Nat, NEW z \in U
    PROVE  Total(f, U) = f[z] + Total(f, U \ {z})
<1> DEFINE B == {t \in SUBSET U : \E x \in t : Total(f, t) # f[x] + Total(f, t \ {x})}
<1> SUFFICES ASSUME B # {} PROVE FALSE
  OBVIOUS
<1>0. B \subseteq SUBSET U
  OBVIOUS
<1> HIDE DEF B
<1>1. PICK s \in B : \A t \in B : t \subseteq s => t = s
  BY <1>0, SmallestSubset
<1> USE DEF B
<1>2. PICK x \in s : Total(f, s) # f[x] + Total(f, s \ {x})
  BY <1>1
<1>3. IsFiniteSet(s) /\ s # {} /\ s \subseteq U
  BY <1>1, <1>2, FS_Subset
<1> DEFINE y == Pick(s)
<1>4. y \in s /\ Total(f, s) = f[y] + Total(f, s \ {y})
  BY <1>3, TotalPick
<1> HIDE DEF y
<1>5. x # y
  BY <1>2, <1>4
<1>6. Total(f, s \ {y}) = f[x] + Total(f, (s \ {y}) \ {x})
  BY <1>1, <1>2, <1>3, <1>4, <1>5
<1>7. Total(f, s \ {x}) = f[y] + Total(f, (s \ {x}) \ {y})
  BY <1>1, <1>2, <1>3, <1>4, <1>5
<1>8. (s \ {x}) \ {y} = (s \ {y}) \ {x}
  OBVIOUS
<1>9. Total(f, (s \ {y}) \ {x}) \in Nat /\ f[x] \in Nat /\ f[y] \in Nat
  <2>1. IsFiniteSet((s \ {y}) \ {x})
    BY <1>3, FS_Subset
  <2> QED
    BY <1>2, <1>3, <1>4, <2>1, TotalNat
<1> QED
  BY <1>2, <1>4, <1>6, <1>7, <1>8, <1>9

LEMMA TotalSame ==
    ASSUME NEW f, NEW g, NEW U, IsFiniteSet(U), \A x \in U : f[x] = g[x]
    PROVE  Total(f, U) = Total(g, U)
<1> DEFINE B == {t \in SUBSET U : Total(f, t) # Total(g, t)}
<1> SUFFICES ASSUME B # {} PROVE FALSE
  OBVIOUS
<1>0. B \subseteq SUBSET U
  OBVIOUS
<1> HIDE DEF B
<1>1. PICK s \in B : \A t \in B : t \subseteq s => t = s
  BY <1>0, SmallestSubset
<1> USE DEF B
<1>2. s # {} /\ IsFiniteSet(s)
  <2>1. IsFiniteSet(s)
    BY <1>1, FS_Subset
  <2> QED
    BY <1>1, <2>1, TotalEmpty
<1>3. /\ Pick(s) \in s
      /\ Total(f, s) = f[Pick(s)] + Total(f, s \ {Pick(s)})
      /\ Total(g, s) = g[Pick(s)] + Total(g, s \ {Pick(s)})
  BY <1>2, TotalPick
<1>4. Total(f, s \ {Pick(s)}) = Total(g, s \ {Pick(s)})
  BY <1>1, <1>3
<1> QED
  BY <1>1, <1>3, <1>4

LEMMA TotalZero ==
    ASSUME NEW f, NEW U, IsFiniteSet(U), \A x \in U : f[x] = 0
    PROVE  Total(f, U) = 0
<1> DEFINE B == {t \in SUBSET U : Total(f, t) # 0}
<1> SUFFICES ASSUME B # {} PROVE FALSE
  OBVIOUS
<1>0. B \subseteq SUBSET U
  OBVIOUS
<1> HIDE DEF B
<1>1. PICK s \in B : \A t \in B : t \subseteq s => t = s
  BY <1>0, SmallestSubset
<1> USE DEF B
<1>2. s # {} /\ IsFiniteSet(s)
  <2>1. IsFiniteSet(s)
    BY <1>1, FS_Subset
  <2> QED
    BY <1>1, <2>1, TotalEmpty
<1>3. Pick(s) \in s /\ Total(f, s) = f[Pick(s)] + Total(f, s \ {Pick(s)})
  BY <1>2, TotalPick
<1>4. Total(f, s \ {Pick(s)}) = 0
  BY <1>1, <1>3
<1> QED
  BY <1>1, <1>3, <1>4

\* What one element changes, the sum changes.
LEMMA TotalChanged ==
    ASSUME NEW f, NEW g, NEW U, IsFiniteSet(U), NEW z \in U,
           \A x \in U : f[x] \in Nat /\ g[x] \in Nat,
           \A x \in U : x # z => f[x] = g[x]
    PROVE  Total(g, U) + f[z] = Total(f, U) + g[z]
<1> DEFINE rest == U \ {z}
<1>1. IsFiniteSet(rest)
  BY FS_Subset
<1>2. Total(f, rest) = Total(g, rest)
  BY <1>1, TotalSame
<1>3. Total(f, U) = f[z] + Total(f, rest) /\ Total(g, U) = g[z] + Total(g, rest)
  BY TotalTake
<1>4. Total(f, rest) \in Nat /\ Total(g, rest) \in Nat
  BY <1>1, TotalNat
<1> QED
  BY <1>2, <1>3, <1>4

LEMMA TotalPart ==
    ASSUME NEW f, NEW U, IsFiniteSet(U), NEW z \in U, \A x \in U : f[x] \in Nat
    PROVE  f[z] <= Total(f, U)
<1>1. Total(f, U) = f[z] + Total(f, U \ {z})
  BY TotalTake
<1>2. IsFiniteSet(U \ {z})
  BY FS_Subset
<1>3. Total(f, U \ {z}) \in Nat
  BY <1>2, TotalNat
<1> QED BY <1>1, <1>3
=============================================================================
