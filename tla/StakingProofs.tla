---------------------------- MODULE StakingProofs ----------------------------
(***************************************************************************)
(* That every user's rewards are the share of the emission, and that the   *)
(* principal is owed, for any users, amounts and times.  Sums over sets    *)
(* come first: the library's induction takes an operator, so what holds of *)
(* all sums is proved by a smallest set where it would not.                *)
(***************************************************************************)
EXTENDS StakingEngine, FiniteSetTheorems, WellFoundedInduction, TLAPS

------------------------------------------------------------------------------
(* Sums over finite sets                                                     *)

\* The sum of f over S, as MapThenSumSet takes it: an element after the other.
Chosen(S) == CHOOSE x \in S : TRUE
IsSum(g, f, S) ==
    g = [s \in SUBSET S |-> IF s = {} THEN 0 ELSE f[Chosen(s)] + g[s \ {Chosen(s)}]]
SumOf(f, S) == CHOOSE g : IsSum(g, f, S)

LEMMA TotalIsSum == ASSUME NEW f, NEW S PROVE Total(f, S) = SumOf(f, S)[S]
  BY DEF Total, MapThenSumSet, MapThenFoldSet, SumOf, IsSum, Chosen

\* Of the subsets of a finite set that have a property, one has no smaller one.
LEMMA SmallestSubset ==
    ASSUME NEW S, IsFiniteSet(S), NEW B, B \subseteq SUBSET S, B # {}
    PROVE  \E T \in B : \A U \in B : U \subseteq T => U = T
  <1>1. IsWellFoundedOn(StrictSubsetOrdering(S), SUBSET S)
    BY FS_StrictSubsetOrderingWellFounded, FS_FiniteSubsetsOfFinite
  <1>2. PICK T \in B : \A U \in B : ~ (<<U, T>> \in StrictSubsetOrdering(S))
    BY <1>1, WFMin
  <1> QED
    BY <1>2 DEF StrictSubsetOrdering

\* A sum over S is one over each subset of S.
LEMMA SumRestricted ==
    ASSUME NEW f, NEW S, NEW T \in SUBSET S, NEW g, IsSum(g, f, S)
    PROVE  IsSum([s \in SUBSET T |-> g[s]], f, T)
  <1> DEFINE h == [s \in SUBSET T |-> g[s]]
  <1>1. \A s \in SUBSET T :
            g[s] = IF s = {} THEN 0 ELSE f[Chosen(s)] + g[s \ {Chosen(s)}]
    BY DEF IsSum
  <1>2. \A s \in SUBSET T :
            h[s] = IF s = {} THEN 0 ELSE f[Chosen(s)] + h[s \ {Chosen(s)}]
    BY <1>1
  <1>3. h = [s \in SUBSET T |-> IF s = {} THEN 0 ELSE f[Chosen(s)] + h[s \ {Chosen(s)}]]
    BY <1>2
  <1> QED
    BY <1>3 DEF IsSum

LEMMA SumUnique ==
    ASSUME NEW f, NEW S, IsFiniteSet(S), NEW g, IsSum(g, f, S), NEW h, IsSum(h, f, S)
    PROVE  g = h
  <1> DEFINE B == {s \in SUBSET S : g[s] # h[s]}
  <1>1. /\ \A s \in SUBSET S :
            /\ g[s] = IF s = {} THEN 0 ELSE f[Chosen(s)] + g[s \ {Chosen(s)}]
            /\ h[s] = IF s = {} THEN 0 ELSE f[Chosen(s)] + h[s \ {Chosen(s)}]
        /\ g = [s \in SUBSET S |-> g[s]] /\ h = [s \in SUBSET S |-> h[s]]
    BY DEF IsSum
  <1>2. CASE B # {}
    <2>1. PICK T \in B : \A U \in B : U \subseteq T => U = T
      <3>1. B \subseteq SUBSET S
        OBVIOUS
      <3> HIDE DEF B
      <3> QED
        BY <1>2, <3>1, SmallestSubset
    <2>2. T # {}
      BY <1>1, <2>1
    <2>3. Chosen(T) \in T
      BY <2>2 DEF Chosen
    <2>4. g[T \ {Chosen(T)}] = h[T \ {Chosen(T)}]
      BY <2>1, <2>3
    <2> QED
      BY <1>1, <2>1, <2>4
  <1>3. CASE B = {}
    BY <1>1, <1>3
  <1> QED
    BY <1>2, <1>3

LEMMA SumExists ==
    ASSUME NEW f, NEW S, IsFiniteSet(S)
    PROVE  IsSum(SumOf(f, S), f, S)
  <1> DEFINE Has(T) == \E g : IsSum(g, f, T)
             B == {T \in SUBSET S : ~Has(T)}
  <1>1. CASE B # {}
    <2>1. PICK T \in B : \A U \in B : U \subseteq T => U = T
      <3>1. B \subseteq SUBSET S
        OBVIOUS
      <3> HIDE DEF B
      <3> QED
        BY <1>1, <3>1, SmallestSubset
    <2>f. \A U \in SUBSET S : IsFiniteSet(U)
      BY FS_Subset
    <2>2. \A U \in SUBSET T : U # T => IsSum(SumOf(f, U), f, U)
      <3> SUFFICES ASSUME NEW U \in SUBSET T, U # T PROVE IsSum(SumOf(f, U), f, U)
        OBVIOUS
      <3>1. Has(U)
        BY <2>1
      <3> QED
        BY <3>1 DEF SumOf
    <2> DEFINE V(U) == SumOf(f, U)[U]
               g == [s \in SUBSET T |-> IF s = {} THEN 0 ELSE f[Chosen(s)] + V(s \ {Chosen(s)})]
    <2>3. ASSUME NEW U \in SUBSET T, U # T
          PROVE  V(U) = IF U = {} THEN 0 ELSE f[Chosen(U)] + V(U \ {Chosen(U)})
      <3>1. IsSum(SumOf(f, U), f, U)
        BY <2>2, <2>3
      <3>2. CASE U = {}
        BY <3>1, <3>2 DEF IsSum
      <3>3. CASE U # {}
        <4> DEFINE W == U \ {Chosen(U)}
        <4>1. W \in SUBSET U /\ W \in SUBSET T /\ W # T /\ Chosen(U) \in U
          BY <2>3, <3>3 DEF Chosen
        <4>2. SumOf(f, U)[U] = f[Chosen(U)] + SumOf(f, U)[W]
          BY <3>1, <3>3 DEF IsSum
        <4>3. IsSum([s \in SUBSET W |-> SumOf(f, U)[s]], f, W)
          BY <3>1, <4>1, SumRestricted
        <4>4. IsSum(SumOf(f, W), f, W) /\ IsFiniteSet(W)
          BY <2>2, <2>f, <4>1
        <4>5. [s \in SUBSET W |-> SumOf(f, U)[s]] = SumOf(f, W)
          BY <4>3, <4>4, SumUnique
        <4>6. SumOf(f, U)[W] = SumOf(f, W)[W]
          <5>1. W \in SUBSET W
            OBVIOUS
          <5> HIDE DEF W
          <5>2. [s \in SUBSET W |-> SumOf(f, U)[s]][W] = SumOf(f, U)[W]
            BY <5>1
          <5> QED
            BY <4>5, <5>2
        <4> QED
          BY <3>3, <4>2, <4>6
      <3> QED
        BY <3>2, <3>3
    <2> HIDE DEF V
    <2>4. \A s \in SUBSET T : s # {} => /\ s \ {Chosen(s)} \in SUBSET T
                                        /\ s \ {Chosen(s)} # T
      BY DEF Chosen
    <2>5. \A s \in SUBSET T : s # {} => g[s \ {Chosen(s)}] = V(s \ {Chosen(s)})
      BY <2>3, <2>4
    <2>6. \A s \in SUBSET T :
            g[s] = IF s = {} THEN 0 ELSE f[Chosen(s)] + g[s \ {Chosen(s)}]
      BY <2>5
    <2>7. g = [s \in SUBSET T |-> IF s = {} THEN 0 ELSE f[Chosen(s)] + g[s \ {Chosen(s)}]]
      BY <2>6
    <2> HIDE DEF g
    <2>8. IsSum(g, f, T)
      BY <2>7 DEF IsSum
    <2> QED
      BY <2>1, <2>8
  <1>2. CASE B = {}
    <2>1. Has(S)
      BY <1>2
    <2> QED
      BY <2>1 DEF SumOf
  <1> QED
    BY <1>1, <1>2

LEMMA TotalEmpty == ASSUME NEW f PROVE Total(f, {}) = 0
  <1>1. IsSum(SumOf(f, {}), f, {})
    BY SumExists, FS_EmptySet
  <1> QED
    BY <1>1, TotalIsSum DEF IsSum

LEMMA TotalFirst ==
    ASSUME NEW f, NEW S, IsFiniteSet(S), S # {}
    PROVE  /\ Chosen(S) \in S
           /\ Total(f, S) = f[Chosen(S)] + Total(f, S \ {Chosen(S)})
  <1> DEFINE W == S \ {Chosen(S)}
  <1>1. Chosen(S) \in S /\ W \in SUBSET S /\ IsFiniteSet(W)
    BY FS_Subset DEF Chosen
  <1>2. IsSum(SumOf(f, S), f, S) /\ IsSum(SumOf(f, W), f, W)
    BY <1>1, SumExists
  <1>3. [s \in SUBSET W |-> SumOf(f, S)[s]] = SumOf(f, W)
    <2> HIDE DEF W
    <2>1. IsSum([s \in SUBSET W |-> SumOf(f, S)[s]], f, W)
      BY <1>1, <1>2, SumRestricted
    <2> QED
      BY <1>1, <1>2, <2>1, SumUnique
  <1>4. SumOf(f, S)[S] = f[Chosen(S)] + SumOf(f, S)[W]
    BY <1>2 DEF IsSum
  <1>5. SumOf(f, W)[W] = SumOf(f, S)[W]
    <2>1. W \in SUBSET W
      OBVIOUS
    <2> HIDE DEF W
    <2>2. [s \in SUBSET W |-> SumOf(f, S)[s]][W] = SumOf(f, S)[W]
      BY <2>1
    <2> QED
      BY <1>3, <2>2
  <1>6. Total(f, S) = SumOf(f, S)[S] /\ Total(f, W) = SumOf(f, W)[W]
    BY TotalIsSum
  <1> HIDE DEF W
  <1>7. Total(f, S) = f[Chosen(S)] + Total(f, W)
    BY <1>4, <1>5, <1>6
  <1> QED
    BY <1>1, <1>7 DEF W

\* Sums of natural numbers are natural.
LEMMA TotalNat ==
    ASSUME NEW S, IsFiniteSet(S), NEW f, \A x \in S : f[x] \in Nat
    PROVE  Total(f, S) \in Nat
  <1> DEFINE B == {T \in SUBSET S : Total(f, T) \notin Nat}
  <1>0. B \subseteq SUBSET S
    OBVIOUS
  <1>1. ASSUME B # {} PROVE FALSE
    <2>1. PICK T \in B : \A U \in B : U \subseteq T => U = T
      <3> HIDE DEF B
      <3> QED
        BY <1>0, <1>1, SmallestSubset
    <2>2. T # {} /\ T \in SUBSET S /\ IsFiniteSet(T)
      <3>1. Total(f, T) \notin Nat /\ T \in SUBSET S
        BY <2>1
      <3>2. Total(f, {}) \in Nat
        BY TotalEmpty
      <3> QED
        BY <3>1, <3>2, FS_Subset
    <2>3. Chosen(T) \in T /\ Total(f, T) = f[Chosen(T)] + Total(f, T \ {Chosen(T)})
      BY <2>2, TotalFirst
    <2>4. Total(f, T \ {Chosen(T)}) \in Nat
      BY <2>1, <2>2, <2>3
    <2>5. f[Chosen(T)] \in Nat
      BY <2>2, <2>3
    <2> QED
      BY <2>1, <2>3, <2>4, <2>5
  <1>2. S \in SUBSET S
    OBVIOUS
  <1> QED
    BY <1>1, <1>2

\* The sum does not depend on the element that is taken first.
LEMMA TotalSplit ==
    ASSUME NEW S, IsFiniteSet(S), NEW f, \A y \in S : f[y] \in Nat, NEW x \in S
    PROVE  /\ Total(f, S \ {x}) \in Nat
           /\ Total(f, S) = f[x] + Total(f, S \ {x})
  <1> DEFINE B == {T \in SUBSET S : \E y \in T : Total(f, T) # f[y] + Total(f, T \ {y})}
  <1>0. B \subseteq SUBSET S
    OBVIOUS
  <1>n. \A T \in SUBSET S : Total(f, T) \in Nat /\ IsFiniteSet(T)
    <2> SUFFICES ASSUME NEW T \in SUBSET S PROVE Total(f, T) \in Nat /\ IsFiniteSet(T)
      OBVIOUS
    <2>1. IsFiniteSet(T) /\ \A y \in T : f[y] \in Nat
      BY FS_Subset
    <2> QED
      BY <2>1, TotalNat
  <1>1. ASSUME B # {} PROVE FALSE
    <2>1. PICK T \in B : \A U \in B : U \subseteq T => U = T
      <3> HIDE DEF B
      <3> QED
        BY <1>0, <1>1, SmallestSubset
    <2>2. PICK y \in T : Total(f, T) # f[y] + Total(f, T \ {y})
      BY <2>1
    <2> DEFINE c == Chosen(T)
    <2>3. T \in SUBSET S /\ T # {} /\ IsFiniteSet(T)
      BY <1>n, <2>1, <2>2
    <2>4. c \in T /\ Total(f, T) = f[c] + Total(f, T \ {c})
      BY <2>3, TotalFirst
    <2>5. c # y
      BY <2>2, <2>4
    <2>6. \A U \in SUBSET T : U # T => \A z \in U : Total(f, U) = f[z] + Total(f, U \ {z})
      BY <2>1, <2>3
    <2> HIDE DEF c, B
    <2>7. Total(f, T \ {c}) = f[y] + Total(f, (T \ {c}) \ {y})
      BY <2>4, <2>5, <2>6
    <2>8. Total(f, T \ {y}) = f[c] + Total(f, (T \ {y}) \ {c})
      BY <2>4, <2>5, <2>6
    <2>9. (T \ {c}) \ {y} = (T \ {y}) \ {c}
      OBVIOUS
    <2>10. f[c] \in Nat /\ f[y] \in Nat /\ Total(f, (T \ {y}) \ {c}) \in Nat
      BY <1>n, <2>3, <2>4
    <2> QED
      BY <2>2, <2>4, <2>7, <2>8, <2>9, <2>10
  <1>2. B = {}
    BY <1>1
  <1>3. S \in SUBSET S /\ S \ {x} \in SUBSET S
    OBVIOUS
  <1> QED
    BY <1>n, <1>2, <1>3

\* Functions that agree on S have the same sum.
LEMMA TotalSame ==
    ASSUME NEW S, IsFiniteSet(S), NEW f, NEW h, \A y \in S : f[y] = h[y]
    PROVE  Total(f, S) = Total(h, S)
  <1> DEFINE B == {T \in SUBSET S : Total(f, T) # Total(h, T)}
  <1>0. B \subseteq SUBSET S
    OBVIOUS
  <1>1. ASSUME B # {} PROVE FALSE
    <2>1. PICK T \in B : \A U \in B : U \subseteq T => U = T
      <3> HIDE DEF B
      <3> QED
        BY <1>0, <1>1, SmallestSubset
    <2>2. T # {} /\ T \in SUBSET S /\ IsFiniteSet(T)
      BY <2>1, TotalEmpty, FS_Subset
    <2>3. /\ Chosen(T) \in T
          /\ Total(f, T) = f[Chosen(T)] + Total(f, T \ {Chosen(T)})
          /\ Total(h, T) = h[Chosen(T)] + Total(h, T \ {Chosen(T)})
      BY <2>2, TotalFirst
    <2>4. Total(f, T \ {Chosen(T)}) = Total(h, T \ {Chosen(T)})
      BY <2>1, <2>2, <2>3
    <2>5. f[Chosen(T)] = h[Chosen(T)]
      BY <2>2, <2>3
    <2> QED
      BY <2>1, <2>3, <2>4, <2>5
  <1> QED
    BY <1>1

\* One value changes.
LEMMA TotalChange ==
    ASSUME NEW S, IsFiniteSet(S), NEW f, \A y \in S : f[y] \in Nat,
           NEW h, \A y \in S : h[y] \in Nat,
           NEW x \in S, \A y \in S \ {x} : h[y] = f[y]
    PROVE  Total(f, S) \in Nat /\ Total(h, S) \in Nat
           /\ Total(h, S) = Total(f, S) - f[x] + h[x]
           /\ f[x] <= Total(f, S)
  <1>1. Total(f, S) \in Nat /\ Total(h, S) \in Nat
    BY TotalNat
  <1>2. Total(f, S) = f[x] + Total(f, S \ {x}) /\ Total(f, S \ {x}) \in Nat
    BY TotalSplit
  <1>3. Total(h, S) = h[x] + Total(h, S \ {x}) /\ Total(h, S \ {x}) \in Nat
    BY TotalSplit
  <1>4. Total(h, S \ {x}) = Total(f, S \ {x})
    <2>1. IsFiniteSet(S \ {x})
      BY FS_Subset
    <2> QED
      BY <2>1, TotalSame
  <1>5. f[x] \in Nat /\ h[x] \in Nat
    OBVIOUS
  <1> QED
    BY <1>1, <1>2, <1>3, <1>4, <1>5

\* A sum of zeros.
LEMMA TotalZero ==
    ASSUME NEW S, IsFiniteSet(S), NEW f, \A y \in S : f[y] = 0
    PROVE  Total(f, S) = 0
  <1> DEFINE B == {T \in SUBSET S : Total(f, T) # 0}
  <1>0. B \subseteq SUBSET S
    OBVIOUS
  <1>1. ASSUME B # {} PROVE FALSE
    <2>1. PICK T \in B : \A U \in B : U \subseteq T => U = T
      <3> HIDE DEF B
      <3> QED
        BY <1>0, <1>1, SmallestSubset
    <2>2. T # {} /\ T \in SUBSET S /\ IsFiniteSet(T)
      BY <2>1, TotalEmpty, FS_Subset
    <2>3. Chosen(T) \in T /\ Total(f, T) = f[Chosen(T)] + Total(f, T \ {Chosen(T)})
      BY <2>2, TotalFirst
    <2>4. Total(f, T \ {Chosen(T)}) = 0
      BY <2>1, <2>2, <2>3
    <2>5. f[Chosen(T)] = 0
      BY <2>2, <2>3
    <2> QED
      BY <2>1, <2>3, <2>4, <2>5
  <1> QED
    BY <1>1

\* The values of A are taken out.
LEMMA TotalTaken ==
    ASSUME NEW S, IsFiniteSet(S), NEW f, \A y \in S : f[y] \in Nat, NEW A \in SUBSET S
    PROVE  Total(f, S) = Total(f, A) + Total([y \in S |-> IF y \in A THEN 0 ELSE f[y]], S)
  <1> DEFINE Rest(T) == [y \in S |-> IF y \in T THEN 0 ELSE f[y]]
             B == {T \in SUBSET S : Total(f, S) # Total(f, T) + Total(Rest(T), S)}
  <1>0. B \subseteq SUBSET S
    OBVIOUS
  <1>r. \A T \in SUBSET S : \A y \in S : Rest(T)[y] = IF y \in T THEN 0 ELSE f[y]
    OBVIOUS
  <1> HIDE DEF Rest
  <1>1. ASSUME B # {} PROVE FALSE
    <2>1. PICK T \in B : \A U \in B : U \subseteq T => U = T
      <3> HIDE DEF B
      <3> QED
        BY <1>0, <1>1, SmallestSubset
    <2>2. T \in SUBSET S /\ IsFiniteSet(T) /\ \A y \in T : f[y] \in Nat
      BY <2>1, FS_Subset
    <2>3. T # {}
      <3>1. Total(Rest({}), S) = Total(f, S)
        BY <1>r, TotalSame
      <3>2. Total(f, S) \in Nat
        BY TotalNat
      <3> QED
        <4>1. Total(f, S) = Total(f, {}) + Total(Rest({}), S)
          BY <3>1, <3>2, TotalEmpty
        <4>2. Total(f, S) # Total(f, T) + Total(Rest(T), S)
          BY <2>1
        <4> QED
          BY <4>1, <4>2
    <2> DEFINE c == Chosen(T)
               U == T \ {c}
    <2>4. c \in T /\ c \in S
      BY <2>2, <2>3 DEF Chosen
    <2> HIDE DEF c
    <2>5. U \in SUBSET S /\ U \subseteq T /\ U # T
      BY <2>2, <2>4
    <2>6. Total(f, S) = Total(f, U) + Total(Rest(U), S)
      BY <2>1, <2>5
    <2>7. Total(f, T) = f[c] + Total(f, U) /\ Total(f, U) \in Nat
      BY <2>2, <2>4, TotalSplit
    <2> HIDE DEF U, B
    <2>8. /\ \A y \in S : Rest(U)[y] \in Nat /\ Rest(T)[y] \in Nat
          /\ \A y \in S \ {c} : Rest(T)[y] = Rest(U)[y]
          /\ Rest(U)[c] = f[c] /\ Rest(T)[c] = 0
      BY <1>r, <2>2, <2>4, <2>5 DEF U
    <2>9. /\ Total(Rest(U), S) \in Nat /\ Total(Rest(T), S) \in Nat
          /\ Total(Rest(T), S) = Total(Rest(U), S) - f[c] + 0
      BY <2>4, <2>8, TotalChange
    <2>10. f[c] \in Nat
      BY <2>4
    <2>11. Total(f, S) = Total(f, T) + Total(Rest(T), S)
      BY <2>6, <2>7, <2>9, <2>10
    <2> QED
      BY <2>1, <2>11 DEF B
  <1>2. A \notin B
    BY <1>1
  <1> QED
    BY <1>2 DEF Rest
\* Smaller values have a smaller sum.
LEMMA TotalLeast ==
    ASSUME NEW S, IsFiniteSet(S), NEW f, NEW h,
           \A y \in S : f[y] \in Nat /\ h[y] \in Nat /\ f[y] <= h[y]
    PROVE  Total(f, S) <= Total(h, S)
  <1> DEFINE B == {T \in SUBSET S : ~(Total(f, T) <= Total(h, T))}
  <1>0. B \subseteq SUBSET S
    OBVIOUS
  <1>1. ASSUME B # {} PROVE FALSE
    <2>1. PICK T \in B : \A U \in B : U \subseteq T => U = T
      <3> HIDE DEF B
      <3> QED
        BY <1>0, <1>1, SmallestSubset
    <2>2. T # {} /\ T \in SUBSET S /\ IsFiniteSet(T)
      <3>1. T \in SUBSET S /\ ~(Total(f, T) <= Total(h, T))
        BY <2>1
      <3>2. Total(f, {}) <= Total(h, {})
        BY TotalEmpty
      <3> QED
        BY <3>1, <3>2, FS_Subset
    <2> DEFINE c == Chosen(T)
               U == T \ {c}
    <2>3. c \in T /\ Total(f, T) = f[c] + Total(f, U) /\ Total(h, T) = h[c] + Total(h, U)
      BY <2>2, TotalFirst
    <2> HIDE DEF c
    <2>4. Total(f, U) <= Total(h, U)
      BY <2>1, <2>2, <2>3
    <2>5. f[c] \in Nat /\ h[c] \in Nat /\ f[c] <= h[c]
      BY <2>2, <2>3
    <2>6. U \in SUBSET S
      BY <2>2
    <2> HIDE DEF U
    <2>7. Total(f, U) \in Nat /\ Total(h, U) \in Nat
      <3>1. IsFiniteSet(U) /\ \A y \in U : f[y] \in Nat /\ h[y] \in Nat
        BY <2>6, FS_Subset
      <3> QED
        BY <3>1, TotalNat
    <2>8. Total(f, T) <= Total(h, T)
      BY <2>3, <2>4, <2>5, <2>7
    <2> QED
      BY <2>1, <2>8
  <1> QED
    BY <1>1

------------------------------------------------------------------------------
(* The engine                                                                *)

\* A position with what its user is owed and has earned, when the accumulator is acc.
Balanced(p, o, e, acc) ==
    /\ p \in Position /\ o \in Nat /\ e \in Nat
    /\ ~p.open => p = NoPosition
    /\ p.staked = 0 => p.debt = 0
    /\ o = p.staked + Total(p.requests, UnlockTimes)
    /\ e = PendingRewards(p, acc)

StakingInv ==
    /\ StakingTypeOK
    /\ \A u \in Users : Balanced(position[u], owed[u], earned[u], pool.acc)
    /\ pool.total = Total([u \in Users |-> position[u].staked], Users)
    /\ Total(owed, Users) <= MaxStaked

LEMMA Quotient ==
    ASSUME NEW n \in Nat, NEW d \in Nat \ {0}
    PROVE  (n * d) \div d = n
  OBVIOUS

LEMMA FiniteTimes == IsFiniteSet(UnlockTimes) /\ UnlockTimes \subseteq Nat
  BY FS_Interval, StakingAssumption DEF UnlockTimes

\* What a unit of stake earns, and what a stake does.
LEMMA Emission ==
    ASSUME StakingInv, NEW t \in Times, t >= pool.at
    PROVE  /\ PerShare(t) \in Nat /\ Acc(t) \in Nat /\ Acc(t) = pool.acc + PerShare(t)
           /\ EarnedBy(t) \in [Users -> Nat]
           /\ \A u \in Users : EarnedBy(t)[u] = earned[u] + position[u].staked * PerShare(t)
  <1>t. pool.total \in 0..MaxStaked /\ pool.acc \in Nat /\ pool.at \in Nat /\ t \in Nat
    BY StakingAssumption DEF StakingInv, StakingTypeOK, Amount, Times
  <1>u. \A u \in Users : earned[u] \in Nat /\ position[u].staked \in Nat
    BY StakingAssumption DEF StakingInv, StakingTypeOK, Amount, Position
  <1>1. CASE pool.total = 0
    <2>1. PerShare(t) = 0
      BY <1>1 DEF PerShare
    <2>2. \A u \in Users : EarnedBy(t)[u] = earned[u]
      BY <1>1 DEF EarnedBy
    <2>3. EarnedBy(t) \in [Users -> Nat]
      BY <1>1, <1>u DEF EarnedBy
    <2>4. \A u \in Users : position[u].staked * 0 = 0
      BY <1>u
    <2> QED
      BY <1>t, <1>u, <2>1, <2>2, <2>3, <2>4 DEF Acc
  <1>2. CASE pool.total # 0
    <2> DEFINE d == pool.total
               q == Scale \div pool.total
               s == t - pool.at
    <2>1. d \in 1..MaxStaked /\ s \in Nat
      BY <1>t, <1>2
    <2>2. Scale % d = 0 /\ Scale \in Nat
      BY <2>1, StakingAssumption
    <2>3. q \in Nat /\ Scale = q * d
      BY <2>1, <2>2, StakingAssumption
    <2>4. PerShare(t) = s * q
      BY <1>2 DEF PerShare
    <2>5. \A u \in Users : EarnedBy(t)[u] = earned[u] + (s * Scale * position[u].staked) \div d
      BY <1>2 DEF EarnedBy
    <2> HIDE DEF d, q, s
    <2>6. s * q \in Nat
      BY <2>1, <2>3
    <2>7. ASSUME NEW u \in Users
          PROVE  EarnedBy(t)[u] = earned[u] + position[u].staked * (s * q)
      <3> DEFINE k == position[u].staked
      <3>1. k \in Nat
        BY <1>u
      <3> HIDE DEF k
      <3>2. s * Scale * k = (k * (s * q)) * d
        BY <2>1, <2>3, <3>1
      <3>3. k * (s * q) \in Nat
        BY <2>6, <3>1
      <3>4. (s * Scale * k) \div d = k * (s * q)
        BY <2>1, <3>2, <3>3, Quotient, StakingAssumption
      <3> QED
        BY <2>5, <3>4 DEF k
    <2>8. \A u \in Users : EarnedBy(t)[u] \in Nat
      BY <1>u, <2>6, <2>7
    <2>9. EarnedBy(t) \in [Users -> Nat]
      BY <2>8 DEF EarnedBy
    <2> QED
      BY <1>t, <2>4, <2>6, <2>7, <2>9 DEF Acc
  <1> QED
    BY <1>1, <1>2

\* At the new accumulator everybody has earned what a settlement would pay.
LEMMA Settling ==
    ASSUME StakingInv, NEW t \in Times, t >= pool.at, NEW u \in Users
    PROVE  PendingRewards(position[u], Acc(t)) = EarnedBy(t)[u]
  <1> DEFINE p == position[u]
  <1>1. p.staked \in Nat /\ p.pending \in Nat /\ p.debt \in Nat
    BY StakingAssumption DEF StakingInv, StakingTypeOK, Amount, Position
  <1>2. pool.acc \in Nat
    BY DEF StakingInv, StakingTypeOK
  <1>3. earned[u] = p.pending + p.staked * pool.acc - p.debt
    BY DEF StakingInv, Balanced, PendingRewards
  <1> HIDE DEF p
  <1>4. PerShare(t) \in Nat /\ Acc(t) = pool.acc + PerShare(t)
        /\ EarnedBy(t)[u] = earned[u] + p.staked * PerShare(t)
    BY Emission DEF p
  <1>5. p.staked * (pool.acc + PerShare(t)) = p.staked * pool.acc + p.staked * PerShare(t)
    BY <1>1, <1>2, <1>4
  <1>6. p.staked * pool.acc \in Nat /\ p.staked * PerShare(t) \in Nat
    BY <1>1, <1>2, <1>4
  <1>7. PendingRewards(p, Acc(t)) = p.pending + p.staked * Acc(t) - p.debt
    BY DEF PendingRewards
  <1>8. PendingRewards(p, Acc(t)) = EarnedBy(t)[u]
    BY <1>1, <1>3, <1>4, <1>5, <1>6, <1>7
  <1> QED
    BY <1>8 DEF p

\* The position once it is settled.
LEMMA Settled ==
    ASSUME StakingInv, NEW t \in Times, t >= pool.at, NEW u \in Users
    PROVE  /\ Accrued(u, t) \in Position
           /\ Accrued(u, t).open = position[u].open
           /\ Accrued(u, t).staked = position[u].staked
           /\ Accrued(u, t).requests = position[u].requests
           /\ Accrued(u, t).pending = EarnedBy(t)[u]
           /\ Accrued(u, t).debt = position[u].staked * Acc(t)
  <1> DEFINE p == position[u]
             a == Max({0, PendingRewards(p, Acc(t))})
             b == p.staked * Acc(t)
             m == [p EXCEPT !.pending = a]
             n == [m EXCEPT !.debt = b]
  <1>1. p \in Position /\ p.staked \in Nat
    BY StakingAssumption DEF StakingInv, StakingTypeOK, Amount, Position
  <1>2. EarnedBy(t)[u] \in Nat /\ PendingRewards(p, Acc(t)) = EarnedBy(t)[u] /\ Acc(t) \in Nat
    BY Emission, Settling
  <1>3. a = EarnedBy(t)[u]
    <2> DEFINE e == EarnedBy(t)[u]
    <2>1. e \in Nat /\ a = Max({0, e})
      BY <1>2
    <2> HIDE DEF e, a
    <2>2. Max({0, e}) = e
      BY <2>1 DEF Max
    <2> QED
      BY <2>1, <2>2 DEF e
  <1>4. b \in Nat
    BY <1>1, <1>2
  <1>5. Accrued(u, t) = n
    BY DEF Accrued
  <1> HIDE DEF p, a, b, m, n
  <1>6. m \in Position /\ m.pending = a /\ m.open = p.open /\ m.staked = p.staked
        /\ m.debt = p.debt /\ m.requests = p.requests
    BY <1>1, <1>2, <1>3 DEF m, Position
  <1>7. n \in Position /\ n.pending = m.pending /\ n.open = m.open /\ n.staked = m.staked
        /\ n.debt = b /\ n.requests = m.requests
    BY <1>4, <1>6 DEF n, Position
  <1> QED
    BY <1>3, <1>5, <1>6, <1>7 DEF p, b
\* The position after a stake or an unstake.
LEMMA ResizedBalanced ==
    ASSUME StakingInv, NEW t \in Times, t >= pool.at, NEW u \in Users,
           NEW delta \in Int, position[u].staked + delta \in Amount
    PROVE  /\ Resized(u, delta, t) \in Position
           /\ Resized(u, delta, t).open
           /\ Resized(u, delta, t).staked = position[u].staked + delta
           /\ Resized(u, delta, t).requests = position[u].requests
           /\ PendingRewards(Resized(u, delta, t), Acc(t)) = EarnedBy(t)[u]
           /\ Resized(u, delta, t).staked = 0 => Resized(u, delta, t).debt = 0
  <1> DEFINE p == Accrued(u, t)
             k == position[u].staked + delta
             b == k * Acc(t)
             m == [p EXCEPT !.open = TRUE]
             n == [m EXCEPT !.staked = k]
             o == [n EXCEPT !.debt = b]
  <1>1. p \in Position /\ p.pending = EarnedBy(t)[u] /\ p.requests = position[u].requests
    BY Settled
  <1>2. k \in Amount /\ k \in Nat /\ Acc(t) \in Nat /\ EarnedBy(t)[u] \in Nat
    BY Emission, StakingAssumption DEF Amount
  <1>3. Resized(u, delta, t) = o
    BY DEF Resized
  <1> HIDE DEF p, k, m, n, o
  <1>4. b \in Nat /\ (k = 0 => b = 0)
    BY <1>2
  <1> HIDE DEF b
  <1>5. m \in Position /\ m.open = TRUE /\ m.pending = p.pending /\ m.requests = p.requests
    BY <1>1 DEF m, Position
  <1>6. n \in Position /\ n.open = m.open /\ n.pending = m.pending /\ n.requests = m.requests
        /\ n.staked = k
    BY <1>2, <1>5 DEF n, Position
  <1>7. o \in Position /\ o.open = n.open /\ o.pending = n.pending /\ o.requests = n.requests
        /\ o.staked = n.staked /\ o.debt = b
    BY <1>4, <1>6 DEF o, Position
  <1>8. PendingRewards(o, Acc(t)) = EarnedBy(t)[u] + k * Acc(t) - b
    BY <1>1, <1>5, <1>6, <1>7 DEF PendingRewards
  <1>9. PendingRewards(o, Acc(t)) = EarnedBy(t)[u]
    BY <1>2, <1>4, <1>8 DEF b
  <1> QED
    BY <1>1, <1>3, <1>4, <1>5, <1>6, <1>7, <1>9 DEF k

LEMMA NoPositionTyped ==
    /\ NoPosition \in Position /\ ~NoPosition.open
    /\ NoPosition.staked = 0 /\ NoPosition.debt = 0 /\ NoPosition.pending = 0
    /\ Total(NoPosition.requests, UnlockTimes) = 0
  <1>1. NoPosition.requests = [t \in UnlockTimes |-> 0]
    BY DEF NoPosition
  <1>2. Total(NoPosition.requests, UnlockTimes) = 0
    BY <1>1, FiniteTimes, TotalZero
  <1> QED
    BY <1>2, StakingAssumption DEF NoPosition, Position, Amount

\* An empty position may be deleted.
LEMMA KeptBalanced ==
    ASSUME NEW p, NEW o, NEW e, NEW acc \in Nat, Balanced(p, o, e, acc)
    PROVE  Balanced(Kept(p), o, e, acc) /\ Kept(p).staked = p.staked
  <1>1. CASE p.staked = 0 /\ p.pending = 0 /\ ~HasRequests(p)
    <2>1. Kept(p) = NoPosition
      BY <1>1 DEF Kept
    <2>2. p \in Position /\ \A t \in UnlockTimes : p.requests[t] \in Nat
      BY DEF Balanced, Position
    <2>3. \A t \in UnlockTimes : p.requests[t] = 0
      BY <1>1, <2>2 DEF HasRequests
    <2>4. Total(p.requests, UnlockTimes) = 0
      BY <2>3, FiniteTimes, TotalZero
    <2>5. p.debt = 0 /\ 0 * acc = 0
      BY <1>1 DEF Balanced
    <2>6. PendingRewards(p, acc) = 0 /\ PendingRewards(NoPosition, acc) = 0
      BY <1>1, <2>5, NoPositionTyped DEF PendingRewards
    <2> QED
      BY <1>1, <2>1, <2>4, <2>6, NoPositionTyped DEF Balanced
  <1>2. CASE ~(p.staked = 0 /\ p.pending = 0 /\ ~HasRequests(p))
    BY <1>2 DEF Kept
  <1> QED
    BY <1>1, <1>2

\* One position changes, and the pool with it.
LEMMA PositionChanges ==
    ASSUME StakingInv, NEW u \in Users, NEW p, NEW o \in Nat, NEW e \in Nat,
           NEW t \in Times, pool'.at = t, pool'.acc \in Nat,
           pool' = [total |-> pool'.total, acc |-> pool'.acc, at |-> pool'.at],
           Balanced(p, o, e, pool'.acc),
           position' = [position EXCEPT ![u] = p],
           owed' = [owed EXCEPT ![u] = o],
           earned' \in [Users -> Nat], earned'[u] = e,
           \A v \in Users : v # u => earned'[v] = PendingRewards(position[v], pool'.acc),
           pool'.total = pool.total - position[u].staked + p.staked,
           Total(owed, Users) - owed[u] + o <= MaxStaked
    PROVE  StakingInv'
  <1>1. /\ position \in [Users -> Position] /\ owed \in [Users -> Nat]
        /\ p \in Position /\ IsFiniteSet(Users)
    BY StakingAssumption DEF StakingInv, StakingTypeOK, Balanced
  <1>2. /\ position' \in [Users -> Position] /\ owed' \in [Users -> Nat]
        /\ position'[u] = p /\ owed'[u] = o
        /\ \A v \in Users : v # u => position'[v] = position[v] /\ owed'[v] = owed[v]
    BY <1>1
  <1>s. \A q \in Position : q.staked \in Nat
    BY StakingAssumption DEF Position, Amount
  <1> DEFINE f == [v \in Users |-> position[v].staked]
             g == [v \in Users |-> position'[v].staked]
  <1>3. /\ \A v \in Users : f[v] \in Nat /\ g[v] \in Nat
        /\ f[u] = position[u].staked /\ g[u] = p.staked
        /\ \A v \in Users \ {u} : g[v] = f[v]
    BY <1>1, <1>2, <1>s
  <1>4. pool.total = Total(f, Users)
    BY DEF StakingInv
  <1> HIDE DEF f
  <1> HIDE DEF g
  <1>5. Total(g, Users) = pool'.total /\ Total(g, Users) \in Nat
    <2>1. Total(g, Users) \in Nat /\ Total(g, Users) = Total(f, Users) - f[u] + g[u]
      BY <1>1, <1>3, TotalChange
    <2> QED
      BY <1>3, <1>4, <2>1
  <1>6. Total(owed', Users) <= MaxStaked /\ Total(owed', Users) \in Nat
    <2>1. /\ Total(owed', Users) \in Nat
          /\ Total(owed', Users) = Total(owed, Users) - owed[u] + owed'[u]
      <3> DEFINE h == owed'
      <3>1. \A v \in Users : owed[v] \in Nat
        BY <1>1
      <3>2. \A v \in Users : h[v] \in Nat
        BY <1>2
      <3>3. \A v \in Users \ {u} : h[v] = owed[v]
        BY <1>2
      <3>4. IsFiniteSet(Users) /\ u \in Users
        BY <1>1
      <3> HIDE DEF h
      <3>5. /\ Total(h, Users) \in Nat
            /\ Total(h, Users) = Total(owed, Users) - owed[u] + h[u]
        BY ONLY <3>1, <3>2, <3>3, <3>4, TotalChange
      <3> QED
        BY <3>5 DEF h
    <2> QED
      BY <1>2, <2>1
  <1>7. \A v \in Users : Balanced(position'[v], owed'[v], earned'[v], pool'.acc)
    <2> SUFFICES ASSUME NEW v \in Users
                 PROVE  Balanced(position'[v], owed'[v], earned'[v], pool'.acc)
      OBVIOUS
    <2>1. CASE v = u
      BY <1>2, <2>1
    <2>2. CASE v # u
      <3>1. Balanced(position[v], owed[v], earned[v], pool.acc)
        BY DEF StakingInv
      <3>2. earned'[v] \in Nat
        OBVIOUS
      <3> QED
        BY <1>2, <2>2, <3>1, <3>2 DEF Balanced
    <2> QED
      BY <2>1, <2>2
  <1>8. \A v \in Users : g[v] <= owed'[v] /\ owed'[v] \in Nat
    <2> SUFFICES ASSUME NEW v \in Users PROVE g[v] <= owed'[v] /\ owed'[v] \in Nat
      OBVIOUS
    <2>1. \A x \in UnlockTimes : position'[v].requests[x] \in Nat
      BY <1>2 DEF Position
    <2>2. Total(position'[v].requests, UnlockTimes) \in Nat
      BY <2>1, FiniteTimes, TotalNat
    <2>3. owed'[v] = position'[v].staked + Total(position'[v].requests, UnlockTimes)
      BY <1>7 DEF Balanced
    <2>4. g[v] = position'[v].staked
      BY DEF g
    <2> QED
      BY <1>2, <1>3, <2>2, <2>3, <2>4
  <1>9. Total(g, Users) <= Total(owed', Users)
    BY <1>1, <1>3, <1>8, TotalLeast
  <1>10. pool'.total \in Amount
    BY <1>5, <1>6, <1>9, StakingAssumption DEF Amount
  <1>11. StakingTypeOK'
    BY <1>2, <1>10 DEF StakingTypeOK
  <1>12. (pool.total = Total([v \in Users |-> position[v].staked], Users))'
    BY <1>5 DEF g
  <1> QED
    BY <1>6, <1>7, <1>11, <1>12 DEF StakingInv
\* The stake of a user is part of the pool's, and there is room for what fits.
LEMMA StakesFit ==
    ASSUME StakingInv, NEW u \in Users
    PROVE  /\ position[u].staked \in Nat /\ position[u].staked <= pool.total
           /\ pool.total \in Nat /\ Total(owed, Users) \in Nat
           /\ pool.total <= Total(owed, Users) /\ Total(owed, Users) <= MaxStaked
           /\ owed[u] \in Nat /\ position[u].staked <= owed[u]
  <1> DEFINE f == [v \in Users |-> position[v].staked]
  <1>1. \A v \in Users : position[v] \in Position /\ owed[v] \in Nat
    BY DEF StakingInv, StakingTypeOK
  <1>2. \A v \in Users : f[v] \in Nat /\ f[v] = position[v].staked
    BY <1>1, StakingAssumption DEF Position, Amount
  <1>3. pool.total = Total(f, Users) /\ IsFiniteSet(Users)
    BY StakingAssumption DEF StakingInv
  <1> HIDE DEF f
  <1>4. \A v \in Users : f[v] <= owed[v]
    <2> SUFFICES ASSUME NEW v \in Users PROVE f[v] <= owed[v]
      OBVIOUS
    <2>1. \A x \in UnlockTimes : position[v].requests[x] \in Nat
      BY <1>1 DEF Position
    <2>2. Total(position[v].requests, UnlockTimes) \in Nat
      BY <2>1, FiniteTimes, TotalNat
    <2>3. owed[v] = position[v].staked + Total(position[v].requests, UnlockTimes)
      BY DEF StakingInv, Balanced
    <2> QED
      BY <1>2, <2>2, <2>3
  <1>5. Total(f, Users) = f[u] + Total(f, Users \ {u}) /\ Total(f, Users \ {u}) \in Nat
    BY <1>2, <1>3, TotalSplit
  <1>6. Total(f, Users) <= Total(owed, Users)
    BY <1>1, <1>2, <1>3, <1>4, TotalLeast
  <1>7. Total(f, Users) \in Nat /\ Total(owed, Users) \in Nat
    BY <1>1, <1>2, <1>3, TotalNat
  <1>8. Total(owed, Users) <= MaxStaked
    BY DEF StakingInv
  <1> QED
    BY <1>1, <1>2, <1>3, <1>4, <1>5, <1>6, <1>7, <1>8

LEMMA StakingStarts == StakingInit => StakingInv
  <1> SUFFICES ASSUME StakingInit PROVE StakingInv
    OBVIOUS
  <1>1. /\ pool = [total |-> 0, acc |-> 0, at |-> 0]
        /\ position = [u \in Users |-> NoPosition]
        /\ owed = [u \in Users |-> 0] /\ earned = [u \in Users |-> 0]
    BY DEF StakingInit
  <1>2. NoPosition \in Position
    BY NoPositionTyped
  <1>3. StakingTypeOK
    BY <1>1, <1>2, StakingAssumption DEF StakingTypeOK, Amount, Times
  <1>4. PendingRewards(NoPosition, 0) = 0
    BY NoPositionTyped DEF PendingRewards
  <1>5. Balanced(NoPosition, 0, 0, 0)
    BY <1>4, NoPositionTyped DEF Balanced
  <1>6. \A u \in Users : Balanced(position[u], owed[u], earned[u], pool.acc)
    BY <1>1, <1>5
  <1>7. Total(owed, Users) = 0 /\ Total([u \in Users |-> position[u].staked], Users) = 0
    <2> DEFINE f == [u \in Users |-> position[u].staked]
    <2>1. \A u \in Users : owed[u] = 0 /\ f[u] = 0
      BY <1>1, NoPositionTyped
    <2> HIDE DEF f
    <2>2. Total(owed, Users) = 0 /\ Total(f, Users) = 0
      BY <2>1, TotalZero, StakingAssumption
    <2> QED
      BY <2>2 DEF f
  <1> QED
    BY <1>1, <1>3, <1>6, <1>7, StakingAssumption DEF StakingInv

\* What a call that syncs the pool does to the other positions and the pool.
LEMMA SyncShape ==
    ASSUME StakingInv, NEW t \in Times, NEW delta \in Int, Syncs(t, delta)
    PROVE  /\ t >= pool.at /\ pool'.at = t /\ pool'.acc = Acc(t) /\ pool'.acc \in Nat
           /\ pool'.total = pool.total + delta
           /\ pool' = [total |-> pool'.total, acc |-> pool'.acc, at |-> pool'.at]
           /\ EarnedBy(t) \in [Users -> Nat]
           /\ \A v \in Users : EarnedBy(t)[v] = PendingRewards(position[v], pool'.acc)
  <1>1. /\ t >= pool.at
        /\ pool' = [total |-> pool.total + delta, acc |-> Acc(t), at |-> t]
    BY DEF Syncs
  <1>2. Acc(t) \in Nat /\ EarnedBy(t) \in [Users -> Nat]
    BY <1>1, Emission
  <1>3. \A v \in Users : EarnedBy(t)[v] = PendingRewards(position[v], Acc(t))
    BY <1>1, Settling
  <1> QED
    BY <1>1, <1>2, <1>3

\* One more request.
LEMMA AskingBalanced ==
    ASSUME NEW p \in Position, NEW amount \in Nat, NEW at \in UnlockTimes
    PROVE  /\ Asking(p, amount, at) \in Position
           /\ Asking(p, amount, at).open = p.open
           /\ Asking(p, amount, at).staked = p.staked
           /\ Asking(p, amount, at).debt = p.debt
           /\ Asking(p, amount, at).pending = p.pending
           /\ Total(p.requests, UnlockTimes) \in Nat
           /\ Total(Asking(p, amount, at).requests, UnlockTimes)
                = Total(p.requests, UnlockTimes) + amount
  <1> DEFINE r == [p.requests EXCEPT ![at] = p.requests[at] + amount]
             n == [p EXCEPT !.requests = r]
  <1>1. p.requests \in [UnlockTimes -> Nat]
    BY DEF Position
  <1>2. r \in [UnlockTimes -> Nat] /\ r[at] = p.requests[at] + amount
        /\ \A x \in UnlockTimes \ {at} : r[x] = p.requests[x]
    BY <1>1
  <1>3. Asking(p, amount, at) = n
    BY DEF Asking
  <1> HIDE DEF r, n
  <1>4. n \in Position /\ n.open = p.open /\ n.staked = p.staked /\ n.debt = p.debt
        /\ n.pending = p.pending /\ n.requests = r
    BY <1>2 DEF n, Position
  <1>5. /\ Total(p.requests, UnlockTimes) \in Nat
        /\ Total(r, UnlockTimes) = Total(p.requests, UnlockTimes) - p.requests[at] + r[at]
    <2>1. \A x \in UnlockTimes : p.requests[x] \in Nat /\ r[x] \in Nat
      BY <1>1, <1>2
    <2> QED
      BY <1>2, <2>1, FiniteTimes, TotalChange
  <1>6. p.requests[at] \in Nat
    BY <1>1
  <1> QED
    BY <1>2, <1>3, <1>4, <1>5, <1>6

\* What is unlocked is taken out.
LEMMA UnbondedBalanced ==
    ASSUME NEW p \in Position, NEW t \in Times
    PROVE  /\ Unbonded(p, t) \in Position
           /\ Unbonded(p, t).open = p.open
           /\ Unbonded(p, t).staked = p.staked
           /\ Unbonded(p, t).debt = p.debt
           /\ Unbonded(p, t).pending = p.pending
           /\ Total(p.requests, Unlocked(t)) \in Nat
           /\ Total(Unbonded(p, t).requests, UnlockTimes) \in Nat
           /\ Total(p.requests, UnlockTimes)
                = Total(p.requests, Unlocked(t)) + Total(Unbonded(p, t).requests, UnlockTimes)
  <1> DEFINE r == [x \in UnlockTimes |-> IF x \in Unlocked(t) THEN 0 ELSE p.requests[x]]
             n == [p EXCEPT !.requests = r]
  <1>1. p.requests \in [UnlockTimes -> Nat]
    BY DEF Position
  <1>2. r \in [UnlockTimes -> Nat]
    BY <1>1
  <1>3. Unbonded(p, t) = n
    BY DEF Unbonded
  <1>4. Unlocked(t) \in SUBSET UnlockTimes
    BY DEF Unlocked
  <1>5. Total(p.requests, UnlockTimes) = Total(p.requests, Unlocked(t)) + Total(r, UnlockTimes)
    <2>1. \A x \in UnlockTimes : p.requests[x] \in Nat
      BY <1>1
    <2> QED
      BY <1>4, <2>1, FiniteTimes, TotalTaken
  <1> HIDE DEF r, n
  <1>6. n \in Position /\ n.open = p.open /\ n.staked = p.staked /\ n.debt = p.debt
        /\ n.pending = p.pending /\ n.requests = r
    BY <1>2 DEF n, Position
  <1>7. Total(p.requests, Unlocked(t)) \in Nat /\ Total(r, UnlockTimes) \in Nat
    <2>1. \A x \in UnlockTimes : p.requests[x] \in Nat /\ r[x] \in Nat
      BY <1>1, <1>2
    <2>2. IsFiniteSet(Unlocked(t)) /\ \A x \in Unlocked(t) : p.requests[x] \in Nat
      BY <1>4, <2>1, FiniteTimes, FS_Subset
    <2> QED
      BY <2>1, <2>2, FiniteTimes, TotalNat
  <1> QED
    BY <1>3, <1>5, <1>6, <1>7
LEMMA StakingKeeps == StakingInv /\ [StakingNext]_stakingVars => StakingInv'
  <1> SUFFICES ASSUME StakingInv, [StakingNext]_stakingVars PROVE StakingInv'
    OBVIOUS
  <1> USE StakingAssumption
  <1>t. /\ position \in [Users -> Position] /\ owed \in [Users -> Nat]
        /\ earned \in [Users -> Nat] /\ pool \in [total : Amount, acc : Nat, at : Times]
    BY DEF StakingInv, StakingTypeOK
  <1>b. \A u \in Users : Balanced(position[u], owed[u], earned[u], pool.acc)
    BY DEF StakingInv
  <1>o. \A u \in Users : owed[u] = position[u].staked + Total(position[u].requests, UnlockTimes)
    BY <1>b DEF Balanced
  <1>q. ASSUME NEW p \in Position
        PROVE  p.staked \in Nat /\ Total(p.requests, UnlockTimes) \in Nat
    <2>1. p.staked \in Nat /\ \A x \in UnlockTimes : p.requests[x] \in Nat
      BY DEF Position, Amount
    <2> QED
      BY <2>1, FiniteTimes, TotalNat
  <1>1. ASSUME NEW u \in Users, NEW t \in Times, NEW amount \in StakeAmounts, Stake(u, amount, t)
        PROVE  StakingInv'
    <2> DEFINE p == Resized(u, amount, t)
               e == EarnedBy(t)[u]
               o == owed[u] + amount
    <2>1. /\ Total(owed, Users) + amount <= MaxStaked /\ Syncs(t, amount)
          /\ position' = [position EXCEPT ![u] = p]
          /\ owed' = [owed EXCEPT ![u] = o] /\ earned' = EarnedBy(t)
      BY <1>1 DEF Stake
    <2>2. amount \in Nat /\ position[u].staked + amount \in Amount
      BY <2>1, StakesFit DEF Amount
    <2>3. /\ t >= pool.at /\ pool'.at = t /\ pool'.acc = Acc(t) /\ pool'.acc \in Nat
          /\ pool'.total = pool.total + amount
          /\ pool' = [total |-> pool'.total, acc |-> pool'.acc, at |-> pool'.at]
          /\ EarnedBy(t) \in [Users -> Nat]
          /\ \A v \in Users : EarnedBy(t)[v] = PendingRewards(position[v], pool'.acc)
      BY <2>1, <2>2, SyncShape
    <2>4. /\ p \in Position /\ p.open /\ p.staked = position[u].staked + amount
          /\ p.requests = position[u].requests
          /\ PendingRewards(p, Acc(t)) = e
          /\ p.staked = 0 => p.debt = 0
      BY <2>2, <2>3, ResizedBalanced
    <2>5. e \in Nat /\ o \in Nat /\ o = p.staked + Total(p.requests, UnlockTimes)
      BY <1>o, <1>q, <1>t, <2>2, <2>3, <2>4
    <2> HIDE DEF p, e, o
    <2>6. Balanced(p, o, e, pool'.acc)
      BY <2>3, <2>4, <2>5 DEF Balanced
    <2>7. Total(owed, Users) - owed[u] + o <= MaxStaked
      BY <2>1, <2>2, StakesFit DEF o
    <2>8. pool'.total = pool.total - position[u].staked + p.staked
      BY <2>2, <2>3, <2>4, StakesFit
    <2>9. earned' \in [Users -> Nat] /\ earned'[u] = e
          /\ \A v \in Users : earned'[v] = PendingRewards(position[v], pool'.acc)
      BY <2>1, <2>3 DEF e
    <2> QED
      BY <2>1, <2>3, <2>5, <2>6, <2>7, <2>8, <2>9, PositionChanges
  \* What unstake and emergencyUnstake have in common.
  <1>x. ASSUME NEW u \in Users, NEW t \in Times, NEW amount \in StakeAmounts, TakesOut(u, amount, t)
        PROVE  LET p == Resized(u, -amount, t)
               IN /\ amount \in Nat /\ amount <= position[u].staked
                  /\ pool'.at = t /\ pool'.acc = Acc(t) /\ pool'.acc \in Nat
                  /\ pool' = [total |-> pool'.total, acc |-> pool'.acc, at |-> pool'.at]
                  /\ pool'.total = pool.total - position[u].staked + p.staked
                  /\ earned' \in [Users -> Nat]
                  /\ \A v \in Users : earned'[v] = PendingRewards(position[v], pool'.acc)
                  /\ p \in Position /\ p.open /\ p.staked = position[u].staked - amount
                  /\ p.requests = position[u].requests
                  /\ PendingRewards(p, pool'.acc) = earned'[u]
                  /\ p.staked = 0 => p.debt = 0
    <2> DEFINE p == Resized(u, -amount, t)
    <2>1. Syncs(t, -amount) /\ earned' = EarnedBy(t) /\ amount <= position[u].staked
      BY <1>x DEF TakesOut
    <2>2. amount \in Nat /\ -amount \in Int /\ position[u].staked + (-amount) \in Amount
          /\ position[u].staked + (-amount) = position[u].staked - amount
      <3> DEFINE k == position[u].staked
      <3>1. k \in Nat /\ k <= MaxStaked /\ amount <= k
        BY <2>1, StakesFit, StakingAssumption
      <3>2. amount \in Nat /\ MaxStaked \in Nat
        BY StakingAssumption
      <3> HIDE DEF k
      <3>3. -amount \in Int /\ k + (-amount) = k - amount /\ k + (-amount) \in 0..MaxStaked
        BY <3>1, <3>2
      <3> QED
        BY <3>2, <3>3 DEF k, Amount
    <2>3. /\ t >= pool.at /\ pool'.at = t /\ pool'.acc = Acc(t) /\ pool'.acc \in Nat
          /\ pool'.total = pool.total + (-amount)
          /\ pool' = [total |-> pool'.total, acc |-> pool'.acc, at |-> pool'.at]
          /\ EarnedBy(t) \in [Users -> Nat]
          /\ \A v \in Users : EarnedBy(t)[v] = PendingRewards(position[v], pool'.acc)
      BY <2>1, <2>2, SyncShape
    <2>4. /\ p \in Position /\ p.open /\ p.staked = position[u].staked + (-amount)
          /\ p.requests = position[u].requests
          /\ PendingRewards(p, Acc(t)) = EarnedBy(t)[u]
          /\ p.staked = 0 => p.debt = 0
      BY <2>2, <2>3, ResizedBalanced
    <2> HIDE DEF p
    <2>5. pool'.total = pool.total - position[u].staked + p.staked
      BY <2>2, <2>3, <2>4, StakesFit
    <2> QED
      BY <2>1, <2>2, <2>3, <2>4, <2>5 DEF p
  <1>2. ASSUME NEW u \in Users, NEW t \in Times, NEW amount \in StakeAmounts, Unstake(u, amount, t)
        PROVE  StakingInv'
    <2> DEFINE p == Resized(u, -amount, t)
               n == Asking(p, amount, t + Unbonding)
               o == owed[u]
    <2>1. TakesOut(u, amount, t) /\ position' = [position EXCEPT ![u] = n] /\ owed' = owed
      BY <1>2 DEF Unstake
    <2>2. owed' = [owed EXCEPT ![u] = o]
      BY <1>t, <2>1
    <2>3. /\ amount \in Nat /\ amount <= position[u].staked
          /\ pool'.at = t /\ pool'.acc = Acc(t) /\ pool'.acc \in Nat
          /\ pool' = [total |-> pool'.total, acc |-> pool'.acc, at |-> pool'.at]
          /\ pool'.total = pool.total - position[u].staked + p.staked
          /\ earned' \in [Users -> Nat]
          /\ \A v \in Users : earned'[v] = PendingRewards(position[v], pool'.acc)
          /\ p \in Position /\ p.open /\ p.staked = position[u].staked - amount
          /\ p.requests = position[u].requests
          /\ PendingRewards(p, pool'.acc) = earned'[u]
          /\ p.staked = 0 => p.debt = 0
      BY <1>x, <2>1
    <2> DEFINE at == t + Unbonding
    <2>4. at \in UnlockTimes /\ n = Asking(p, amount, at)
      BY StakingAssumption DEF Times, UnlockTimes
    <2> HIDE DEF p, n, at
    <2>5. /\ n \in Position /\ n.open = p.open /\ n.staked = p.staked /\ n.debt = p.debt
          /\ n.pending = p.pending
          /\ Total(p.requests, UnlockTimes) \in Nat
          /\ Total(n.requests, UnlockTimes) = Total(p.requests, UnlockTimes) + amount
      <3>1. p \in Position /\ amount \in Nat
        BY <2>3
      <3> QED
        BY <2>4, <3>1, AskingBalanced
    <2>6. o = n.staked + Total(n.requests, UnlockTimes)
      BY <1>o, <2>3, <2>5, StakesFit
    <2>7. PendingRewards(n, pool'.acc) = earned'[u] /\ earned'[u] \in Nat /\ o \in Nat
      BY <1>t, <2>3, <2>5 DEF PendingRewards
    <2>8. Balanced(n, o, earned'[u], pool'.acc)
      BY <2>3, <2>5, <2>6, <2>7 DEF Balanced
    <2>9. Total(owed, Users) - owed[u] + o <= MaxStaked
      BY StakesFit
    <2> DEFINE e == earned'[u]
    <2>10. /\ Balanced(n, o, e, pool'.acc) /\ e \in Nat /\ e = earned'[u]
           /\ position' = [position EXCEPT ![u] = n]
           /\ pool'.total = pool.total - position[u].staked + n.staked
      BY <2>1, <2>3, <2>5, <2>7, <2>8
    <2> HIDE DEF o, e
    <2> QED
      BY <2>2, <2>3, <2>7, <2>9, <2>10, PositionChanges
  <1>3. ASSUME NEW u \in Users, NEW t \in Times, NEW amount \in StakeAmounts,
               EmergencyUnstake(u, amount, t)
        PROVE  StakingInv'
    <2> DEFINE p == Resized(u, -amount, t)
               n == Kept(p)
               o == owed[u] - amount
    <2>1. /\ TakesOut(u, amount, t) /\ position' = [position EXCEPT ![u] = n]
          /\ owed' = [owed EXCEPT ![u] = o]
      BY <1>3 DEF EmergencyUnstake
    <2>3. /\ amount \in Nat /\ amount <= position[u].staked
          /\ pool'.at = t /\ pool'.acc = Acc(t) /\ pool'.acc \in Nat
          /\ pool' = [total |-> pool'.total, acc |-> pool'.acc, at |-> pool'.at]
          /\ pool'.total = pool.total - position[u].staked + p.staked
          /\ earned' \in [Users -> Nat]
          /\ \A v \in Users : earned'[v] = PendingRewards(position[v], pool'.acc)
          /\ p \in Position /\ p.open /\ p.staked = position[u].staked - amount
          /\ p.requests = position[u].requests
          /\ PendingRewards(p, pool'.acc) = earned'[u]
          /\ p.staked = 0 => p.debt = 0
      BY <1>x, <2>1
    <2> HIDE DEF p
    <2>4. earned'[u] \in Nat /\ o \in Nat
      BY <2>3, StakesFit
    <2>5. o = p.staked + Total(p.requests, UnlockTimes)
      BY <1>o, <1>q, <2>3, StakesFit
    <2>6. Balanced(p, o, earned'[u], pool'.acc)
      BY <2>3, <2>4, <2>5 DEF Balanced
    <2>9. Total(owed, Users) - owed[u] + o <= MaxStaked
      BY <2>3, StakesFit
    <2> HIDE DEF o
    <2>7. Balanced(n, o, earned'[u], pool'.acc) /\ n.staked = p.staked
      BY <2>3, <2>6, KeptBalanced
    <2> HIDE DEF n
    <2> QED
      BY <2>1, <2>3, <2>4, <2>7, <2>9, PositionChanges
  \* What the calls that leave the stakes alone have in common.
  <1>y. ASSUME NEW t \in Times, Syncs(t, 0), NEW u \in Users
        PROVE  /\ pool'.at = t /\ pool'.acc = Acc(t) /\ pool'.acc \in Nat
               /\ pool' = [total |-> pool'.total, acc |-> pool'.acc, at |-> pool'.at]
               /\ pool'.total = pool.total - position[u].staked + position[u].staked
               /\ EarnedBy(t) \in [Users -> Nat]
               /\ \A v \in Users : EarnedBy(t)[v] = PendingRewards(position[v], pool'.acc)
               /\ Accrued(u, t) \in Position
               /\ Accrued(u, t).open = position[u].open
               /\ Accrued(u, t).staked = position[u].staked
               /\ Accrued(u, t).requests = position[u].requests
               /\ Accrued(u, t).pending = EarnedBy(t)[u]
               /\ Accrued(u, t).debt = position[u].staked * pool'.acc
    <2>1. /\ t >= pool.at /\ pool'.at = t /\ pool'.acc = Acc(t) /\ pool'.acc \in Nat
          /\ pool'.total = pool.total + 0
          /\ pool' = [total |-> pool'.total, acc |-> pool'.acc, at |-> pool'.at]
          /\ EarnedBy(t) \in [Users -> Nat]
          /\ \A v \in Users : EarnedBy(t)[v] = PendingRewards(position[v], pool'.acc)
      BY <1>y, SyncShape
    <2>2. pool'.total = pool.total - position[u].staked + position[u].staked
      BY <2>1, StakesFit
    <2> QED
      BY <2>1, <2>2, Settled
  <1>4. ASSUME NEW u \in Users, NEW t \in Times, NEW amount \in StakeAmounts,
               TakesOutTooMuch(u, amount, t)
        PROVE  StakingInv'
    <2> DEFINE p == Accrued(u, t)
               o == owed[u]
               k == position[u].staked
    <2>1. /\ position[u].open /\ Syncs(t, 0) /\ position' = [position EXCEPT ![u] = p]
          /\ earned' = EarnedBy(t) /\ owed' = owed
      BY <1>4 DEF TakesOutTooMuch
    <2>2. owed' = [owed EXCEPT ![u] = o] /\ o \in Nat
      BY <1>t, <2>1
    <2>3. /\ pool'.at = t /\ pool'.acc \in Nat
          /\ pool' = [total |-> pool'.total, acc |-> pool'.acc, at |-> pool'.at]
          /\ pool'.total = pool.total - position[u].staked + p.staked
          /\ earned' \in [Users -> Nat]
          /\ \A v \in Users : earned'[v] = PendingRewards(position[v], pool'.acc)
          /\ p \in Position /\ p.open /\ p.staked = k
          /\ p.requests = position[u].requests /\ p.pending = earned'[u]
          /\ p.debt = k * pool'.acc /\ k \in Nat
      BY <1>y, <2>1, StakesFit
    <2>4. o = p.staked + Total(p.requests, UnlockTimes)
      BY <1>o, <2>3
    <2> HIDE DEF p, k, o
    <2>5. PendingRewards(p, pool'.acc) = earned'[u] /\ earned'[u] \in Nat
          /\ (p.staked = 0 => p.debt = 0)
      BY <2>3 DEF PendingRewards
    <2>6. Balanced(p, o, earned'[u], pool'.acc)
      BY <2>2, <2>3, <2>4, <2>5 DEF Balanced
    <2>7. Total(owed, Users) - owed[u] + o <= MaxStaked
      BY StakesFit DEF o
    <2> QED
      BY <2>1, <2>2, <2>3, <2>5, <2>6, <2>7, PositionChanges
  <1>5. ASSUME NEW u \in Users, NEW t \in Times, FindsNoPosition(u, t)
        PROVE  StakingInv'
    <2> DEFINE p == position[u]
               o == owed[u]
    <2>1. Syncs(t, 0) /\ earned' = EarnedBy(t) /\ UNCHANGED <<position, owed>>
      BY <1>5 DEF FindsNoPosition
    <2>2. /\ owed' = [owed EXCEPT ![u] = o] /\ o \in Nat
          /\ position' = [position EXCEPT ![u] = p]
      BY <1>t, <2>1
    <2>3. /\ pool'.at = t /\ pool'.acc \in Nat
          /\ pool' = [total |-> pool'.total, acc |-> pool'.acc, at |-> pool'.at]
          /\ pool'.total = pool.total - position[u].staked + p.staked
          /\ earned' \in [Users -> Nat]
          /\ \A v \in Users : earned'[v] = PendingRewards(position[v], pool'.acc)
      BY <1>y, <2>1
    <2>4. Balanced(p, o, earned'[u], pool'.acc)
      BY <1>b, <2>3 DEF Balanced
    <2>7. Total(owed, Users) - owed[u] + o <= MaxStaked
      BY StakesFit
    <2> HIDE DEF p, o
    <2> QED
      BY <2>2, <2>3, <2>4, <2>7, PositionChanges
  <1>6. ASSUME NEW u \in Users, NEW t \in Times, ClaimUnbonded(u, t)
        PROVE  StakingInv'
    <2> DEFINE p == Unbonded(position[u], t)
               n == Kept(p)
               o == owed[u] - Total(position[u].requests, Unlocked(t))
    <2>1. /\ position[u].open /\ position' = [position EXCEPT ![u] = n]
          /\ owed' = [owed EXCEPT ![u] = o] /\ UNCHANGED <<pool, earned>>
      BY <1>6 DEF ClaimUnbonded
    <2>2. position[u] \in Position
      BY <1>t
    <2>3. /\ p \in Position /\ p.open = position[u].open /\ p.staked = position[u].staked
          /\ p.debt = position[u].debt /\ p.pending = position[u].pending
          /\ Total(position[u].requests, Unlocked(t)) \in Nat
          /\ Total(p.requests, UnlockTimes) \in Nat
          /\ Total(position[u].requests, UnlockTimes)
                = Total(position[u].requests, Unlocked(t)) + Total(p.requests, UnlockTimes)
      BY <2>2, UnbondedBalanced
    <2> HIDE DEF p
    <2>4. o = p.staked + Total(p.requests, UnlockTimes) /\ o \in Nat
      BY <1>o, <2>3, StakesFit
    <2>5. /\ PendingRewards(p, pool.acc) = PendingRewards(position[u], pool.acc)
          /\ p.staked = 0 => p.debt = 0
      BY <1>b, <2>3 DEF PendingRewards, Balanced
    <2>6. Balanced(p, o, earned[u], pool.acc)
      BY <1>b, <2>1, <2>3, <2>4, <2>5 DEF Balanced
    <2>7. Total(owed, Users) - owed[u] + o <= MaxStaked
      BY <2>3, StakesFit
    <2> HIDE DEF o
    <2>8. Balanced(n, o, earned[u], pool.acc) /\ n.staked = p.staked
      BY <1>t, <2>6, KeptBalanced
    <2> HIDE DEF n
    <2>9. /\ pool'.at \in Times /\ pool'.acc \in Nat
          /\ pool' = [total |-> pool'.total, acc |-> pool'.acc, at |-> pool'.at]
      BY <1>t, <2>1
    <2>10. pool'.total = pool.total - position[u].staked + n.staked
      BY <2>1, <2>3, <2>8, StakesFit
    <2>11. /\ earned' \in [Users -> Nat] /\ earned'[u] = earned[u] /\ earned[u] \in Nat
           /\ \A v \in Users : earned'[v] = PendingRewards(position[v], pool'.acc)
      BY <1>t, <1>b, <2>1 DEF Balanced
    <2>12. Balanced(n, o, earned[u], pool'.acc)
      BY <2>1, <2>8
    <2> QED
      BY <2>1, <2>4, <2>7, <2>9, <2>10, <2>11, <2>12, PositionChanges
  <1>7. ASSUME NEW u \in Users, NEW t \in Times, ClaimRewards(u, t)
        PROVE  StakingInv'
    <2> DEFINE a == Accrued(u, t)
               p == [a EXCEPT !.pending = 0]
               n == Kept(p)
               o == owed[u]
               k == position[u].staked
    <2>1. /\ position[u].open /\ Syncs(t, 0) /\ position' = [position EXCEPT ![u] = n]
          /\ earned' = [EarnedBy(t) EXCEPT ![u] = EarnedBy(t)[u] - a.pending]
          /\ owed' = owed
      BY <1>7 DEF ClaimRewards
    <2>2. owed' = [owed EXCEPT ![u] = o] /\ o \in Nat
      BY <1>t, <2>1
    <2>3. /\ pool'.at = t /\ pool'.acc \in Nat
          /\ pool' = [total |-> pool'.total, acc |-> pool'.acc, at |-> pool'.at]
          /\ pool'.total = pool.total - position[u].staked + k
          /\ EarnedBy(t) \in [Users -> Nat]
          /\ \A v \in Users : EarnedBy(t)[v] = PendingRewards(position[v], pool'.acc)
          /\ a \in Position /\ a.open /\ a.staked = k
          /\ a.requests = position[u].requests /\ a.pending = EarnedBy(t)[u]
          /\ a.debt = k * pool'.acc /\ k \in Nat
      BY <1>y, <2>1, StakesFit
    <2> HIDE DEF a
    <2>4. /\ p \in Position /\ p.open = a.open /\ p.staked = a.staked /\ p.debt = a.debt
          /\ p.requests = a.requests /\ p.pending = 0
      BY <2>3 DEF Position
    <2>5. earned' \in [Users -> Nat] /\ earned'[u] = 0
          /\ \A v \in Users : v # u => earned'[v] = EarnedBy(t)[v]
      BY <2>1, <2>3
    <2>6. o = p.staked + Total(p.requests, UnlockTimes)
      BY <1>o, <2>3, <2>4
    <2> HIDE DEF p, k, o
    <2>7. PendingRewards(p, pool'.acc) = 0 /\ (p.staked = 0 => p.debt = 0)
      BY <2>3, <2>4 DEF PendingRewards
    <2>8. Balanced(p, o, 0, pool'.acc)
      BY <2>2, <2>3, <2>4, <2>6, <2>7 DEF Balanced
    <2>9. Balanced(n, o, 0, pool'.acc) /\ n.staked = p.staked
      BY <2>3, <2>8, KeptBalanced
    <2> HIDE DEF n
    <2>10. Total(owed, Users) - owed[u] + o <= MaxStaked
      BY StakesFit DEF o
    <2>11. pool'.total = pool.total - position[u].staked + n.staked
      BY <2>3, <2>4, <2>9
    <2> QED
      BY <2>1, <2>2, <2>3, <2>5, <2>9, <2>10, <2>11, PositionChanges
  <1>8. CASE UNCHANGED stakingVars
    <2>1. pool' = pool /\ position' = position /\ owed' = owed /\ earned' = earned
      BY <1>8 DEF stakingVars
    <2>2. StakingTypeOK'
      BY <2>1 DEF StakingInv, StakingTypeOK
    <2> QED
      BY <1>b, <2>1, <2>2 DEF StakingInv
  <1> QED
    BY <1>1, <1>2, <1>3, <1>4, <1>5, <1>6, <1>7, <1>8 DEF StakingNext

\* Rewards are shares of the emission, whenever they are settled.
THEOREM RewardsAreAlwaysShares == StakingSpec => []RewardsAreShares
  <1>1. StakingInv => RewardsAreShares
    BY DEF StakingInv, Balanced, RewardsAreShares
  <1> QED
    BY <1>1, StakingStarts, StakingKeeps, PTL DEF StakingSpec

\* Principal is staked, unbonding, or paid back.
THEOREM PrincipalIsAlwaysOwed == StakingSpec => []PrincipalIsOwed
  <1>1. StakingInv => PrincipalIsOwed
    BY DEF StakingInv, Balanced, PrincipalIsOwed
  <1> QED
    BY <1>1, StakingStarts, StakingKeeps, PTL DEF StakingSpec
==============================================================================
