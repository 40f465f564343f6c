---------------------------- MODULE Coins_proofs ----------------------------
(* Proofs about Coins: the books of every row and of every redemption.      *)
EXTENDS Coins, FiniteSetTheorems, WellFoundedInduction, TLAPS

-----------------------------------------------------------------------------
(* Sums over finite sets.  SumFunctionOnSet is a recursive function, that is *)
(* what CHOOSE makes of its equation: the lemmas show that the equation has  *)
(* one solution, by the least set for which it had none, or had two.         *)

LEMMA LeastSet ==
  ASSUME NEW S, NEW T \in SUBSET FiniteSubsetsOf(S), T # {}
  PROVE  \E U \in T : \A V \in T : ~(V \subseteq U /\ V # U)
<1>1. PICK U \in T : \A V \in T : ~(<<V, U>> \in StrictSubsetOrdering(S))
  BY FS_StrictSubsetOrderingWellFounded, WFMin
<1> QED  BY <1>1 DEF StrictSubsetOrdering, FiniteSubsetsOf

\* The same for the subsets of a finite set.
LEMMA LeastSubset ==
  ASSUME NEW S, IsFiniteSet(S), NEW T \in SUBSET (SUBSET S), T # {}
  PROVE  \E U \in T : \A V \in T : ~(V \subseteq U /\ V # U)
<1>1. T \in SUBSET FiniteSubsetsOf(S)
  BY FS_Subset DEF FiniteSubsetsOf
<1> QED  BY <1>1, LeastSet

First(s) == CHOOSE x \in s : TRUE

Folds(g, f, S) ==
  g = [s \in SUBSET S |-> IF s = {} THEN 0 ELSE f[First(s)] + g[s \ {First(s)}]]

Sum(f, S) == SumFunctionOnSet(f, S)

LEMMA SumIsFold ==
  ASSUME NEW f, NEW S
  PROVE  Sum(f, S) = (CHOOSE g : Folds(g, f, S))[S]
BY Zenon DEF Sum, SumFunctionOnSet, FoldFunctionOnSet, MapThenFoldSet, Folds, First

LEMMA FoldAt ==
  ASSUME NEW S, NEW f, NEW g, Folds(g, f, S), NEW s \in SUBSET S
  PROVE  g[s] = IF s = {} THEN 0 ELSE f[First(s)] + g[s \ {First(s)}]
BY Zenon DEF Folds

LEMMA FirstIn ==
  ASSUME NEW s, s # {}
  PROVE  First(s) \in s
BY DEF First

LEMMA OneFold ==
  ASSUME NEW S, IsFiniteSet(S), NEW f, NEW g, Folds(g, f, S),
         NEW T \in SUBSET S, NEW h, Folds(h, f, T)
  PROVE  \A s \in SUBSET T : g[s] = h[s]
<1> DEFINE D == {s \in SUBSET T : g[s] # h[s]}
<1> SUFFICES ASSUME D # {} PROVE FALSE
  OBVIOUS
<1>1. D \in SUBSET (SUBSET S)
  OBVIOUS
<1>2. PICK U \in D : \A V \in D : ~(V \subseteq U /\ V # U)
  <2> HIDE DEF D
  <2> QED  BY <1>1, LeastSubset
<1>3. U \in SUBSET T /\ U \in SUBSET S /\ g[U] # h[U]
  OBVIOUS
<1> HIDE DEF D
<1> DEFINE x == First(U)
<1>4. g[U] = IF U = {} THEN 0 ELSE f[x] + g[U \ {x}]
  BY <1>3, FoldAt
<1>5. h[U] = IF U = {} THEN 0 ELSE f[x] + h[U \ {x}]
  BY <1>3, FoldAt
<1> USE DEF D
<1>6. U # {} /\ x \in U
  BY <1>3, <1>4, <1>5, FirstIn
<1>7. U \ {x} \in SUBSET T /\ U \ {x} \subseteq U /\ U \ {x} # U
  BY <1>3, <1>6
<1>8. g[U \ {x}] = h[U \ {x}]
  BY <1>2, <1>7
<1> QED  BY <1>3, <1>4, <1>5, <1>8

LEMMA AFold ==
  ASSUME NEW S, IsFiniteSet(S), NEW f
  PROVE  \E g : Folds(g, f, S)
<1> DEFINE D == {s \in SUBSET S : ~\E g : Folds(g, f, s)}
<1> SUFFICES ASSUME D # {} PROVE FALSE
  OBVIOUS
<1>1. D \in SUBSET (SUBSET S)
  OBVIOUS
<1>2. PICK U \in D : \A V \in D : ~(V \subseteq U /\ V # U)
  <2> HIDE DEF D
  <2> QED  BY <1>1, LeastSubset
<1>3. U \in SUBSET S /\ ~\E g : Folds(g, f, U)
  OBVIOUS
<1> DEFINE part(s) == CHOOSE g : Folds(g, f, s)
           g == [s \in SUBSET U |-> IF s = {} THEN 0
                                    ELSE f[First(s)] + part(s \ {First(s)})[s \ {First(s)}]]
<1>4. ASSUME NEW s \in SUBSET U, s # U
      PROVE  Folds(part(s), f, s)
  <2>1. s \in SUBSET S /\ s \notin D
    BY <1>2, <1>3, <1>4
  <2> QED  BY <2>1
<1>5. ASSUME NEW s \in SUBSET U, s # {}
      PROVE  g[s \ {First(s)}] = part(s \ {First(s)})[s \ {First(s)}]
  <2> DEFINE r == s \ {First(s)}
  <2>1. r \in SUBSET U /\ r # U /\ IsFiniteSet(r)
    BY <1>3, <1>5, FirstIn, FS_Subset
  <2>2. Folds(part(r), f, r)
    BY <1>4, <2>1
  <2>3. CASE r = {}
    <3>1. part(r)[r] = 0
      BY <2>2, <2>3, FoldAt
    <3> QED  BY <2>1, <2>3, <3>1
  <2>4. CASE r # {}
    <3> DEFINE q == r \ {First(r)}
    <3>1. q \in SUBSET r /\ q \in SUBSET U /\ q # U
      BY <2>1, <2>4, FirstIn
    <3>2. Folds(part(q), f, q)
      BY <1>4, <3>1
    <3>3. part(r)[q] = part(q)[q]
      BY <2>1, <2>2, <3>1, <3>2, OneFold
    <3>4. part(r)[r] = f[First(r)] + part(r)[q]
      <4> HIDE DEF part
      <4>1. part(r)[r] = IF r = {} THEN 0 ELSE f[First(r)] + part(r)[r \ {First(r)}]
        <5> HIDE DEF r
        <5> QED  BY <2>2, FoldAt
      <4> QED  BY <2>4, <4>1
    <3>5. g[r] = f[First(r)] + part(q)[q]
      BY <2>1, <2>4
    <3> QED  BY <3>3, <3>4, <3>5
  <2> QED  BY <2>3, <2>4
<1>6. g = [s \in SUBSET U |-> IF s = {} THEN 0 ELSE f[First(s)] + g[s \ {First(s)}]]
  <2> HIDE DEF part
  <2>1. \A s \in SUBSET U :
          g[s] = IF s = {} THEN 0 ELSE f[First(s)] + part(s \ {First(s)})[s \ {First(s)}]
    OBVIOUS
  <2>2. g = [s \in SUBSET U |-> g[s]]
    OBVIOUS
  <2> HIDE DEF g
  <2>3. \A s \in SUBSET U : g[s] = IF s = {} THEN 0 ELSE f[First(s)] + g[s \ {First(s)}]
    BY <1>5, <2>1
  <2> QED  BY <2>2, <2>3
<1> HIDE DEF g
<1>7. Folds(g, f, U)
  BY <1>6 DEF Folds
<1> QED  BY <1>3, <1>7

LEMMA SumEmpty ==
  ASSUME NEW f
  PROVE  Sum(f, {}) = 0
<1>1. PICK g : Folds(g, f, {})
  BY AFold, FS_EmptySet
<1>2. Folds(CHOOSE h : Folds(h, f, {}), f, {})
  BY <1>1
<1> QED  BY <1>2, FoldAt, SumIsFold

LEMMA SumFirst ==
  ASSUME NEW S, IsFiniteSet(S), S # {}, NEW f
  PROVE  Sum(f, S) = f[First(S)] + Sum(f, S \ {First(S)})
<1> DEFINE x == First(S)
           T == S \ {x}
           g == CHOOSE fold : Folds(fold, f, S)
           h == CHOOSE fold : Folds(fold, f, T)
<1>1. Folds(g, f, S)
  BY AFold
<1>2. T \in SUBSET S /\ IsFiniteSet(T)
  BY FS_Subset
<1>3. Folds(h, f, T)
  BY <1>2, AFold
<1>4. Sum(f, S) = g[S] /\ Sum(f, T) = h[T]
  BY SumIsFold
<1> HIDE DEF g, h
<1>5. g[T] = h[T]
  BY <1>1, <1>2, <1>3, OneFold
<1>6. g[S] = f[x] + g[T]
  BY <1>1, FoldAt
<1> QED  BY <1>4, <1>5, <1>6

\* A sum of integers is an integer, one of naturals a natural.
LEMMA SumInt ==
  ASSUME NEW S, IsFiniteSet(S), NEW f, NEW N \in {Int, Nat}, \A x \in S : f[x] \in N
  PROVE  Sum(f, S) \in N
<1> DEFINE D == {s \in SUBSET S : Sum(f, s) \notin N}
<1> SUFFICES ASSUME D # {} PROVE FALSE
  OBVIOUS
<1>1. D \in SUBSET (SUBSET S)
  OBVIOUS
<1>2. PICK U \in D : \A V \in D : ~(V \subseteq U /\ V # U)
  <2> HIDE DEF D
  <2> QED  BY <1>1, LeastSubset
<1>3. U \in SUBSET S /\ Sum(f, U) \notin N /\ IsFiniteSet(U)
  BY FS_Subset
<1>4. U # {}
  BY <1>3, SumEmpty
<1> DEFINE x == First(U)
<1>5. x \in U /\ f[x] \in N
  BY <1>3, <1>4, FirstIn
<1>6. U \ {x} \in SUBSET S /\ U \ {x} # U
  BY <1>3, <1>5
<1>7. Sum(f, U \ {x}) \in N
  BY <1>2, <1>6
<1>8. Sum(f, U) = f[x] + Sum(f, U \ {x})
  BY <1>3, <1>4, SumFirst
<1> QED  BY <1>3, <1>5, <1>7, <1>8

\* Any element may be taken out first.
LEMMA SumTakes ==
  ASSUME NEW S, IsFiniteSet(S), NEW f, \A x \in S : f[x] \in Int
  PROVE  \A y \in S : Sum(f, S) = f[y] + Sum(f, S \ {y})
<1> DEFINE D == {s \in SUBSET S : ~\A y \in s : Sum(f, s) = f[y] + Sum(f, s \ {y})}
<1> SUFFICES ASSUME D # {} PROVE FALSE
  OBVIOUS
<1>1. D \in SUBSET (SUBSET S)
  OBVIOUS
<1>2. PICK U \in D : \A V \in D : ~(V \subseteq U /\ V # U)
  <2> HIDE DEF D
  <2> QED  BY <1>1, LeastSubset
<1>3. U \in SUBSET S /\ IsFiniteSet(U)
  BY FS_Subset
<1>4. PICK y \in U : Sum(f, U) # f[y] + Sum(f, U \ {y})
  OBVIOUS
<1> DEFINE x == First(U)
<1>5. x \in U /\ Sum(f, U) = f[x] + Sum(f, U \ {x})
  BY <1>3, SumFirst, FirstIn
<1>6. x # y
  BY <1>4, <1>5
<1>7. \A s \in SUBSET U : s # U => \A z \in s : Sum(f, s) = f[z] + Sum(f, s \ {z})
  BY <1>2, <1>3
<1> HIDE DEF D
<1>8. Sum(f, U \ {x}) = f[y] + Sum(f, (U \ {x}) \ {y})
  BY <1>5, <1>6, <1>7
<1>9. Sum(f, U \ {y}) = f[x] + Sum(f, (U \ {y}) \ {x})
  BY <1>5, <1>6, <1>7
<1> DEFINE R == (U \ {x}) \ {y}
<1>10. R = (U \ {y}) \ {x} /\ IsFiniteSet(R) /\ \A z \in R : f[z] \in Int
  BY <1>3, FS_Subset
<1>11. Sum(f, R) \in Int
  BY <1>10, SumInt
<1>12. f[x] \in Int /\ f[y] \in Int
  BY <1>3, <1>5
<1> HIDE DEF R
<1>13. Sum(f, U \ {x}) = f[y] + Sum(f, R) /\ Sum(f, U \ {y}) = f[x] + Sum(f, R)
  BY <1>8, <1>9, <1>10 DEF R
<1> QED  BY <1>4, <1>5, <1>11, <1>12, <1>13

\* Only what the function is on the set counts.
LEMMA SumSame ==
  ASSUME NEW S, IsFiniteSet(S), NEW f, NEW g, \A x \in S : f[x] = g[x]
  PROVE  Sum(f, S) = Sum(g, S)
<1> DEFINE D == {s \in SUBSET S : Sum(f, s) # Sum(g, s)}
<1> SUFFICES ASSUME D # {} PROVE FALSE
  OBVIOUS
<1>1. D \in SUBSET (SUBSET S)
  OBVIOUS
<1>2. PICK U \in D : \A V \in D : ~(V \subseteq U /\ V # U)
  <2> HIDE DEF D
  <2> QED  BY <1>1, LeastSubset
<1>3. U \in SUBSET S /\ Sum(f, U) # Sum(g, U) /\ IsFiniteSet(U)
  BY FS_Subset
<1>4. U # {}
  BY <1>3, SumEmpty
<1> DEFINE x == First(U)
<1>5. x \in U /\ f[x] = g[x]
  BY <1>3, <1>4, FirstIn
<1>6. U \ {x} \in SUBSET S /\ U \ {x} # U
  BY <1>3, <1>5
<1>7. Sum(f, U \ {x}) = Sum(g, U \ {x})
  BY <1>2, <1>6
<1>8. Sum(f, U) = f[x] + Sum(f, U \ {x}) /\ Sum(g, U) = g[x] + Sum(g, U \ {x})
  BY <1>3, <1>4, SumFirst
<1> QED  BY <1>3, <1>5, <1>7, <1>8

-----------------------------------------------------------------------------
(* The steps.                                                                *)

USE CoinsAssumption

\* What one entry contributes, and what is left in it.
LEMMA PartBounds ==
  ASSUME NEW coins \in Nat, NEW left \in Nat
  PROVE  /\ Part(coins, left) \in Nat
         /\ Part(coins, left) <= left
         /\ left - Part(coins, left) \in Nat
         /\ Rest(coins, left) \in Nat
         /\ Rest(coins, left) + Part(coins, left) = coins
BY DEF Part, Rest

\* Where the loop of deductCoins goes from here.
LEMMA AfterEntryStep ==
  ASSUME NEW left \in Nat, NEW rest
  PROVE  /\ AfterEntry(left, rest) \in {"deduct", "failed", "record"}
         /\ AfterEntry(left, rest) = "record" => left = 0
BY DEF AfterEntry

LEMMA InitHolds == Init => IInv
<1> SUFFICES ASSUME Init PROVE IInv
  OBVIOUS
<1>1. TypeOK
  <2>1. month \in 1..Months /\ day \in {"earlier", "last"} /\ yearly \in Nat
    BY DEF Init
  <2>2. amount \in [Entries -> Nat] /\ cronRead \in [Entries -> Nat]
    BY DEF Init
  <2>5. expired \subseteq Entries /\ taken \in [Entries -> Nat]
    BY DEF Init
  <2>3. counted \in [1..Months -> Nat] /\ redeemed \in [1..Months -> Nat]
    BY DEF Init
  <2>4. pc \in [Tasks -> Steps] /\ read \in [Tasks -> [Entries -> Nat]]
        /\ todo \in [Tasks -> SUBSET Entries] /\ missed \in [Tasks -> SUBSET Entries]
        /\ remaining \in [Tasks -> Nat] /\ paid \in [Tasks -> Nat]
    BY DEF Init, Steps
  <2> QED  BY <2>1, <2>2, <2>3, <2>4, <2>5 DEF Init, TypeOK
<1>2. CoinsConserved
  BY DEF Init, CoinsConserved
<1>3. RecordedIsPaid /\ FreshRead /\ Underway /\ LimitsChecked
  BY DEF Init, RecordedIsPaid, FreshRead, Underway, LimitsChecked
<1> QED  BY <1>1, <1>2, <1>3 DEF IInv

LEMMA NextDayStep ==
  ASSUME IInv, nextDay
  PROVE  IInv'
<1>t. TypeOK /\ CoinsConserved /\ RecordedIsPaid /\ FreshRead /\ Underway /\ LimitsChecked
  BY DEF IInv
<1> USE DEF TypeOK, Steps, rows, redemptions, cron, task
<1>1. TypeOK'
  <2>1. month' \in 1..Months /\ day' \in {"earlier", "last"}
    BY <1>t DEF nextDay
  <2> QED  BY <1>t, <2>1 DEF nextDay
<1>2. CoinsConserved'
  BY <1>t DEF nextDay, CoinsConserved
<1>3. RecordedIsPaid'
  BY <1>t DEF nextDay, RecordedIsPaid, Underway
<1>4. FreshRead'
  BY <1>t DEF nextDay, FreshRead
<1>5. Underway'
  BY <1>t DEF nextDay, Underway
<1>6. LimitsChecked'
  BY <1>t DEF nextDay, LimitsChecked
<1> HIDE DEF TypeOK
<1> QED  BY <1>1, <1>2, <1>3, <1>4, <1>5, <1>6 DEF IInv

LEMMA AddCoinsStep ==
  ASSUME NEW e \in Entries, IInv, addCoins(e)
  PROVE  IInv'
<1>t. TypeOK /\ CoinsConserved /\ RecordedIsPaid /\ FreshRead /\ Underway /\ LimitsChecked
  BY DEF IInv
<1> USE DEF TypeOK, Steps, rows, redemptions, cron, task
<1>1. TypeOK'
  BY <1>t DEF addCoins
<1>2. CoinsConserved'
  BY <1>t DEF addCoins, CoinsConserved
<1>3. RecordedIsPaid'
  BY <1>t DEF addCoins, RecordedIsPaid, Underway
<1>4. FreshRead'
  BY <1>t DEF addCoins, FreshRead
<1>5. Underway'
  BY <1>t DEF addCoins, Underway
<1>6. LimitsChecked'
  BY <1>t DEF addCoins, LimitsChecked
<1> HIDE DEF TypeOK
<1> QED  BY <1>1, <1>2, <1>3, <1>4, <1>5, <1>6 DEF IInv

LEMMA AgeStep ==
  ASSUME NEW e \in Entries, IInv, age(e)
  PROVE  IInv'
<1>t. TypeOK /\ CoinsConserved /\ RecordedIsPaid /\ FreshRead /\ Underway /\ LimitsChecked
  BY DEF IInv
<1> USE DEF TypeOK, Steps, rows, redemptions, cron, task
<1>1. TypeOK'
  <2>1. aged' \subseteq Entries /\ shaken' \subseteq Tasks
    BY <1>t DEF age, Counting
  <2> QED  BY <1>t, <2>1 DEF age
<1>2. CoinsConserved'
  BY <1>t DEF age, CoinsConserved
<1>3. RecordedIsPaid'
  BY <1>t DEF age, RecordedIsPaid, Underway
<1>4. FreshRead'
  BY <1>t DEF age, FreshRead
<1>5. Underway'
  BY <1>t DEF age, Underway
<1>6. LimitsChecked'
  BY <1>t DEF age, LimitsChecked
<1> HIDE DEF TypeOK
<1> QED  BY <1>1, <1>2, <1>3, <1>4, <1>5, <1>6 DEF IInv

LEMMA YearStep ==
  ASSUME NEW t \in Tasks, IInv, validateYearRedemption(t)
  PROVE  IInv'
<1>t. TypeOK /\ CoinsConserved /\ RecordedIsPaid /\ FreshRead /\ Underway /\ LimitsChecked
  BY DEF IInv
<1> USE DEF TypeOK, Steps, rows, redemptions, cron, task
<1>1. TypeOK'
  BY <1>t DEF validateYearRedemption, Proceed, Goto
<1>2. CoinsConserved'
  BY <1>t DEF validateYearRedemption, Proceed, Goto, CoinsConserved
<1>3. RecordedIsPaid'
  BY <1>t DEF validateYearRedemption, Proceed, Goto, RecordedIsPaid, Underway
<1>4. FreshRead'
  BY <1>t DEF validateYearRedemption, Proceed, Goto, FreshRead
<1>5. Underway'
  BY <1>t DEF validateYearRedemption, Proceed, Goto, Underway
<1>6. LimitsChecked'
  BY <1>t DEF validateYearRedemption, Proceed, Goto, LimitsChecked
<1> HIDE DEF TypeOK
<1> QED  BY <1>1, <1>2, <1>3, <1>4, <1>5, <1>6 DEF IInv

LEMMA MonthStep ==
  ASSUME NEW t \in Tasks, IInv, validateMonthlyRedemption(t)
  PROVE  IInv'
<1>t. TypeOK /\ CoinsConserved /\ RecordedIsPaid /\ FreshRead /\ Underway /\ LimitsChecked
  BY DEF IInv
<1> USE DEF TypeOK, Steps, rows, redemptions, cron, task
<1>1. TypeOK'
  BY <1>t DEF validateMonthlyRedemption, MonthlyLimitReached, Proceed, Goto
<1>2. CoinsConserved'
  BY <1>t DEF validateMonthlyRedemption, MonthlyLimitReached, Proceed, Goto, CoinsConserved
<1>3. RecordedIsPaid'
  BY <1>t DEF validateMonthlyRedemption, MonthlyLimitReached, Proceed, Goto, RecordedIsPaid, Underway
<1>4. FreshRead'
  BY <1>t DEF validateMonthlyRedemption, MonthlyLimitReached, Proceed, Goto, FreshRead
<1>5. Underway'
  BY <1>t DEF validateMonthlyRedemption, MonthlyLimitReached, Proceed, Goto, Underway
<1>6. LimitsChecked'
  BY <1>t DEF validateMonthlyRedemption, MonthlyLimitReached, Proceed, Goto, LimitsChecked
<1> HIDE DEF TypeOK
<1> QED  BY <1>1, <1>2, <1>3, <1>4, <1>5, <1>6 DEF IInv

LEMMA FindRuleStep ==
  ASSUME NEW t \in Tasks, IInv, findRule(t)
  PROVE  IInv'
<1>t. TypeOK /\ CoinsConserved /\ RecordedIsPaid /\ FreshRead /\ Underway /\ LimitsChecked
  BY DEF IInv
<1> USE DEF TypeOK, Steps, rows, redemptions, cron, task
<1>1. TypeOK'
  BY <1>t DEF findRule, Proceed, Goto
<1>2. CoinsConserved'
  BY <1>t DEF findRule, Proceed, Goto, CoinsConserved
<1>3. RecordedIsPaid'
  BY <1>t DEF findRule, Proceed, Goto, RecordedIsPaid, Underway
<1>4. FreshRead'
  BY <1>t DEF findRule, Proceed, Goto, FreshRead
<1>5. Underway'
  BY <1>t DEF findRule, Proceed, Goto, Underway
<1>6. LimitsChecked'
  BY <1>t DEF findRule, Proceed, Goto, LimitsChecked
<1> HIDE DEF TypeOK
<1> QED  BY <1>1, <1>2, <1>3, <1>4, <1>5, <1>6 DEF IInv

LEMMA CountStep ==
  ASSUME NEW t \in Tasks, IInv, countCoins(t)
  PROVE  IInv'
<1>t. TypeOK /\ CoinsConserved /\ RecordedIsPaid /\ FreshRead /\ Underway /\ LimitsChecked
  BY DEF IInv
<1> USE DEF TypeOK, Steps, rows, redemptions, cron, task
<1>1. TypeOK'
  BY <1>t DEF countCoins, Proceed, Goto
<1>2. CoinsConserved'
  BY <1>t DEF countCoins, Proceed, Goto, CoinsConserved
<1>3. RecordedIsPaid'
  BY <1>t DEF countCoins, Proceed, Goto, RecordedIsPaid, Underway
<1>4. FreshRead'
  BY <1>t DEF countCoins, Proceed, Goto, FreshRead
<1>5. Underway'
  BY <1>t DEF countCoins, Proceed, Goto, Underway
<1>6. LimitsChecked'
  BY <1>t DEF countCoins, Proceed, Goto, LimitsChecked
<1> HIDE DEF TypeOK
<1> QED  BY <1>1, <1>2, <1>3, <1>4, <1>5, <1>6 DEF IInv

LEMMA FetchStep ==
  ASSUME NEW t \in Tasks, IInv, fetchEntries(t)
  PROVE  IInv'
<1>t. TypeOK /\ CoinsConserved /\ RecordedIsPaid /\ FreshRead /\ Underway /\ LimitsChecked
  BY DEF IInv
<1> USE DEF TypeOK, Steps, rows, redemptions, cron, task
<1>1. TypeOK'
  <2>1. rule[t] \in Rules /\ rule[t].coins \in Nat
    BY <1>t DEF fetchEntries, Underway
  <2>2. pc' \in [Tasks -> Steps]
    BY <1>t, <2>1, AfterEntryStep DEF fetchEntries, Goto
  <2>3. read' \in [Tasks -> [Entries -> Nat]] /\ todo' \in [Tasks -> SUBSET Entries]
    BY <1>t DEF fetchEntries, Spendable
  <2>4. remaining' \in [Tasks -> Nat] /\ missed' \in [Tasks -> SUBSET Entries]
    BY <1>t, <2>1 DEF fetchEntries
  <2> QED  BY <1>t, <2>2, <2>3, <2>4 DEF fetchEntries
<1>2. CoinsConserved'
  BY <1>t, AfterEntryStep DEF fetchEntries, Goto, Spendable, CoinsConserved, FreshRead
<1>3. RecordedIsPaid'
  <2>1. rule[t].coins \in Nat /\ paid[t] = 0
    BY <1>t DEF fetchEntries, Underway
  <2>2. pc'[t] = "record" => rule[t].coins = 0
    BY <1>t, <2>1, AfterEntryStep DEF fetchEntries, Goto
  <2>3. pc'[t] \notin {"enqueue", "done"}
    BY <1>t, <2>1, AfterEntryStep DEF fetchEntries, Goto
  <2> QED  BY <1>t, <2>1, <2>2, <2>3 DEF fetchEntries, Goto, RecordedIsPaid
<1>4. FreshRead'
  BY <1>t, AfterEntryStep DEF fetchEntries, Goto, Spendable, FreshRead
<1>5. Underway'
  BY <1>t, AfterEntryStep DEF fetchEntries, Goto, Spendable, Underway
<1>6. LimitsChecked'
  BY <1>t, AfterEntryStep DEF fetchEntries, Goto, Spendable, LimitsChecked
<1> HIDE DEF TypeOK
<1> QED  BY <1>1, <1>2, <1>3, <1>4, <1>5, <1>6 DEF IInv

LEMMA DeductStep ==
  ASSUME NEW t \in Tasks, NEW e \in Entries, IInv, deduct(t, e)
  PROVE  IInv'
<1>t. TypeOK /\ CoinsConserved /\ RecordedIsPaid /\ FreshRead /\ Underway /\ LimitsChecked
  BY DEF IInv
<1> DEFINE part == Part(read[t][e], remaining[t])
           next == AfterEntry(remaining[t] - part, todo[t] \ {e})
<1>0. /\ part \in Nat /\ remaining[t] - part \in Nat
      /\ Rest(read[t][e], remaining[t]) \in Nat
      /\ Rest(read[t][e], remaining[t]) + part = read[t][e]
      /\ next \in {"deduct", "failed", "record"}
      /\ next = "record" => remaining[t] - part = 0
  <2>1. read[t][e] \in Nat /\ remaining[t] \in Nat
    BY <1>t DEF TypeOK
  <2>2. /\ part \in Nat /\ remaining[t] - part \in Nat
        /\ Rest(read[t][e], remaining[t]) \in Nat
        /\ Rest(read[t][e], remaining[t]) + part = read[t][e]
    BY <2>1, PartBounds
  <2> QED  BY <2>2, AfterEntryStep
<1>n. /\ taken \in [Entries -> Nat] /\ taken[e] \in Nat /\ taken[e] + part \in Nat
      /\ paid \in [Tasks -> Nat] /\ paid[t] \in Nat /\ paid[t] + part \in Nat
      /\ remaining[t] \in Nat
  <2>1. /\ taken \in [Entries -> Nat] /\ taken[e] \in Nat
        /\ paid \in [Tasks -> Nat] /\ paid[t] \in Nat /\ remaining[t] \in Nat
    BY <1>t DEF TypeOK
  <2> HIDE DEF part
  <2> QED  BY <2>1, <1>0
<1> USE DEF TypeOK, Steps, rows, redemptions, cron, task
<1>a. /\ pc[t] = "deduct" /\ e \in todo[t]
      /\ pc' = [pc EXCEPT ![t] = next]
      /\ amount' = [amount EXCEPT ![e] = Rest(read[t][e], remaining[t])]
      /\ expired' = expired \ {e}
      /\ remaining' = [remaining EXCEPT ![t] = @ - part]
      /\ todo' = [todo EXCEPT ![t] = @ \ {e}]
      /\ taken' = [taken EXCEPT ![e] = @ + part]
      /\ paid' = [paid EXCEPT ![t] = @ + part]
  BY DEF deduct, Goto
<1>b. /\ missed' = [s \in Tasks |-> IF s # t THEN missed[s] \cup {e} ELSE missed[s]]
      /\ cronMissed' = cronMissed \cup {e}
      /\ stale' = stale \cup ({e} \cap missed[t])
      /\ shaken' = shaken \cup Counting
      /\ UNCHANGED <<month, day, created, aged, counted, redeemed, yearly>>
      /\ UNCHANGED <<expiring, cronRead, rule, read, queued, raced>>
  BY DEF deduct
<1> HIDE DEF part, next
<1>1. TypeOK'
  <2>1. pc' \in [Tasks -> Steps] /\ remaining' \in [Tasks -> Nat]
    BY <1>t, <1>0, <1>a
  <2>2. amount' \in [Entries -> Nat] /\ expired' \subseteq Entries
    BY <1>t, <1>0, <1>a
  <2>3. todo' \in [Tasks -> SUBSET Entries] /\ missed' \in [Tasks -> SUBSET Entries]
    BY <1>t, <1>a, <1>b
  <2>4. taken' \in [Entries -> Nat]
    BY <1>n, <1>a
  <2>6. paid' \in [Tasks -> Nat]
    BY <1>n, <1>a
  <2>5. cronMissed' \subseteq Entries /\ stale' \subseteq Entries /\ shaken' \subseteq Tasks
    BY <1>t, <1>b DEF Counting
  <2> QED  BY <1>t, <2>1, <2>2, <2>3, <2>4, <2>5, <2>6, <1>b
<1>2. CoinsConserved'
  <2>1. e \notin missed[t] => read[t][e] = amount[e]
    BY <1>t, <1>a DEF FreshRead
  <2>2. amount \in [Entries -> Nat] /\ amount[e] \in Nat
    BY <1>t
  <2> HIDE DEF TypeOK
  <2>3. \A f \in Entries \ {e} : amount'[f] = amount[f] /\ taken'[f] = taken[f]
    BY <2>2, <1>n, <1>a
  <2>4. amount'[e] = Rest(read[t][e], remaining[t]) /\ taken'[e] = taken[e] + part
    BY <2>2, <1>n, <1>a
  <2>5. stale \subseteq stale' /\ (e \notin stale' => e \notin missed[t])
    BY <1>b
  <2>6. e \notin stale' => amount'[e] + taken'[e] = Earned[e]
    <3> SUFFICES ASSUME e \notin stale' PROVE amount'[e] + taken'[e] = Earned[e]
      OBVIOUS
    <3>1. amount[e] + taken[e] = Earned[e] /\ read[t][e] = amount[e]
      BY <1>t, <2>1, <2>5 DEF CoinsConserved
    <3> QED  BY <3>1, <2>2, <2>4, <1>0, <1>n
  <2> QED  BY <1>t, <2>3, <2>5, <2>6 DEF CoinsConserved
<1>3. RecordedIsPaid'
  <2>1. next = "record" => paid[t] + part = rule[t].coins
    <3>1. paid[t] + remaining[t] = rule[t].coins
      BY <1>t, <1>a DEF Underway
    <3> QED  BY <3>1, <1>n, <1>0
  <2> QED  BY <1>t, <2>1, <1>0, <1>a, <1>b DEF RecordedIsPaid
<1>4. FreshRead'
  <2>1. \A s \in Tasks : pc'[s] = "deduct" =>
          \A f \in todo'[s] \ missed'[s] : read'[s][f] = amount'[f]
    <3>1. \A s \in Tasks : pc'[s] = "deduct" => pc[s] = "deduct"
      BY <1>t, <1>a
    <3>2. \A s \in Tasks : \A f \in todo'[s] \ missed'[s] :
            f \in todo[s] \ missed[s] /\ f # e
      BY <1>t, <1>a, <1>b
    <3>3. \A f \in Entries \ {e} : amount'[f] = amount[f]
      BY <1>t, <1>a
    <3>4. read' = read /\ todo \in [Tasks -> SUBSET Entries]
      BY <1>t, <1>b
    <3> HIDE DEF TypeOK
    <3> QED  BY <1>t, <3>1, <3>2, <3>3, <3>4 DEF FreshRead
  <2>2. \A f \in expiring' \ cronMissed' : cronRead'[f] = amount'[f]
    BY <1>t, <1>a, <1>b DEF FreshRead
  <2> QED  BY <1>t, <2>1, <2>2 DEF FreshRead
<1>5. Underway'
  <2>1. paid[t] + remaining[t] = rule[t].coins /\ rule[t] \in Rules
    BY <1>t, <1>a DEF Underway
  <2>2. paid'[t] + remaining'[t] = rule[t].coins
    <3>1. paid'[t] = paid[t] + part /\ remaining'[t] = remaining[t] - part
      BY <1>t, <1>n, <1>a
    <3> HIDE DEF TypeOK
    <3>2. rule[t].coins \in Nat
      BY <2>1, <1>n
    <3> QED  BY <3>1, <3>2, <2>1, <1>0, <1>n
  <2>3. \A s \in Tasks \ {t} : pc'[s] = pc[s] /\ paid'[s] = paid[s] /\ remaining'[s] = remaining[s]
    BY <1>t, <1>a
  <2>4. pc[t] = "deduct" /\ pc'[t] = next
    BY <1>t, <1>a
  <2>5. rule' = rule
    BY <1>b
  <2> HIDE DEF TypeOK
  <2> QED  BY <1>t, <2>1, <2>2, <2>3, <2>4, <2>5, <1>0 DEF Underway
<1>6. LimitsChecked'
  BY <1>t, <1>0, <1>a, <1>b DEF LimitsChecked
<1> HIDE DEF TypeOK
<1> QED  BY <1>1, <1>2, <1>3, <1>4, <1>5, <1>6 DEF IInv

LEMMA RecordStep ==
  ASSUME NEW t \in Tasks, IInv, record(t)
  PROVE  IInv'
<1>t. TypeOK /\ CoinsConserved /\ RecordedIsPaid /\ FreshRead /\ Underway /\ LimitsChecked
  BY DEF IInv
<1> USE DEF TypeOK, Steps, rows, redemptions, cron, task
<1>1. TypeOK'
  <2>1. rule[t].value \in Nat
    BY <1>t DEF record, Underway
  <2>2. redeemed' \in [1..Months -> Nat]
    <3>1. redeemed \in [1..Months -> Nat] /\ redeemed[month] + rule[t].value \in Nat
      BY <1>t, <2>1
    <3> QED  BY <3>1 DEF record
  <2>5. yearly' \in Nat
    <3>1. yearly \in Nat
      BY <1>t
    <3> QED  BY <2>1, <3>1 DEF record
  <2>4. counted' \in [1..Months -> Nat]
    <3>1. counted \in [1..Months -> Nat] /\ counted[month] + rule[t].value \in Nat
      BY <1>t, <2>1
    <3> QED  BY <3>1 DEF record
  <2>3. pc' \in [Tasks -> Steps] /\ raced' \subseteq Tasks
    BY <1>t DEF record, Goto
  <2> QED  BY <1>t, <2>2, <2>3, <2>4, <2>5 DEF record
<1>2. CoinsConserved'
  BY <1>t DEF record, Goto, CoinsConserved
<1>3. RecordedIsPaid'
  BY <1>t DEF record, Goto, RecordedIsPaid, Underway
<1>4. FreshRead'
  BY <1>t DEF record, Goto, FreshRead
<1>u. UNCHANGED <<rule, paid, remaining, month>> /\ pc' = [pc EXCEPT ![t] = "enqueue"]
  BY <1>t DEF record, Goto
<1>5. Underway'
  <2>1. pc[t] = "record" /\ rule[t] \in Rules
    BY <1>t DEF record, Underway
  <2> QED  BY <2>1, <1>u, <1>t DEF Underway
<1>6. LimitsChecked'
  <2>1. \A m \in 1..Months : m > month' => counted'[m] = 0 /\ redeemed'[m] = 0
    BY <1>t, <1>u DEF record, LimitsChecked
  <2>4. day' = "earlier" => redeemed'[month'] = counted'[month']
    BY <1>t, <1>u DEF record, LimitsChecked
  <2>2. \A s \in Tasks \ raced' : s = t \/ pc[s] = "year"
    BY <1>t DEF record
  <2>3. pc'[t] = "enqueue" /\ \A s \in Tasks \ {t} : pc'[s] = pc[s]
    BY <1>t, <1>u
  <2> QED  BY <2>1, <2>2, <2>3, <2>4 DEF LimitsChecked
<1> HIDE DEF TypeOK
<1> QED  BY <1>1, <1>2, <1>3, <1>4, <1>5, <1>6 DEF IInv

LEMMA EnqueueStep ==
  ASSUME NEW t \in Tasks, IInv, enqueue(t)
  PROVE  IInv'
<1>t. TypeOK /\ CoinsConserved /\ RecordedIsPaid /\ FreshRead /\ Underway /\ LimitsChecked
  BY DEF IInv
<1> USE DEF TypeOK, Steps, rows, redemptions, cron, task
<1>1. TypeOK'
  BY <1>t DEF enqueue, Goto
<1>2. CoinsConserved'
  BY <1>t DEF enqueue, CoinsConserved
<1>3. RecordedIsPaid'
  BY <1>t DEF enqueue, Goto, RecordedIsPaid, Underway
<1>4. FreshRead'
  BY <1>t DEF enqueue, Goto, FreshRead
<1>5. Underway'
  BY <1>t DEF enqueue, Goto, Underway
<1>6. LimitsChecked'
  BY <1>t DEF enqueue, Goto, LimitsChecked
<1> HIDE DEF TypeOK
<1> QED  BY <1>1, <1>2, <1>3, <1>4, <1>5, <1>6 DEF IInv

LEMMA FailStep ==
  ASSUME NEW t \in Tasks, IInv, fail(t)
  PROVE  IInv'
<1>t. TypeOK /\ CoinsConserved /\ RecordedIsPaid /\ FreshRead /\ Underway /\ LimitsChecked
  BY DEF IInv
<1> USE DEF TypeOK, Steps, rows, redemptions, cron, task
<1>1. TypeOK'
  BY <1>t DEF fail, Proceed, Goto
<1>2. CoinsConserved'
  BY <1>t DEF fail, Proceed, Goto, CoinsConserved
<1>3. RecordedIsPaid'
  BY <1>t DEF fail, Proceed, Goto, RecordedIsPaid, Underway
<1>4. FreshRead'
  BY <1>t DEF fail, Proceed, Goto, FreshRead
<1>5. Underway'
  BY <1>t DEF fail, Proceed, Goto, Underway
<1>6. LimitsChecked'
  BY <1>t DEF fail, Proceed, Goto, LimitsChecked
<1> HIDE DEF TypeOK
<1> QED  BY <1>1, <1>2, <1>3, <1>4, <1>5, <1>6 DEF IInv

LEMMA FindDueStep ==
  ASSUME IInv, findCoinsToExpire
  PROVE  IInv'
<1>t. TypeOK /\ CoinsConserved /\ RecordedIsPaid /\ FreshRead /\ Underway /\ LimitsChecked
  BY DEF IInv
<1> USE DEF TypeOK, Steps, rows, redemptions, cron, task
<1>1. TypeOK'
  BY <1>t DEF findCoinsToExpire, Due
<1>2. CoinsConserved'
  BY <1>t DEF findCoinsToExpire, Due, CoinsConserved
<1>3. RecordedIsPaid'
  BY <1>t DEF findCoinsToExpire, Due, RecordedIsPaid, Underway
<1>4. FreshRead'
  BY <1>t DEF findCoinsToExpire, Due, FreshRead
<1>5. Underway'
  BY <1>t DEF findCoinsToExpire, Due, Underway
<1>6. LimitsChecked'
  BY <1>t DEF findCoinsToExpire, Due, LimitsChecked
<1> HIDE DEF TypeOK
<1> QED  BY <1>1, <1>2, <1>3, <1>4, <1>5, <1>6 DEF IInv

LEMMA ExpireStep ==
  ASSUME IInv, expireOldCoins
  PROVE  IInv'
<1>t. TypeOK /\ CoinsConserved /\ RecordedIsPaid /\ FreshRead /\ Underway /\ LimitsChecked
  BY DEF IInv
<1> USE DEF TypeOK, Steps, rows, redemptions, cron, task
<1>1. TypeOK'
  <2>1. amount' \in [Entries -> Nat] /\ expired' \subseteq Entries
    BY <1>t DEF expireOldCoins
  <2>2. missed' \in [Tasks -> SUBSET Entries] /\ stale' \subseteq Entries
    BY <1>t DEF expireOldCoins
  <2>3. shaken' \subseteq Tasks
    BY <1>t DEF expireOldCoins, Counting
  <2> QED  BY <1>t, <2>1, <2>2, <2>3 DEF expireOldCoins
<1>2. CoinsConserved'
  BY <1>t DEF expireOldCoins, CoinsConserved, FreshRead
<1>3. RecordedIsPaid'
  BY <1>t DEF expireOldCoins, RecordedIsPaid, Underway
<1>4. FreshRead'
  BY <1>t DEF expireOldCoins, FreshRead
<1>5. Underway'
  BY <1>t DEF expireOldCoins, Underway
<1>6. LimitsChecked'
  BY <1>t DEF expireOldCoins, LimitsChecked
<1> HIDE DEF TypeOK
<1> QED  BY <1>1, <1>2, <1>3, <1>4, <1>5, <1>6 DEF IInv

LEMMA StutterStep ==
  ASSUME IInv, UNCHANGED vars
  PROVE  IInv'
<1>t. TypeOK /\ CoinsConserved /\ RecordedIsPaid /\ FreshRead /\ Underway /\ LimitsChecked
  BY DEF IInv
<1> USE DEF TypeOK, Steps, rows, redemptions, cron, task
<1>1. TypeOK'
  BY <1>t DEF vars
<1>2. CoinsConserved'
  BY <1>t DEF vars, CoinsConserved
<1>3. RecordedIsPaid'
  BY <1>t DEF vars, RecordedIsPaid, Underway
<1>4. FreshRead'
  BY <1>t DEF vars, FreshRead
<1>5. Underway'
  BY <1>t DEF vars, Underway
<1>6. LimitsChecked'
  BY <1>t DEF vars, LimitsChecked
<1> HIDE DEF TypeOK
<1> QED  BY <1>1, <1>2, <1>3, <1>4, <1>5, <1>6 DEF IInv

\* The invariant that carries the four properties below holds for ever.
THEOREM Safety == Spec => []IInv
<1>1. IInv /\ [Next]_vars => IInv'
  <2> SUFFICES ASSUME IInv, [Next]_vars PROVE IInv'
    OBVIOUS
  <2>1. CASE nextDay
    BY <2>1, NextDayStep
  <2>2. CASE \E e \in Entries : addCoins(e) \/ age(e)
    BY <2>2, AddCoinsStep, AgeStep
  <2>3. CASE \E t \in Tasks : redeemCoins(t) \/ fail(t)
    BY <2>3, YearStep, MonthStep, FindRuleStep, CountStep, FetchStep, DeductStep,
       RecordStep, EnqueueStep, FailStep DEF redeemCoins
  <2>4. CASE findCoinsToExpire \/ expireOldCoins
    BY <2>4, FindDueStep, ExpireStep
  <2>5. CASE Idle \/ UNCHANGED vars
    BY <2>5, StutterStep DEF Idle
  <2> QED  BY <2>1, <2>2, <2>3, <2>4, <2>5 DEF Next
<1> QED  BY <1>1, InitHolds, PTL DEF Spec

\* Every variable of Coins stays in its range, for every number of rows, calls
\* and months and whatever the rules and limits are.
THEOREM TypeCorrect == Spec => []TypeOK
BY Safety, PTL DEF IInv

\* Redemptions, failures and the midnight job neither lose nor create coins in a
\* row that was never saved from an outdated read.
THEOREM CoinsConservedHolds == Spec => []CoinsConserved
BY Safety, PTL DEF IInv

\* Nothing is recorded, and no money queued, for a redemption that has not
\* written off exactly the price of its rule.
THEOREM RecordedIsPaidHolds == Spec => []RecordedIsPaid
BY Safety, PTL DEF IInv

\* A redemption that no other one overlapped respects the counted limits.
THEOREM WithinLimitsHolds == Spec => WithinLimits
<1> DEFINE P == \A t \in Tasks \ raced : pc[t] = "record" /\ pc'[t] = "enqueue" =>
                 /\ counted[month] < MonthLimit /\ yearly < YearLimit
                 /\ day = "earlier" => redeemed[month] < MonthLimit
<1>1. IInv => [P]_vars
  BY DEF IInv, LimitsChecked
<1> QED  BY <1>1, Safety, PTL DEF WithinLimits

-----------------------------------------------------------------------------
(* The coins a call has counted are there when it writes them off.           *)

LEMMA CoveredInit == Init => Covered /\ RefusedTakesNothing
BY FS_EmptySet DEF Init, Covered, RefusedTakesNothing

\* A step that leaves the rows alone, and what the calls hold of them.
LEMMA RowsKept ==
  ASSUME Covered,
         UNCHANGED <<created, aged, amount, expired, read, todo, remaining, rule>>,
         shaken \subseteq shaken',
         \A s \in Tasks : pc'[s] \in {"fetch", "deduct"} => pc'[s] = pc[s]
  PROVE  Covered'
<1>1. Spendable' = Spendable /\ getTotalUnexpiredCoins' = getTotalUnexpiredCoins
  BY DEF Spendable, getTotalUnexpiredCoins
<1> QED  BY <1>1 DEF Covered

\* A step that changes the rows and shakes the calls that have counted them.
LEMMA RowsShaken ==
  ASSUME Covered, IInv, IsFiniteSet(created'), shaken' = shaken \cup Counting,
         UNCHANGED <<pc, read, todo, remaining, rule>>
  PROVE  Covered'
BY DEF Covered, Counting

LEMMA SpendableSum ==
  ASSUME TypeOK, Covered
  PROVE  IsFiniteSet(Spendable) /\ getTotalUnexpiredCoins \in Nat
<1>1. IsFiniteSet(Spendable)
  BY FS_Subset DEF Spendable, Covered
<1>2. \A e \in Spendable : amount[e] \in Nat
  BY DEF TypeOK, Spendable
<1>3. Sum(amount, Spendable) \in Nat
  BY <1>1, <1>2, SumInt
<1> QED  BY <1>1, <1>3 DEF Sum, getTotalUnexpiredCoins

LEMMA CoveredAddCoins ==
  ASSUME IInv, Covered, NEW e \in Entries, addCoins(e)
  PROVE  Covered'
<1>1. /\ e \notin created /\ created' = created \cup {e}
      /\ UNCHANGED <<aged, amount, expired, pc, read, todo, remaining, rule, shaken>>
  BY DEF addCoins, rows, task
<1>2. IsFiniteSet(created')
  BY <1>1, FS_AddElement DEF Covered
<1>3. Spendable' \in {Spendable, Spendable \cup {e}} /\ e \notin Spendable
  BY <1>1 DEF Spendable
<1>4. IsFiniteSet(Spendable) /\ getTotalUnexpiredCoins \in Nat
  BY SpendableSum DEF IInv
<1>5. IsFiniteSet(Spendable') /\ \A f \in Spendable' : amount[f] \in Nat
  <2>1. Spendable' \subseteq created' /\ Spendable' \subseteq Entries
    BY <1>1 DEF Spendable, IInv, TypeOK
  <2> QED  BY <1>2, <2>1, FS_Subset DEF IInv, TypeOK
<1>6. e \in Spendable' => Sum(amount, Spendable') = amount[e] + Sum(amount, Spendable)
  <2> SUFFICES ASSUME e \in Spendable'
               PROVE  Sum(amount, Spendable') = amount[e] + Sum(amount, Spendable)
    OBVIOUS
  <2>1. Sum(amount, Spendable') = amount[e] + Sum(amount, Spendable' \ {e})
    <3>1. \A f \in Spendable' : amount[f] \in Int
      BY <1>5
    <3> QED  BY <1>5, <3>1, SumTakes
  <2>2. Spendable' \ {e} = Spendable
    BY <1>3
  <2> QED  BY <2>1, <2>2
<1>7. e \notin Spendable' => Spendable' = Spendable
  BY <1>3
<1>8. /\ getTotalUnexpiredCoins = Sum(amount, Spendable)
      /\ getTotalUnexpiredCoins' = Sum(amount, Spendable')
  BY <1>1 DEF Sum, getTotalUnexpiredCoins
<1>9. getTotalUnexpiredCoins' \in Nat /\ getTotalUnexpiredCoins' >= getTotalUnexpiredCoins
  BY <1>4, <1>5, <1>6, <1>7, <1>8
<1>10. \A t \in Tasks : pc[t] = "fetch" => rule[t].coins \in Nat
  BY DEF IInv, Underway
<1> QED  BY <1>1, <1>2, <1>4, <1>9, <1>10 DEF Covered

LEMMA CoveredFetch ==
  ASSUME IInv, Covered, NEW t \in Tasks, fetchEntries(t)
  PROVE  Covered'
<1>1. /\ pc[t] = "fetch" /\ read' = [read EXCEPT ![t] = amount]
      /\ todo' = [todo EXCEPT ![t] = Spendable]
      /\ remaining' = [remaining EXCEPT ![t] = rule[t].coins]
      /\ UNCHANGED <<created, aged, amount, expired, rule, shaken>>
      /\ pc' = [pc EXCEPT ![t] = AfterEntry(rule[t].coins, Spendable)]
  BY DEF fetchEntries, Goto, rows
<1>2. /\ read \in [Tasks -> [Entries -> Nat]] /\ todo \in [Tasks -> SUBSET Entries]
      /\ remaining \in [Tasks -> Nat] /\ pc \in [Tasks -> Steps]
  BY DEF IInv, TypeOK
<1>3. /\ read'[t] = amount /\ todo'[t] = Spendable /\ remaining'[t] = rule[t].coins
      /\ \A s \in Tasks \ {t} : /\ read'[s] = read[s] /\ todo'[s] = todo[s]
                                /\ remaining'[s] = remaining[s] /\ pc'[s] = pc[s]
  BY <1>1, <1>2
<1>4. pc'[t] # "fetch"
  BY <1>1, <1>2 DEF AfterEntry
<1>5. Spendable' = Spendable /\ getTotalUnexpiredCoins' = getTotalUnexpiredCoins
  BY <1>1 DEF Spendable, getTotalUnexpiredCoins
<1>6. IsFiniteSet(Spendable)
  BY SpendableSum DEF IInv
<1>7. t \notin shaken => SumFunctionOnSet(amount, Spendable) >= rule[t].coins
  BY <1>1 DEF Covered, getTotalUnexpiredCoins
<1> QED  BY <1>1, <1>3, <1>4, <1>5, <1>6, <1>7 DEF Covered

LEMMA CoveredDeduct ==
  ASSUME IInv, Covered, RefusedTakesNothing, NEW t \in Tasks, NEW e \in Entries, deduct(t, e)
  PROVE  Covered' /\ RefusedTakesNothing'
<1> DEFINE part == Part(read[t][e], remaining[t])
           next == AfterEntry(remaining[t] - part, todo[t] \ {e})
<1>1. /\ pc[t] = "deduct" /\ e \in todo[t]
      /\ pc' = [pc EXCEPT ![t] = next]
      /\ remaining' = [remaining EXCEPT ![t] = @ - part]
      /\ todo' = [todo EXCEPT ![t] = @ \ {e}]
      /\ paid' = [paid EXCEPT ![t] = @ + part]
      /\ shaken' = shaken \cup Counting
      /\ UNCHANGED <<created, rule, read>>
  BY DEF deduct, Goto
<1>2. /\ read \in [Tasks -> [Entries -> Nat]] /\ todo \in [Tasks -> SUBSET Entries]
      /\ remaining \in [Tasks -> Nat] /\ pc \in [Tasks -> Steps] /\ paid \in [Tasks -> Nat]
  BY DEF IInv, TypeOK
<1>3. /\ remaining'[t] = remaining[t] - part /\ todo'[t] = todo[t] \ {e} /\ pc'[t] = next
      /\ \A s \in Tasks \ {t} : /\ todo'[s] = todo[s] /\ remaining'[s] = remaining[s]
                                /\ pc'[s] = pc[s] /\ paid'[s] = paid[s]
  BY <1>1, <1>2
<1>4. /\ IsFiniteSet(todo[t]) /\ IsFiniteSet(todo'[t])
      /\ \A f \in todo[t] : read[t][f] \in Int /\ read[t][f] \in Nat
  <2>1. IsFiniteSet(todo[t])
    BY DEF Covered
  <2>2. IsFiniteSet(todo[t] \ {e})
    BY <2>1, FS_RemoveElement
  <2>3. todo[t] \subseteq Entries /\ read[t] \in [Entries -> Nat]
    BY <1>2
  <2>4. \A f \in todo[t] : read[t][f] \in Nat
    BY <2>3
  <2>5. \A f \in todo[t] : read[t][f] \in Int
    BY <2>4
  <2> QED  BY <1>3, <2>1, <2>2, <2>4, <2>5
<1>5. Sum(read[t], todo[t]) = read[t][e] + Sum(read[t], todo[t] \ {e})
  BY <1>1, <1>4, SumTakes
<1>6. Sum(read[t], todo[t] \ {e}) \in Nat
  BY <1>3, <1>4, SumInt
<1>7. part \in Nat /\ remaining[t] - part \in Nat /\ part \in {read[t][e], remaining[t]}
  BY <1>1, <1>2 DEF Part
<1>8. t \notin shaken => Sum(read[t], todo'[t]) >= remaining'[t]
  <2> SUFFICES ASSUME t \notin shaken PROVE Sum(read[t], todo'[t]) >= remaining'[t]
    OBVIOUS
  <2>1. Sum(read[t], todo[t]) >= remaining[t]
    BY <1>1 DEF Covered, Sum
  <2>2. remaining[t] \in Nat /\ read[t][e] \in Nat
    BY <1>1, <1>2
  <2> HIDE DEF part
  <2> QED  BY <1>3, <1>5, <1>6, <1>7, <2>1, <2>2
<1>9. next \in {"deduct", "failed", "record"}
      /\ (next = "failed" => remaining[t] - part > 0 /\ todo[t] \ {e} = {})
  BY <1>7 DEF AfterEntry
<1> HIDE DEF next
<1>10. t \notin shaken => next # "failed"
  <2> SUFFICES ASSUME t \notin shaken, next = "failed" PROVE FALSE
    OBVIOUS
  <2>1. Sum(read[t], todo'[t]) = 0
    BY <1>3, <1>9, SumEmpty
  <2> HIDE DEF part
  <2> QED  BY <1>3, <1>7, <1>8, <1>9, <2>1
<1> HIDE DEF part
<1>11. Covered'
  <2>1. \A s \in Tasks : IsFiniteSet(todo'[s])
    BY <1>3, <1>4 DEF Covered
  <2>2. \A s \in Tasks \ shaken' : pc'[s] # "fetch"
    BY <1>1, <1>3, <1>9 DEF Counting
  <2>3. \A s \in Tasks \ shaken' : pc'[s] = "deduct" =>
          SumFunctionOnSet(read[s], todo'[s]) >= remaining'[s]
    BY <1>1, <1>3, <1>8 DEF Covered, Sum
  <2> QED  BY <1>1, <2>1, <2>2, <2>3 DEF Covered
<1>12. RefusedTakesNothing'
  BY <1>1, <1>3, <1>10 DEF RefusedTakesNothing
<1> QED  BY <1>11, <1>12

\* A step that refuses nobody, or one who has paid nothing.
LEMMA NobodyRefused ==
  ASSUME RefusedTakesNothing, UNCHANGED paid, shaken \subseteq shaken',
         \A t \in Tasks \ Faulty : pc'[t] = "failed" => pc[t] = "failed" \/ paid[t] = 0
  PROVE  RefusedTakesNothing'
BY DEF RefusedTakesNothing

LEMMA CoveredStep ==
  ASSUME IInv, Covered, RefusedTakesNothing, [Next]_vars
  PROVE  Covered' /\ RefusedTakesNothing'
<1>t. pc \in [Tasks -> Steps]
  BY DEF IInv, TypeOK
<1>u. \A t \in Tasks : pc[t] \in {"year", "month", "rule", "coins", "fetch"} => paid[t] = 0
  BY DEF IInv, Underway
<1> USE DEF rows, redemptions, cron, task
<1>1. CASE nextDay \/ findCoinsToExpire \/ Idle \/ UNCHANGED vars
  <2>1. UNCHANGED <<created, aged, amount, expired, task>>
    BY <1>1 DEF nextDay, findCoinsToExpire, Idle, vars
  <2> QED  BY <2>1, RowsKept, NobodyRefused
<1>2. ASSUME NEW e \in Entries, addCoins(e) \/ age(e)
      PROVE  Covered' /\ RefusedTakesNothing'
  <2>1. UNCHANGED <<pc, read, todo, remaining, rule, paid>> /\ shaken \subseteq shaken'
    BY <1>2 DEF addCoins, age
  <2>2. CASE addCoins(e)
    BY <2>1, <2>2, CoveredAddCoins, NobodyRefused
  <2>3. CASE age(e)
    <3>1. created' = created /\ shaken' = shaken \cup Counting
      BY <2>3 DEF age
    <3> QED  BY <2>1, <3>1, RowsShaken, NobodyRefused DEF Covered
  <2> QED  BY <1>2, <2>2, <2>3
<1>3. CASE expireOldCoins
  <2>1. /\ UNCHANGED <<pc, read, todo, remaining, rule, paid, created>>
        /\ shaken' = shaken \cup Counting
    BY <1>3 DEF expireOldCoins
  <2> QED  BY <2>1, RowsShaken, NobodyRefused DEF Covered
<1>4. ASSUME NEW t \in Tasks, redeemCoins(t) \/ fail(t)
      PROVE  Covered' /\ RefusedTakesNothing'
  <2>1. ASSUME NEW ok, NEW next \in {"month", "rule", "coins", "failed"}, Proceed(t, ok, next),
               pc[t] \in {"year", "month", "rule", "coins"} \/ t \in Faulty
        PROVE  Covered' /\ RefusedTakesNothing'
    <3>1. UNCHANGED <<created, aged, amount, expired, read, todo, remaining, rule, paid, shaken>>
      BY <2>1 DEF Proceed
    <3>2. pc'[t] \in {"month", "rule", "coins", "failed"} /\ \A s \in Tasks \ {t} : pc'[s] = pc[s]
      BY <1>t, <2>1 DEF Proceed, Goto
    <3>3. \A s \in Tasks \ Faulty : pc'[s] = "failed" => pc[s] = "failed" \/ paid[s] = 0
      BY <1>u, <2>1, <3>2
    <3>4. \A s \in Tasks : pc'[s] \in {"fetch", "deduct"} => pc'[s] = pc[s]
      BY <3>2
    <3> QED  BY <3>1, <3>3, <3>4, RowsKept, NobodyRefused
  <2>2. CASE validateYearRedemption(t) \/ validateMonthlyRedemption(t) \/ findRule(t) \/ fail(t)
    BY <2>1, <2>2 DEF validateYearRedemption, validateMonthlyRedemption, findRule, fail
  <2>3. CASE countCoins(t)
    <3>1. /\ UNCHANGED <<created, aged, amount, expired, read, todo, remaining, rule, paid, shaken>>
          /\ pc[t] = "coins" /\ pc'[t] \in {"fetch", "failed"}
          /\ \A s \in Tasks \ {t} : pc'[s] = pc[s]
          /\ pc'[t] = "fetch" => getTotalUnexpiredCoins >= rule[t].coins
      BY <1>t, <2>3 DEF countCoins, Proceed, Goto, EnoughCoins
    <3>2. RefusedTakesNothing'
      BY <1>u, <3>1, NobodyRefused
    <3>3. Spendable' = Spendable /\ getTotalUnexpiredCoins' = getTotalUnexpiredCoins
      BY <3>1 DEF Spendable, getTotalUnexpiredCoins
    <3>4. Covered'
      BY <3>1, <3>3 DEF Covered
    <3> QED  BY <3>2, <3>4
  <2>4. CASE fetchEntries(t)
    <3>1. pc[t] = "fetch" /\ UNCHANGED <<paid, shaken>> /\ \A s \in Tasks \ {t} : pc'[s] = pc[s]
      BY <1>t, <2>4 DEF fetchEntries, Goto
    <3> QED  BY <1>u, <2>4, <3>1, CoveredFetch, NobodyRefused
  <2>5. CASE \E e \in Entries : deduct(t, e)
    BY <2>5, CoveredDeduct
  <2>6. CASE record(t) \/ enqueue(t)
    <3>1. /\ UNCHANGED <<created, aged, amount, expired, read, todo, remaining, rule, paid, shaken>>
          /\ pc'[t] \in {"enqueue", "done"} /\ \A s \in Tasks \ {t} : pc'[s] = pc[s]
      BY <1>t, <2>6 DEF record, enqueue, Goto
    <3>2. \A s \in Tasks : pc'[s] \in {"fetch", "deduct", "failed"} => pc'[s] = pc[s]
      BY <3>1
    <3> QED  BY <3>1, <3>2, RowsKept, NobodyRefused
  <2> QED  BY <1>4, <2>2, <2>3, <2>4, <2>5, <2>6 DEF redeemCoins
<1> QED  BY <1>1, <1>2, <1>3, <1>4 DEF Next

\* A refused redemption costs no coins, whatever the rows hold and however many
\* there are, unless a row changed between its count and its fetch.
THEOREM RefusedTakesNothingHolds == Spec => []RefusedTakesNothing
<1>1. IInv /\ (Covered /\ RefusedTakesNothing) /\ [Next]_vars
        => (Covered /\ RefusedTakesNothing)'
  BY CoveredStep
<1> QED  BY <1>1, CoveredInit, Safety, PTL DEF Spec

=============================================================================
