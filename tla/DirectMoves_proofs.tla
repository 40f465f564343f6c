------------------------- MODULE DirectMoves_proofs -------------------------
(* Proofs about DirectMoves: wallets stay above zero, a reward is paid once *)
(* and an order is credited before it says so.                              *)
EXTENDS DirectMoves, FiniteSetTheorems, WellFoundedInduction, TLAPS

-----------------------------------------------------------------------------
(* Sums over finite sets.  SumFunctionOnSet is a recursive function, that is *)
(* what CHOOSE makes of its equation: the lemmas show that the equation has  *)
(* one solution, by the least set for which it had none, or had two.         *)

LEMMA LeastSet ==
  ASSUME NEW S, NEW T \in SUBSET FiniteSubsetsOf(S), T # {}
  PROVE  \E U \in T : \A V \in T : ~(V \subseteq U /\ V # U)
<1>1. PICK U \in T : \A V \in T : ~(<<V, U>> \in StrictSubsetOrdering(S))
  BY FS_StrictSubsetOrderingWellFounded, WFMin
<1> QED  BY <1>1 DEF StrictSubsetOrdering, FiniteSubsetsOf

\* The same for the subsets of a finite set.
LEMMA LeastSubset ==
  ASSUME NEW S, IsFiniteSet(S), NEW T \in SUBSET (SUBSET S), T # {}
  PROVE  \E U \in T : \A V \in T : ~(V \subseteq U /\ V # U)
<1>1. T \in SUBSET FiniteSubsetsOf(S)
  BY FS_Subset DEF FiniteSubsetsOf
<1> QED  BY <1>1, LeastSet

First(s) == CHOOSE x \in s : TRUE

Folds(g, f, S) ==
  g = [s \in SUBSET S |-> IF s = {} THEN 0 ELSE f[First(s)] + g[s \ {First(s)}]]

Sum(f, S) == SumFunctionOnSet(f, S)

LEMMA SumIsFold ==
  ASSUME NEW f, NEW S
  PROVE  Sum(f, S) = (CHOOSE g : Folds(g, f, S))[S]
BY Zenon DEF Sum, SumFunctionOnSet, FoldFunctionOnSet, MapThenFoldSet, Folds, First

LEMMA FoldAt ==
  ASSUME NEW S, NEW f, NEW g, Folds(g, f, S), NEW s \in SUBSET S
  PROVE  g[s] = IF s = {} THEN 0 ELSE f[First(s)] + g[s \ {First(s)}]
BY Zenon DEF Folds

LEMMA FirstIn ==
  ASSUME NEW s, s # {}
  PROVE  First(s) \in s
BY DEF First

LEMMA OneFold ==
  ASSUME NEW S, IsFiniteSet(S), NEW f, NEW g, Folds(g, f, S),
         NEW T \in SUBSET S, NEW h, Folds(h, f, T)
  PROVE  \A s \in SUBSET T : g[s] = h[s]
<1> DEFINE D == {s \in SUBSET T : g[s] # h[s]}
<1> SUFFICES ASSUME D # {} PROVE FALSE
  OBVIOUS
<1>1. D \in SUBSET (SUBSET S)
  OBVIOUS
<1>2. PICK U \in D : \A V \in D : ~(V \subseteq U /\ V # U)
  <2> HIDE DEF D
  <2> QED  BY <1>1, LeastSubset
<1>3. U \in SUBSET T /\ U \in SUBSET S /\ g[U] # h[U]
  OBVIOUS
<1> HIDE DEF D
<1> DEFINE x == First(U)
<1>4. g[U] = IF U = {} THEN 0 ELSE f[x] + g[U \ {x}]
  BY <1>3, FoldAt
<1>5. h[U] = IF U = {} THEN 0 ELSE f[x] + h[U \ {x}]
  BY <1>3, FoldAt
<1> USE DEF D
<1>6. U # {} /\ x \in U
  BY <1>3, <1>4, <1>5, FirstIn
<1>7. U \ {x} \in SUBSET T /\ U \ {x} \subseteq U /\ U \ {x} # U
  BY <1>3, <1>6
<1>8. g[U \ {x}] = h[U \ {x}]
  BY <1>2, <1>7
<1> QED  BY <1>3, <1>4, <1>5, <1>8

LEMMA AFold ==
  ASSUME NEW S, IsFiniteSet(S), NEW f
  PROVE  \E g : Folds(g, f, S)
<1> DEFINE D == {s \in SUBSET S : ~\E g : Folds(g, f, s)}
<1> SUFFICES ASSUME D # {} PROVE FALSE
  OBVIOUS
<1>1. D \in SUBSET (SUBSET S)
  OBVIOUS
<1>2. PICK U \in D : \A V \in D : ~(V \subseteq U /\ V # U)
  <2> HIDE DEF D
  <2> QED  BY <1>1, LeastSubset
<1>3. U \in SUBSET S /\ ~\E g : Folds(g, f, U)
  OBVIOUS
<1> DEFINE part(s) == CHOOSE g : Folds(g, f, s)
           g == [s \in SUBSET U |-> IF s = {} THEN 0
                                    ELSE f[First(s)] + part(s \ {First(s)})[s \ {First(s)}]]
<1>4. ASSUME NEW s \in SUBSET U, s # U
      PROVE  Folds(part(s), f, s)
  <2>1. s \in SUBSET S /\ s \notin D
    BY <1>2, <1>3, <1>4
  <2> QED  BY <2>1
<1>5. ASSUME NEW s \in SUBSET U, s # {}
      PROVE  g[s \ {First(s)}] = part(s \ {First(s)})[s \ {First(s)}]
  <2> DEFINE r == s \ {First(s)}
  <2>1. r \in SUBSET U /\ r # U /\ IsFiniteSet(r)
    BY <1>3, <1>5, FirstIn, FS_Subset
  <2>2. Folds(part(r), f, r)
    BY <1>4, <2>1
  <2>3. CASE r = {}
    <3>1. part(r)[r] = 0
      BY <2>2, <2>3, FoldAt
    <3> QED  BY <2>1, <2>3, <3>1
  <2>4. CASE r # {}
    <3> DEFINE q == r \ {First(r)}
    <3>1. q \in SUBSET r /\ q \in SUBSET U /\ q # U
      BY <2>1, <2>4, FirstIn
    <3>2. Folds(part(q), f, q)
      BY <1>4, <3>1
    <3>3. part(r)[q] = part(q)[q]
      BY <2>1, <2>2, <3>1, <3>2, OneFold
    <3>4. part(r)[r] = f[First(r)] + part(r)[q]
      <4> HIDE DEF part
      <4>1. part(r)[r] = IF r = {} THEN 0 ELSE f[First(r)] + part(r)[r \ {First(r)}]
        <5> HIDE DEF r
        <5> QED  BY <2>2, FoldAt
      <4> QED  BY <2>4, <4>1
    <3>5. g[r] = f[First(r)] + part(q)[q]
      BY <2>1, <2>4
    <3> QED  BY <3>3, <3>4, <3>5
  <2> QED  BY <2>3, <2>4
<1>6. g = [s \in SUBSET U |-> IF s = {} THEN 0 ELSE f[First(s)] + g[s \ {First(s)}]]
  <2> HIDE DEF part
  <2>1. \A s \in SUBSET U :
          g[s] = IF s = {} THEN 0 ELSE f[First(s)] + part(s \ {First(s)})[s \ {First(s)}]
    OBVIOUS
  <2>2. g = [s \in SUBSET U |-> g[s]]
    OBVIOUS
  <2> HIDE DEF g
  <2>3. \A s \in SUBSET U : g[s] = IF s = {} THEN 0 ELSE f[First(s)] + g[s \ {First(s)}]
    BY <1>5, <2>1
  <2> QED  BY <2>2, <2>3
<1> HIDE DEF g
<1>7. Folds(g, f, U)
  BY <1>6 DEF Folds
<1> QED  BY <1>3, <1>7

LEMMA SumEmpty ==
  ASSUME NEW f
  PROVE  Sum(f, {}) = 0
<1>1. PICK g : Folds(g, f, {})
  BY AFold, FS_EmptySet
<1>2. Folds(CHOOSE h : Folds(h, f, {}), f, {})
  BY <1>1
<1> QED  BY <1>2, FoldAt, SumIsFold

LEMMA SumFirst ==
  ASSUME NEW S, IsFiniteSet(S), S # {}, NEW f
  PROVE  Sum(f, S) = f[First(S)] + Sum(f, S \ {First(S)})
<1> DEFINE x == First(S)
           T == S \ {x}
           g == CHOOSE fold : Folds(fold, f, S)
           h == CHOOSE fold : Folds(fold, f, T)
<1>1. Folds(g, f, S)
  BY AFold
<1>2. T \in SUBSET S /\ IsFiniteSet(T)
  BY FS_Subset
<1>3. Folds(h, f, T)
  BY <1>2, AFold
<1>4. Sum(f, S) = g[S] /\ Sum(f, T) = h[T]
  BY SumIsFold
<1> HIDE DEF g, h
<1>5. g[T] = h[T]
  BY <1>1, <1>2, <1>3, OneFold
<1>6. g[S] = f[x] + g[T]
  BY <1>1, FoldAt
<1> QED  BY <1>4, <1>5, <1>6

\* A sum of integers is an integer, one of naturals a natural.
LEMMA SumInt ==
  ASSUME NEW S, IsFiniteSet(S), NEW f, NEW N \in {Int, Nat}, \A x \in S : f[x] \in N
  PROVE  Sum(f, S) \in N
<1> DEFINE D == {s \in SUBSET S : Sum(f, s) \notin N}
<1> SUFFICES ASSUME D # {} PROVE FALSE
  OBVIOUS
<1>1. D \in SUBSET (SUBSET S)
  OBVIOUS
<1>2. PICK U \in D : \A V \in D : ~(V \subseteq U /\ V # U)
  <2> HIDE DEF D
  <2> QED  BY <1>1, LeastSubset
<1>3. U \in SUBSET S /\ Sum(f, U) \notin N /\ IsFiniteSet(U)
  BY FS_Subset
<1>4. U # {}
  BY <1>3, SumEmpty
<1> DEFINE x == First(U)
<1>5. x \in U /\ f[x] \in N
  BY <1>3, <1>4, FirstIn
<1>6. U \ {x} \in SUBSET S /\ U \ {x} # U
  BY <1>3, <1>5
<1>7. Sum(f, U \ {x}) \in N
  BY <1>2, <1>6
<1>8. Sum(f, U) = f[x] + Sum(f, U \ {x})
  BY <1>3, <1>4, SumFirst
<1> QED  BY <1>3, <1>5, <1>7, <1>8

\* Any element may be taken out first.
LEMMA SumTakes ==
  ASSUME NEW S, IsFiniteSet(S), NEW f, \A x \in S : f[x] \in Int
  PROVE  \A y \in S : Sum(f, S) = f[y] + Sum(f, S \ {y})
<1> DEFINE D == {s \in SUBSET S : ~\A y \in s : Sum(f, s) = f[y] + Sum(f, s \ {y})}
<1> SUFFICES ASSUME D # {} PROVE FALSE
  OBVIOUS
<1>1. D \in SUBSET (SUBSET S)
  OBVIOUS
<1>2. PICK U \in D : \A V \in D : ~(V \subseteq U /\ V # U)
  <2> HIDE DEF D
  <2> QED  BY <1>1, LeastSubset
<1>3. U \in SUBSET S /\ IsFiniteSet(U)
  BY FS_Subset
<1>4. PICK y \in U : Sum(f, U) # f[y] + Sum(f, U \ {y})
  OBVIOUS
<1> DEFINE x == First(U)
<1>5. x \in U /\ Sum(f, U) = f[x] + Sum(f, U \ {x})
  BY <1>3, SumFirst, FirstIn
<1>6. x # y
  BY <1>4, <1>5
<1>7. \A s \in SUBSET U : s # U => \A z \in s : Sum(f, s) = f[z] + Sum(f, s \ {z})
  BY <1>2, <1>3
<1> HIDE DEF D
<1>8. Sum(f, U \ {x}) = f[y] + Sum(f, (U \ {x}) \ {y})
  BY <1>5, <1>6, <1>7
<1>9. Sum(f, U \ {y}) = f[x] + Sum(f, (U \ {y}) \ {x})
  BY <1>5, <1>6, <1>7
<1> DEFINE R == (U \ {x}) \ {y}
<1>10. R = (U \ {y}) \ {x} /\ IsFiniteSet(R) /\ \A z \in R : f[z] \in Int
  BY <1>3, FS_Subset
<1>11. Sum(f, R) \in Int
  BY <1>10, SumInt
<1>12. f[x] \in Int /\ f[y] \in Int
  BY <1>3, <1>5
<1> HIDE DEF R
<1>13. Sum(f, U \ {x}) = f[y] + Sum(f, R) /\ Sum(f, U \ {y}) = f[x] + Sum(f, R)
  BY <1>8, <1>9, <1>10 DEF R
<1> QED  BY <1>4, <1>5, <1>11, <1>12, <1>13

\* Only what the function is on the set counts.
LEMMA SumSame ==
  ASSUME NEW S, IsFiniteSet(S), NEW f, NEW g, \A x \in S : f[x] = g[x]
  PROVE  Sum(f, S) = Sum(g, S)
<1> DEFINE D == {s \in SUBSET S : Sum(f, s) # Sum(g, s)}
<1> SUFFICES ASSUME D # {} PROVE FALSE
  OBVIOUS
<1>1. D \in SUBSET (SUBSET S)
  OBVIOUS
<1>2. PICK U \in D : \A V \in D : ~(V \subseteq U /\ V # U)
  <2> HIDE DEF D
  <2> QED  BY <1>1, LeastSubset
<1>3. U \in SUBSET S /\ Sum(f, U) # Sum(g, U) /\ IsFiniteSet(U)
  BY FS_Subset
<1>4. U # {}
  BY <1>3, SumEmpty
<1> DEFINE x == First(U)
<1>5. x \in U /\ f[x] = g[x]
  BY <1>3, <1>4, FirstIn
<1>6. U \ {x} \in SUBSET S /\ U \ {x} # U
  BY <1>3, <1>5
<1>7. Sum(f, U \ {x}) = Sum(g, U \ {x})
  BY <1>2, <1>6
<1>8. Sum(f, U) = f[x] + Sum(f, U \ {x}) /\ Sum(g, U) = g[x] + Sum(g, U \ {x})
  BY <1>3, <1>4, SumFirst
<1> QED  BY <1>3, <1>5, <1>7, <1>8

\* One summand changes, or a new one comes that was zero.
LEMMA SumChanges ==
  ASSUME NEW S, IsFiniteSet(S), NEW t, NEW f, NEW g, NEW d \in Int,
         \A x \in S \cup {t} : f[x] \in Int /\ g[x] \in Int,
         \A x \in S \ {t} : g[x] = f[x], g[t] = f[t] + d, t \notin S => f[t] = 0
  PROVE  /\ IsFiniteSet(S \cup {t}) /\ Sum(f, S) \in Int
         /\ Sum(g, S \cup {t}) = Sum(f, S) + d
<1> DEFINE R == S \ {t}
           T == S \cup {t}
<1>1. IsFiniteSet(R) /\ IsFiniteSet(T)
  BY FS_AddElement, FS_RemoveElement
<1>2. Sum(f, R) = Sum(g, R)
  BY <1>1, SumSame
<1>3. Sum(f, R) \in Int /\ Sum(f, S) \in Int
  BY <1>1, SumInt
<1>4. Sum(g, T) = g[t] + Sum(g, T \ {t})
  <2>1. t \in T /\ \A x \in T : g[x] \in Int
    OBVIOUS
  <2> HIDE DEF T
  <2> QED  BY <1>1, <2>1, SumTakes
<1>5. T \ {t} = R
  OBVIOUS
<1>6. t \in S => Sum(f, S) = f[t] + Sum(f, R)
  BY SumTakes
<1>7. t \notin S => R = S
  OBVIOUS
<1> HIDE DEF R, T
<1>8. Sum(g, T) = f[t] + d + Sum(f, R) /\ f[t] \in Int
  BY <1>2, <1>4, <1>5
<1>9. CASE t \in S
  BY <1>1, <1>3, <1>6, <1>8, <1>9 DEF T
<1>10. CASE t \notin S
  BY <1>1, <1>3, <1>7, <1>8, <1>10 DEF T
<1> QED  BY <1>9, <1>10

LEMMA SumZero ==
  ASSUME NEW S, IsFiniteSet(S), NEW f, \A x \in S : f[x] = 0
  PROVE  Sum(f, S) = 0
<1> DEFINE D == {s \in SUBSET S : Sum(f, s) # 0}
<1> SUFFICES ASSUME D # {} PROVE FALSE
  OBVIOUS
<1>1. D \in SUBSET (SUBSET S)
  OBVIOUS
<1>2. PICK U \in D : \A V \in D : ~(V \subseteq U /\ V # U)
  <2> HIDE DEF D
  <2> QED  BY <1>1, LeastSubset
<1>3. U \in SUBSET S /\ Sum(f, U) # 0 /\ IsFiniteSet(U)
  BY FS_Subset
<1>4. U # {}
  BY <1>3, SumEmpty
<1> DEFINE x == First(U)
<1>5. x \in U /\ f[x] = 0
  BY <1>3, <1>4, FirstIn
<1>6. U \ {x} \in SUBSET S /\ U \ {x} # U
  BY <1>3, <1>5
<1>7. Sum(f, U \ {x}) = 0
  BY <1>2, <1>6
<1>8. Sum(f, U) = f[x] + Sum(f, U \ {x})
  BY <1>3, <1>4, SumFirst
<1> QED  BY <1>3, <1>5, <1>7, <1>8

-----------------------------------------------------------------------------
(* The steps.                                                                *)

USE DirectMovesAssumption

\* Where each step of a reward's program is.
LEMMA ScratchSteps ==
  ASSUME NEW t \in Tasks, op[t].kind = "scratchReward", pc[t] \in Nat \ {0}
  PROVE  /\ Running(t) <=> t \notin over /\ pc[t] <= 5
         /\ \A i \in 1..5 : Program[op[t].kind][i] =
              IF i = 1 THEN "findReward" ELSE IF i = 2 THEN "markRead" ELSE IF i = 3 THEN "rowPayee"
              ELSE IF i = 4 THEN "readPayee" ELSE "savePayee"
<1>1. Program[op[t].kind] = <<"findReward", "markRead", "rowPayee", "readPayee", "savePayee">>
  BY DEF Program, scratchReward
<1> QED  BY <1>1 DEF Running

LEMMA PaymentSteps ==
  ASSUME NEW t \in Tasks, op[t].kind = "paymentSucceeded", pc[t] \in Nat \ {0}
  PROVE  /\ Running(t) <=> t \notin over /\ pc[t] <= 5
         /\ \A i \in 1..5 : Program[op[t].kind][i] =
              IF i = 1 THEN "findOrder" ELSE IF i = 2 THEN "readPayee" ELSE IF i = 3 THEN "savePayee"
              ELSE IF i = 4 THEN "rowPayee" ELSE "saveOrder"
<1>1. Program[op[t].kind] = <<"findOrder", "readPayee", "savePayee", "rowPayee", "saveOrder">>
  BY DEF Program, paymentSucceeded
<1> QED  BY <1>1 DEF Running

LEMMA UpgradeSteps ==
  ASSUME NEW t \in Tasks, op[t].kind = "upgradePlan", pc[t] \in Nat \ {0}
  PROVE  /\ Running(t) <=> t \notin over /\ pc[t] <= 4
         /\ \A i \in 1..4 : Program[op[t].kind][i] =
              IF i = 1 THEN "findPlan" ELSE IF i = 2 THEN "readPayer" ELSE IF i = 3 THEN "savePayer"
              ELSE "saveSubscription"
<1>1. Program[op[t].kind] = <<"findPlan", "readPayer", "savePayer", "saveSubscription">>
  BY DEF Program, upgradePlan
<1> QED  BY <1>1 DEF Running

\* No other program has these steps.
LEMMA OwnSteps ==
  ASSUME NEW t \in Tasks, op[t].kind \in DOMAIN Program, pc[t] \in Nat \ {0}
  PROVE  /\ At(t, "findReward") \/ At(t, "markRead") => op[t].kind = "scratchReward"
         /\ At(t, "findPlan") \/ At(t, "saveSubscription") => op[t].kind = "upgradePlan"
<1>1. CASE op[t].kind = "sendMoney"
  BY <1>1 DEF At, Running, Program, sendMoney
<1>2. CASE op[t].kind = "checkPaymentStatus"
  BY <1>2 DEF At, Running, Program, checkPaymentStatus
<1>3. CASE op[t].kind = "handleBusyBoxPayoutEvents"
  BY <1>3 DEF At, Running, Program, handleBusyBoxPayoutEvents
<1>4. CASE op[t].kind = "paymentSucceeded"
  BY <1>4 DEF At, Running, Program, paymentSucceeded
<1>5. CASE op[t].kind = "paymentFailed"
  BY <1>5 DEF At, Running, Program, paymentFailed
<1>6. CASE op[t].kind = "scratchReward"
  BY <1>6 DEF At, Running, Program, scratchReward
<1>7. CASE op[t].kind = "upgradePlan"
  BY <1>7 DEF At, Running, Program, upgradePlan
<1> QED  BY <1>1, <1>2, <1>3, <1>4, <1>5, <1>6, <1>7 DEF Program

\* A task moves on in its program, or gives up.
Moved(t) ==
  /\ Running(t) /\ op' = op
  /\ \/ pc' = [pc EXCEPT ![t] = @ + 1] /\ over' = over
     \/ pc' = pc /\ over' = over \cup {t}

\* What every step of a task has in common.
LEMMA StepMoves ==
  ASSUME NEW t \in Tasks, Step(t)
  PROVE  Moved(t) /\ isRead \subseteq isRead' /\ raced \subseteq raced'
<1> USE DEF Moved, Advance, Refuse
<1>1. CASE readPayer(t) \/ readPayee(t)
  BY <1>1 DEF readPayer, readPayee, At, rest
<1>2. CASE savePayer(t) \/ savePayee(t)
  BY <1>2 DEF savePayer, savePayee, Save, At, rest
<1>3. CASE violatesCheck(t) \/ saveRow(t)
  BY <1>3 DEF violatesCheck, saveRow, At, rest
<1>4. CASE findReward(t) \/ markRead(t)
  BY <1>4 DEF findReward, markRead, At
<1>5. CASE findOrder(t) \/ saveOrder(t)
  BY <1>5 DEF findOrder, saveOrder, At, rest
<1>6. CASE findPlan(t) \/ saveSubscription(t)
  BY <1>6 DEF findPlan, saveSubscription, At
<1>7. CASE fail(t)
  BY <1>7 DEF fail, rest
<1> QED  BY <1>1, <1>2, <1>3, <1>4, <1>5, <1>6, <1>7 DEF Step

\* A task is at one step only.
LEMMA AtOne ==
  ASSUME NEW t \in Tasks, NEW x, NEW y, At(t, x), At(t, y)
  PROVE  x = y
BY DEF At

\* A task that moves on from a step of rewards, orders or plans has taken it,
\* and no other step touches what these are about.
LEMMA StepTaken ==
  ASSUME NEW t \in Tasks, Step(t), pc' # pc
  PROVE  /\ At(t, "findReward") => findReward(t) /\ Unread(op[t].item)
         /\ At(t, "markRead") => markRead(t)
         /\ At(t, "findPlan") => findPlan(t) /\ HasNoPlan(op[t].from)
         /\ plans' # plans => saveSubscription(t)
         /\ order' # order => saveOrder(t)
<1> USE AtOne
<1>1. CASE readPayer(t) \/ readPayee(t)
  BY <1>1 DEF readPayer, readPayee, rest
<1>2. CASE savePayer(t) \/ savePayee(t)
  BY <1>2 DEF savePayer, savePayee, Save, rest
<1>3. CASE violatesCheck(t) \/ saveRow(t)
  BY <1>3 DEF violatesCheck, saveRow, rest, Refuse
<1>4. CASE findReward(t) \/ markRead(t)
  BY <1>4 DEF findReward, markRead, Refuse
<1>5. CASE findOrder(t) \/ saveOrder(t)
  BY <1>5 DEF findOrder, saveOrder, rest
<1>6. CASE findPlan(t) \/ saveSubscription(t)
  BY <1>6 DEF findPlan, saveSubscription, Refuse
<1>7. CASE fail(t)
  BY <1>7 DEF fail, Refuse
<1> QED  BY <1>1, <1>2, <1>3, <1>4, <1>5, <1>6, <1>7 DEF Step

\* A call that has marked its reward is stopped by a fault only.
LEMMA PaymentStopped ==
  ASSUME NEW t \in Tasks, TypeOK, Step(t), pc' = pc, op[t].kind = "scratchReward", pc[t] > 2
  PROVE  t \in Faulty
<1>1. pc[t] + 1 # pc[t] /\ pc \in [Tasks -> Nat \ {0}]
  BY DEF TypeOK
<1>2. ~Advance(t)
  BY <1>1 DEF Advance
<1>3. ~At(t, "readPayer") /\ ~At(t, "savePayer") /\ ~At(t, "findReward") /\ ~At(t, "findOrder")
      /\ ~At(t, "findPlan")
  BY <1>1, ScratchSteps DEF At
<1>4. fail(t)
  BY <1>2, <1>3 DEF Step, readPayer, readPayee, savePayer, savePayee, Save, violatesCheck, saveRow,
       findReward, markRead, findOrder, saveOrder, findPlan, saveSubscription
<1> QED  BY <1>4 DEF fail

\* Only markRead marks a reward.
LEMMA MarkedBy ==
  ASSUME NEW t \in Tasks, Step(t), isRead' # isRead
  PROVE  markRead(t)
BY DEF Step, readPayer, readPayee, savePayer, savePayee, Save, violatesCheck, saveRow, findReward,
       findOrder, saveOrder, findPlan, saveSubscription, fail, rest

\* A task that gives up has changed nothing of these.
LEMMA StepRefused ==
  ASSUME NEW t \in Tasks, TypeOK, Step(t), pc' = pc
  PROVE  plans' = plans /\ order' = order
<1>1. pc[t] + 1 # pc[t] /\ pc \in [Tasks -> Nat \ {0}]
  BY DEF TypeOK
<1>2. ~Advance(t)
  BY <1>1 DEF Advance
<1> QED  BY <1>2 DEF Step, readPayer, readPayee, savePayer, savePayee, Save, violatesCheck, saveRow,
                     findReward, markRead, findOrder, saveOrder, findPlan, saveSubscription, fail,
                     rest

\* Positions after a step, of the task that takes it and of the others.
LEMMA Positions ==
  ASSUME NEW t \in Tasks, TypeOK, Moved(t)
  PROVE  /\ \A s \in Tasks \ {t} : pc'[s] = pc[s] /\ (s \in over' <=> s \in over)
         /\ pc'[t] \in {pc[t], pc[t] + 1} /\ (pc' = pc => t \in over') /\ t \notin over
         /\ pc'[t] = pc[t] <=> pc' = pc
         /\ pc' \in [Tasks -> Nat \ {0}]
         /\ pc[t] <= Len(Program[op[t].kind])
<1>1. pc \in [Tasks -> Nat \ {0}] /\ over \subseteq Tasks
  BY DEF TypeOK
<1>2. t \notin over /\ pc[t] <= Len(Program[op[t].kind])
  BY DEF Moved, Running
<1>3. CASE pc' = [pc EXCEPT ![t] = @ + 1] /\ over' = over
  <2>1. pc'[t] = pc[t] + 1 /\ pc[t] + 1 # pc[t] /\ pc[t] + 1 \in Nat \ {0}
    BY <1>1, <1>3
  <2> QED  BY <1>1, <1>2, <1>3, <2>1
<1>4. CASE pc' = pc /\ over' = over \cup {t}
  BY <1>1, <1>2, <1>4
<1> QED  BY <1>3, <1>4 DEF Moved

LEMMA TypeStep ==
  ASSUME NEW t \in Tasks, TypeOK, Step(t)
  PROVE  TypeOK'
<1>1. Moved(t) /\ pc' \in [Tasks -> Nat \ {0}]
  BY StepMoves, Positions
<1>2. op' \in [Tasks -> Operations] /\ over' \subseteq Tasks
  BY <1>1 DEF Moved, TypeOK
<1>o. /\ op[t] \in Operations /\ op[t].from \in Users /\ op[t].to \in Users
      /\ op[t].amount \in Nat /\ op[t].fee \in Nat /\ op[t].item \in Items
  BY DEF TypeOK
<1>3. balance' \in [Users -> Nat] /\ rd' \in [Tasks -> Nat]
  <2>1. CASE readPayer(t) \/ readPayee(t)
    BY <2>1, <1>o DEF readPayer, readPayee, rest, TypeOK
  <2>2. CASE savePayer(t)
    <3>1. rd[t] - Cost(op[t]) \in Nat
      BY <2>2, <1>o DEF savePayer, Allowed, Cost, TypeOK
    <3> QED  BY <3>1, <2>2, <1>o DEF savePayer, Save, TypeOK
  <2>3. CASE savePayee(t)
    <3>1. rd[t] + op[t].amount \in Nat
      BY <1>o DEF TypeOK
    <3> QED  BY <3>1, <2>3, <1>o DEF savePayee, Save, TypeOK
  <2> QED  BY <2>1, <2>2, <2>3 DEF Step, violatesCheck, saveRow, findReward, markRead, findOrder,
             saveOrder, findPlan, saveSubscription, fail, wallets, rest, TypeOK
<1>4. missed' \subseteq Tasks /\ stale' \subseteq Users
  BY <1>o DEF Step, readPayer, readPayee, savePayer, savePayee, Save, Savers, violatesCheck, saveRow,
             findReward, markRead, findOrder, saveOrder, findPlan, saveSubscription, fail,
             wallets, rest, TypeOK
<1>5. listed' \in [Users -> Int]
  <2>1. CASE saveRow(t)
    BY <2>1, <1>o DEF saveRow, TypeOK
  <2> QED  BY <2>1 DEF Step, readPayer, readPayee, savePayer, savePayee, Save, violatesCheck,
             findReward, markRead, findOrder, saveOrder, findPlan, saveSubscription, fail,
             rest, TypeOK
<1>6. isRead' \subseteq Items /\ raced' \subseteq Items \cup Users
  BY <1>o DEF Step, readPayer, readPayee, savePayer, savePayee, Save, violatesCheck, saveRow,
             findReward, markRead, findOrder, saveOrder, findPlan, saveSubscription, fail,
             rest, TypeOK
<1>7. order' \in [Items -> {"NONE", "PENDING", "SUCCESS", "FAILED"}]
  BY <1>o DEF Step, readPayer, readPayee, savePayer, savePayee, Save, violatesCheck, saveRow,
             findReward, markRead, findOrder, saveOrder, findPlan, saveSubscription, fail,
             rest, TypeOK
<1>8. plans' \in [Users -> Nat]
  BY <1>o DEF Step, readPayer, readPayee, savePayer, savePayee, Save, violatesCheck, saveRow,
             findReward, markRead, findOrder, saveOrder, findPlan, saveSubscription, fail,
             rest, TypeOK
<1> QED  BY <1>1, <1>2, <1>3, <1>4, <1>5, <1>6, <1>7, <1>8 DEF TypeOK

\* A step keeps the rewards: the one that finds a reward sees it unread, so no
\* other call has marked it, and one about to mark it makes it a race.
LEMMA RewardsStep ==
  ASSUME NEW t \in Tasks, IInv, Step(t)
  PROVE  RewardsOK'
<1>t. TypeOK /\ RewardsOK
  BY DEF IInv
<1>m. Moved(t) /\ isRead \subseteq isRead' /\ raced \subseteq raced' /\ op' = op
  BY StepMoves DEF Moved
<1>p. /\ \A s \in Tasks \ {t} : pc'[s] = pc[s] /\ (s \in over' <=> s \in over)
      /\ pc'[t] \in {pc[t], pc[t] + 1} /\ (pc' = pc => t \in over') /\ t \notin over
      /\ pc'[t] = pc[t] <=> pc' = pc
      /\ pc \in [Tasks -> Nat \ {0}]
  BY <1>t, <1>m, Positions DEF TypeOK
<1> SUFFICES ASSUME NEW i \in Items
             PROVE  /\ \A s \in Scratches(i)' : pc'[s] > 2 => i \in isRead'
                    /\ i \in isRead' => \E s \in Scratches(i)' : InPayment(s)'
                    /\ i \notin raced' =>
                         \A r, s \in Scratches(i)' : InMark(r)' /\ InMark(s)' => r = s
  BY DEF RewardsOK
<1>s. Scratches(i)' = Scratches(i) /\ Scratches(i) \subseteq Tasks
  BY <1>m DEF Scratches
<1>1. ASSUME NEW s \in Scratches(i), pc'[s] > 2 PROVE i \in isRead'
  <2>1. CASE pc[s] > 2
    BY <2>1, <1>t, <1>m DEF RewardsOK
  <2>2. CASE ~(pc[s] > 2)
    <3>1. s = t /\ pc' # pc /\ pc[t] = 2 /\ op[t].kind = "scratchReward" /\ op[t].item = i
      BY <1>1, <2>2, <1>p, <1>s DEF Scratches
    <3>2. At(t, "markRead")
      BY <3>1, <1>p, ScratchSteps DEF At
    <3>3. markRead(t)
      BY <3>1, <3>2, StepTaken
    <3> QED  BY <3>1, <3>3 DEF markRead
  <2> QED  BY <2>1, <2>2
<1>2. ASSUME i \notin raced', NEW r \in Scratches(i), NEW s \in Scratches(i), r # s,
             InMark(r)', InMark(s)', r = t
      PROVE  FALSE
  <2>1. i \notin raced /\ InMark(s) /\ s \in Tasks \ {t}
    BY <1>2, <1>m, <1>p, <1>s DEF InMark
  <2>2. ~InMark(t)
    BY <2>1, <1>2, <1>t DEF RewardsOK
  <2>3. pc[t] = 1 /\ pc' # pc /\ op[t].kind = "scratchReward" /\ op[t].item = i
    BY <2>2, <1>2, <1>p DEF InMark, Scratches
  <2>4. At(t, "findReward")
    BY <2>3, <1>p, ScratchSteps DEF At
  <2>5. findReward(t) /\ i \notin isRead
    BY <2>3, <2>4, StepTaken DEF Unread
  <2>6. pc[s] = 2 /\ s \notin over
    BY <2>1, <2>5, <1>t DEF InMark, RewardsOK
  <2>7. At(s, "markRead") /\ op[s].item = i
    BY <2>6, <2>1, <1>p, ScratchSteps DEF At, Scratches
  <2>8. i \in raced'
    BY <2>1, <2>3, <2>5, <2>7 DEF findReward
  <2> QED  BY <2>8, <1>2
<1>3. ASSUME i \notin raced', NEW r \in Scratches(i), NEW s \in Scratches(i), r # s,
             InMark(r)', InMark(s)', r # t, s # t
      PROVE  FALSE
  <2>1. i \notin raced /\ InMark(r) /\ InMark(s)
    BY <1>3, <1>m, <1>p, <1>s DEF InMark
  <2> QED  BY <2>1, <1>3, <1>t DEF RewardsOK
<1>4. ASSUME i \in isRead' PROVE \E s \in Scratches(i) : InPayment(s)'
  <2>1. CASE i \in isRead
    <3>1. PICK s \in Scratches(i) : InPayment(s)
      BY <2>1, <1>t DEF RewardsOK
    <3>2. CASE s # t
      BY <3>1, <3>2, <1>p, <1>s DEF InPayment
    <3>3. CASE s = t /\ pc' = pc
      <4>1. t \in Faulty
        BY <3>1, <3>3, <1>t, PaymentStopped DEF InPayment, Scratches
      <4> QED  BY <4>1, <3>1, <3>3 DEF InPayment
    <3>4. CASE s = t /\ pc' # pc
      <4>1. over' = over /\ pc'[t] = pc[t] + 1
        BY <3>4, <1>m, <1>p DEF Moved
      <4>2. pc'[t] > 2
        BY <4>1, <3>1, <3>4, <1>p DEF InPayment
      <4> QED  BY <4>1, <4>2, <3>1, <3>4 DEF InPayment
    <3> QED  BY <3>2, <3>3, <3>4
  <2>2. CASE i \notin isRead
    <3>1. markRead(t) /\ op[t].item = i
      BY <2>2, <1>4, MarkedBy DEF markRead
    <3>2. op[t].kind = "scratchReward" /\ pc[t] = 2
      <4>1. At(t, "markRead") /\ op[t].kind \in DOMAIN Program
        BY <3>1, <1>t DEF markRead, TypeOK
      <4>2. op[t].kind = "scratchReward"
        BY <4>1, <1>p, OwnSteps
      <4> QED  BY <4>1, <4>2, <1>p, ScratchSteps DEF At
    <3>3. pc'[t] = 3 /\ over' = over
      BY <3>1, <3>2, <1>p DEF markRead, Advance
    <3>4. InPayment(t)'
      BY <3>3, <1>p DEF InPayment
    <3> QED  BY <3>1, <3>2, <3>4 DEF Scratches
  <2> QED  BY <2>1, <2>2
<1> QED  BY <1>1, <1>2, <1>3, <1>4, <1>s

\* An order becomes SUCCESS at the end of a call that has credited it.
LEMMA OrdersStep ==
  ASSUME NEW t \in Tasks, IInv, Step(t)
  PROVE  OrdersOK'
<1>t. TypeOK /\ OrdersOK
  BY DEF IInv
<1>m. Moved(t) /\ op' = op
  BY StepMoves DEF Moved
<1>p. /\ \A s \in Tasks : pc'[s] >= pc[s]
      /\ pc \in [Tasks -> Nat \ {0}] /\ pc' \in [Tasks -> Nat \ {0}]
  <2>1. pc \in [Tasks -> Nat \ {0}]
    BY <1>t DEF TypeOK
  <2>2. pc'[t] >= pc[t]
    BY <2>1, <1>t, <1>m, Positions
  <2>3. ASSUME NEW s \in Tasks PROVE pc'[s] >= pc[s]
    BY <2>1, <2>2, <1>t, <1>m, Positions
  <2> QED  BY <2>1, <2>3, <1>t, <1>m, Positions
<1> SUFFICES ASSUME NEW i \in Items, order'[i] = "SUCCESS"
             PROVE  \E s \in Payments(i)' : pc'[s] > 3
  BY DEF OrdersOK
<1>s. Payments(i)' = Payments(i) /\ Payments(i) \subseteq Tasks
  BY <1>m DEF Payments
<1>1. CASE order[i] = "SUCCESS"
  <2>1. PICK s \in Payments(i) : pc[s] > 3
    BY <1>1, <1>t DEF OrdersOK
  <2> QED  BY <2>1, <1>s, <1>p
<1>2. CASE order[i] # "SUCCESS"
  <2>1. saveOrder(t)
    BY <1>2, <1>t, StepTaken, StepRefused
  <2>2. op[t].kind = "paymentSucceeded" /\ op[t].item = i
    BY <2>1, <1>2, <1>t DEF saveOrder, TypeOK
  <2>3. pc[t] > 3
    BY <2>1, <2>2, <1>p, PaymentSteps DEF saveOrder, At
  <2> QED  BY <2>2, <2>3, <1>s, <1>p DEF Payments
<1> QED  BY <1>1, <1>2

\* An upgrade stores a subscription only if it has found none, and it is alone
\* unless it is recorded as raced.
LEMMA PlansStep ==
  ASSUME NEW t \in Tasks, IInv, Step(t)
  PROVE  PlansOK'
<1>t. TypeOK /\ PlansOK
  BY DEF IInv
<1>m. Moved(t) /\ raced \subseteq raced' /\ op' = op
  BY StepMoves DEF Moved
<1>p. /\ \A s \in Tasks \ {t} : pc'[s] = pc[s] /\ (s \in over' <=> s \in over)
      /\ pc'[t] \in {pc[t], pc[t] + 1} /\ (pc' = pc => t \in over') /\ t \notin over
      /\ pc'[t] = pc[t] <=> pc' = pc
      /\ pc \in [Tasks -> Nat \ {0}]
  BY <1>t, <1>m, Positions DEF TypeOK
<1>q. plans \in [Users -> Nat] /\ op[t].from \in Users
  BY <1>t DEF TypeOK
<1>a. CASE plans' = plans
  <2> SUFFICES ASSUME NEW u \in Users
               PROVE  /\ plans[u] > 0 => \E s \in Upgrades(u)' : pc'[s] > 3
                      /\ u \notin raced' =>
                           /\ plans[u] <= 1
                           /\ \A s \in Upgrades(u)' : InUpgrade(s)' => plans[u] = 0
                           /\ \A r, s \in Upgrades(u)' : InUpgrade(r)' /\ InUpgrade(s)' => r = s
    BY <1>a DEF PlansOK
  <2>s. Upgrades(u)' = Upgrades(u) /\ Upgrades(u) \subseteq Tasks
    BY <1>m DEF Upgrades
  <2>1. plans[u] > 0 => \E s \in Upgrades(u) : pc'[s] > 3
    <3>1. SUFFICES ASSUME plans[u] > 0 PROVE \E s \in Upgrades(u) : pc'[s] > 3
      OBVIOUS
    <3>2. PICK s \in Upgrades(u) : pc[s] > 3
      BY <3>1, <1>t DEF PlansOK
    <3>3. pc'[s] > 3
      BY <3>2, <2>s, <1>p
    <3> QED  BY <3>3
  <2>2. u \notin raced' => plans[u] <= 1
    BY <1>t, <1>m DEF PlansOK
  \* What a call that has just entered the upgrade has seen.
  <2>3. ASSUME u \notin raced', t \in Upgrades(u), InUpgrade(t)', ~InUpgrade(t)
        PROVE  plans[u] = 0 /\ \A s \in Upgrades(u) \ {t} : ~InUpgrade(s)
    <3>1. pc[t] = 1 /\ pc' # pc /\ op[t].kind = "upgradePlan" /\ op[t].from = u
      BY <2>3, <1>p, <2>s DEF InUpgrade, Upgrades
    <3>2. At(t, "findPlan")
      BY <3>1, <1>p, UpgradeSteps DEF At
    <3>3. findPlan(t) /\ HasNoPlan(u)
      BY <3>1, <3>2, StepTaken
    <3>4. ASSUME NEW s \in Upgrades(u) \ {t}, InUpgrade(s) PROVE FALSE
      <4>1. pc[s] \in 2..4 /\ s \notin over /\ op[s].kind = "upgradePlan" /\ op[s].from = u
        BY <3>4 DEF InUpgrade, Upgrades
      <4>2. Running(s) /\ Did(s, "findPlan")
        BY <4>1, <2>s, <1>p, <3>4, UpgradeSteps DEF Did
      <4>3. u \in raced'
        BY <3>1, <3>3, <3>4, <4>1, <4>2, <2>s DEF findPlan
      <4> QED  BY <4>3, <2>3
    <3> QED  BY <3>3, <3>4 DEF HasNoPlan
  <2>4. ASSUME u \notin raced', NEW s \in Upgrades(u), InUpgrade(s)' PROVE plans[u] = 0
    <3>1. CASE InUpgrade(s)
      BY <3>1, <1>t, <1>m, <2>4 DEF PlansOK
    <3>2. CASE ~InUpgrade(s)
      <4>1. s = t
        BY <3>2, <2>4, <2>s, <1>p DEF InUpgrade
      <4> QED  BY <4>1, <3>2, <2>4, <2>3
    <3> QED  BY <3>1, <3>2
  <2>5. ASSUME u \notin raced', NEW r \in Upgrades(u), NEW s \in Upgrades(u),
               InUpgrade(r)', InUpgrade(s)'
        PROVE  r = s
    <3>1. \A x \in {r, s} : x # t => InUpgrade(x)
      BY <2>5, <2>s, <1>p DEF InUpgrade
    <3>2. CASE InUpgrade(r) /\ InUpgrade(s)
      BY <3>2, <2>5, <1>t, <1>m DEF PlansOK
    <3>3. CASE ~InUpgrade(r) \/ ~InUpgrade(s)
      BY <3>1, <3>3, <2>3, <2>5
    <3> QED  BY <3>2, <3>3
  <2> QED  BY <2>1, <2>2, <2>4, <2>5, <2>s
<1>b. CASE plans' # plans
  <2>1. saveSubscription(t) /\ pc' # pc
    BY <1>b, <1>t, StepTaken, StepRefused
  <2>2. /\ op[t].kind = "upgradePlan" /\ pc[t] = 4 /\ pc'[t] = 5
    <3>1. At(t, "saveSubscription") /\ op[t].kind \in DOMAIN Program
      BY <2>1, <1>t DEF saveSubscription, TypeOK
    <3>2. op[t].kind = "upgradePlan"
      BY <3>1, <1>p, OwnSteps
    <3>3. pc[t] = 4
      BY <3>1, <3>2, <1>p, UpgradeSteps DEF At
    <3> QED  BY <3>2, <3>3, <2>1, <1>p
  <2>3. InUpgrade(t) /\ t \in Upgrades(op[t].from)
    BY <2>2, <1>p DEF InUpgrade, Upgrades
  <2> SUFFICES ASSUME NEW u \in Users
               PROVE  /\ plans'[u] > 0 => \E s \in Upgrades(u)' : pc'[s] > 3
                      /\ u \notin raced' =>
                           /\ plans'[u] <= 1
                           /\ \A s \in Upgrades(u)' : InUpgrade(s)' => plans'[u] = 0
                           /\ \A r, s \in Upgrades(u)' : InUpgrade(r)' /\ InUpgrade(s)' => r = s
    BY DEF PlansOK
  <2>s. Upgrades(u)' = Upgrades(u) /\ Upgrades(u) \subseteq Tasks
    BY <1>m DEF Upgrades
  <2>4. \A s \in Tasks : InUpgrade(s)' <=> InUpgrade(s) /\ s # t
    BY <2>2, <1>p DEF InUpgrade
  <2>5. CASE u = op[t].from
    <3>1. plans'[u] = plans[u] + 1
      BY <2>1, <2>5, <1>q DEF saveSubscription
    <3>2. u \notin raced' => plans[u] = 0
      BY <2>3, <2>5, <1>t, <1>m DEF PlansOK
    <3>3. u \notin raced' => \A s \in Upgrades(u) : ~InUpgrade(s)'
      BY <2>3, <2>4, <2>5, <2>s, <1>t, <1>m DEF PlansOK
    <3> QED  BY <3>1, <3>2, <3>3, <2>2, <2>3, <2>5, <2>s
  <2>6. CASE u # op[t].from
    <3>1. plans'[u] = plans[u]
      BY <2>1, <2>6, <1>q DEF saveSubscription
    <3>2. plans[u] > 0 => \E s \in Upgrades(u) : pc'[s] > 3
      <4>1. SUFFICES ASSUME plans[u] > 0 PROVE \E s \in Upgrades(u) : pc'[s] > 3
        OBVIOUS
      <4>2. PICK s \in Upgrades(u) : pc[s] > 3
        BY <4>1, <1>t DEF PlansOK
      <4>3. pc'[s] > 3
        BY <4>2, <2>s, <1>p
      <4> QED  BY <4>3
    <3>3. u \notin raced' =>
            /\ plans[u] <= 1
            /\ \A s \in Upgrades(u) : InUpgrade(s) => plans[u] = 0
            /\ \A r, s \in Upgrades(u) : InUpgrade(r) /\ InUpgrade(s) => r = s
      BY <1>t, <1>m DEF PlansOK
    <3> QED  BY <3>1, <3>2, <3>3, <2>4, <2>s
  <2> QED  BY <2>5, <2>6
<1> QED  BY <1>a, <1>b

LEMMA PcStep ==
  ASSUME NEW t \in Tasks, IInv, Step(t)
  PROVE  (\A s \in Tasks : pc[s] <= Len(Program[op[s].kind]) + 1)'
<1>1. TypeOK /\ (\A s \in Tasks : pc[s] <= Len(Program[op[s].kind]) + 1)
  BY DEF IInv
<1>2. Moved(t) /\ op' = op
  BY StepMoves DEF Moved
<1>3. pc[t] \in Nat /\ pc'[t] \in {pc[t], pc[t] + 1} /\ pc[t] <= Len(Program[op[t].kind])
  BY <1>1, <1>2, Positions DEF TypeOK
<1>4. Len(Program[op[t].kind]) \in Nat
  BY <1>1 DEF TypeOK, Program, sendMoney, scratchReward, checkPaymentStatus, handleBusyBoxPayoutEvents,
    paymentSucceeded, paymentFailed, upgradePlan
<1>5. pc'[t] <= Len(Program[op[t].kind]) + 1
  BY <1>3, <1>4
<1> QED  BY <1>1, <1>2, <1>5, Positions

LEMMA InitHolds == Init => IInv
<1> SUFFICES ASSUME Init PROVE IInv
  OBVIOUS
<1>1. TypeOK
  BY DEF Init, TypeOK
<1>2. \A t \in Tasks : pc[t] <= Len(Program[op[t].kind]) + 1
  <2>1. ASSUME NEW t \in Tasks PROVE Len(Program[op[t].kind]) \in Nat
    BY <1>1 DEF TypeOK, Program, sendMoney, scratchReward, checkPaymentStatus, handleBusyBoxPayoutEvents,
    paymentSucceeded, paymentFailed, upgradePlan
  <2> QED  BY <2>1 DEF Init
<1>3. RewardsOK /\ OrdersOK /\ PlansOK
  BY DEF Init, RewardsOK, OrdersOK, PlansOK, InMark, InPayment, InUpgrade, Scratches, Payments, Upgrades
<1> QED  BY <1>1, <1>2, <1>3 DEF IInv

LEMMA NextHolds == IInv /\ [Next]_vars => IInv'
<1> SUFFICES ASSUME IInv, [Next]_vars PROVE IInv'
  OBVIOUS
<1>1. ASSUME NEW t \in Tasks, Step(t) PROVE IInv'
  <2>1. TypeOK
    BY DEF IInv
  <2> QED  BY <1>1, <2>1, TypeStep, PcStep, RewardsStep, OrdersStep, PlansStep DEF IInv
<1>2. ASSUME NEW i \in Items, createPaymentRequestOrder(i) PROVE IInv'
  <2>1. TypeOK'
    BY <1>2 DEF IInv, TypeOK, createPaymentRequestOrder, wallets
  <2>2. OrdersOK'
    BY <1>2 DEF IInv, TypeOK, OrdersOK, Payments, createPaymentRequestOrder
  <2>3. RewardsOK' /\ PlansOK'
    BY <1>2 DEF IInv, RewardsOK, PlansOK, InMark, InPayment, InUpgrade, Scratches, Upgrades,
               createPaymentRequestOrder
  <2> QED  BY <1>2, <2>1, <2>2, <2>3 DEF IInv, createPaymentRequestOrder
<1>3. CASE UNCHANGED vars
  <2>1. TypeOK' /\ (\A s \in Tasks : pc[s] <= Len(Program[op[s].kind]) + 1)'
    BY <1>3 DEF IInv, TypeOK, vars, wallets, rest
  <2>2. RewardsOK' /\ OrdersOK'
    BY <1>3 DEF IInv, RewardsOK, OrdersOK, InMark, InPayment, Scratches, Payments, vars, rest
  <2>3. PlansOK'
    BY <1>3 DEF IInv, PlansOK, InUpgrade, Upgrades, vars, rest
  <2> QED  BY <2>1, <2>2, <2>3 DEF IInv
<1> QED  BY <1>1, <1>2, <1>3 DEF Next, Terminated

LEMMA Safety == Spec => []IInv
<1> QED  BY InitHolds, NextHolds, PTL DEF Spec

\* No wallet goes below zero, whatever handlers write it from whatever reads,
\* for any users, calls and faults.
THEOREM TypeCorrect == Spec => []TypeOK
<1>1. IInv => TypeOK
  BY DEF IInv
<1> QED  BY <1>1, Safety, PTL

\* Any number of calls of scratchReward pay a reward once, unless two of them
\* looked for it before either had marked it; and one that is marked is paid,
\* unless a fault stops the call that marked it.
THEOREM RewardPaidOnceHolds == Spec => []RewardPaidOnce
<1>1. ASSUME IInv, NEW i \in Items \ raced, NEW t \in Scratches(i), NEW s \in Scratches(i),
             Did(t, "savePayee"), Did(s, "savePayee")
      PROVE  t = s
  <2>1. ASSUME NEW r \in Scratches(i), Did(r, "savePayee") PROVE InMark(r)
    <3>1. r \in Tasks /\ op[r].kind = "scratchReward" /\ pc[r] \in Nat \ {0}
      BY <1>1 DEF Scratches, IInv, TypeOK
    <3>2. PICK k \in 1..(pc[r] - 1) : Program[op[r].kind][k] = "savePayee"
      BY <2>1 DEF Did
    <3>3. k \notin {1}
      BY <3>1, <3>2, ScratchSteps
    <3> QED  BY <3>1, <3>2, <3>3 DEF InMark
  <2>2. InMark(t) /\ InMark(s)
    BY <2>1, <1>1
  <2> QED  BY <2>2, <1>1 DEF IInv, RewardsOK
<1>2. ASSUME IInv, NEW i \in isRead
      PROVE  \E t \in Scratches(i) : Did(t, "savePayee") \/ Running(t) \/ t \in Faulty
  <2>1. PICK t \in Scratches(i) : InPayment(t)
    BY <1>2 DEF IInv, TypeOK, RewardsOK
  <2>2. t \in Tasks /\ op[t].kind = "scratchReward" /\ pc[t] \in Nat \ {0}
    BY <1>2 DEF Scratches, IInv, TypeOK
  <2>3. CASE pc[t] > 5
    BY <2>2, <2>3, ScratchSteps DEF Did
  <2>4. CASE pc[t] <= 5
    BY <2>1, <2>2, <2>4, ScratchSteps DEF InPayment
  <2> QED  BY <2>2, <2>3, <2>4
<1>3. IInv => RewardPaidOnce
  BY <1>1, <1>2 DEF RewardPaidOnce
<1> QED  BY <1>3, Safety, PTL

\* An order shows SUCCESS only once its amount is in the wallet.
THEOREM SuccessIsCreditedHolds == Spec => []SuccessIsCredited
<1>1. ASSUME IInv PROVE SuccessIsCredited
  <2> SUFFICES ASSUME NEW i \in Items, order[i] = "SUCCESS"
               PROVE  \E t \in Tasks : /\ op[t].kind = "paymentSucceeded" /\ op[t].item = i
                                      /\ Did(t, "savePayee")
    BY DEF SuccessIsCredited
  <2>1. PICK t \in Payments(i) : pc[t] > 3
    BY <1>1 DEF IInv, OrdersOK
  <2>2. t \in Tasks /\ op[t].kind = "paymentSucceeded" /\ op[t].item = i /\ pc[t] \in Nat \ {0}
    BY <1>1 DEF Payments, IInv, TypeOK
  <2>3. Did(t, "savePayee")
    BY <2>1, <2>2, PaymentSteps DEF Did
  <2> QED  BY <2>2, <2>3
<1> QED  BY <1>1, Safety, PTL

\* A user has one current subscription at most, and has paid for it.
THEOREM OneCurrentPlanHolds == Spec => []OneCurrentPlan
<1>1. ASSUME IInv PROVE OneCurrentPlan
  <2> SUFFICES ASSUME NEW u \in Users
               PROVE  /\ u \in raced \/ plans[u] <= 1
                      /\ plans[u] > 0 => \E t \in Tasks :
                           op[t].kind = "upgradePlan" /\ op[t].from = u /\ Did(t, "savePayer")
    BY DEF OneCurrentPlan
  <2>1. u \in raced \/ plans[u] <= 1
    BY <1>1 DEF IInv, PlansOK
  <2>2. ASSUME NEW t \in Upgrades(u), pc[t] > 3 PROVE Did(t, "savePayer")
    <3>1. t \in Tasks /\ op[t].kind = "upgradePlan" /\ pc[t] \in Nat \ {0}
      BY <1>1 DEF Upgrades, IInv, TypeOK
    <3> QED  BY <3>1, <2>2, UpgradeSteps DEF Did
  <2> QED  BY <1>1, <2>1, <2>2 DEF IInv, PlansOK, Upgrades
<1> QED  BY <1>1, Safety, PTL

-----------------------------------------------------------------------------
(* The statement explains the balance.                                       *)

\* No program has a step twice, and a save comes after the read of its wallet.
LEMMA Programs ==
  ASSUME NEW k \in DOMAIN Program
  PROVE  LET p == Program[k] IN
         /\ Len(p) \in Nat \ {0}
         /\ \A i, j \in 1..Len(p) : p[i] = p[j] => i = j
         /\ \A i \in 1..Len(p) :
              /\ p[i] = "savePayer" => i > 1 /\ p[i - 1] = "readPayer"
              /\ p[i] = "savePayee" => i > 1 /\ p[i - 1] = "readPayee"
         /\ k \notin {"checkPaymentStatus", "upgradePlan"} =>
              /\ (\E i \in 1..Len(p) : p[i] = "savePayer") <=> (\E i \in 1..Len(p) : p[i] = "rowPayer")
              /\ (\E i \in 1..Len(p) : p[i] = "savePayee") <=> (\E i \in 1..Len(p) : p[i] = "rowPayee")
<1>1. CASE k = "sendMoney"
  BY <1>1 DEF Program, sendMoney
<1>2. CASE k = "checkPaymentStatus"
  BY <1>2 DEF Program, checkPaymentStatus
<1>3. CASE k = "handleBusyBoxPayoutEvents"
  BY <1>3 DEF Program, handleBusyBoxPayoutEvents
<1>4. CASE k = "paymentSucceeded"
  BY <1>4 DEF Program, paymentSucceeded
<1>5. CASE k = "paymentFailed"
  BY <1>5 DEF Program, paymentFailed
<1>6. CASE k = "scratchReward"
  BY <1>6 DEF Program, scratchReward
<1>7. CASE k = "upgradePlan"
  BY <1>7 DEF Program, upgradePlan
<1> QED  BY <1>1, <1>2, <1>3, <1>4, <1>5, <1>6, <1>7 DEF Program

\* A task that moves on has one more step behind it.
LEMMA DidStep ==
  ASSUME TypeOK, NEW t \in Tasks, NEW x, At(t, x), op' = op, pc' = [pc EXCEPT ![t] = @ + 1]
  PROVE  /\ ~Did(t, x) /\ (\A y : Did(t, y)' <=> Did(t, y) \/ y = x)
         /\ \A s \in Tasks \ {t} : \A y : Did(s, y)' <=> Did(s, y)
<1>1. pc \in [Tasks -> Nat \ {0}] /\ op[t].kind \in DOMAIN Program
  BY DEF TypeOK
<1>2. pc[t] \in 1..Len(Program[op[t].kind]) /\ Program[op[t].kind][pc[t]] = x
  BY <1>1, Programs DEF At, Running
<1>3. pc'[t] = pc[t] + 1 /\ \A s \in Tasks \ {t} : pc'[s] = pc[s]
  BY <1>1
<1>4. ~Did(t, x)
  <2> SUFFICES ASSUME NEW i \in 1..(pc[t] - 1), Program[op[t].kind][i] = x PROVE FALSE
    BY DEF Did
  <2>1. Len(Program[op[t].kind]) \in Nat
    BY <1>1, Programs
  <2>2. i \in 1..Len(Program[op[t].kind]) /\ i # pc[t]
    BY <1>1, <1>2, <2>1
  <2> QED  BY <1>1, <1>2, <2>2, Programs
<1>5. 1..(pc'[t] - 1) = 1..(pc[t] - 1) \cup {pc[t]}
  BY <1>1, <1>3
<1>6. \A y : Did(t, y)' <=> Did(t, y) \/ y = x
  BY <1>2, <1>5 DEF Did
<1>7. \A s \in Tasks \ {t} : \A y : Did(s, y)' <=> Did(s, y)
  BY <1>3 DEF Did
<1> QED  BY <1>4, <1>6, <1>7

\* What moving on from a step changes of a user's unlisted money.
Change(o, x, u) ==
  IF x = "savePayee" /\ o.to = u THEN o.amount
  ELSE IF x = "rowPayee" /\ o.to = u THEN 0 - o.amount
  ELSE IF x = "rowPayer" /\ o.from = u THEN Cost(o)
  ELSE IF x = "savePayer" /\ o.from = u THEN 0 - Cost(o)
  ELSE 0

LEMMA Amounts ==
  ASSUME TypeOK, NEW t \in Tasks
  PROVE  /\ op[t].amount \in Nat /\ Cost(op[t]) \in Nat /\ op[t].from \in Users /\ op[t].to \in Users
         /\ Cost(op[t]) = op[t].amount + op[t].fee /\ op[t].fee \in Nat
         /\ \A u : Unlisted(u)[t] \in Int
<1>1. op[t] \in Operations /\ op[t].amount \in Nat /\ op[t].fee \in Nat
      /\ op[t].from \in Users /\ op[t].to \in Users
  BY DEF TypeOK
<1>2. Cost(op[t]) = op[t].amount + op[t].fee /\ Cost(op[t]) \in Nat
  BY <1>1 DEF Cost
<1>3. \A u : Unlisted(u)[t] \in Int
  BY <1>1, <1>2 DEF Unlisted, Done
<1> QED  BY <1>1, <1>2, <1>3

Adds(new, old, change) == new = old + change

LEMMA UnlistedStep ==
  ASSUME TypeOK, NEW t \in Tasks, NEW x, At(t, x), op' = op, pc' = [pc EXCEPT ![t] = @ + 1], NEW u
  PROVE  /\ Adds(Unlisted(u)'[t], Unlisted(u)[t], Change(op[t], x, u))
         /\ \A s \in Tasks \ {t} : Unlisted(u)'[s] = Unlisted(u)[s]
<1> DEFINE a == op[t].amount
           c == Cost(op[t])
<1>1. a \in Nat /\ c \in Nat
  BY Amounts
<1>2. ~Did(t, x) /\ (\A y : Did(t, y)' <=> Did(t, y) \/ y = x)
  BY DidStep
<1>3. \A s \in Tasks \ {t} : \A y : Did(s, y)' <=> Did(s, y)
  BY DidStep
<1>4. ASSUME NEW s \in Tasks \ {t} PROVE Unlisted(u)'[s] = Unlisted(u)[s]
  BY <1>3, <1>4 DEF Unlisted, Done, Cost
<1>5. /\ Unlisted(u)[t] =
           (IF op[t].to = u THEN (IF Did(t, "savePayee") THEN a ELSE 0)
                                 - (IF Did(t, "rowPayee") THEN a ELSE 0) ELSE 0)
           + (IF op[t].from = u THEN (IF Did(t, "rowPayer") THEN c ELSE 0)
                                     - (IF Did(t, "savePayer") THEN c ELSE 0) ELSE 0)
      /\ Unlisted(u)'[t] =
           (IF op[t].to = u THEN (IF Did(t, "savePayee")' THEN a ELSE 0)
                                 - (IF Did(t, "rowPayee")' THEN a ELSE 0) ELSE 0)
           + (IF op[t].from = u THEN (IF Did(t, "rowPayer")' THEN c ELSE 0)
                                     - (IF Did(t, "savePayer")' THEN c ELSE 0) ELSE 0)
  BY DEF Unlisted, Done, Cost
<1> HIDE DEF a, c
<1>7. Change(op[t], x, u) =
        IF x = "savePayee" /\ op[t].to = u THEN a
        ELSE IF x = "rowPayee" /\ op[t].to = u THEN 0 - a
        ELSE IF x = "rowPayer" /\ op[t].from = u THEN c
        ELSE IF x = "savePayer" /\ op[t].from = u THEN 0 - c
        ELSE 0
  BY DEF Change, a, c
<1>8. Unlisted(u)'[t] = Unlisted(u)[t] + Change(op[t], x, u)
  <2> DEFINE old(y, v) == IF Did(t, y) THEN v ELSE 0
             new(y, v) == IF Did(t, y) \/ y = x THEN v ELSE 0
  <2>1. /\ Unlisted(u)[t] =
             (IF op[t].to = u THEN old("savePayee", a) - old("rowPayee", a) ELSE 0)
             + (IF op[t].from = u THEN old("rowPayer", c) - old("savePayer", c) ELSE 0)
        /\ Unlisted(u)'[t] =
             (IF op[t].to = u THEN new("savePayee", a) - new("rowPayee", a) ELSE 0)
             + (IF op[t].from = u THEN new("rowPayer", c) - new("savePayer", c) ELSE 0)
    BY <1>2, <1>5
  <2>2. /\ \A v \in {a, c} : \A y : old(y, v) \in Int /\ (y # x => new(y, v) = old(y, v))
        /\ \A v \in {a, c} : old(x, v) = 0 /\ new(x, v) = v
    BY <1>1, <1>2
  <2> HIDE DEF old, new
  <2>3. CASE x = "savePayee"
    BY <1>1, <1>7, <2>1, <2>2, <2>3
  <2>4. CASE x = "rowPayee"
    BY <1>1, <1>7, <2>1, <2>2, <2>4
  <2>5. CASE x = "rowPayer"
    BY <1>1, <1>7, <2>1, <2>2, <2>5
  <2>6. CASE x = "savePayer"
    BY <1>1, <1>7, <2>1, <2>2, <2>6
  <2>7. CASE x \notin {"savePayee", "rowPayee", "rowPayer", "savePayer"}
    BY <1>1, <1>7, <2>1, <2>2, <2>7
  <2> QED  BY <2>3, <2>4, <2>5, <2>6, <2>7
<1> QED  BY <1>4, <1>8 DEF Adds

LEMMA ExplainedMove ==
  ASSUME TypeOK, Explained, NEW t \in Tasks, NEW x, At(t, x), op' = op,
         pc' = [pc EXCEPT ![t] = @ + 1], stale \subseteq stale',
         \A u \in Users \ stale' :
           /\ balance'[u] \in Int /\ listed'[u] \in Int
           /\ balance'[u] - balance[u] = listed'[u] - listed[u] + Change(op[t], x, u)
  PROVE  Explained'
<1>1. pc \in [Tasks -> Nat \ {0}] /\ balance \in [Users -> Nat] /\ listed \in [Users -> Int]
  BY DEF TypeOK
<1>2. Begun' = Begun \cup {t} /\ Begun \subseteq Tasks
  BY <1>1 DEF Begun
<1>3. t \notin Begun => \A u : Unlisted(u)[t] = 0
  <2> SUFFICES ASSUME pc[t] = 1 PROVE \A u : Unlisted(u)[t] = 0
    BY <1>1 DEF Begun
  <2>1. \A y : ~Did(t, y)
    BY DEF Did
  <2> QED  BY <2>1 DEF Unlisted, Done
<1>4. ASSUME NEW u \in Users
      PROVE  /\ IsFiniteSet(Begun') /\ Sum(Unlisted(u), Begun) \in Int
             /\ Sum(Unlisted(u)', Begun') = Sum(Unlisted(u), Begun) + Change(op[t], x, u)
  <2>1. Change(op[t], x, u) \in Int
    BY Amounts DEF Change
  <2>2. \A s \in Tasks : Unlisted(u)[s] \in Int
    BY Amounts
  <2>3. Unlisted(u)'[t] = Unlisted(u)[t] + Change(op[t], x, u)
    <3>1. Adds(Unlisted(u)'[t], Unlisted(u)[t], Change(op[t], x, u))
      BY UnlistedStep
    <3> QED  BY <3>1 DEF Adds
  <2>4. \A s \in Tasks \ {t} : Unlisted(u)'[s] = Unlisted(u)[s]
    BY UnlistedStep
  <2>5. \A s \in Tasks : Unlisted(u)'[s] \in Int
    BY <2>1, <2>2, <2>3, <2>4
  <2>6. IsFiniteSet(Begun)
    BY DEF Explained
  <2> DEFINE f == Unlisted(u)
             g == Unlisted(u)'
             d == Change(op[t], x, u)
             S == Begun
  <2>7. /\ IsFiniteSet(S) /\ d \in Int /\ \A s \in S \cup {t} : f[s] \in Int /\ g[s] \in Int
        /\ \A s \in S \ {t} : g[s] = f[s]
        /\ g[t] = f[t] + d /\ (t \notin S => f[t] = 0)
    BY <1>2, <1>3, <2>1, <2>2, <2>3, <2>4, <2>5, <2>6
  <2> HIDE DEF f, g, d, S
  <2>8. IsFiniteSet(S \cup {t}) /\ Sum(f, S) \in Int /\ Sum(g, S \cup {t}) = Sum(f, S) + d
    BY <2>7, SumChanges
  <2> QED  BY <1>2, <2>8 DEF f, g, d, S
<1>5. ASSUME NEW u \in Users \ stale'
      PROVE  balance'[u] = Opening[u] + listed'[u] + Sum(Unlisted(u)', Begun')
  <2>1. balance[u] = Opening[u] + listed[u] + Sum(Unlisted(u), Begun)
    BY <1>5 DEF Explained, Sum
  <2>2. /\ balance[u] \in Int /\ listed[u] \in Int /\ balance'[u] \in Int /\ listed'[u] \in Int
        /\ Opening[u] \in Int
    BY <1>1, <1>5
  <2>3. Change(op[t], x, u) \in Int
    BY Amounts DEF Change
  <2> QED  BY <1>4, <2>1, <2>2, <2>3
<1>6. IsFiniteSet(Begun')
  <2>1. IsFiniteSet(Begun)
    BY DEF Explained
  <2> QED  BY <1>2, <2>1, FS_AddElement
<1> QED  BY <1>5, <1>6 DEF Explained, Sum

\* A step at which nothing moves.
LEMMA ExplainedSame ==
  ASSUME Explained, UNCHANGED <<balance, listed, op, pc>>, stale \subseteq stale'
  PROVE  Explained'
<1>1. Begun' = Begun /\ \A u : Unlisted(u)' = Unlisted(u)
  BY DEF Begun, Unlisted, Done, Did, Cost
<1> QED  BY <1>1 DEF Explained

\* Where a task is that is about to save: it has just read, or was there before.
LEMMA SaversStep ==
  ASSUME TypeOK, NEW t \in Tasks, Moved(t), NEW u \in Users
  PROVE  /\ \A s \in Tasks \ {t} : s \in Savers(u)' <=> s \in Savers(u)
         /\ t \in Savers(u)' =>
              \/ At(t, "readPayer") /\ op[t].from = u
              \/ At(t, "readPayee") /\ op[t].to = u
<1>1. pc \in [Tasks -> Nat \ {0}] /\ op[t].kind \in DOMAIN Program
  BY DEF TypeOK
<1>2. /\ \A s \in Tasks \ {t} : pc'[s] = pc[s] /\ (s \in over' <=> s \in over)
      /\ pc'[t] \in {pc[t], pc[t] + 1} /\ (pc' = pc => t \in over') /\ t \notin over
      /\ pc'[t] = pc[t] <=> pc' = pc
      /\ op' = op
  BY Positions DEF Moved
<1>3. \A s \in Tasks \ {t} : s \in Savers(u)' <=> s \in Savers(u)
  BY <1>2 DEF Savers, At, Running
<1>4. ASSUME NEW y \in {"savePayer", "savePayee"}, At(t, y)'
      PROVE  At(t, IF y = "savePayer" THEN "readPayer" ELSE "readPayee")
  <2> DEFINE p == Program[op[t].kind]
  <2>1. t \notin over' /\ pc'[t] <= Len(p) /\ p[pc'[t]] = y
    BY <1>2, <1>4 DEF At, Running
  <2>2. pc'[t] = pc[t] + 1 /\ pc[t] \in Nat \ {0}
    BY <1>1, <1>2, <2>1
  <2>3. Len(p) \in Nat
    BY <1>1, Programs
  <2>4. pc'[t] \in 1..Len(p) /\ pc'[t] - 1 = pc[t] /\ pc[t] <= Len(p)
    BY <2>1, <2>2, <2>3
  <2>5. p[pc[t]] = IF y = "savePayer" THEN "readPayer" ELSE "readPayee"
    BY <1>1, <2>1, <2>4, Programs
  <2> QED  BY <1>2, <2>4, <2>5 DEF At, Running
<1>5. t \in Savers(u)' => \/ At(t, "savePayer")' /\ op[t].from = u
                          \/ At(t, "savePayee")' /\ op[t].to = u
  BY <1>2 DEF Savers
<1> QED  BY <1>3, <1>4, <1>5

LEMMA AccountedStep ==
  ASSUME NEW t \in Tasks, TypeOK, TypeOK', Accounted, Step(t)
  PROVE  Accounted'
<1>t. FreshRead /\ Explained
  BY DEF Accounted
<1>m. Moved(t)
  BY StepMoves
<1>p. /\ pc \in [Tasks -> Nat \ {0}] /\ pc[t] + 1 # pc[t] /\ rd \in [Tasks -> Nat] /\ missed \subseteq Tasks
      /\ balance \in [Users -> Nat] /\ listed \in [Users -> Int]
      /\ op[t].from \in Users /\ op[t].to \in Users
      /\ balance' \in [Users -> Nat] /\ listed' \in [Users -> Int]
  BY Amounts DEF TypeOK
<1>o. /\ op[t].amount \in Nat /\ op[t].fee \in Nat
      /\ Cost(op[t]) \in Nat /\ Cost(op[t]) = op[t].amount + op[t].fee
  BY Amounts
\* Reads.
<1>1. ASSUME NEW u \in Users,
             \/ readPayer(t) /\ op[t].from = u
             \/ readPayee(t) /\ op[t].to = u
      PROVE  Accounted'
  <2>1. /\ rd' = [rd EXCEPT ![t] = balance[u]] /\ missed' = missed \ {t}
        /\ UNCHANGED <<balance, stale, listed>>
        /\ Advance(t) \/ Refuse(t)
        /\ \E x \in {"readPayer", "readPayee"} : At(t, x)
    BY <1>1 DEF readPayer, readPayee, rest
  <2>2. ASSUME NEW v \in Users, t \in Savers(v)' PROVE v = u
    <3>1. (At(t, "readPayer") /\ op[t].from = v) \/ (At(t, "readPayee") /\ op[t].to = v)
      BY <1>m, <2>2, SaversStep
    <3>2. (At(t, "readPayer") /\ op[t].from = u) \/ (At(t, "readPayee") /\ op[t].to = u)
      BY <1>1 DEF readPayer, readPayee
    <3>3. ~(At(t, "readPayer") /\ At(t, "readPayee"))
      BY AtOne
    <3> QED  BY <3>1, <3>2, <3>3
  <2>3. FreshRead'
    <3> SUFFICES ASSUME NEW v \in Users, NEW s \in Savers(v)', s \notin missed'
                 PROVE  rd'[s] = balance'[v]
      BY DEF FreshRead
    <3>1. s \in Tasks
      BY DEF Savers
    <3>2. CASE s = t
      BY <2>1, <2>2, <3>2, <1>p
    <3>3. CASE s # t
      <4>1. s \in Savers(v) \ missed /\ rd'[s] = rd[s]
        BY <1>m, <1>p, <2>1, <3>1, <3>3, SaversStep
      <4> QED  BY <4>1, <2>1, <1>t DEF FreshRead
    <3> QED  BY <3>2, <3>3
  <2>4. CASE Advance(t)
    <3>1. PICK x \in {"readPayer", "readPayee"} : At(t, x)
      BY <2>1
    <3>2. \A v : Change(op[t], x, v) = 0
      BY DEF Change
    <3>3. \A v \in Users \ stale' :
            /\ balance'[v] \in Int /\ listed'[v] \in Int
            /\ balance'[v] - balance[v] = listed'[v] - listed[v] + Change(op[t], x, v)
      BY <1>p, <2>1, <3>2
    <3>4. Explained'
      BY <1>t, <2>1, <2>4, <3>1, <3>3, ExplainedMove DEF Advance
    <3> QED  BY <2>3, <3>4 DEF Accounted
  <2>5. CASE Refuse(t)
    BY <1>t, <2>1, <2>3, <2>5, ExplainedSame DEF Refuse, Accounted
  <2> QED  BY <2>1, <2>4, <2>5
\* Saves.
<1>2. ASSUME NEW u \in Users, NEW amount \in Int, NEW x \in {"savePayer", "savePayee"},
             At(t, x), Save(t, u, rd[t] + amount),
             x = "savePayer" => op[t].from = u /\ amount = 0 - Cost(op[t]),
             x = "savePayee" => op[t].to = u /\ amount = op[t].amount
      PROVE  Accounted'
  <2>1. /\ balance' = [balance EXCEPT ![u] = rd[t] + amount]
        /\ stale' = stale \cup (IF t \in missed THEN {u} ELSE {})
        /\ missed' = missed \cup (Savers(u) \ {t})
        /\ listed' = listed /\ rd' = rd /\ op' = op /\ pc' = [pc EXCEPT ![t] = @ + 1]
    BY <1>2 DEF Save, Advance, rest
  <2>2. t \in Savers(u)
    BY <1>2 DEF Savers
  <2>3. FreshRead'
    <3> SUFFICES ASSUME NEW v \in Users, NEW s \in Savers(v)', s \notin missed'
                 PROVE  rd'[s] = balance'[v]
      BY DEF FreshRead
    <3>1. s \in Tasks
      BY DEF Savers
    <3>2. s # t
      <4>1. ~At(t, "readPayer") /\ ~At(t, "readPayee")
        BY <1>2, AtOne
      <4> QED  BY <4>1, <1>m, SaversStep
    <3>3. s \in Savers(v) /\ s \notin missed /\ s \notin Savers(u)
      BY <1>m, <2>1, <3>1, <3>2, SaversStep
    <3>4. v # u
      BY <3>3
    <3> QED  BY <1>p, <1>t, <2>1, <3>3, <3>4 DEF FreshRead
  <2>4. \A v : Change(op[t], x, v) = IF v = u THEN amount ELSE 0
    BY <1>2 DEF Change
  <2>5. \A v \in Users \ stale' :
          /\ balance'[v] \in Int /\ listed'[v] \in Int
          /\ balance'[v] - balance[v] = listed'[v] - listed[v] + Change(op[t], x, v)
    <3> TAKE v \in Users \ stale'
    <3>1. balance'[v] \in Int /\ listed'[v] \in Int /\ balance[v] \in Int /\ listed'[v] = listed[v]
      BY <1>p, <2>1
    <3>2. CASE v = u
      <4>1. t \notin missed
        BY <2>1, <3>2
      <4>2. rd[t] = balance[u]
        BY <1>t, <2>2, <4>1 DEF FreshRead
      <4>3. balance'[u] = balance[u] + amount
        BY <1>p, <2>1, <4>2
      <4> QED  BY <2>4, <3>1, <3>2, <4>3
    <3>3. CASE v # u
      <4>1. balance'[v] = balance[v]
        BY <1>p, <2>1, <3>3
      <4> QED  BY <2>4, <3>1, <3>3, <4>1
    <3> QED  BY <3>2, <3>3
  <2>6. Explained'
    BY <1>t, <1>2, <2>1, <2>5, ExplainedMove
  <2> QED  BY <2>3, <2>6 DEF Accounted
\* Rows.
<1>3. ASSUME NEW u \in Users, NEW amount \in Int, NEW x \in {"rowPayer", "rowPayee"},
             At(t, x), Advance(t), listed' = [listed EXCEPT ![u] = @ + amount],
             UNCHANGED <<wallets, rd>>,
             x = "rowPayer" => op[t].from = u /\ amount = 0 - Cost(op[t]),
             x = "rowPayee" => op[t].to = u /\ amount = op[t].amount
      PROVE  Accounted'
  <2>1. balance' = balance /\ missed' = missed /\ stale' = stale /\ rd' = rd
    BY <1>3 DEF wallets
  <2>2. FreshRead'
    <3>1. ~At(t, "readPayer") /\ ~At(t, "readPayee")
      BY <1>3, AtOne
    <3>2. \A v \in Users : \A s \in Savers(v)' : s \in Savers(v)
      <4>1. \A v : Savers(v)' \subseteq Tasks
        BY DEF Savers
      <4> QED  BY <4>1, <3>1, <1>m, SaversStep
    <3> QED  BY <1>t, <2>1, <3>2 DEF FreshRead
  <2>3. \A v : Change(op[t], x, v) = IF v = u THEN 0 - amount ELSE 0
    BY <1>3, <1>o DEF Change
  <2>4. \A v \in Users \ stale' :
          /\ balance'[v] \in Int /\ listed'[v] \in Int
          /\ balance'[v] - balance[v] = listed'[v] - listed[v] + Change(op[t], x, v)
    <3> TAKE v \in Users \ stale'
    <3>1. /\ balance'[v] = balance[v] /\ balance[v] \in Int /\ listed[v] \in Int
          /\ listed'[v] = IF v = u THEN listed[v] + amount ELSE listed[v]
      BY <1>3, <1>p, <2>1
    <3> QED  BY <2>3, <3>1
  <2>5. Explained'
    BY <1>t, <1>3, <2>1, <2>4, ExplainedMove DEF Advance
  <2> QED  BY <2>2, <2>5 DEF Accounted
\* Everything else.
<1>4. ASSUME UNCHANGED <<wallets, listed, rd>>,
             ~At(t, "readPayer"), ~At(t, "readPayee"),
             pc' # pc => \A x \in {"savePayer", "savePayee", "rowPayer", "rowPayee"} : ~At(t, x)
      PROVE  Accounted'
  <2>1. balance' = balance /\ missed' = missed /\ stale' = stale /\ rd' = rd /\ listed' = listed
    BY <1>4 DEF wallets
  <2>2. FreshRead'
    <3>1. \A v \in Users : \A s \in Savers(v)' : s \in Savers(v)
      <4>1. \A v : Savers(v)' \subseteq Tasks
        BY DEF Savers
      <4> QED  BY <4>1, <1>4, <1>m, SaversStep
    <3> QED  BY <1>t, <2>1, <3>1 DEF FreshRead
  <2>3. CASE pc' = pc
    BY <1>t, <1>m, <2>1, <2>2, <2>3, ExplainedSame DEF Moved, Accounted
  <2>4. CASE pc' # pc
    <3>1. PICK x : At(t, x)
      BY <1>m DEF Moved, At
    <3>2. \A v : Change(op[t], x, v) = 0
      BY <1>4, <2>4, <3>1 DEF Change
    <3>3. \A v \in Users \ stale' :
            /\ balance'[v] \in Int /\ listed'[v] \in Int
            /\ balance'[v] - balance[v] = listed'[v] - listed[v] + Change(op[t], x, v)
      BY <1>p, <2>1, <3>2
    <3>4. op' = op /\ pc' = [pc EXCEPT ![t] = @ + 1]
      BY <1>m, <2>4 DEF Moved
    <3>5. Explained'
      BY <1>t, <2>1, <3>1, <3>3, <3>4, ExplainedMove
    <3> QED  BY <2>2, <3>5 DEF Accounted
  <2> QED  BY <2>3, <2>4
<1>5. CASE readPayer(t) \/ readPayee(t)
  BY <1>1, <1>5, <1>p
<1>6. CASE savePayer(t)
  <2>1. rd[t] - Cost(op[t]) = rd[t] + (0 - Cost(op[t])) /\ 0 - Cost(op[t]) \in Int
    BY <1>o, <1>p
  <2> QED  BY <1>2, <1>6, <1>p, <2>1 DEF savePayer
<1>7. CASE savePayee(t)
  BY <1>2, <1>7, <1>p, <1>o DEF savePayee
<1>8. CASE saveRow(t)
  <2>1. CASE At(t, "rowPayer") /\ listed' = [listed EXCEPT ![op[t].from] = @ - op[t].amount - op[t].fee]
    <3> DEFINE amount == 0 - Cost(op[t])
    <3>1. listed[op[t].from] - op[t].amount - op[t].fee = listed[op[t].from] + amount /\ amount \in Int
      BY <1>o, <1>p
    <3>2. listed' = [listed EXCEPT ![op[t].from] = @ + amount]
      BY <2>1, <3>1
    <3>3. Advance(t) /\ UNCHANGED <<wallets, rd>>
      BY <1>8 DEF saveRow
    <3> QED  BY <1>3, <1>p, <2>1, <3>1, <3>2, <3>3
  <2>2. CASE At(t, "rowPayee") /\ listed' = [listed EXCEPT ![op[t].to] = @ + op[t].amount]
    <3>1. Advance(t) /\ UNCHANGED <<wallets, rd>> /\ op[t].amount \in Int
      BY <1>8, <1>o DEF saveRow
    <3> QED  BY <1>3, <1>p, <2>2, <3>1
  <2> QED  BY <1>8, <2>1, <2>2 DEF saveRow
<1>9. CASE violatesCheck(t) \/ fail(t)
  <2>1. UNCHANGED <<wallets, listed, rd>> /\ pc' = pc /\ t \in over'
    BY <1>9 DEF violatesCheck, fail, Refuse, rest
  <2>2. FreshRead'
    <3>1. \A v \in Users : \A s \in Savers(v)' : s \in Savers(v)
      BY <1>m, <2>1 DEF Savers, At, Running, Moved
    <3> QED  BY <1>t, <2>1, <3>1 DEF FreshRead, wallets
  <2> QED  BY <1>t, <1>m, <2>1, <2>2, ExplainedSame DEF Moved, Accounted, wallets
<1>10. CASE findReward(t) \/ markRead(t) \/ findOrder(t) \/ saveOrder(t) \/ findPlan(t)
            \/ saveSubscription(t)
  <2>1. UNCHANGED <<wallets, listed, rd>>
    BY <1>10 DEF findReward, markRead, findOrder, saveOrder, findPlan, saveSubscription, rest
  <2>2. \E y \in {"findReward", "markRead", "findOrder", "saveOrder", "findPlan", "saveSubscription"} :
          At(t, y)
    BY <1>10 DEF findReward, markRead, findOrder, saveOrder, findPlan, saveSubscription
  <2> QED  BY <1>4, <2>1, <2>2, AtOne
<1> QED  BY <1>5, <1>6, <1>7, <1>8, <1>9, <1>10 DEF Step

LEMMA AccountedNext ==
  ASSUME TypeOK, TypeOK', Accounted, [Next]_vars
  PROVE  Accounted'
<1>1. ASSUME NEW t \in Tasks, Step(t) PROVE Accounted'
  BY <1>1, AccountedStep
<1>2. CASE (\E i \in Items : createPaymentRequestOrder(i)) \/ UNCHANGED vars
  <2>1. UNCHANGED <<balance, missed, stale, listed, op, pc, over, rd>>
    BY <1>2 DEF createPaymentRequestOrder, vars, wallets, rest
  <2>2. FreshRead'
    BY <2>1 DEF Accounted, FreshRead, Savers, At, Running
  <2> QED  BY <2>1, <2>2, ExplainedSame DEF Accounted
<1> QED  BY <1>1, <1>2 DEF Next, Terminated

LEMMA AccountedInit == Init => Accounted
<1> SUFFICES ASSUME Init PROVE Accounted
  OBVIOUS
<1>1. TypeOK
  BY InitHolds DEF IInv
<1>2. Begun = {}
  BY DEF Init, Begun
<1>3. Explained
  BY <1>2, FS_EmptySet, SumEmpty DEF Init, Explained, Sum
<1>4. FreshRead
  <2> SUFFICES ASSUME NEW u \in Users, NEW t \in Savers(u) PROVE FALSE
    BY DEF FreshRead
  <2>1. t \in Tasks /\ pc[t] = 1 /\ op[t].kind \in DOMAIN Program
    BY <1>1 DEF Savers, Init, TypeOK
  <2>2. Program[op[t].kind][1] \in {"savePayer", "savePayee"} /\ 1 <= Len(Program[op[t].kind])
    BY <2>1 DEF Savers, At, Running
  <2>3. 1 \in 1..Len(Program[op[t].kind])
    BY <2>1, Programs
  <2> QED  BY <2>1, <2>2, <2>3, Programs
<1> QED  BY <1>3, <1>4 DEF Accounted

\* The statement of a user explains the balance, whatever handlers have run
\* interleaved on the wallet, once they have ended and if none saved it from an
\* outdated read: for any number of users, calls and faults.
THEOREM StatementAddsUpHolds == Spec => []StatementAddsUp
<1>1. IInv /\ IInv' /\ Accounted /\ [Next]_vars => Accounted'
  BY AccountedNext DEF IInv
<1>2. ASSUME IInv, Accounted PROVE StatementAddsUp
  <2> SUFFICES ASSUME NEW u \in Users \ stale,
                      \A t \in Tasks : u \in {op[t].from, op[t].to} => Settled(t)
               PROVE  balance[u] = Opening[u] + listed[u]
    BY DEF StatementAddsUp
  <2>t. TypeOK /\ pc \in [Tasks -> Nat \ {0}]
    BY <1>2 DEF IInv, TypeOK
  <2>1. ASSUME NEW t \in Tasks PROVE Unlisted(u)[t] = 0
    <3>1. CASE u \notin {op[t].from, op[t].to}
      BY <3>1 DEF Unlisted
    <3>2. CASE ~\E step \in {"savePayer", "savePayee", "rowPayer", "rowPayee"} : Did(t, step)
      BY <3>2 DEF Unlisted, Done
    <3>3. CASE op[t].kind \notin {"checkPaymentStatus", "upgradePlan"} /\ t \notin over /\ ~Running(t)
      <4> DEFINE p == Program[op[t].kind]
      <4>0. op[t].kind \in DOMAIN Program
        BY <2>t DEF TypeOK
      <4>1. op[t].kind \in DOMAIN Program /\ Len(p) \in Nat
        BY <4>0, Programs
      <4>2. pc[t] = Len(p) + 1
        <5>1. pc[t] <= Len(p) + 1
          BY <1>2 DEF IInv
        <5> QED  BY <2>t, <3>3, <4>1, <5>1 DEF Running
      <4>3. \A y : Did(t, y) <=> \E i \in 1..Len(p) : p[i] = y
        BY <4>1, <4>2 DEF Did
      <4>4. /\ Did(t, "savePayer") <=> Did(t, "rowPayer")
            /\ Did(t, "savePayee") <=> Did(t, "rowPayee")
        <5> HIDE DEF p
        <5>1. /\ (\E i \in 1..Len(p) : p[i] = "savePayer") <=> (\E i \in 1..Len(p) : p[i] = "rowPayer")
              /\ (\E i \in 1..Len(p) : p[i] = "savePayee") <=> (\E i \in 1..Len(p) : p[i] = "rowPayee")
          BY <3>3, <4>1, Programs DEF p
        <5> QED  BY <4>3, <5>1
      <4>5. op[t].amount \in Nat /\ Cost(op[t]) \in Nat
        BY <2>t, Amounts
      <4> QED  BY <4>4, <4>5 DEF Unlisted, Done
    <3> QED  BY <3>1, <3>2, <3>3 DEF Settled
  <2>2. IsFiniteSet(Begun) /\ Begun \subseteq Tasks
    BY <1>2 DEF Accounted, Explained, Begun
  <2>3. Sum(Unlisted(u), Begun) = 0
    <3>1. \A t \in Begun : Unlisted(u)[t] = 0
      BY <2>1, <2>2
    <3> QED  BY <2>2, <3>1, SumZero
  <2>4. balance[u] = Opening[u] + listed[u] + Sum(Unlisted(u), Begun)
    BY <1>2 DEF Accounted, Explained, Sum
  <2>5. Opening[u] \in Int /\ listed[u] \in Int
    BY <2>t DEF TypeOK
  <2> QED  BY <2>3, <2>4, <2>5
<1>3. IInv /\ Accounted => StatementAddsUp
  BY <1>2
<1> QED  BY <1>1, <1>3, AccountedInit, Safety, PTL DEF Spec

=============================================================================
