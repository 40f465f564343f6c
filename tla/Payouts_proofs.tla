--------------------------- MODULE Payouts_proofs ---------------------------
(* Proofs about Payouts: what is paid out is debited, within the limits.    *)
EXTENDS Payouts, TLAPS

USE PayoutsAssumption

\* What a request asks for and costs.
LEMMA Costs ==
  ASSUME NEW r \in Requests
  PROVE  /\ r.amount \in Nat /\ r.amount > 0
         /\ Charges(r) \in Nat /\ Booked(r) \in Nat /\ Total(r) \in Nat
         /\ Booked(r) = r.amount + Charges(r)
         /\ Booked(r) <= Total(r)
         /\ ServiceOf[r.kind] \in Services
<1>1. r.amount \in Nat \ {0} /\ r.fee \in Nat
      /\ r.kind \in {"payoutAccount", "payoutUPI", "rechargeAccount"}
  BY DEF ServiceOf
<1>2. Charges(r) \in Nat
  BY DEF Charges, getIMPSOrRTGSCharges
<1>3. ServiceOf[r.kind] \in Services
  BY <1>1 DEF ServiceOf, Services, Limited
<1> QED  BY <1>1, <1>2, <1>3 DEF Booked, Total

\* The fields of the state, under the type invariant.
LEMMA Fields ==
  ASSUME TypeOK, NEW t \in Calls
  PROVE  /\ req[t] \in Requests /\ Service(t) \in Services
         /\ req[t].amount \in Nat /\ Total(req[t]) \in Nat /\ Booked(req[t]) \in Nat
         /\ had[t] \in Nat /\ rd[t] \in Nat /\ balance \in Nat
         /\ daily[Service(t)] \in Nat /\ monthly[Service(t)] \in Nat
<1>1. req[t] \in Requests /\ had[t] \in Nat /\ rd[t] \in Nat /\ balance \in Nat
      /\ daily \in [Services -> Nat] /\ monthly \in [Services -> Nat]
  BY DEF TypeOK
<1>2. Service(t) \in Services
  BY <1>1, Costs DEF Service
<1> QED  BY <1>1, <1>2, Costs

\* What fits beside a sum fits beside a smaller one.
LEMMA StillFits ==
  ASSUME NEW a \in Nat, NEW sum \in Nat, NEW less \in Nat, NEW limit \in Nat,
         sum + a <= limit, less <= sum
  PROVE  less + a <= limit
  OBVIOUS

\* A call that does not move keeps its facts, if the wallet and the sums have
\* not changed to its disadvantage, or it is recorded that they have.
LEMMA Unmoved ==
  ASSUME NEW s \in Calls, TypeOK, TypeOK', CallOK(s),
         req' = req, pc'[s] = pc[s], had'[s] = had[s], rd'[s] = rd[s],
         s \in paidOut' <=> s \in paidOut,
         s \in saving \cup placed => s \in saving' \cup placed',
         poorer \subseteq poorer', overtaken \subseteq overtaken',
         s \in Waiting => balance <= balance' \/ s \in poorer',
         s \in Admitted(Service(s)) =>
           \/ s \in overtaken'
           \/ daily'[Service(s)] <= daily[Service(s)] /\ monthly'[Service(s)] <= monthly[Service(s)]
  PROVE  CallOK(s)'
<1>1. Service(s)' = Service(s) /\ (s \in Waiting)' = (s \in Waiting)
      /\ (s \in Admitted(Service(s)))' = (s \in Admitted(Service(s)))
  BY DEF Service, Waiting, Admitted
<1>2. ShortOfCharges(s)' = ShortOfCharges(s) /\ Unpriced(s)' = Unpriced(s)
  BY DEF ShortOfCharges, Unpriced
<1>3. req[s].amount \in Nat /\ had[s] \in Nat /\ balance \in Nat /\ balance' \in Nat
  BY Fields DEF TypeOK
<1>4. s \in Waiting => req[s].amount <= had[s] /\ (s \in poorer' \/ had[s] <= balance')
  BY <1>3 DEF CallOK
<1>5. s \in Admitted(Service(s)) /\ Service(s) \in Limited =>
        s \in overtaken' \/ Within(Service(s), req[s].amount)'
  <2>1. SUFFICES ASSUME s \in Admitted(Service(s)), Service(s) \in Limited, s \notin overtaken'
                 PROVE  Within(Service(s), req[s].amount)'
    OBVIOUS
  <2>2. Within(Service(s), req[s].amount)
    BY <2>1 DEF CallOK
  <2>3. daily'[Service(s)] <= daily[Service(s)] /\ monthly'[Service(s)] <= monthly[Service(s)]
    BY <2>1
  <2>4. /\ daily[Service(s)] \in Nat /\ monthly[Service(s)] \in Nat
        /\ daily'[Service(s)] \in Nat /\ monthly'[Service(s)] \in Nat
        /\ DailyLimit[Service(s)] \in Nat /\ MonthlyLimit[Service(s)] \in Nat
    BY <2>1, Fields DEF TypeOK
  <2>5. Service(s)' = Service(s) /\ req'[s].amount = req[s].amount
    BY <1>1
  <2>6. /\ daily[Service(s)] + req[s].amount <= DailyLimit[Service(s)]
        /\ monthly[Service(s)] + req[s].amount <= MonthlyLimit[Service(s)]
    BY <2>2 DEF Within
  <2>7. /\ daily'[Service(s)] + req[s].amount <= DailyLimit[Service(s)]
        /\ monthly'[Service(s)] + req[s].amount <= MonthlyLimit[Service(s)]
    BY <1>3, <2>3, <2>4, <2>6, StillFits
  <2> QED  BY <2>5, <2>7 DEF Within
<1> QED  BY <1>1, <1>2, <1>4, <1>5 DEF CallOK

LEMMA InitHolds == Init => IInv
<1> SUFFICES ASSUME Init PROVE IInv
  OBVIOUS
<1>1. TypeOK
  <2>1. 1 \in 1..Days
    OBVIOUS
  <2> QED  BY <2>1 DEF Init, TypeOK
<1>2. ASSUME NEW t \in Calls PROVE CallOK(t)
  BY DEF Init, CallOK, Waiting, Admitted
<1> QED  BY <1>1, <1>2 DEF IInv


\* The steps of a call that leave the wallet and the sums alone.
LEMMA QuietStep ==
  ASSUME NEW t \in Calls, IInv,
         \/ checkBalance(t) \/ poolShort(t) \/ validateTransactionLimit(t) \/ provider(t)
         \/ createOrder(t) \/ saveOrder(t) \/ findWallet(t) \/ fault(t)
  PROVE  IInv'
<1>t. TypeOK /\ (\A s \in Calls : CallOK(s)) /\ CallOK(t)
  BY DEF IInv
<1>f. /\ req[t] \in Requests /\ req[t].amount \in Nat /\ Total(req[t]) \in Nat
      /\ had[t] \in Nat /\ rd[t] \in Nat /\ balance \in Nat /\ Service(t) \in Services
  BY <1>t, Fields
<1>q. UNCHANGED <<balance, sums, req, overtaken, poorer>>
  BY DEF checkBalance, poolShort, validateTransactionLimit, provider, createOrder, saveOrder,
         findWallet, fault
<1>s. /\ Service(t)' = Service(t) /\ Unpriced(t)' = Unpriced(t)
      /\ Within(Service(t), req[t].amount)' = Within(Service(t), req[t].amount)
  BY <1>q DEF Service, Unpriced, Within, sums
<1>1. TypeOK'
  <2>1. CASE checkBalance(t)
    BY <2>1, <1>t DEF checkBalance, Goto, TypeOK, sums, orders
  <2>2. CASE poolShort(t)
    BY <2>2, <1>t DEF poolShort, Goto, TypeOK, sums, orders
  <2>3. CASE validateTransactionLimit(t)
    BY <2>3, <1>t DEF validateTransactionLimit, Goto, TypeOK, sums, orders
  <2>4. CASE provider(t)
    BY <2>4, <1>t DEF provider, Goto, TypeOK, sums, orders
  <2>5. CASE createOrder(t)
    BY <2>5, <1>t DEF createOrder, Goto, TypeOK, sums
  <2>6. CASE saveOrder(t)
    BY <2>6, <1>t DEF saveOrder, TypeOK, sums
  <2>7. CASE findWallet(t)
    BY <2>7, <1>t DEF findWallet, Goto, TypeOK, sums, orders
  <2>8. CASE fault(t)
    BY <2>8, <1>t DEF fault, Goto, TypeOK, sums, orders
  <2> QED  BY <2>1, <2>2, <2>3, <2>4, <2>5, <2>6, <2>7, <2>8
<1>2. CallOK(t)'
  <2>1. CASE checkBalance(t)
    BY <2>1, <1>t, <1>f, <1>q, <1>s
       DEF checkBalance, Goto, Covers, CallOK, Waiting, Admitted, TypeOK, orders
  <2>2. CASE poolShort(t)
    BY <2>2, <1>t, <1>q, <1>s DEF poolShort, Goto, CallOK, Waiting, Admitted, TypeOK, orders
  <2>3. CASE validateTransactionLimit(t)
    BY <2>3, <1>t, <1>q, <1>s
       DEF validateTransactionLimit, Goto, CallOK, Waiting, Admitted, TypeOK, orders
  <2>4. CASE provider(t)
    BY <2>4, <1>t, <1>q, <1>s DEF provider, Goto, CallOK, Waiting, Admitted, TypeOK, orders
  <2>5. CASE createOrder(t)
    BY <2>5, <1>t, <1>q, <1>s
       DEF createOrder, Goto, CallOK, Waiting, Admitted, Unpriced, TypeOK
  <2>6. CASE saveOrder(t)
    BY <2>6, <1>t, <1>q, <1>s DEF saveOrder, CallOK, Waiting, Admitted, ShortOfCharges
  <2>7. CASE findWallet(t)
    BY <2>7, <1>t, <1>f, <1>q, <1>s
       DEF findWallet, Goto, CallOK, Waiting, Admitted, ShortOfCharges, TypeOK, orders
  <2>8. CASE fault(t)
    BY <2>8, <1>t, <1>q, <1>s DEF fault, Goto, CallOK, Waiting, Admitted, TypeOK, orders
  <2> QED  BY <2>1, <2>2, <2>3, <2>4, <2>5, <2>6, <2>7, <2>8
<1>3. ASSUME NEW s \in Calls, s # t PROVE CallOK(s)'
  <2>1. pc'[s] = pc[s] /\ had'[s] = had[s] /\ rd'[s] = rd[s]
    BY <1>3, <1>t DEF checkBalance, poolShort, validateTransactionLimit, provider, createOrder,
                      saveOrder, findWallet, fault, Goto, TypeOK
  <2>2. (s \in paidOut' <=> s \in paidOut) /\ (s \in saving \cup placed => s \in saving' \cup placed')
    BY <1>3 DEF checkBalance, poolShort, validateTransactionLimit, provider, createOrder,
                saveOrder, findWallet, fault, orders
  <2>3. /\ balance <= balance'
        /\ daily'[Service(s)] <= daily[Service(s)] /\ monthly'[Service(s)] <= monthly[Service(s)]
    BY <1>q, <1>t, Fields DEF sums
  <2> QED  BY <1>t, <1>q, <1>1, <2>1, <2>2, <2>3, Unmoved
<1> QED  BY <1>1, <1>2, <1>3 DEF IInv

\* The commit of a debit whose balance the wallet's constraint allows.
LEMMA DebitStep ==
  ASSUME NEW t \in Calls, IInv, commit(t), Allowed(rd[t] - Total(req[t]))
  PROVE  IInv'
<1>t. TypeOK /\ (\A s \in Calls : CallOK(s)) /\ CallOK(t)
  BY DEF IInv
<1>f. /\ Total(req[t]) \in Nat /\ Booked(req[t]) \in Nat /\ rd[t] \in Nat
      /\ Service(t) \in Services
  BY <1>t, Fields
<1> DEFINE left == rd[t] - Total(req[t])
<1>a. /\ pc[t] = "commit" /\ pc' = [pc EXCEPT ![t] = "debited"]
      /\ balance' = left
      /\ AddRows(t)
      /\ overtaken' = overtaken \cup (Admitted(Service(t)) \ {t})
      /\ poorer' = poorer \cup IF left < balance THEN Waiting ELSE {}
      /\ UNCHANGED <<day, req, begun, rd, paidOut, orders, had, moves>>
  BY DEF commit, Goto
<1>b. left \in Nat
  BY <1>f DEF Allowed
<1> HIDE DEF left
<1>1. TypeOK'
  <2>1. balance' \in Nat /\ overtaken' \subseteq Calls /\ poorer' \subseteq Calls
    BY <1>a, <1>b, <1>t DEF TypeOK, Admitted, Waiting
  <2>2. pc' \in [Calls -> {"start", "limits", "provider", "order", "debit", "commit",
                           "debited", "failed", "refused"}]
    BY <1>a, <1>t DEF TypeOK
  <2>3. daily' \in [Services -> Nat] /\ monthly' \in [Services -> Nat]
    <3>1. /\ daily \in [Services -> Nat] /\ monthly \in [Services -> Nat]
          /\ daily[Service(t)] \in Nat /\ monthly[Service(t)] \in Nat
      BY <1>f, <1>t DEF TypeOK
    <3> DEFINE d == daily[Service(t)] + IF begun[t] = day THEN Booked(req[t]) ELSE 0
               m == monthly[Service(t)]
                      + IF MonthOf[begun[t]] = MonthOf[day] THEN Booked(req[t]) ELSE 0
    <3>2. daily' = [daily EXCEPT ![Service(t)] = d] /\ monthly' = [monthly EXCEPT ![Service(t)] = m]
      BY <1>a DEF AddRows
    <3>3. d \in Nat /\ m \in Nat
      BY <3>1, <1>f
    <3> HIDE DEF d, m
    <3> QED  BY <3>1, <3>2, <3>3
  <2> QED  BY <1>a, <1>t, <2>1, <2>2, <2>3 DEF TypeOK, orders
<1>2. CallOK(t)'
  <2>1. pc'[t] = "debited"
    BY <1>a, <1>t DEF TypeOK
  <2>2. t \notin Waiting' /\ t \notin Admitted(Service(t))'
    BY <2>1 DEF Waiting, Admitted
  <2>3. Unpriced(t)' = Unpriced(t) /\ paidOut' = paidOut /\ saving' = saving /\ placed' = placed
    BY <1>a DEF Unpriced, orders
  <2> QED  BY <1>a, <1>t, <2>1, <2>2, <2>3 DEF CallOK
<1>3. ASSUME NEW s \in Calls, s # t PROVE CallOK(s)'
  <2>1. pc'[s] = pc[s] /\ had' = had /\ rd' = rd /\ req' = req /\ paidOut' = paidOut
        /\ saving' = saving /\ placed' = placed
    BY <1>3, <1>a, <1>t DEF TypeOK, orders
  <2>2. s \in Waiting => balance <= balance' \/ s \in poorer'
    BY <1>a, <1>b, <1>t DEF TypeOK
  <2>3. s \in Admitted(Service(s)) =>
          \/ s \in overtaken'
          \/ daily'[Service(s)] <= daily[Service(s)] /\ monthly'[Service(s)] <= monthly[Service(s)]
    <3>1. CASE Service(s) = Service(t)
      BY <1>3, <1>a, <3>1
    <3>2. CASE Service(s) # Service(t)
      <4>1. daily'[Service(s)] = daily[Service(s)] /\ monthly'[Service(s)] = monthly[Service(s)]
        BY <3>2, <1>a, <1>t, Fields DEF AddRows, TypeOK
      <4> QED  BY <4>1, <1>t, Fields
    <3> QED  BY <3>1, <3>2
  <2>4. poorer \subseteq poorer' /\ overtaken \subseteq overtaken'
    BY <1>a
  <2> QED  BY <1>t, <1>1, <2>1, <2>2, <2>3, <2>4, Unmoved
<1> QED  BY <1>1, <1>2, <1>3 DEF IInv

\* The commit of a debit the constraint refuses: the charges and the fee were
\* too much, or the wallet had been emptied.
LEMMA RefusedDebitStep ==
  ASSUME NEW t \in Calls, IInv, commit(t), ~Allowed(rd[t] - Total(req[t]))
  PROVE  IInv'
<1>t. TypeOK /\ (\A s \in Calls : CallOK(s)) /\ CallOK(t)
  BY DEF IInv
<1>f. Total(req[t]) \in Nat /\ rd[t] \in Nat /\ had[t] \in Nat
  BY <1>t, Fields
<1>a. /\ pc[t] = "commit" /\ pc' = [pc EXCEPT ![t] = "failed"]
      /\ UNCHANGED <<balance, daily, monthly, overtaken, poorer>>
      /\ UNCHANGED <<day, req, begun, rd, paidOut, orders, had, moves>>
  BY DEF commit, Goto
<1>1. TypeOK'
  BY <1>a, <1>t DEF TypeOK, orders
<1>2. CallOK(t)'
  <2>1. pc'[t] = "failed" /\ t \in paidOut
    BY <1>a, <1>t DEF TypeOK, CallOK
  <2>2. t \in poorer \/ ShortOfCharges(t)
    BY <1>a, <1>t, <1>f DEF CallOK, ShortOfCharges, Allowed
  <2>3. ShortOfCharges(t)' = ShortOfCharges(t)
    BY <1>a DEF ShortOfCharges
  <2> QED  BY <1>a, <2>1, <2>2, <2>3 DEF CallOK, Waiting, Admitted
<1>3. ASSUME NEW s \in Calls, s # t PROVE CallOK(s)'
  <2>1. pc'[s] = pc[s]
    BY <1>3, <1>a, <1>t DEF TypeOK
  <2>2. /\ balance <= balance'
        /\ daily'[Service(s)] <= daily[Service(s)] /\ monthly'[Service(s)] <= monthly[Service(s)]
    BY <1>a, <1>t, Fields
  <2> QED  BY <1>t, <1>a, <1>1, <2>1, <2>2, Unmoved DEF orders
<1> QED  BY <1>1, <1>2, <1>3 DEF IInv

LEMMA OtherHandlerStep ==
  ASSUME NEW m \in Moves, IInv, otherHandler(m)
  PROVE  IInv'
<1>t. TypeOK /\ (\A s \in Calls : CallOK(s))
  BY DEF IInv
<1>a. /\ balance' = balance + m /\ balance + m >= 0
      /\ poorer' = poorer \cup IF m < 0 THEN Waiting ELSE {}
      /\ moves' = moves + 1 /\ moves < MaxMoves
      /\ UNCHANGED <<sums, req, pc, begun, rd, paidOut, orders, had, overtaken>>
  BY DEF otherHandler, Allowed
<1>1. TypeOK'
  BY <1>a, <1>t DEF TypeOK, Waiting, sums, orders
<1>2. ASSUME NEW s \in Calls PROVE CallOK(s)'
  <2>1. s \in Waiting => balance <= balance' \/ s \in poorer'
    <3>1. m \in Int /\ balance \in Nat
      BY <1>t DEF TypeOK
    <3> QED  BY <3>1, <1>a
  <2>2. daily'[Service(s)] <= daily[Service(s)] /\ monthly'[Service(s)] <= monthly[Service(s)]
    BY <1>a, <1>t, Fields DEF sums
  <2> QED  BY <1>t, <1>a, <1>1, <2>1, <2>2, Unmoved DEF orders
<1> QED  BY <1>1, <1>2 DEF IInv

\* A new day: the sums start again, so no limit is nearer than before.
LEMMA NextDayStep ==
  ASSUME IInv, nextDay
  PROVE  IInv'
<1>t. TypeOK /\ (\A s \in Calls : CallOK(s))
  BY DEF IInv
<1>a. /\ day < Days /\ day' = day + 1
      /\ daily' = [s \in Services |-> 0]
      /\ monthly' = IF MonthOf[day + 1] = MonthOf[day] THEN monthly ELSE [s \in Services |-> 0]
      /\ UNCHANGED <<balance, req, pc, begun, rd, paidOut, orders, had, overtaken, poorer, moves>>
  BY DEF nextDay
<1>1. TypeOK'
  BY <1>a, <1>t DEF TypeOK, orders
<1>2. ASSUME NEW s \in Calls PROVE CallOK(s)'
  <2>1. balance <= balance'
    BY <1>a, <1>t, Fields
  <2>2. daily'[Service(s)] <= daily[Service(s)] /\ monthly'[Service(s)] <= monthly[Service(s)]
    BY <1>a, <1>t, Fields
  <2> QED  BY <1>t, <1>a, <1>1, <2>1, <2>2, Unmoved DEF orders
<1> QED  BY <1>1, <1>2 DEF IInv

LEMMA NextHolds == IInv /\ [Next]_vars => IInv'
<1> SUFFICES ASSUME IInv, [Next]_vars PROVE IInv'
  OBVIOUS
<1>1. ASSUME NEW t \in Calls, Step(t) PROVE IInv'
  <2>1. CASE commit(t)
    BY <1>1, <2>1, DebitStep, RefusedDebitStep
  <2> QED  BY <1>1, <2>1, QuietStep DEF Step
<1>2. CASE UNCHANGED vars
  <2>t. TypeOK /\ (\A s \in Calls : CallOK(s))
    BY DEF IInv
  <2>1. TypeOK'
    BY <1>2, <2>t DEF TypeOK, vars, sums, orders
  <2>2. ASSUME NEW s \in Calls PROVE CallOK(s)'
    <3>1. /\ balance <= balance'
          /\ daily'[Service(s)] <= daily[Service(s)] /\ monthly'[Service(s)] <= monthly[Service(s)]
      BY <1>2, <2>t, Fields DEF vars, sums
    <3> QED  BY <1>2, <2>t, <2>1, <3>1, Unmoved DEF vars, orders
  <2> QED  BY <2>1, <2>2 DEF IInv
<1> QED  BY <1>1, <1>2, OtherHandlerStep, NextDayStep DEF Next, Terminated

LEMMA Safety == Spec => []IInv
<1> QED  BY InitHolds, NextHolds, PTL DEF Spec

\* The balance never goes below zero, the sums of the rows stay numbers and
\* every call follows the steps of its handler, for any requests and limits.
THEOREM TypeCorrect == Spec => []TypeOK
<1>1. IInv => TypeOK
  BY DEF IInv
<1> QED  BY <1>1, Safety, PTL

\* A payout or recharge the provider has paid ends in a debit of the wallet and
\* an order, but for the four causes PaidOutIsDebited names; whatever the
\* number of calls, their amounts and the other traffic of the wallet.
THEOREM PaidOutIsDebitedHolds == Spec => []PaidOutIsDebited
<1>1. IInv => PaidOutIsDebited
  <2> SUFFICES ASSUME IInv, NEW t \in paidOut, Ended(t)
               PROVE  \/ pc[t] = "debited" /\ t \in saving \cup placed
                      \/ t \in Faulty \cup poorer \/ ShortOfCharges(t) \/ Unpriced(t)
    BY DEF PaidOutIsDebited
  <2>1. CallOK(t)
    BY DEF IInv, TypeOK
  <2> QED  BY <2>1 DEF CallOK, Ended
<1> QED  BY <1>1, Safety, PTL

\* One step debits within the limits, if no row was added since their check.
LEMMA WithinLimitsStep ==
  ASSUME IInv, [Next]_vars, NEW t \in Calls,
         pc[t] = "commit", pc'[t] = "debited", Service(t) \in Limited, t \notin overtaken
  PROVE  /\ daily'[Service(t)] <= DailyLimit[Service(t)] + Charges(req[t])
         /\ monthly'[Service(t)] <= MonthlyLimit[Service(t)] + Charges(req[t])
<1>t. TypeOK /\ CallOK(t) /\ pc \in [Calls -> {"start", "limits", "provider", "order", "debit",
                                            "commit", "debited", "failed", "refused"}]
  BY DEF IInv, TypeOK
<1>1. commit(t) /\ AddRows(t)
  <2>1. pc' # pc
    OBVIOUS
  <2>2. PICK s \in Calls : Step(s)
    BY <2>1 DEF Next, Terminated, otherHandler, nextDay, vars
  <2>3. s = t
    BY <2>2, <1>t DEF Step, checkBalance, poolShort, validateTransactionLimit, provider, createOrder,
                      saveOrder, findWallet, commit, fault, Goto
  <2>4. commit(t)
    BY <2>2, <2>3, <1>t DEF Step, checkBalance, poolShort, validateTransactionLimit, provider,
                            createOrder, saveOrder, findWallet, fault, Goto
  <2> QED  BY <2>4, <1>t DEF commit, Goto
<1>2. Within(Service(t), req[t].amount)
  BY <1>t DEF CallOK, Admitted
<1>3. /\ Booked(req[t]) = req[t].amount + Charges(req[t])
      /\ req[t].amount \in Nat /\ Charges(req[t]) \in Nat
      /\ daily[Service(t)] \in Nat /\ monthly[Service(t)] \in Nat /\ Service(t) \in Services
      /\ DailyLimit[Service(t)] \in Nat /\ MonthlyLimit[Service(t)] \in Nat
  BY <1>t, Fields, Costs
<1>4. /\ daily'[Service(t)] \in {daily[Service(t)] + Booked(req[t]), daily[Service(t)] + 0}
      /\ monthly'[Service(t)] \in {monthly[Service(t)] + Booked(req[t]), monthly[Service(t)] + 0}
  <2>1. daily \in [Services -> Nat] /\ monthly \in [Services -> Nat]
    BY <1>t DEF TypeOK
  <2> QED  BY <1>1, <1>3, <2>1 DEF AddRows
<1>5. /\ daily[Service(t)] + req[t].amount <= DailyLimit[Service(t)]
      /\ monthly[Service(t)] + req[t].amount <= MonthlyLimit[Service(t)]
  BY <1>2 DEF Within
<1>6. daily'[Service(t)] <= DailyLimit[Service(t)] + Charges(req[t])
  BY <1>3, <1>4, <1>5
<1>7. monthly'[Service(t)] <= MonthlyLimit[Service(t)] + Charges(req[t])
  BY <1>3, <1>4, <1>5
<1> QED  BY <1>6, <1>7

\* The limits of validateTransactionLimit hold, but for the charges, of every
\* debit that no other row has slipped in front of.
THEOREM WithinLimitsHolds == Spec => WithinLimits
<1>1. IInv /\ [Next]_vars =>
        [\A t \in Calls :
           pc[t] = "commit" /\ pc'[t] = "debited" /\ Service(t) \in Limited /\ t \notin overtaken =>
             LET most == Charges(req[t]) IN
             /\ daily'[Service(t)] <= DailyLimit[Service(t)] + most
             /\ monthly'[Service(t)] <= MonthlyLimit[Service(t)] + most]_vars
  BY WithinLimitsStep
<1> QED  BY <1>1, Safety, PTL DEF Spec, WithinLimits
=============================================================================
