------------------------ MODULE WalletService_proofs ------------------------
(***************************************************************************)
(* Proofs about WalletService for every set of users, orders and tasks,    *)
(* every opening balance and every mix of calls; the last part shows that  *)
(* it implements Ledger.                                                   *)
(***************************************************************************)
EXTENDS WalletRefinement, TLAPS

\* What a handler's profile guarantees: its change to a wallet is what its rows
\* and its unrecorded movement add up to, and it touches no other wallet.
Sound(h, o) ==
  /\ h.delta \in [Users -> Int]
  /\ h.post \in [Users -> Int]
  /\ h.after \in [Users -> Int]
  /\ OffLedger(o) \in [Users -> Int]
  /\ \A u \in Users : h.delta[u] = h.post[u] + OffLedger(o)[u]
  /\ \A u \in Users \ Wallets(o) : h.delta[u] = 0

LEMMA HandlerProfile ==
  ASSUME NEW o \in Operations, NEW bal \in [Users -> Int], NEW status \in Statuses
  PROVE  Sound(Handler(o, bal, status), o)
<1> USE DEF Sound, Handler, OffLedger, Wallets, At, Nothing
<1>0. o \in Ops
  BY WalletAssumption
<1>1. CASE o.kind \in {"adminCredit", "adminDebit"}
  BY <1>0, <1>1 DEF Ops, UpdateMoneyToWallet, SingleEntry
<1>2. CASE o.kind = "debitMyAccount"
  BY <1>0, <1>2 DEF Ops, debitMyAccount, SingleEntry
<1>3. CASE o.kind = "debitAmountOnCardTransaction"
  BY <1>0, <1>3 DEF Ops, debitAmountOnCardTransaction, SingleEntry
<1>4. CASE o.kind = "processPaymentGatewaySuccess"
  BY <1>0, <1>4 DEF Ops, processPaymentGatewaySuccess, SingleEntry
<1>5. CASE o.kind = "processLoanPayment"
  BY <1>0, <1>5 DEF Ops, processLoanPayment, SingleEntry
<1>6. CASE o.kind = "handleCoinRedeem"
  BY <1>0, <1>6 DEF Ops, handleCoinRedeem, SingleEntry
<1>7. CASE o.kind = "processRechargePayment"
  BY <1>0, <1>7 DEF Ops, processRechargePayment, Payment
<1>8. CASE o.kind = "processRechargePaymentNew"
  BY <1>0, <1>8 DEF Ops, processRechargePaymentNew, Payment
<1>9. CASE o.kind = "processFundTransfer"
  BY <1>0, <1>9 DEF Ops, processFundTransfer
<1>10. CASE o.kind = "handleReferrelBonus"
  BY <1>0, <1>10 DEF Ops, handleReferrelBonus
<1>11. CASE o.kind = "processRechargeRefundPayment"
  BY <1>0, <1>11 DEF Ops, processRechargeRefundPayment
<1>12. CASE o.kind = "processRechargeSuccess"
  BY <1>0, <1>12 DEF Ops, processRechargeSuccess
<1> QED
  BY <1>0, <1>1, <1>2, <1>3, <1>4, <1>5, <1>6, <1>7, <1>8, <1>9, <1>10, <1>11, <1>12
  DEF Ops, Kinds, Credits, Debits, Payments, OrderCallbacks

-----------------------------------------------------------------------------
(* Type correctness.  An order is looked up only by the two callbacks, so the *)
(* lookup stays inside the domain of order and row.                           *)

CallbackSteps == \A t \in Tasks : pc[t] \in {"order", "row"} => op[t].kind \in OrderCallbacks

Typed == TypeOK /\ CallbackSteps

LEMMA TypedInit == Init => Typed
<1> SUFFICES ASSUME Init PROVE Typed
  OBVIOUS
<1>1. pc \in [Tasks -> Steps]
  BY DEF Init, FirstStep, Steps
<1>2. CallbackSteps
  BY DEF Init, FirstStep, CallbackSteps
<1>3. Opening \in [Users -> Int]
  BY WalletAssumption
<1>4. Nothing \in [Users -> Int]
  BY DEF Nothing
<1>5. rd \in [Tasks -> [Users -> Int]]
  BY <1>4 DEF Init
<1>6. /\ got \in [Tasks -> SUBSET Users] /\ missed \in [Tasks -> SUBSET Users]
      /\ saved \in [Tasks -> SUBSET (Users \cup Orders)]
      /\ stale \subseteq Users /\ outside \subseteq Tasks /\ notified \subseteq Tasks
  BY DEF Init
<1>7. /\ order \in [Orders -> Statuses] /\ row \in [Orders -> Statuses]
      /\ seen \in [Tasks -> Statuses] /\ refunds \in [Orders -> Nat]
  BY DEF Init, Statuses
<1>8. /\ balance \in [Users -> Int] /\ posted \in [Users -> Int]
      /\ offbook \in [Users -> Int] /\ shown \in [Users -> Int]
      /\ op \in [Tasks -> Operations]
  BY <1>3, <1>4 DEF Init
<1> QED
  BY <1>1, <1>2, <1>5, <1>6, <1>7, <1>8 DEF Typed, TypeOK

\* The profile of a task's call, from the type invariant.
LEMMA EffectProfile ==
  ASSUME TypeOK, NEW t \in Tasks
  PROVE  Sound(Effect(t), op[t])
<1>1. op[t] \in Operations /\ rd[t] \in [Users -> Int] /\ seen[t] \in Statuses
  BY DEF TypeOK
<1> QED
  BY <1>1, HandlerProfile DEF Effect

LEMMA TypedRollback ==
  ASSUME Typed, NEW t \in Tasks, handleTransactionRollback(t)
  PROVE  Typed'
  BY DEF Typed, TypeOK, CallbackSteps, handleTransactionRollback, Goto, Steps, store, local

LEMMA TypedCommit ==
  ASSUME Typed, NEW t \in Tasks, commit(t)
  PROVE  Typed'
<1> USE DEF Typed, TypeOK
<1> DEFINE o == op[t]
<1>1. /\ Effect(t).delta \in [Users -> Int]
      /\ Effect(t).post \in [Users -> Int]
      /\ Effect(t).after \in [Users -> Int]
      /\ OffLedger(o) \in [Users -> Int]
  BY EffectProfile DEF Sound
<1>2. CallbackStatus(o) \in Statuses
  BY DEF CallbackStatus, Statuses
<1>3. \A u \in Users : NewBalance(t, u) \in Int
  BY <1>1 DEF NewBalance
<1>4. balance' \in [Users -> Int]
  BY <1>3 DEF commit
<1>5. posted' \in [Users -> Int] /\ offbook' \in [Users -> Int] /\ shown' \in [Users -> Int]
  BY <1>1 DEF commit
<1>6. order' \in [Orders -> Statuses] /\ row' \in [Orders -> Statuses]
  BY <1>2 DEF commit, Statuses
<1>7. refunds' \in [Orders -> Nat]
  BY DEF commit
<1>8. missed' \in [Tasks -> SUBSET (Users \cup Orders)] /\ stale' \subseteq Users \cup Orders
  BY DEF commit
<1>9. pc' \in [Tasks -> Steps] /\ saved' \in [Tasks -> SUBSET (Users \cup Orders)]
  BY DEF commit, Goto, Steps
<1>10. CallbackSteps'
  BY DEF commit, Goto, CallbackSteps
<1> QED
  BY <1>4, <1>5, <1>6, <1>7, <1>8, <1>9, <1>10 DEF commit

LEMMA TypedNext == Typed /\ [Next]_vars => Typed'
<1> SUFFICES ASSUME Typed, [Next]_vars PROVE Typed'
  OBVIOUS
<1> USE DEF Typed, TypeOK, CallbackSteps
<1>1. ASSUME NEW o \in Orders, saveRechargeOrder(o) PROVE Typed'
  BY <1>1 DEF saveRechargeOrder, Statuses, local
<1>2. ASSUME NEW t \in Tasks, findOrder(t) PROVE Typed'
  <2>1. CASE Found(order[op[t].order])
    <3>1. order[op[t].order] \in Statuses
      BY WalletAssumption, <1>2 DEF findOrder
    <3>2. seen' \in [Tasks -> Statuses]
      BY <1>2, <2>1, <3>1 DEF findOrder
    <3>3. pc' \in [Tasks -> Steps]
      BY <1>2, <2>1 DEF findOrder, Goto, Steps
    <3>4. CallbackSteps'
      BY <1>2, <2>1 DEF findOrder, Goto, OrderCallbacks
    <3>5. got' \in [Tasks -> SUBSET (Users \cup Orders)]
      BY <1>2, <2>1, WalletAssumption DEF findOrder
    <3> QED
      BY <1>2, <2>1, <3>2, <3>3, <3>4, <3>5 DEF findOrder, store
  <2>2. CASE ~Found(order[op[t].order])
    BY <1>2, <2>2, TypedRollback DEF findOrder
  <2> QED
    BY <2>1, <2>2
<1>3. ASSUME NEW t \in Tasks, NEW u \in Users, findWalletByUserId(t, u) PROVE Typed'
  BY <1>3 DEF findWalletByUserId, WalletRead, Goto, Steps, store
<1>4. ASSUME NEW t \in Tasks, check(t) PROVE Typed'
  <2>1. CASE Effect(t).guard
    BY <1>4, <2>1 DEF check, AfterCheck, Goto, Steps, store, local
  <2>2. CASE ~Effect(t).guard
    BY <1>4, <2>2, TypedRollback DEF check
  <2> QED
    BY <2>1, <2>2
<1>5. ASSUME NEW t \in Tasks, findTransaction(t) PROVE Typed'
  <2>1. CASE Found(row[op[t].order])
    BY <1>5, <2>1 DEF findTransaction, Goto, Steps, store, local
  <2>2. CASE ~Found(row[op[t].order])
    BY <1>5, <2>2, TypedRollback DEF findTransaction
  <2> QED
    BY <2>1, <2>2
<1>6. ASSUME NEW t \in Tasks, writeOutside(t) PROVE Typed'
  BY <1>6 DEF writeOutside, AfterOutside, Goto, Steps, store, local
<1>7. ASSUME NEW t \in Tasks, NEW x \in Users \cup Orders, save(t, x) PROVE Typed'
  <2>1. CASE handleTransactionRollback(t)
    BY <2>1, TypedRollback
  <2>2. CASE ~handleTransactionRollback(t)
    <3>1. /\ saved' = [saved EXCEPT ![t] = @ \cup {x}]
          /\ Goto(t, IF Targets(op[t]) \subseteq saved[t] \cup {x}
                     THEN AfterSave(op[t]) ELSE "save")
          /\ UNCHANGED <<store, local, outside, notified>>
      BY <1>7, <2>2 DEF save
    <3>2. pc' \in [Tasks -> Steps]
      BY <3>1 DEF AfterSave, Goto, Steps
    <3>3. saved' \in [Tasks -> SUBSET (Users \cup Orders)]
      BY <3>1
    <3>4. CallbackSteps'
      BY <3>1 DEF AfterSave, Goto, local
    <3> QED
      BY <3>1, <3>2, <3>3, <3>4 DEF store, local
  <2> QED
    BY <2>1, <2>2
<1>8. ASSUME NEW t \in Tasks, notify(t) PROVE Typed'
  BY <1>8 DEF notify, Goto, Steps, store, local
<1>9. ASSUME NEW t \in Tasks, referralNotifyFails(t) PROVE Typed'
  BY <1>9 DEF referralNotifyFails, Goto, Steps, store, local
<1>10. ASSUME NEW t \in Tasks, fail(t) \/ deadlockDetected(t) PROVE Typed'
  BY <1>10, TypedRollback DEF fail, deadlockDetected
<1>11. CASE UNCHANGED vars
  BY <1>11 DEF vars, store, local
<1> QED
  BY <1>1, <1>2, <1>3, <1>4, <1>5, <1>6, <1>7, <1>8, <1>9, <1>10, <1>11, TypedCommit
  DEF Next, Step, Terminated

\* Every reachable state has the shape TypeOK gives it, whatever the constants.
THEOREM TypeCorrect == Spec => []TypeOK
<1>1. Spec => []Typed
  BY TypedInit, TypedNext, PTL DEF Spec
<1>2. Typed => TypeOK
  BY DEF Typed
<1> QED
  BY <1>1, <1>2, PTL

-----------------------------------------------------------------------------
(* The inductive invariant.                                                *)

\* The rows a call updates: its wallets, and for a callback its order.
LEMMA TargetsOfCall ==
  ASSUME TypeOK, NEW t \in Tasks
  PROVE  /\ op[t] \in Ops
         /\ op[t].kind \in OrderCallbacks => op[t].order \in Orders
         /\ Wallets(op[t]) \subseteq Users
         /\ Targets(op[t]) \cap Users = Wallets(op[t])
         /\ Targets(op[t]) \cap Orders =
              IF op[t].kind \in OrderCallbacks THEN {op[t].order} ELSE {}
<1>1. op[t] \in Ops /\ (op[t].kind \in OrderCallbacks => op[t].order \in Orders)
  BY WalletAssumption DEF TypeOK
<1>2. Wallets(op[t]) \subseteq Users
  BY <1>1 DEF Wallets, Ops
<1> QED
  BY <1>1, <1>2, WalletAssumption DEF Targets

LEMMA IInvInit == Init => IInv
<1> SUFFICES ASSUME Init PROVE IInv
  OBVIOUS
<1>1. ASSUME NEW t \in Tasks
      PROVE  Progress(t) /\ Checked(t) /\ FreshRead(t) /\ PendingNonNegative(t)
  <2>1. pc[t] = FirstStep(op[t]) /\ saved[t] = {} /\ got[t] = {}
    BY DEF Init
  <2>2. op[t].kind \notin OrderCallbacks => Targets(op[t]) \cap Orders = {}
    <3>1. TypeOK
      BY TypedInit DEF Typed
    <3> QED
      BY <3>1, TargetsOfCall
  <2>3. Progress(t)
    BY <2>1, <2>2 DEF FirstStep, Progress
  <2> QED
    BY <2>1, <2>3 DEF FirstStep, Checked, FreshRead, PendingNonNegative
<1>2. NonNegative
  BY WalletAssumption DEF Init, NonNegative
<1>3. BooksBalance
  BY WalletAssumption DEF Init, BooksBalance, Nothing
<1>4. RefundOnceUnlessRaced
  BY DEF Init, RefundOnceUnlessRaced
<1> QED
  BY <1>1, <1>2, <1>3, <1>4 DEF IInv

\* A step of task t that commits nothing concerns t alone.
LEMMA LocalStep ==
  ASSUME IInv, NEW t \in Tasks,
         UNCHANGED <<balance, posted, offbook, order, refunds, stale, op, missed>>,
         \A s \in Tasks \ {t} : /\ pc'[s] = pc[s] /\ saved'[s] = saved[s]
                                /\ rd'[s] = rd[s] /\ got'[s] = got[s] /\ seen'[s] = seen[s],
         Progress(t)', Checked(t)', FreshRead(t)', PendingNonNegative(t)'
  PROVE  IInv'
<1>1. ASSUME NEW s \in Tasks \ {t}
      PROVE  Progress(s)' /\ Checked(s)' /\ FreshRead(s)' /\ PendingNonNegative(s)'
  <2>1. Progress(s) /\ Checked(s) /\ FreshRead(s) /\ PendingNonNegative(s)
    BY DEF IInv
  <2>2. Progress(s)'
    BY <2>1 DEF Progress, Active
  <2>3. FreshRead(s)'
    BY <2>1 DEF FreshRead, Active
  <2>4. Effect(s)' = Effect(s)
    BY DEF Effect
  <2>5. PendingNonNegative(s)' /\ Checked(s)'
    BY <2>1, <2>4 DEF PendingNonNegative, NewBalance, Checked
  <2> QED
    BY <2>2, <2>3, <2>5
<1>2. NonNegative' /\ BooksBalance' /\ RefundOnceUnlessRaced'
  BY DEF IInv, NonNegative, BooksBalance, RefundOnceUnlessRaced
<1> QED
  BY <1>1, <1>2 DEF IInv

\* A step that moves t's program counter and touches neither reads nor writes.
LEMMA MoveStep ==
  ASSUME Typed, IInv, NEW t \in Tasks, NEW step, Active(t), Goto(t, step),
         UNCHANGED <<store, local, saved>>, Progress(t)', Checked(t)'
  PROVE  IInv'
<1>1. FreshRead(t)'
  BY DEF IInv, FreshRead, Active, store, local
<1>2. PendingNonNegative(t)'
  BY DEF IInv, PendingNonNegative, NewBalance, Effect, local
<1>3. \A s \in Tasks \ {t} : pc'[s] = pc[s]
  BY DEF Goto, Typed, TypeOK
<1> QED
  BY <1>1, <1>2, <1>3, LocalStep DEF store, local

LEMMA RollbackStep ==
  ASSUME Typed, IInv, NEW t \in Tasks, handleTransactionRollback(t)
  PROVE  IInv'
<1> USE DEF Typed, TypeOK
<1>1. pc'[t] = "aborted" /\ saved'[t] = {}
  BY DEF handleTransactionRollback, Goto
<1>2. \A s \in Tasks \ {t} : pc'[s] = pc[s] /\ saved'[s] = saved[s]
  BY DEF handleTransactionRollback, Goto
<1>3. Progress(t)'
  BY <1>1 DEF handleTransactionRollback, IInv, Progress, Active, local
<1>4. Checked(t)' /\ FreshRead(t)' /\ PendingNonNegative(t)'
  BY <1>1 DEF Checked, FreshRead, PendingNonNegative, Active
<1>5. UNCHANGED <<balance, posted, offbook, order, refunds, stale, op, missed, rd, got, seen>>
  BY DEF handleTransactionRollback, store, local
<1> QED
  BY <1>2, <1>3, <1>4, <1>5, LocalStep

LEMMA SaveStep ==
  ASSUME Typed, IInv, NEW t \in Tasks, NEW x \in Users \cup Orders, save(t, x)
  PROVE  IInv'
<1> USE DEF Typed, TypeOK
<1>1. CASE handleTransactionRollback(t)
  BY <1>1, RollbackStep
<1>2. CASE ~handleTransactionRollback(t)
  <2>1. /\ saved' = [saved EXCEPT ![t] = @ \cup {x}]
        /\ Goto(t, IF Targets(op[t]) \subseteq saved[t] \cup {x}
                   THEN AfterSave(op[t]) ELSE "save")
        /\ UNCHANGED <<store, local, outside, notified>>
        /\ x \in Users => NewBalance(t, x) >= 0
    BY <1>2 DEF save, SatisfiesCheck
  <2>2. x \in Targets(op[t]) /\ pc[t] = "save"
    BY DEF save, NextSaves
  <2>3. UNCHANGED <<balance, posted, offbook, order, refunds, stale, op, missed, rd, got, seen>>
    BY <2>1 DEF store, local
  <2>4. saved'[t] = saved[t] \cup {x}
    BY <2>1
  <2>5. pc'[t] = IF Targets(op[t]) \subseteq saved[t] \cup {x}
                 THEN AfterSave(op[t]) ELSE "save"
    BY <2>1 DEF Goto
  <2>6. \A s \in Tasks \ {t} : pc'[s] = pc[s] /\ saved'[s] = saved[s]
    BY <2>1 DEF Goto
  <2>7. AfterSave(op[t]) \in {"outside", "notify", "commit"}
    BY DEF AfterSave
  <2>8. Progress(t)'
    <3>1. Progress(t)
      BY DEF IInv
    <3> QED
      BY <2>2, <2>3, <2>4, <2>5, <2>7, <3>1 DEF Progress, Active
  <2>9. FreshRead(t)'
    BY <2>2, <2>3 DEF IInv, FreshRead, Active
  <2>10. Effect(t)' = Effect(t)
    BY <2>3 DEF Effect
  <2>11. Checked(t)'
    BY <2>2, <2>3, <2>10 DEF IInv, Checked
  <2>12. PendingNonNegative(t)'
    <3>1. PendingNonNegative(t)
      BY DEF IInv
    <3>2. \A u : NewBalance(t, u)' = NewBalance(t, u)
      BY <2>3, <2>10 DEF NewBalance
    <3> QED
      BY <2>1, <2>4, <3>1, <3>2 DEF PendingNonNegative
  <2> QED
    BY <2>3, <2>6, <2>8, <2>9, <2>11, <2>12, LocalStep
<1> QED
  BY <1>1, <1>2

LEMMA ReadStep ==
  ASSUME Typed, IInv, NEW t \in Tasks, NEW u \in Users, findWalletByUserId(t, u)
  PROVE  IInv'
<1> USE DEF Typed, TypeOK
<1>1. /\ rd'[t] = [rd[t] EXCEPT ![u] = balance[u]]
      /\ got'[t] = got[t] \cup {u}
      /\ pc'[t] = IF Wallets(op[t]) \subseteq got[t] \cup {u} THEN "check" ELSE "wallet"
  BY DEF findWalletByUserId, WalletRead, Goto
<1>2. \A s \in Tasks \ {t} : pc'[s] = pc[s] /\ rd'[s] = rd[s] /\ got'[s] = got[s]
  BY DEF findWalletByUserId, Goto
<1>3. UNCHANGED <<balance, posted, offbook, order, refunds, stale, op, missed, saved, seen>>
  BY DEF findWalletByUserId, store
<1>4. u \in Wallets(op[t]) /\ pc[t] = "wallet"
  BY DEF findWalletByUserId
<1>5. Progress(t) /\ FreshRead(t) /\ saved[t] = {}
  BY <1>4 DEF IInv, Progress
<1>6. u \in Targets(op[t])
  BY <1>4 DEF Targets
<1>7. Progress(t)'
  BY <1>1, <1>3, <1>4, <1>5, <1>6 DEF Progress, Active
<1>8. FreshRead(t)'
  <2>1. u \notin Orders
    BY WalletAssumption
  <2> QED
    BY <1>1, <1>3, <1>4, <1>5, <2>1 DEF FreshRead, Active
<1>9. PendingNonNegative(t)' /\ Checked(t)'
  BY <1>1, <1>3, <1>5 DEF PendingNonNegative, Checked
<1> QED
  BY <1>2, <1>3, <1>7, <1>8, <1>9, LocalStep

LEMMA OrderReadStep ==
  ASSUME Typed, IInv, NEW t \in Tasks, findOrder(t)
  PROVE  IInv'
<1> USE DEF Typed, TypeOK
<1>1. CASE ~Found(order[op[t].order])
  BY <1>1, RollbackStep DEF findOrder
<1>2. CASE Found(order[op[t].order])
  <2> DEFINE o == op[t].order
  <2>1. /\ pc'[t] = IF op[t].kind = "processRechargeSuccess" THEN "row" ELSE "wallet"
        /\ seen'[t] = order[o] /\ got'[t] = got[t] \cup {o}
        /\ \A s \in Tasks \ {t} : pc'[s] = pc[s] /\ seen'[s] = seen[s] /\ got'[s] = got[s]
    BY <1>2 DEF findOrder, Goto
  <2>2. UNCHANGED <<balance, posted, offbook, order, refunds, stale, op, missed, rd, saved>>
    BY <1>2 DEF findOrder, store
  <2>3. pc[t] = "order"
    BY DEF findOrder
  <2>4. Progress(t) /\ saved[t] = {} /\ got[t] = {}
    BY <2>3 DEF IInv, Progress
  <2>5. o \in Targets(op[t]) /\ o \in Orders /\ Targets(op[t]) \cap Orders = {o}
    BY <2>3, TargetsOfCall, WalletAssumption DEF CallbackSteps
  <2>6. op[t].kind = "processRechargeSuccess" => Wallets(op[t]) = {}
    BY DEF Wallets
  <2>7. Progress(t)'
    BY <2>1, <2>2, <2>4, <2>5, <2>6 DEF Progress, Active
  <2>8. FreshRead(t)'
    <3>1. got'[t] = {o} /\ o \notin Users
      BY <2>1, <2>4, <2>5, WalletAssumption
    <3> QED
      BY <1>2, <2>1, <2>2, <3>1 DEF FreshRead, Found
  <2>9. PendingNonNegative(t)' /\ Checked(t)'
    BY <2>1, <2>2, <2>4 DEF PendingNonNegative, Checked
  <2> QED
    BY <2>1, <2>2, <2>7, <2>8, <2>9, LocalStep
<1> QED
  BY <1>1, <1>2

LEMMA CheckStep ==
  ASSUME Typed, IInv, NEW t \in Tasks, check(t)
  PROVE  IInv'
<1>1. CASE handleTransactionRollback(t)
  BY <1>1, RollbackStep
<1>2. CASE ~handleTransactionRollback(t)
  <2>1. /\ Goto(t, AfterCheck(op[t]))
        /\ UNCHANGED <<store, local, saved, outside, notified>>
        /\ pc[t] = "check"
        /\ Effect(t).guard
    BY <1>2 DEF check
  <2>2. pc'[t] = AfterCheck(op[t])
    BY <2>1 DEF Goto, Typed, TypeOK
  <2>3. Progress(t)
    BY DEF IInv
  <2>4. Progress(t)'
    BY <2>1, <2>2, <2>3 DEF Progress, AfterCheck, Active, local
  <2>5. Checked(t)'
    BY <2>1 DEF Checked, Effect, local
  <2> QED
    BY <2>1, <2>4, <2>5, MoveStep DEF Active
<1> QED
  BY <1>1, <1>2

LEMMA RowReadStep ==
  ASSUME Typed, IInv, NEW t \in Tasks, findTransaction(t)
  PROVE  IInv'
<1>1. CASE handleTransactionRollback(t)
  BY <1>1, RollbackStep
<1>2. CASE ~handleTransactionRollback(t)
  <2>1. /\ Goto(t, "save")
        /\ UNCHANGED <<store, local, saved, outside, notified>>
        /\ pc[t] = "row"
    BY <1>2 DEF findTransaction
  <2>2. pc'[t] = "save"
    BY <2>1 DEF Goto, Typed, TypeOK
  <2>3. Progress(t) /\ Checked(t)
    BY DEF IInv
  <2>4. Progress(t)'
    BY <2>1, <2>2, <2>3 DEF Progress, Active, local
  <2>5. Checked(t)'
    BY <2>1, <2>3 DEF Checked, Effect, local
  <2> QED
    BY <2>1, <2>4, <2>5, MoveStep DEF Active
<1> QED
  BY <1>1, <1>2

LEMMA OutsideStep ==
  ASSUME Typed, IInv, NEW t \in Tasks, writeOutside(t)
  PROVE  IInv'
<1>1. /\ Goto(t, AfterOutside(op[t]))
      /\ UNCHANGED <<store, local, saved, notified>>
      /\ pc[t] = "outside"
  BY DEF writeOutside
<1>2. pc'[t] = AfterOutside(op[t])
  BY <1>1 DEF Goto, Typed, TypeOK
<1>3. Progress(t) /\ Checked(t)
  BY DEF IInv
<1>4. Progress(t)'
  BY <1>1, <1>2, <1>3 DEF Progress, AfterOutside, Active, local
<1>5. Checked(t)'
  BY <1>1, <1>3 DEF Checked, Effect, local
<1> QED
  BY <1>1, <1>4, <1>5, MoveStep DEF Active

LEMMA NotifyStep ==
  ASSUME Typed, IInv, NEW t \in Tasks, notify(t) \/ referralNotifyFails(t)
  PROVE  IInv'
<1>1. /\ Goto(t, "commit")
      /\ UNCHANGED <<store, local, saved, outside>>
      /\ pc[t] = "notify"
  BY DEF notify, referralNotifyFails
<1>2. pc'[t] = "commit"
  BY <1>1 DEF Goto, Typed, TypeOK
<1>3. Progress(t) /\ Checked(t)
  BY DEF IInv
<1>4. Progress(t)'
  BY <1>1, <1>2, <1>3 DEF Progress, Active, local
<1>5. Checked(t)'
  BY <1>1, <1>3 DEF Checked, Effect, local
<1> QED
  BY <1>1, <1>4, <1>5, MoveStep DEF Active

\* The order of a recharge may land at any time: no callback has read it yet.
LEMMA PlaceStep ==
  ASSUME Typed, IInv, NEW o \in Orders, saveRechargeOrder(o)
  PROVE  IInv'
<1> USE DEF Typed, TypeOK
<1>1. /\ UNCHANGED <<balance, posted, offbook, refunds, stale, op, missed,
                     pc, saved, rd, got, seen>>
      /\ order' = [order EXCEPT ![o] = "PENDING"] /\ order[o] = "NONE"
  BY DEF saveRechargeOrder, local
<1>2. ASSUME NEW t \in Tasks
      PROVE  Progress(t)' /\ Checked(t)' /\ FreshRead(t)' /\ PendingNonNegative(t)'
  <2>1. Progress(t) /\ Checked(t) /\ FreshRead(t) /\ PendingNonNegative(t)
    BY DEF IInv
  <2>2. Effect(t)' = Effect(t)
    BY <1>1 DEF Effect
  <2>3. FreshRead(t)'
    BY <1>1, <2>1 DEF FreshRead, Active
  <2>4. Progress(t)' /\ Checked(t)'
    BY <1>1, <2>1, <2>2 DEF Progress, Checked, Active
  <2>5. PendingNonNegative(t)'
    BY <1>1, <2>1, <2>2 DEF PendingNonNegative, NewBalance
  <2> QED
    BY <2>3, <2>4, <2>5
<1>3. NonNegative' /\ BooksBalance' /\ RefundOnceUnlessRaced'
  BY <1>1 DEF IInv, NonNegative, BooksBalance, RefundOnceUnlessRaced
<1> QED
  BY <1>2, <1>3 DEF IInv

\* When t commits, exactly the rows its handler targets are written; each
\* wallet gets the balance t read plus the handler's change, and what no other
\* commit has passed is what t read.
LEMMA CommitWrites ==
  ASSUME Typed, IInv, NEW t \in Tasks, commit(t)
  PROVE  /\ saved[t] = Targets(op[t])
         /\ \A u \in Wallets(op[t]) : balance'[u] = NewBalance(t, u)
         /\ \A u \in Users \ Wallets(op[t]) : balance'[u] = balance[u]
         /\ \A u \in Wallets(op[t]) \ missed[t] : rd[t][u] = balance[u]
         /\ \A o \in Targets(op[t]) \cap Orders :
              seen[t] # "NONE" /\ (o \notin missed[t] => seen[t] = order[o])
<1> USE DEF Typed, TypeOK
<1>1. Wallets(op[t]) \subseteq Users /\ Targets(op[t]) \cap Users = Wallets(op[t])
  BY TargetsOfCall
<1>2. pc[t] = "commit" /\ Progress(t) /\ FreshRead(t)
  BY DEF commit, IInv
<1>3. saved[t] = Targets(op[t])
  BY <1>2 DEF Progress
<1>4. balance' = [u \in Users |-> IF u \in saved[t] THEN NewBalance(t, u) ELSE balance[u]]
  BY DEF commit
<1>5. \A u \in Users : u \in saved[t] <=> u \in Wallets(op[t])
  BY <1>1, <1>3
<1>6. Wallets(op[t]) \subseteq got[t] /\ Targets(op[t]) \cap Orders \subseteq got[t]
  BY <1>2 DEF Progress, Active
<1>7. /\ \A u \in (got[t] \cap Users) \ missed[t] : rd[t][u] = balance[u]
      /\ \A o \in got[t] \cap Orders :
           seen[t] # "NONE" /\ (o \notin missed[t] => seen[t] = order[o])
  BY <1>2 DEF FreshRead, Active
<1>8. \A u \in Wallets(op[t]) \ missed[t] : rd[t][u] = balance[u]
  BY <1>1, <1>6, <1>7
<1>9. \A o \in Targets(op[t]) \cap Orders :
        seen[t] # "NONE" /\ (o \notin missed[t] => seen[t] = order[o])
  BY <1>6, <1>7
<1> QED
  BY <1>1, <1>3, <1>4, <1>5, <1>8, <1>9

\* A refund that commits found the order PENDING.
LEMMA RefundSawPending ==
  ASSUME Typed, IInv, NEW t \in Tasks, pc[t] = "commit",
         op[t].kind = "processRechargeRefundPayment"
  PROVE  seen[t] = "PENDING"
<1>1. Effect(t).guard
  BY DEF IInv, Checked
<1>2. Effect(t) = processRechargeRefundPayment(op[t], seen[t])
  BY DEF Effect, Handler
<1>3. processRechargeRefundPayment(op[t], seen[t]).guard
        <=> op[t].amount >= 0 /\ seen[t] = "PENDING"
  BY DEF processRechargeRefundPayment
<1> QED
  BY <1>1, <1>2, <1>3

LEMMA CommitRefunds ==
  ASSUME Typed, IInv, NEW t \in Tasks, commit(t)
  PROVE  RefundOnceUnlessRaced'
<1> USE DEF Typed, TypeOK
<1> SUFFICES ASSUME NEW o \in Orders \ stale'
             PROVE  /\ refunds'[o] <= 1
                    /\ order'[o] \in {"NONE", "PENDING"} => refunds'[o] = 0
  BY DEF RefundOnceUnlessRaced
<1>1. /\ stale' = stale \cup (saved[t] \cap missed[t])
      /\ order'[o] = IF o \in saved[t] THEN CallbackStatus(op[t]) ELSE order[o]
      /\ refunds'[o] = refunds[o] +
           IF op[t].kind = "processRechargeRefundPayment" /\ o = op[t].order THEN 1 ELSE 0
      /\ pc[t] = "commit"
  BY DEF commit
<1>2. refunds[o] <= 1 /\ (order[o] \in {"NONE", "PENDING"} => refunds[o] = 0)
  BY <1>1 DEF IInv, RefundOnceUnlessRaced
<1>3. saved[t] = Targets(op[t])
  BY CommitWrites
<1>4. CASE o \notin saved[t]
  <2>1. ~(op[t].kind = "processRechargeRefundPayment" /\ o = op[t].order)
    BY <1>3, <1>4 DEF Targets, OrderCallbacks
  <2> QED
    BY <1>1, <1>2, <1>4, <2>1
<1>5. CASE o \in saved[t]
  <2>1. o \notin missed[t]
    BY <1>1, <1>5
  <2>2. seen[t] = order[o]
    BY <1>3, <1>5, <2>1, CommitWrites
  <2>3. order'[o] \notin {"NONE", "PENDING"}
    BY <1>1, <1>5 DEF CallbackStatus
  <2>4. op[t].kind = "processRechargeRefundPayment" => refunds[o] = 0
    BY <1>1, <1>2, <2>2, RefundSawPending
  <2> QED
    BY <1>1, <1>2, <2>3, <2>4
<1> QED
  BY <1>4, <1>5

LEMMA CommitBooks ==
  ASSUME Typed, IInv, NEW t \in Tasks, commit(t)
  PROVE  NonNegative' /\ BooksBalance'
<1> USE DEF Typed, TypeOK
<1> DEFINE o == op[t]
           e == Effect(t)
<1>1. /\ saved[t] = Targets(o)
      /\ \A u \in Wallets(o) : balance'[u] = NewBalance(t, u)
      /\ \A u \in Users \ Wallets(o) : balance'[u] = balance[u]
      /\ \A u \in Wallets(o) \ missed[t] : rd[t][u] = balance[u]
  BY CommitWrites
<1>2. Sound(e, o)
  BY EffectProfile
<1>3. PendingNonNegative(t) /\ NonNegative /\ BooksBalance
  BY DEF IInv
<1>4. \A u \in Wallets(o) : u \in saved[t] /\ u \in Users
  BY <1>1, TargetsOfCall
<1>5. NonNegative'
  BY <1>1, <1>3, <1>4 DEF PendingNonNegative, NonNegative
<1>6. BooksBalance'
  <2> SUFFICES ASSUME NEW u \in Users \ stale'
               PROVE  balance'[u] = Opening[u] + posted'[u] + offbook'[u]
    BY DEF BooksBalance
  <2>1. /\ posted'[u] = posted[u] + e.post[u]
        /\ offbook'[u] = offbook[u] + OffLedger(o)[u]
        /\ stale' = stale \cup (saved[t] \cap missed[t])
    BY DEF commit
  <2>2. balance[u] = Opening[u] + posted[u] + offbook[u]
    BY <1>3, <2>1 DEF BooksBalance
  <2>3. e.delta[u] = e.post[u] + OffLedger(o)[u] /\ e.post[u] \in Int /\ OffLedger(o)[u] \in Int
    BY <1>2 DEF Sound
  <2>4. balance'[u] = balance[u] + e.delta[u]
    <3>1. CASE u \in Wallets(o)
      BY <1>1, <1>4, <2>1, <3>1 DEF NewBalance
    <3>2. CASE u \notin Wallets(o)
      BY <1>1, <1>2, <3>2 DEF Sound
    <3> QED
      BY <3>1, <3>2
  <2>5. Opening[u] \in Int /\ posted[u] \in Int /\ offbook[u] \in Int
    BY WalletAssumption
  <2> QED
    BY <2>1, <2>2, <2>3, <2>4, <2>5
<1> QED
  BY <1>5, <1>6

LEMMA CommitStep ==
  ASSUME Typed, IInv, NEW t \in Tasks, commit(t)
  PROVE  IInv'
<1> USE DEF Typed, TypeOK
<1>1. NonNegative' /\ BooksBalance' /\ RefundOnceUnlessRaced'
  BY CommitBooks, CommitRefunds
<1>2. /\ pc'[t] = "committed" /\ saved'[t] = {} /\ UNCHANGED <<op, seen, rd, got>>
      /\ \A s \in Tasks \ {t} :
           /\ pc'[s] = pc[s] /\ saved'[s] = saved[s]
           /\ missed'[s] = missed[s] \cup (got[s] \cap saved[t])
  BY DEF commit, Goto
<1>3. Progress(t)' /\ Checked(t)' /\ FreshRead(t)' /\ PendingNonNegative(t)'
  <2>1. Progress(t)
    BY DEF IInv
  <2> QED
    BY <1>2, <2>1 DEF Progress, Checked, FreshRead, PendingNonNegative, Active
<1>4. ASSUME NEW s \in Tasks \ {t}
      PROVE  Progress(s)' /\ Checked(s)' /\ FreshRead(s)' /\ PendingNonNegative(s)'
  <2>1. Progress(s) /\ Checked(s) /\ FreshRead(s) /\ PendingNonNegative(s)
    BY DEF IInv
  <2>2. Effect(s)' = Effect(s)
    BY <1>2 DEF Effect
  <2>3. Progress(s)' /\ Checked(s)'
    BY <1>2, <2>1, <2>2 DEF Progress, Checked, Active
  <2>4. FreshRead(s)'
    <3>1. \A u \in Users \ saved[t] : balance'[u] = balance[u]
      BY DEF commit
    <3>2. \A i \in Orders \ saved[t] : order'[i] = order[i]
      BY DEF commit
    <3> QED
      BY <1>2, <2>1, <3>1, <3>2 DEF FreshRead, Active
  <2>5. PendingNonNegative(s)'
    BY <1>2, <2>1, <2>2 DEF PendingNonNegative, NewBalance
  <2> QED
    BY <2>3, <2>4, <2>5
<1> QED
  BY <1>1, <1>3, <1>4 DEF IInv

LEMMA IInvNext == Typed /\ IInv /\ [Next]_vars => IInv'
<1> SUFFICES ASSUME Typed, IInv, [Next]_vars PROVE IInv'
  OBVIOUS
<1>1. CASE UNCHANGED vars
  BY <1>1 DEF IInv, Progress, Checked, FreshRead, Active, PendingNonNegative, NewBalance, Effect,
              NonNegative, BooksBalance, RefundOnceUnlessRaced, vars, store, local
<1>2. ASSUME NEW t \in Tasks, Step(t) \/ fail(t) \/ referralNotifyFails(t) PROVE IInv'
  BY <1>2, OrderReadStep, ReadStep, CheckStep, RowReadStep, OutsideStep, SaveStep,
     NotifyStep, CommitStep, RollbackStep DEF Step, fail, deadlockDetected
<1> QED
  BY <1>1, <1>2, PlaceStep DEF Next, Terminated

-----------------------------------------------------------------------------
(* What holds of every run.                                                *)

LEMMA InvariantHolds == Spec => [](Typed /\ IInv)
<1>1. Init => Typed /\ IInv
  BY TypedInit, IInvInit
<1>2. (Typed /\ IInv) /\ [Next]_vars => (Typed /\ IInv)'
  BY TypedNext, IInvNext
<1> QED
  BY <1>1, <1>2, PTL DEF Spec

\* No interleaving of any calls, rollbacks and lost updates commits a negative
\* wallet balance: the handlers' guards may see an old balance, the CHECK
\* constraint of wallet.entity.ts sees the one that is written.
THEOREM NonNegativeHolds == Spec => []NonNegative
<1>1. Typed /\ IInv => NonNegative
  BY DEF IInv
<1> QED
  BY <1>1, InvariantHolds, PTL

\* Wallet and transactions rows agree, up to the refunds and fees that have no
\* row, for every wallet that no handler has overwritten from a stale read.
THEOREM BooksBalanceHolds == Spec => []BooksBalance
<1>1. Typed /\ IInv => BooksBalance
  BY DEF IInv
<1> QED
  BY <1>1, InvariantHolds, PTL

\* Only commit(t) takes t from "commit" to "committed".
LEMMA OnlyCommitCommits ==
  ASSUME Typed, Next, NEW t \in Tasks, pc[t] = "commit", pc'[t] = "committed"
  PROVE  commit(t)
<1> USE DEF Typed, TypeOK
<1>1. ASSUME NEW o \in Orders, saveRechargeOrder(o) PROVE FALSE
  BY <1>1 DEF saveRechargeOrder
<1>2. CASE Terminated
  BY <1>2 DEF Terminated, vars
<1>3. ASSUME NEW s \in Tasks, Step(s) \/ fail(s) \/ referralNotifyFails(s) PROVE commit(t)
  <2>1. ASSUME handleTransactionRollback(s) PROVE FALSE
    BY <2>1 DEF handleTransactionRollback, Goto
  <2>2. \E step : pc' = [pc EXCEPT ![s] = step]
    BY <1>3, <2>1 DEF Step, findOrder, findWalletByUserId, check, findTransaction,
       writeOutside, save, notify, commit, deadlockDetected, fail, referralNotifyFails, Goto
  <2>3. s = t
    BY <2>2
  <2>4. commit(s)
    BY <1>3, <2>1, <2>3 DEF Step, findOrder, findWalletByUserId, check, findTransaction,
       writeOutside, save, notify, deadlockDetected, fail, referralNotifyFails
  <2> QED
    BY <2>3, <2>4
<1> QED
  BY <1>1, <1>2, <1>3 DEF Next

\* An order that no callback settled from an outdated read is refunded at most
\* once, whatever mix of SUCCESS and FAILED callbacks arrives.
THEOREM RefundOnceHolds == Spec => []RefundOnceUnlessRaced
<1>1. Typed /\ IInv => RefundOnceUnlessRaced
  BY DEF IInv
<1> QED
  BY <1>1, InvariantHolds, PTL

\* The row of a handler with one party, no charges and no fee carries the balance
\* its wallet gets.
LEMMA RowsFollow ==
  ASSUME NEW o \in Operations, NEW bal \in [Users -> Int], NEW status \in Statuses,
         o.kind \notin {"processFundTransfer", "handleReferrelBonus"},
         o.charges = 0, o.fee = 0,
         NEW u \in Handler(o, bal, status).rows
  PROVE  /\ u \in Wallets(o) /\ u \in Users
         /\ Handler(o, bal, status).after[u] = bal[u] + Handler(o, bal, status).delta[u]
<1> USE DEF Handler, Wallets, At, Nothing
<1>0. o \in Ops
  BY WalletAssumption
<1>1. CASE o.kind \in {"adminCredit", "adminDebit"}
  BY <1>0, <1>1 DEF Ops, UpdateMoneyToWallet, SingleEntry
<1>2. CASE o.kind \in {"debitMyAccount", "debitAmountOnCardTransaction"}
  BY <1>0, <1>2 DEF Ops, debitMyAccount, debitAmountOnCardTransaction, SingleEntry
<1>3. CASE o.kind = "processPaymentGatewaySuccess"
  BY <1>0, <1>3 DEF Ops, processPaymentGatewaySuccess, SingleEntry
<1>4. CASE o.kind \in {"processLoanPayment", "handleCoinRedeem"}
  BY <1>0, <1>4 DEF Ops, processLoanPayment, handleCoinRedeem, SingleEntry
<1>5. CASE o.kind \in {"processRechargePayment", "processRechargePaymentNew"}
  BY <1>0, <1>5 DEF Ops, processRechargePayment, processRechargePaymentNew, Payment
<1>6. CASE o.kind \in OrderCallbacks
  BY <1>0, <1>6 DEF Ops, OrderCallbacks, processRechargeRefundPayment, processRechargeSuccess
<1> QED
  BY <1>0, <1>1, <1>2, <1>3, <1>4, <1>5, <1>6
  DEF Ops, Kinds, Credits, Debits, Payments, OrderCallbacks

\* A commit that no other commit has passed since the handler read its wallets
\* changes each of them by exactly the handler's intended amount, and a simple
\* row shows what the wallet then holds.
THEOREM FreshCommitHolds == Spec => FreshCommit
<1> DEFINE Exact(t) ==
      /\ \A u \in Wallets(op[t]) \ missed[t] : balance'[u] = balance[u] + Effect(t).delta[u]
      /\ op[t].kind \notin {"processFundTransfer", "handleReferrelBonus"}
         /\ op[t].charges = 0 /\ op[t].fee = 0 =>
           \A u \in Effect(t).rows \ missed[t] : shown'[u] = balance'[u]
<1>1. Typed /\ IInv /\ [Next]_vars =>
        [\A t \in Tasks : pc[t] = "commit" /\ pc'[t] = "committed" => Exact(t)]_vars
  <2> SUFFICES ASSUME Typed, IInv, Next, NEW t \in Tasks,
                      pc[t] = "commit", pc'[t] = "committed"
               PROVE  Exact(t)
    OBVIOUS
  <2>1. commit(t)
    BY OnlyCommitCommits
  <2>2. \A u \in Wallets(op[t]) \ missed[t] : balance'[u] = balance[u] + Effect(t).delta[u]
    BY <2>1, CommitWrites DEF NewBalance
  <2>3. ASSUME op[t].kind \notin {"processFundTransfer", "handleReferrelBonus"},
               op[t].charges = 0, op[t].fee = 0, NEW u \in Effect(t).rows \ missed[t]
        PROVE  shown'[u] = balance'[u]
    <3>1. op[t] \in Operations /\ rd[t] \in [Users -> Int] /\ seen[t] \in Statuses
      BY DEF Typed, TypeOK
    <3>2. u \in Wallets(op[t]) /\ u \in Users /\ Effect(t).after[u] = NewBalance(t, u)
      BY <2>3, <3>1, RowsFollow DEF Effect, NewBalance
    <3>3. u \in saved[t]
      BY <2>1, <3>2 DEF IInv, Progress, Targets, commit
    <3>4. shown'[u] = Effect(t).after[u] /\ balance'[u] = NewBalance(t, u)
      BY <2>1, <2>3, <3>2, <3>3 DEF commit
    <3> QED
      BY <3>2, <3>4
  <2> QED
    BY <2>2, <2>3
<1> QED
  BY <1>1, InvariantHolds, PTL DEF Spec, FreshCommit

-----------------------------------------------------------------------------
(* The order of effects: a debit before its callback, what is done outside *)
(* before the commit.                                                      *)

\* A step of an active task t leaves the debits that are committed.
LEMMA DebitedStays ==
  ASSUME Typed, NEW t \in Tasks, pc[t] # "committed", op' = op,
         \A s \in Tasks \ {t} : pc'[s] = pc[s]
  PROVE  \A o \in Orders : Debited(o) => Debited(o)'
BY DEF Debited

\* A step of t that leaves orders, rows and refunds alone.
LEMMA InOrderLocal ==
  ASSUME Typed, InOrder, NEW t \in Tasks, pc[t] # "committed",
         UNCHANGED <<op, order, row, refunds>>,
         outside \subseteq outside', notified \subseteq notified',
         \A s \in Tasks \ {t} : pc'[s] = pc[s],
         Reached(t)'
  PROVE  InOrder'
<1>1. \A o \in Orders : Debited(o) => Debited(o)'
  BY DebitedStays
<1>2. ASSUME NEW s \in Tasks \ {t} PROVE Reached(s)'
  BY DEF InOrder, Reached
<1>3. CallbackNeedsDebit'
  BY <1>1 DEF InOrder, CallbackNeedsDebit
<1>4. \A o \in Orders : row'[o] # "NONE" => Debited(o)'
  BY <1>1 DEF InOrder
<1> QED
  BY <1>2, <1>3, <1>4 DEF InOrder

LEMMA InOrderRollback ==
  ASSUME Typed, InOrder, NEW t \in Tasks, pc[t] # "committed", handleTransactionRollback(t)
  PROVE  InOrder'
<1>1. pc'[t] = "aborted" /\ \A s \in Tasks \ {t} : pc'[s] = pc[s]
  BY DEF handleTransactionRollback, Goto, Typed, TypeOK
<1>2. Reached(t)'
  BY <1>1 DEF Reached
<1> QED
  BY <1>1, <1>2, InOrderLocal DEF handleTransactionRollback, store, local

\* A step of t to its next place, with nothing else that matters here.
LEMMA InOrderGoto ==
  ASSUME Typed, InOrder, NEW t \in Tasks, pc[t] # "committed", NEW step, Goto(t, step),
         UNCHANGED <<op, order, row, refunds>>,
         outside \subseteq outside', notified \subseteq notified',
         AddsCoins(op[t]) /\ step \in {"notify", "commit"} => t \in outside',
         SavesOrder(op[t]) /\ step \in {"save", "notify", "commit"} => t \in outside',
         Notifies(op[t]) /\ ~(t \in Faulty /\ SavesOrder(op[t])) /\ step = "commit"
           => t \in notified',
         op[t].kind \in OrderCallbacks /\ step \in {"save", "notify", "commit"}
           => row[op[t].order] # "NONE",
         step = "outside" => op[t].kind \notin OrderCallbacks,
         step # "committed"
  PROVE  InOrder'
<1>1. pc'[t] = step /\ \A s \in Tasks \ {t} : pc'[s] = pc[s]
  BY DEF Goto, Typed, TypeOK
<1>2. Reached(t)'
  BY <1>1 DEF Reached
<1> QED
  BY <1>1, <1>2, InOrderLocal

\* A commit: a callback settles an order whose row it has found, any other call
\* at most stores the row of its own debit.
LEMMA InOrderCommit ==
  ASSUME Typed, IInv, InOrder, NEW t \in Tasks, commit(t)
  PROVE  InOrder'
<1>1. /\ pc[t] = "commit" /\ pc'[t] = "committed" /\ \A s \in Tasks \ {t} : pc'[s] = pc[s]
      /\ op' = op /\ outside' = outside /\ notified' = notified
  BY DEF commit, Goto, Typed, TypeOK
<1>2. \A o \in Orders : Debited(o) => Debited(o)'
  BY <1>1, DebitedStays
<1>3. \A o \in Orders : o \in saved[t] <=> op[t].kind \in OrderCallbacks /\ o = op[t].order
  BY CommitWrites, TargetsOfCall DEF Typed
<1>4. \A o \in Orders :
        /\ row'[o] = IF o \in saved[t] THEN CallbackStatus(op[t])
                     ELSE IF DebitsOrder(op[t]) /\ o = op[t].order THEN "PENDING" ELSE row[o]
        /\ order'[o] = IF o \in saved[t] THEN CallbackStatus(op[t]) ELSE order[o]
        /\ refunds'[o] = refunds[o] +
             IF op[t].kind = "processRechargeRefundPayment" /\ o = op[t].order THEN 1 ELSE 0
        /\ refunds[o] \in Nat
  BY DEF commit, Typed, TypeOK
<1>5. CallbackStatus(op[t]) # "NONE"
  BY DEF CallbackStatus
<1>6. \A o \in Orders : row[o] # "NONE" => row'[o] # "NONE"
  BY <1>4, <1>5
<1>7. ASSUME NEW s \in Tasks PROVE Reached(s)'
  <2>1. Reached(s) /\ (op[s].kind \in OrderCallbacks => op[s].order \in Orders)
    BY TargetsOfCall DEF InOrder, Typed
  <2>2. CASE s = t
    BY <2>1, <2>2, <1>1 DEF Reached
  <2>3. CASE s # t
    BY <2>1, <2>3, <1>1, <1>6 DEF Reached
  <2> QED
    BY <2>2, <2>3
<1>8. \A o \in saved[t] \cap Orders : Debited(o)
  BY <1>1, <1>3 DEF InOrder, Reached
<1>9. \A o \in Orders : DebitsOrder(op[t]) /\ o = op[t].order => Debited(o)'
  BY <1>1 DEF Debited
<1>10. ASSUME NEW o \in Orders, row'[o] # "NONE" PROVE Debited(o)'
  BY <1>10, <1>2, <1>4, <1>8, <1>9 DEF InOrder
<1>11. ASSUME NEW o \in Orders, refunds'[o] > 0 \/ order'[o] \in {"SUCCESS", "FAILED"}
       PROVE  Debited(o)'
  <2>1. CASE o \in saved[t]
    BY <2>1, <1>2, <1>8
  <2>2. CASE o \notin saved[t]
    <3>1. order'[o] = order[o] /\ refunds'[o] = refunds[o]
      BY <2>2, <1>3, <1>4 DEF OrderCallbacks
    <3> QED
      BY <3>1, <1>11, <1>2 DEF InOrder, CallbackNeedsDebit
  <2> QED
    BY <2>1, <2>2
<1> QED
  BY <1>7, <1>10, <1>11 DEF InOrder, CallbackNeedsDebit

LEMMA InOrderStep ==
  ASSUME Typed, IInv, InOrder, NEW t \in Tasks, Step(t) \/ fail(t) \/ referralNotifyFails(t)
  PROVE  InOrder'
<1> USE DEF store, local
<1>r. Reached(t) /\ op[t] \in Ops
  BY TargetsOfCall DEF InOrder, Typed
<1>1. CASE findOrder(t)
  BY <1>1, InOrderRollback, InOrderGoto DEF findOrder, OrderCallbacks
<1>2. ASSUME NEW u \in Users, findWalletByUserId(t, u) PROVE InOrder'
  BY <1>2, InOrderGoto DEF findWalletByUserId
<1>3. CASE check(t)
  BY <1>3, InOrderRollback, InOrderGoto DEF check, AfterCheck, SavesOrder, OrderCallbacks
<1>4. CASE findTransaction(t)
  <2>1. op[t].kind \in OrderCallbacks
    BY <1>4 DEF findTransaction, Typed, CallbackSteps
  <2>2. ~SavesOrder(op[t])
    BY <2>1 DEF OrderCallbacks, SavesOrder
  <2> QED
    BY <1>4, <2>1, <2>2, InOrderRollback, InOrderGoto DEF findTransaction, Found
<1>5. CASE writeOutside(t)
  <2>1. pc[t] = "outside" /\ op[t].kind \notin OrderCallbacks
    BY <1>5, <1>r DEF writeOutside, Reached
  <2> QED
    BY <1>5, <2>1, InOrderGoto DEF writeOutside, AfterOutside
<1>6. ASSUME NEW x \in Users \cup Orders, save(t, x) PROVE InOrder'
  <2>1. pc[t] = "save"
    BY <1>6 DEF save
  <2>2. CASE handleTransactionRollback(t)
    BY <2>1, <2>2, InOrderRollback
  <2>3. CASE Goto(t, "save") /\ UNCHANGED <<store, local, outside, notified>>
    BY <2>1, <2>3, <1>r, InOrderGoto DEF Reached
  <2>4. CASE Goto(t, AfterSave(op[t])) /\ UNCHANGED <<store, local, outside, notified>>
    <3>1. AddsCoins(op[t]) => op[t].kind \notin OrderCallbacks
      BY DEF OrderCallbacks, AddsCoins, Payments
    <3> QED
      BY <2>1, <2>4, <3>1, <1>r, InOrderGoto DEF Reached, AfterSave
  <2> QED
    BY <1>6, <2>2, <2>3, <2>4 DEF save
<1>7. CASE notify(t)
  BY <1>7, <1>r, InOrderGoto DEF notify, Reached
<1>8. CASE commit(t)
  BY <1>8, InOrderCommit
<1>9. CASE deadlockDetected(t)
  <2>1. pc[t] = "save"
    BY <1>9 DEF deadlockDetected, Deadlocked, WaitsFor
  <2> QED
    BY <2>1, <1>9, InOrderRollback DEF deadlockDetected
<1>10. CASE fail(t)
  BY <1>10, InOrderRollback DEF fail, Active
<1>11. CASE referralNotifyFails(t)
  BY <1>11, <1>r, InOrderGoto DEF referralNotifyFails, Reached, SavesOrder
<1> QED
  BY <1>1, <1>2, <1>3, <1>4, <1>5, <1>6, <1>7, <1>8, <1>9, <1>10, <1>11 DEF Step

LEMMA InOrderHolds == Spec => []InOrder
<1>1. Init => InOrder
  BY DEF Init, InOrder, Reached, FirstStep, CallbackNeedsDebit
<1>2. Typed /\ IInv /\ InOrder /\ [Next]_vars => InOrder'
  <2> SUFFICES ASSUME Typed, IInv, InOrder, [Next]_vars PROVE InOrder'
    OBVIOUS
  <2>1. ASSUME NEW o \in Orders, saveRechargeOrder(o) PROVE InOrder'
    <3>1. \A s \in Tasks : Reached(s)'
      BY <2>1 DEF saveRechargeOrder, local, InOrder, Reached
    <3>2. \A i \in Orders : Debited(i)' <=> Debited(i)
      BY <2>1 DEF saveRechargeOrder, local, Debited
    <3>3. \A i \in Orders : order'[i] \in {"SUCCESS", "FAILED"} => order'[i] = order[i]
      BY <2>1 DEF saveRechargeOrder, Typed, TypeOK
    <3> QED
      BY <2>1, <3>1, <3>2, <3>3 DEF saveRechargeOrder, InOrder, CallbackNeedsDebit
  <2>2. CASE UNCHANGED vars \/ Terminated
    BY <2>2 DEF Terminated, vars, store, local, InOrder, Reached, Debited, CallbackNeedsDebit
  <2> QED
    BY <2>1, <2>2, InOrderStep DEF Next
<1> QED
  BY <1>1, <1>2, InvariantHolds, PTL DEF Spec

\* Callbacks that overtake the debit they answer settle and refund nothing.
THEOREM CallbackNeedsDebitHolds == Spec => []CallbackNeedsDebit
BY InOrderHolds, PTL DEF InOrder

\* On no path does a handler commit before its coins, its order and its
\* notification are on their way.
THEOREM EffectsBeforeCommitHolds == Spec => []EffectsBeforeCommit
<1>1. InOrder => EffectsBeforeCommit
  BY DEF InOrder, Reached, EffectsBeforeCommit
<1> QED
  BY <1>1, InOrderHolds, PTL

-----------------------------------------------------------------------------
(* The profiles of Ledger are those of WalletService.                      *)

LEMMA SameProfiles ==
  ASSUME NEW o, NEW bal, NEW status
  PROVE  L!Handler(o, bal, status) = Handler(o, bal, status)
<1>0. L!Nothing = Nothing /\ \A u, a : L!At(u, a) = At(u, a)
  BY DEF L!Nothing, Nothing, L!At, At
<1>1. \A a, g : L!SingleEntry(o, a, bal, g) = SingleEntry(o, a, bal, g)
  BY <1>0 DEF L!SingleEntry, SingleEntry
<1>2. \A f : L!Payment(o, bal, f) = Payment(o, bal, f)
  BY <1>0 DEF L!Payment, Payment
<1>3. /\ L!UpdateMoneyToWallet(o, bal) = UpdateMoneyToWallet(o, bal)
      /\ L!debitMyAccount(o, bal) = debitMyAccount(o, bal)
      /\ L!debitAmountOnCardTransaction(o, bal) = debitAmountOnCardTransaction(o, bal)
      /\ L!processPaymentGatewaySuccess(o, bal) = processPaymentGatewaySuccess(o, bal)
      /\ L!processLoanPayment(o, bal) = processLoanPayment(o, bal)
      /\ L!handleCoinRedeem(o, bal) = handleCoinRedeem(o, bal)
  BY <1>1 DEF L!UpdateMoneyToWallet, UpdateMoneyToWallet, L!debitMyAccount, debitMyAccount,
     L!debitAmountOnCardTransaction, debitAmountOnCardTransaction,
     L!processPaymentGatewaySuccess, processPaymentGatewaySuccess,
     L!processLoanPayment, processLoanPayment, L!handleCoinRedeem, handleCoinRedeem
<1>4. /\ L!processRechargePayment(o, bal) = processRechargePayment(o, bal)
      /\ L!processRechargePaymentNew(o, bal) = processRechargePaymentNew(o, bal)
  BY <1>2 DEF L!processRechargePayment, processRechargePayment,
     L!processRechargePaymentNew, processRechargePaymentNew
<1>5. /\ L!processFundTransfer(o, bal) = processFundTransfer(o, bal)
      /\ L!handleReferrelBonus(o, bal) = handleReferrelBonus(o, bal)
  BY DEF L!processFundTransfer, processFundTransfer, L!handleReferrelBonus, handleReferrelBonus
<1>6. /\ L!processRechargeRefundPayment(o, status) = processRechargeRefundPayment(o, status)
      /\ L!processRechargeSuccess = processRechargeSuccess
  BY <1>0 DEF L!processRechargeRefundPayment, processRechargeRefundPayment,
     L!processRechargeSuccess, processRechargeSuccess
<1> QED
  BY <1>3, <1>4, <1>5, <1>6 DEF L!Handler, Handler

LEMMA SameRows ==
  ASSUME NEW o
  PROVE  /\ L!Targets(o) = Targets(o)
         /\ L!OffLedger(o) = OffLedger(o)
         /\ L!CallbackStatus(o) = CallbackStatus(o)
         /\ L!DebitsOrder(o) = DebitsOrder(o)
         /\ L!OrderCallbacks = OrderCallbacks /\ L!Statuses = Statuses /\ L!Nothing = Nothing
<1>1. L!Wallets(o) = Wallets(o) /\ L!OrderCallbacks = OrderCallbacks
  BY DEF L!Wallets, Wallets, L!OrderCallbacks, OrderCallbacks
<1>2. L!Nothing = Nothing /\ \A u, a : L!At(u, a) = At(u, a)
  BY DEF L!Nothing, Nothing, L!At, At
<1> QED
  BY <1>1, <1>2 DEF L!Targets, Targets, L!OffLedger, OffLedger, L!CallbackStatus, CallbackStatus,
     L!DebitsOrder, DebitsOrder, L!Statuses, Statuses

\* What a handler changes and records does not depend on the balances it has
\* read; whether it goes ahead depends on those of the wallets it targets.
SameChange(h, g) == h.delta = g.delta /\ h.post = g.post
SameChecks(h, g) == h.guard => g.guard

LEMMA HandlerReads ==
  ASSUME NEW o \in Operations, NEW bal \in [Users -> Int], NEW other \in [Users -> Int],
         NEW status
  PROVE  /\ SameChange(Handler(o, bal, status), Handler(o, other, status))
         /\ (\A u \in Wallets(o) : other[u] = bal[u]) =>
              SameChecks(Handler(o, bal, status), Handler(o, other, status))
<1> USE DEF SameChange, SameChecks, Handler, Wallets
<1>0. o \in Ops
  BY WalletAssumption
<1>1. CASE o.kind \in {"adminCredit", "adminDebit"}
  BY <1>0, <1>1 DEF Ops, UpdateMoneyToWallet, SingleEntry
<1>2. CASE o.kind = "debitMyAccount"
  BY <1>0, <1>2 DEF Ops, debitMyAccount, SingleEntry
<1>3. CASE o.kind = "debitAmountOnCardTransaction"
  BY <1>0, <1>3 DEF Ops, debitAmountOnCardTransaction, SingleEntry
<1>4. CASE o.kind = "processPaymentGatewaySuccess"
  BY <1>0, <1>4 DEF Ops, processPaymentGatewaySuccess, SingleEntry
<1>5. CASE o.kind = "processLoanPayment"
  BY <1>0, <1>5 DEF Ops, processLoanPayment, SingleEntry
<1>6. CASE o.kind = "handleCoinRedeem"
  BY <1>0, <1>6 DEF Ops, handleCoinRedeem, SingleEntry
<1>7. CASE o.kind = "processRechargePayment"
  BY <1>0, <1>7 DEF Ops, processRechargePayment, Payment
<1>8. CASE o.kind = "processRechargePaymentNew"
  BY <1>0, <1>8 DEF Ops, processRechargePaymentNew, Payment
<1>9. CASE o.kind = "processFundTransfer"
  BY <1>0, <1>9 DEF Ops, processFundTransfer
<1>10. CASE o.kind = "handleReferrelBonus"
  BY <1>0, <1>10 DEF Ops, handleReferrelBonus
<1>11. CASE o.kind = "processRechargeRefundPayment"
  BY <1>0, <1>11 DEF Ops, processRechargeRefundPayment
<1>12. CASE o.kind = "processRechargeSuccess"
  BY <1>0, <1>12 DEF Ops, processRechargeSuccess
<1> QED
  BY <1>0, <1>1, <1>2, <1>3, <1>4, <1>5, <1>6, <1>7, <1>8, <1>9, <1>10, <1>11, <1>12
  DEF Ops, Kinds, Credits, Debits, Payments, OrderCallbacks

LEMMA RefinesInit == Init => L!Init
<1> SUFFICES ASSUME Init PROVE L!Init
  OBVIOUS
<1>1. outcome = [t \in Tasks |-> "open"]
  BY DEF Init, outcome, FirstStep
<1> QED
  BY <1>1, SameRows DEF Init, L!Init

\* Steps that neither commit nor roll back are invisible.
LEMMA RefinesHidden ==
  ASSUME Typed, NEW t \in Tasks, NEW step, Active(t), Goto(t, step),
         step \notin {"committed", "aborted"}, UNCHANGED <<store, op>>
  PROVE  UNCHANGED L!vars
<1>1. \A s \in Tasks : (pc'[s] = pc[s] \/ s = t) /\ (s = t => pc'[s] = step)
  BY DEF Goto, Typed, TypeOK
<1>2. outcome' = outcome
  BY <1>1 DEF outcome, Active
<1> QED
  BY <1>2 DEF L!vars, L!books, store

\* A rollback drops the call.
LEMMA RefinesRollback ==
  ASSUME Typed, NEW t \in Tasks, Active(t), handleTransactionRollback(t)
  PROVE  L!Drop(t)
<1>1. \A s \in Tasks : pc'[s] = IF s = t THEN "aborted" ELSE pc[s]
  BY DEF handleTransactionRollback, Goto, Typed, TypeOK
<1>2. outcome[t] = "open" /\ outcome' = [outcome EXCEPT ![t] = "dropped"]
  BY <1>1 DEF outcome, Active
<1>3. UNCHANGED <<store, op>>
  BY DEF handleTransactionRollback, local
<1> QED
  BY <1>2, <1>3 DEF L!Drop, L!books, store

\* A commit settles the call, late on the rows that others have committed since
\* it read them.
LEMMA RefinesCommit ==
  ASSUME Typed, IInv, NEW t \in Tasks, commit(t)
  PROVE  L!Settle(t)
<1> USE DEF Typed, TypeOK
<1> DEFINE o == op[t]
           e == Effect(t)
           late == Targets(o) \cap missed[t]
           status == seen[t]
           h == Handler(o, balance, status)
           read == [u \in Users |-> IF u \in late THEN balance'[u] - h.delta[u] ELSE balance[u]]
<1>1. /\ saved[t] = Targets(o)
      /\ \A u \in Wallets(o) : balance'[u] = NewBalance(t, u)
      /\ \A u \in Users \ Wallets(o) : balance'[u] = balance[u]
      /\ \A u \in Wallets(o) \ missed[t] : rd[t][u] = balance[u]
      /\ \A i \in Targets(o) \cap Orders :
           status # "NONE" /\ (i \notin missed[t] => status = order[i])
  BY CommitWrites
<1>2. Sound(e, o)
  BY EffectProfile
<1>3. o \in Operations /\ balance \in [Users -> Int] /\ rd[t] \in [Users -> Int]
  OBVIOUS
<1>4. h.delta = e.delta /\ h.post = e.post
  <2>1. SameChange(Handler(o, rd[t], status), Handler(o, balance, status))
    BY <1>3, HandlerReads
  <2> QED
    BY <2>1 DEF SameChange, Effect
<1>5. Wallets(o) \subseteq Users /\ Targets(o) \cap Users = Wallets(o)
  BY TargetsOfCall
<1>6. \A u \in Users : u \in late => u \in Wallets(o) /\ read[u] = rd[t][u]
  <2> SUFFICES ASSUME NEW u \in Users, u \in late
               PROVE  u \in Wallets(o) /\ read[u] = rd[t][u]
    OBVIOUS
  <2>1. u \in Wallets(o)
    BY <1>5
  <2>2. balance'[u] = rd[t][u] + e.delta[u] /\ e.delta[u] \in Int /\ rd[t][u] \in Int
    BY <1>1, <1>2, <2>1 DEF NewBalance, Sound
  <2> QED
    BY <1>4, <2>1, <2>2
<1>7. \A u \in Users : u \notin late => read[u] = balance[u]
  OBVIOUS
<1>8. \A u \in Wallets(o) : read[u] = rd[t][u]
  BY <1>1, <1>5, <1>6, <1>7
<1>9. read \in [Users -> Int]
  BY <1>3, <1>6, <1>7
<1>10. \A u \in Users : balance'[u] = read[u] + e.delta[u]
  <2> SUFFICES ASSUME NEW u \in Users PROVE balance'[u] = read[u] + e.delta[u]
    OBVIOUS
  <2>1. CASE u \in Wallets(o)
    BY <1>1, <1>8, <2>1 DEF NewBalance
  <2>2. CASE u \notin Wallets(o)
    BY <1>1, <1>2, <1>5, <1>7, <2>2 DEF Sound
  <2> QED
    BY <2>1, <2>2
<1>11. Handler(o, read, status).guard
  <2>1. CASE o.kind = "processRechargeSuccess"
    BY <2>1 DEF Handler, processRechargeSuccess
  <2>2. CASE o.kind # "processRechargeSuccess"
    <3>1. Effect(t).guard
      BY <2>2 DEF IInv, Checked, commit
    <3> QED
      BY <1>3, <1>8, <1>9, <3>1, HandlerReads DEF SameChecks, Effect
  <2> QED
    BY <2>1, <2>2
<1>12. balance' \in [Users -> Nat]
  <2>1. Typed' /\ NonNegative'
    BY TypedCommit, CommitBooks
  <2> QED
    BY <2>1 DEF NonNegative
<1>13. o.kind \in OrderCallbacks => status # "NONE"
  BY <1>1, TargetsOfCall
<1>14. L!Record(o, e.post)
  BY <1>1, SameRows DEF L!Record, commit
<1>15. stale' = stale \cup late
  BY <1>1 DEF commit
<1>16. outcome[t] = "open" /\ outcome' = [outcome EXCEPT ![t] = "settled"] /\ UNCHANGED op
  <2>1. pc[t] = "commit" /\ UNCHANGED op
        /\ \A s \in Tasks : pc'[s] = IF s = t THEN "committed" ELSE pc[s]
    BY DEF commit, Goto
  <2> QED
    BY <2>1 DEF outcome
<1> HIDE DEF late, h, read, status, e
<1>17. /\ \A i \in (L!Targets(o) \cap Orders) \ late : status = order[i]
       /\ o.kind \in L!OrderCallbacks => status # "NONE"
       /\ late \in SUBSET L!Targets(o) /\ status \in L!Statuses
  <2>1. late \in SUBSET Targets(o) /\ status \in Statuses
        /\ \A i \in (Targets(o) \cap Orders) \ late : i \notin missed[t]
    BY DEF late, status
  <2> QED
    BY <1>1, <1>13, <2>1, SameRows
<1> DEFINE g == L!Handler(o, balance, status)
           back == [u \in Users |-> IF u \in late THEN balance'[u] - g.delta[u] ELSE balance[u]]
<1>18. g = h /\ back = read /\ L!Handler(o, back, status) = Handler(o, read, status)
  <2>1. g = h
    BY SameProfiles DEF h
  <2>2. back = read
    BY <2>1 DEF read
  <2> QED
    BY <2>1, <2>2, SameProfiles
<1>19. /\ L!Handler(o, back, status).guard
       /\ \A u \in Users : balance'[u] = back[u] + g.delta[u]
       /\ L!Record(o, g.post)
  BY <1>4, <1>10, <1>11, <1>14, <1>18
<1>20. \E lt \in SUBSET L!Targets(o), st \in L!Statuses :
         LET k == L!Handler(o, balance, st)
             r == [u \in Users |-> IF u \in lt THEN balance'[u] - k.delta[u] ELSE balance[u]]
         IN /\ \A i \in (L!Targets(o) \cap Orders) \ lt : st = order[i]
            /\ o.kind \in L!OrderCallbacks => st # "NONE"
            /\ L!Handler(o, r, st).guard
            /\ balance' \in [Users -> Nat]
            /\ \A u \in Users : balance'[u] = r[u] + k.delta[u]
            /\ L!Record(o, k.post)
            /\ stale' = stale \cup lt
  BY <1>12, <1>15, <1>17, <1>19, Zenon
<1> QED
  BY <1>16, <1>20 DEF L!Settle

-----------------------------------------------------------------------------
LEMMA RefinesStep == Typed /\ IInv /\ [Next]_vars => [L!Next]_L!vars
<1> SUFFICES ASSUME Typed, IInv, [Next]_vars PROVE [L!Next]_L!vars
  OBVIOUS
<1>1. CASE UNCHANGED vars
  BY <1>1 DEF vars, store, local, L!vars, L!books, outcome
<1>2. ASSUME NEW o \in Orders, saveRechargeOrder(o) PROVE L!Next
  <2>1. outcome' = outcome
    BY <1>2 DEF saveRechargeOrder, outcome
  <2> QED
    BY <1>2, <2>1 DEF saveRechargeOrder, local, L!Next, L!PlaceOrder
<1>3. ASSUME NEW t \in Tasks, handleTransactionRollback(t), Active(t) PROVE L!Next
  BY <1>3, RefinesRollback DEF L!Next
<1>4. ASSUME NEW t \in Tasks, commit(t) PROVE L!Next
  BY <1>4, RefinesCommit DEF L!Next
<1>5. ASSUME NEW t \in Tasks, ~handleTransactionRollback(t), ~commit(t),
             Step(t) \/ referralNotifyFails(t)
      PROVE  UNCHANGED L!vars
  <2>1. /\ \E step : Goto(t, step) /\ step \notin {"committed", "aborted"}
        /\ Active(t) /\ UNCHANGED <<store, op>>
    <3>1. CASE findOrder(t)
      BY <1>5, <3>1 DEF findOrder, Active
    <3>2. CASE \E u \in Users : findWalletByUserId(t, u)
      BY <3>2 DEF findWalletByUserId, Active
    <3>3. CASE check(t)
      BY <1>5, <3>3 DEF check, AfterCheck, Active, local
    <3>4. CASE findTransaction(t)
      BY <1>5, <3>4 DEF findTransaction, Active, local
    <3>5. CASE writeOutside(t)
      BY <3>5 DEF writeOutside, AfterOutside, Active, local
    <3>6. CASE \E x \in Users \cup Orders : save(t, x)
      BY <1>5, <3>6 DEF save, AfterSave, Active, local
    <3>7. CASE notify(t) \/ referralNotifyFails(t)
      BY <3>7 DEF notify, referralNotifyFails, Active, local
    <3> QED
      BY <1>5, <3>1, <3>2, <3>3, <3>4, <3>5, <3>6, <3>7 DEF Step, deadlockDetected
  <2> QED
    BY <2>1, RefinesHidden
<1>6. ASSUME NEW t \in Tasks, handleTransactionRollback(t),
             Step(t) \/ fail(t) \/ referralNotifyFails(t)
      PROVE  Active(t)
  BY <1>6 DEF Step, findOrder, findWalletByUserId, check, findTransaction, writeOutside, save,
     notify, commit, deadlockDetected, Deadlocked, WaitsFor, fail, referralNotifyFails, Active
<1> QED
  BY <1>1, <1>2, <1>3, <1>4, <1>5, <1>6 DEF Next, Terminated, fail

\* Every behaviour of the handlers is a behaviour of the atomic ledger: a call
\* settles as a whole when its transaction commits, is dropped without a trace
\* in the books when it rolls back, and can settle late only on rows that
\* another call has settled on since it read them.
THEOREM Refinement == Spec => ImplementsLedger
<1>1. Init => L!Init
  BY RefinesInit
<1>2. Typed /\ IInv /\ [Next]_vars => [L!Next]_L!vars
  BY RefinesStep
<1> QED
  BY <1>1, <1>2, InvariantHolds, PTL DEF Spec, ImplementsLedger, L!Spec
=============================================================================
