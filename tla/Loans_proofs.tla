---------------------------- MODULE Loans_proofs ----------------------------
(* Proofs about Loans: what is due follows the payments, and so does the    *)
(* status.                                                                  *)
EXTENDS Loans, LoanSchedule, WellFoundedInduction, TLAPS

USE LoansAssumption

\* The two columns after a payment: the part beyond the installment counts twice.
LEMMA Columns ==
  ASSUME NEW i \in Int, NEW o \in Int, NEW st, NEW amount \in Nat
  PROVE  LET s == [status |-> st, installment |-> i, overdue |-> o]
         IN  /\ NewOverdue(s, amount) \in Int /\ Extra(s, amount) \in Nat
             /\ (i - amount) + NewOverdue(s, amount) + amount + Extra(s, amount) = i + o
             /\ NewStatus(s, amount) \in LoanStatus
             /\ amount <= i + o => (NewStatus(s, amount) = "Paid" <=> amount = i + o)
BY DEF NewOverdue, Extra, NewStatus, LoanStatus

LEMMA OpFields ==
  ASSUME TypeOK, NEW t \in Tasks
  PROVE  /\ op[t].loan \in Loans
         /\ op[t] \in Payments => op[t].amount \in Nat /\ op[t].user \in Users
         /\ op[t] \in Updates => /\ op[t].status \in LoanStatus
                                 /\ op[t].installment \in Nat \cup {Keep}
                                 /\ op[t].overdue \in Nat \cup {Keep}
<1>1. op[t] \in Payments \cup Updates
  BY DEF TypeOK
<1>2. op[t] \in Payments => op[t].loan \in Loans /\ op[t].amount \in Nat /\ op[t].user \in Users
  BY <1>1
<1>3. op[t] \in Updates => /\ op[t].loan \in Loans /\ op[t].status \in LoanStatus
                           /\ op[t].installment \in Nat \cup {Keep}
                           /\ op[t].overdue \in Nat \cup {Keep}
  BY <1>1 DEF LoanStatus
<1> QED  BY <1>1, <1>2, <1>3

LEMMA InitHolds == Init => IInv
<1> SUFFICES ASSUME Init PROVE IInv
  OBVIOUS
<1>1. TypeOK
  BY DEF Init, TypeOK, LoanStatus
<1>2. DueFollowsPayments
  BY DEF Init, DueFollowsPayments, Due, Borrowed, Orderly
<1>p. PaidExactly
  BY DEF Init, PaidExactly, Borrowed, Orderly
<1>3. OrdersArePaid /\ FreshSnap /\ Paying /\ Gone
  BY DEF Init, OrdersArePaid, FreshSnap, Paying, Gone
<1> QED  BY <1>1, <1>2, <1>p, <1>3 DEF IInv

LEMMA RefuseStep ==
  ASSUME IInv, NEW t \in Tasks, NEW next \in {"refused", "rejected", "failed"}, Refuse(t, next),
         next = "refused" => t \notin ordered \/ t \in Faulty \cup poorer
  PROVE  IInv'
<1>1. TypeOK'
  BY DEF IInv, TypeOK, Refuse, Goto, loan
<1>2. DueFollowsPayments'
  BY DEF IInv, DueFollowsPayments, Due, Borrowed, Orderly, Refuse, loan
<1>p. PaidExactly'
  BY DEF IInv, PaidExactly, Borrowed, Orderly, Refuse, loan
<1>3. OrdersArePaid'
  BY DEF IInv, TypeOK, OrdersArePaid, Refuse, Goto, loan
<1>4. FreshSnap'
  BY DEF IInv, TypeOK, FreshSnap, Orderly, Refuse, Goto, loan
<1>5. Paying'
  BY DEF IInv, TypeOK, Paying, Refuse, Goto, loan
<1>6. Gone'
  BY DEF IInv, Gone, Refuse, loan
<1> QED  BY <1>1, <1>2, <1>p, <1>3, <1>4, <1>5, <1>6 DEF IInv

LEMMA FindLoanStep ==
  ASSUME IInv, NEW t \in Tasks, findLoan(t)
  PROVE  IInv'
<1>1. CASE Refuse(t, "refused")
  BY <1>1, RefuseStep DEF IInv, Paying, findLoan
<1>2. CASE ~Refuse(t, "refused")
  <2> DEFINE l == op[t].loan
  <2>1. /\ pc[t] = "read" /\ l \in Loans
        /\ snap' = [snap EXCEPT ![t] =
             [status |-> status[l], installment |-> installment[l], overdue |-> overdue[l]]]
        /\ missed' = missed \ {t}
        /\ pc' = [pc EXCEPT ![t] = IF op[t].kind = "pay" THEN "wallet" ELSE "save"]
        /\ UNCHANGED <<balance, loan, op, ordered, poorer, applied, extra, stale, edited>>
    BY <1>2, OpFields DEF findLoan, Goto, IInv
  <2>2. /\ op[t].kind = "pay" => op[t] \in Payments
        /\ op[t].kind # "pay" => op[t] \in Updates
    BY DEF IInv, TypeOK
  <2>3. TypeOK'
    <3>1. snap' \in [Tasks -> [status : LoanStatus, installment : Int, overdue : Int]]
      BY <2>1 DEF IInv, TypeOK
    <3> QED  BY <3>1, <2>1 DEF IInv, TypeOK, loan
  <2>4. DueFollowsPayments'
    BY <2>1 DEF IInv, DueFollowsPayments, Due, Borrowed, Orderly, loan
  <2>p. PaidExactly'
    BY <2>1 DEF IInv, PaidExactly, Borrowed, Orderly, loan
  <2>5. OrdersArePaid'
    BY <2>1 DEF IInv, TypeOK, OrdersArePaid
  <2>6. FreshSnap'
    BY <2>1 DEF IInv, TypeOK, FreshSnap, Orderly, loan
  <2>7. Paying'
    BY <2>1, <2>2 DEF IInv, TypeOK, Paying
  <2>g. Gone'
    BY <2>1 DEF IInv, Gone, loan
  <2> QED  BY <2>3, <2>4, <2>5, <2>6, <2>7, <2>g, <2>p DEF IInv
<1> QED  BY <1>1, <1>2

LEMMA GetWalletStep ==
  ASSUME IInv, NEW t \in Tasks, getWallet(t)
  PROVE  IInv'
<1>1. CASE Refuse(t, "refused")
  BY <1>1, RefuseStep DEF IInv, Paying, getWallet
<1>2. CASE ~Refuse(t, "refused")
  <2>1. /\ pc[t] = "wallet" /\ balance[op[t].user] >= op[t].amount
        /\ ordered' = ordered \cup {t} /\ poorer' = poorer \ {t}
        /\ pc' = [pc EXCEPT ![t] = "debit"]
        /\ UNCHANGED <<balance, loan, op, snap, applied, extra, missed, stale, edited>>
    BY <1>2 DEF getWallet, Affordable, Goto
  <2>2. TypeOK'
    BY <2>1 DEF IInv, TypeOK, loan
  <2>3. DueFollowsPayments'
    BY <2>1 DEF IInv, DueFollowsPayments, Due, Borrowed, Orderly, loan
  <2>p. PaidExactly'
    BY <2>1 DEF IInv, PaidExactly, Borrowed, Orderly, loan
  <2>4. OrdersArePaid'
    BY <2>1 DEF IInv, TypeOK, OrdersArePaid
  <2>5. FreshSnap'
    BY <2>1 DEF IInv, TypeOK, FreshSnap, Orderly, loan
  <2>6. Paying'
    BY <2>1 DEF IInv, TypeOK, Paying
  <2>g. Gone'
    BY <2>1 DEF IInv, Gone, loan
  <2> QED  BY <2>2, <2>3, <2>4, <2>5, <2>6, <2>g, <2>p DEF IInv
<1> QED  BY <1>1, <1>2

LEMMA DebitStep ==
  ASSUME IInv, NEW t \in Tasks, processRechargePayment(t)
  PROVE  IInv'
<1>u. /\ pc[t] = "debit" /\ op[t] \in Payments /\ op[t].amount \in Nat /\ op[t].user \in Users
      /\ balance \in [Users -> Nat]
  BY OpFields DEF processRechargePayment, IInv, Paying, TypeOK
<1>1. CASE op[t].amount > balance[op[t].user]
  <2>1. Refuse(t, "refused")
    BY <1>1, <1>u DEF processRechargePayment
  <2>2. t \in poorer
    BY <1>1, <1>u DEF IInv, Paying
  <2> QED  BY <2>1, <2>2, RefuseStep
<1>2. CASE op[t].amount <= balance[op[t].user]
  <2> DEFINE u == op[t].user
  <2>1. /\ balance' = [balance EXCEPT ![u] = @ - op[t].amount]
        /\ poorer' = poorer \cup {s \in Tasks \ {t} : pc[s] = "debit" /\ op[s].user = u}
        /\ pc' = [pc EXCEPT ![t] = "handle"]
        /\ UNCHANGED <<loan, op, snap, ordered, applied, extra, missed, stale, edited>>
    BY <1>2 DEF processRechargePayment, Goto
  <2>2. TypeOK'
    <3>1. balance' \in [Users -> Nat]
      BY <2>1, <1>u, <1>2
    <3> QED  BY <3>1, <2>1 DEF IInv, TypeOK, loan
  <2>3. DueFollowsPayments'
    BY <2>1 DEF IInv, DueFollowsPayments, Due, Borrowed, Orderly, loan
  <2>p. PaidExactly'
    BY <2>1 DEF IInv, PaidExactly, Borrowed, Orderly, loan
  <2>4. OrdersArePaid'
    BY <2>1 DEF IInv, TypeOK, OrdersArePaid
  <2>5. FreshSnap'
    BY <2>1, <1>u DEF IInv, TypeOK, FreshSnap, Orderly, loan
  <2>6. Paying'
    <3>1. ASSUME NEW s \in Tasks
          PROVE  /\ pc'[s] \in {"wallet", "debit", "handle"} => op'[s] \in Payments
                 /\ pc'[s] = "save" => op'[s] \in Updates
                 /\ pc'[s] \in {"read", "wallet"} => s \notin ordered'
      BY <2>1, <1>u DEF IInv, TypeOK, Paying
    <3>2. ASSUME NEW s \in Tasks, pc'[s] = "debit", s \notin poorer'
          PROVE  balance'[op'[s].user] >= op'[s].amount
      <4>1. pc[s] = "debit" /\ s # t /\ s \notin poorer /\ op[s].user # u
        BY <2>1, <3>2 DEF IInv, TypeOK
      <4>2. balance[op[s].user] >= op[s].amount
        BY <4>1 DEF IInv, Paying
      <4> QED  BY <4>1, <4>2, <2>1, <1>u
    <3> QED  BY <3>1, <3>2 DEF Paying
  <2>g. Gone'
    BY <2>1 DEF IInv, Gone, loan
  <2> QED  BY <2>2, <2>3, <2>4, <2>5, <2>6, <2>g, <2>p DEF IInv
<1> QED  BY <1>1, <1>2, <1>u

LEMMA HandleStep ==
  ASSUME IInv, NEW t \in Tasks, handleLoanPayment(t)
  PROVE  IInv'
<1> DEFINE l == op[t].loan
           s == snap[t]
           amount == op[t].amount
<1>u. /\ pc[t] = "handle" /\ op[t] \in Payments /\ amount \in Nat /\ l \in Loans
      /\ s \in [status : LoanStatus, installment : Int, overdue : Int]
  BY OpFields DEF handleLoanPayment, IInv, Paying, TypeOK
<1>c. /\ NewOverdue(s, amount) \in Int /\ Extra(s, amount) \in Nat
      /\ (s.installment - amount) + NewOverdue(s, amount) + amount + Extra(s, amount)
           = s.installment + s.overdue
      /\ NewStatus(s, amount) \in LoanStatus
      /\ amount <= s.installment + s.overdue =>
           (NewStatus(s, amount) = "Paid" <=> amount = s.installment + s.overdue)
  BY <1>u, Columns DEF NewOverdue, Extra, NewStatus, LoanStatus
<1>1. CASE Refuse(t, "rejected")
  BY <1>1, RefuseStep
<1>2. CASE ~Refuse(t, "rejected")
  <2>a. amount <= s.installment + s.overdue /\ s.status # "Paid"
    BY <1>2 DEF handleLoanPayment, Acceptable
  <2>1. /\ applied' = [applied EXCEPT ![l] = @ + amount]
        /\ extra' = [extra EXCEPT ![l] = @ + Extra(s, amount)]
        /\ pc' = [pc EXCEPT ![t] = "done"]
        /\ UNCHANGED <<balance, exists, op, snap, ordered, poorer, edited>>
    BY <1>2 DEF handleLoanPayment, Goto
  <2>2. \/ /\ l \in exists
           /\ status' = [status EXCEPT ![l] = NewStatus(s, amount)]
           /\ installment' = [installment EXCEPT ![l] = s.installment - amount]
           /\ overdue' = [overdue EXCEPT ![l] = NewOverdue(s, amount)]
           /\ missed' = missed \cup (Readers(l) \ {t})
           /\ stale' = stale \cup (IF t \in missed THEN {l} ELSE {})
        \/ l \notin exists /\ UNCHANGED <<status, installment, overdue, missed, stale>>
    BY <1>2 DEF handleLoanPayment
  <2>3. Orderly' \subseteq Orderly
    BY <2>1, <2>2 DEF Orderly
  <2> HIDE DEF l, s, amount
  <2>4. TypeOK'
    <3>1. applied' \in [Loans -> Nat] /\ extra' \in [Loans -> Nat]
      <4>1. /\ applied \in [Loans -> Nat] /\ extra \in [Loans -> Nat]
            /\ applied[l] + amount \in Nat /\ extra[l] + Extra(s, amount) \in Nat
        BY <1>u, <1>c DEF IInv, TypeOK
      <4> QED  BY <4>1, <2>1
    <3>2. /\ status' \in [Loans -> LoanStatus] /\ missed' \subseteq Tasks /\ stale' \subseteq Loans
          /\ installment' \in [Loans -> Int] /\ overdue' \in [Loans -> Int]
      BY <2>2, <1>u, <1>c DEF IInv, TypeOK, Readers
    <3>3. UNCHANGED <<balance, exists, op, snap, ordered, poorer, edited>>
          /\ pc' = [pc EXCEPT ![t] = "done"]
      BY <2>1
    <3> QED  BY <3>1, <3>2, <3>3 DEF IInv, TypeOK
  <2>w. ASSUME l \in Orderly'
        PROVE  /\ s.installment = installment[l] /\ s.overdue = overdue[l] /\ s.status = status[l]
               /\ status'[l] = NewStatus(s, amount)
               /\ installment'[l] = s.installment - amount /\ overdue'[l] = NewOverdue(s, amount)
               /\ applied'[l] = applied[l] + amount /\ extra'[l] = extra[l] + Extra(s, amount)
    <3>1. l \in Orderly /\ l \in exists
      BY <2>w, <2>3 DEF IInv, Gone, Orderly
    <3>2. t \notin missed
      BY <3>1, <2>w, <2>2 DEF Orderly
    <3>3. op[t].loan \in Orderly /\ pc[t] = "handle" /\ t \notin missed
      BY <3>1, <3>2, <1>u DEF l
    <3>4. snap[t] = [status |-> status[op[t].loan], installment |-> installment[op[t].loan],
                     overdue |-> overdue[op[t].loan]]
      BY <3>3 DEF IInv, FreshSnap
    <3>5. s.installment = installment[l] /\ s.overdue = overdue[l] /\ s.status = status[l]
      BY <3>4 DEF l, s
    <3> QED  BY <3>1, <3>5, <2>1, <2>2, <1>u DEF IInv, TypeOK
  <2>5. DueFollowsPayments'
    <3>1. SUFFICES ASSUME NEW k \in Orderly'
                   PROVE  (installment'[k] + overdue'[k]) + applied'[k] + extra'[k]
                            = Installment[k] + Overdue[k]
      BY DEF DueFollowsPayments, Due, Borrowed
    <3>2. /\ k \in Orderly /\ k \in Loans
          /\ (installment[k] + overdue[k]) + applied[k] + extra[k] = Installment[k] + Overdue[k]
      BY <3>1, <2>3 DEF IInv, DueFollowsPayments, Orderly, Due, Borrowed
    <3>3. CASE k # l
      BY <3>2, <3>3, <2>1, <2>2 DEF IInv, TypeOK
    <3>4. CASE k = l
      <4>4. /\ installment[l] \in Int /\ overdue[l] \in Int /\ applied[l] \in Nat /\ extra[l] \in Nat
            /\ Installment[l] \in Nat /\ Overdue[l] \in Nat
        BY <1>u DEF IInv, TypeOK
      <4> QED  BY <2>w, <4>4, <1>c, <1>u, <3>2, <3>4
    <3> QED  BY <3>3, <3>4
  <2>p. PaidExactly'
    <3>1. SUFFICES ASSUME NEW k \in Orderly', extra'[k] = 0, Borrowed(k) > 0
                   PROVE  status'[k] = "Paid" <=> applied'[k] = Borrowed(k)
      BY DEF PaidExactly, Borrowed
    <3>2. /\ k \in Orderly /\ k \in Loans
          /\ extra[k] = 0 => (status[k] = "Paid" <=> applied[k] = Borrowed(k))
          /\ installment[k] + overdue[k] + applied[k] + extra[k] = Borrowed(k)
      BY <3>1, <2>3 DEF IInv, DueFollowsPayments, PaidExactly, Due, Orderly
    <3>3. CASE k # l
      BY <3>1, <3>2, <3>3, <2>1, <2>2 DEF IInv, TypeOK
    <3>4. CASE k = l
      <4>1. /\ installment[l] \in Int /\ overdue[l] \in Int /\ applied[l] \in Nat /\ extra[l] \in Nat
            /\ Borrowed(l) \in Nat
        BY <1>u DEF IInv, TypeOK, Borrowed
      <4>2. extra[l] = 0
        BY <4>1, <3>1, <3>4, <2>w, <1>c
      <4>3. applied'[l] = Borrowed(l) <=> amount = s.installment + s.overdue
        BY <4>1, <4>2, <3>1, <3>2, <3>4, <2>w, <1>u
      <4> QED  BY <4>3, <3>1, <3>4, <2>w, <2>a, <1>c
    <3> QED  BY <3>3, <3>4
  <2>6. OrdersArePaid'
    BY <2>1 DEF IInv, TypeOK, OrdersArePaid
  <2>7. FreshSnap'
    <3>1. SUFFICES ASSUME NEW r \in Tasks \ missed', pc'[r] \in {"wallet", "debit", "handle"},
                          op'[r].loan \in Orderly'
                   PROVE  snap'[r] = [status |-> status'[op'[r].loan],
                                      installment |-> installment'[op'[r].loan],
                                      overdue |-> overdue'[op'[r].loan]]
      BY DEF FreshSnap
    <3>2. r # t /\ pc[r] = pc'[r] /\ r \notin missed /\ op[r].loan \in Orderly /\ op' = op
      BY <3>1, <2>1, <2>2, <2>3 DEF IInv, TypeOK
    <3>3. snap[r] = [status |-> status[op[r].loan], installment |-> installment[op[r].loan],
                     overdue |-> overdue[op[r].loan]]
      BY <3>1, <3>2 DEF IInv, FreshSnap
    <3>4. CASE UNCHANGED <<status, installment, overdue>>
      BY <3>2, <3>3, <3>4, <2>1
    <3>5. CASE ~UNCHANGED <<status, installment, overdue>>
      <4>1. op[r].loan # l
        BY <3>1, <3>2, <3>5, <2>2 DEF Readers
      <4>2. op[r].loan \in Loans
        BY <3>2 DEF Orderly
      <4> QED  BY <4>1, <4>2, <3>2, <3>3, <3>5, <2>1, <2>2 DEF IInv, TypeOK
    <3> QED  BY <3>4, <3>5
  <2>8. Paying'
    BY <2>1 DEF IInv, TypeOK, Paying
  <2>9. Gone'
    BY <2>1 DEF IInv, Gone
  <2> QED  BY <2>4, <2>5, <2>6, <2>7, <2>8, <2>9, <2>p DEF IInv
<1> QED  BY <1>1, <1>2

LEMMA UpdateStep ==
  ASSUME IInv, NEW t \in Tasks, updateLoan(t)
  PROVE  IInv'
<1> DEFINE l == op[t].loan
<1>1. /\ pc[t] = "save" /\ op[t] \in Updates /\ l \in Loans /\ op[t].status \in LoanStatus
      /\ Field(op[t].installment, snap[t].installment) \in Int
      /\ Field(op[t].overdue, snap[t].overdue) \in Int
  BY OpFields DEF updateLoan, IInv, Paying, TypeOK, Field
<1>2. /\ exists' = exists \cup {l} /\ edited' = edited \cup {l}
      /\ status' = [status EXCEPT ![l] = op[t].status]
      /\ installment' = [installment EXCEPT ![l] = Field(op[t].installment, snap[t].installment)]
      /\ overdue' = [overdue EXCEPT ![l] = Field(op[t].overdue, snap[t].overdue)]
      /\ missed' = missed \cup (Readers(l) \ {t})
      /\ pc' = [pc EXCEPT ![t] = "done"]
      /\ UNCHANGED <<balance, op, snap, ordered, poorer, applied, extra, stale>>
  BY DEF updateLoan, Goto
<1>3. Orderly' \subseteq Orderly /\ l \notin Orderly'
  BY <1>2 DEF Orderly
<1> HIDE DEF l
<1>4. TypeOK'
  <2>1. /\ status' \in [Loans -> LoanStatus] /\ installment' \in [Loans -> Int]
        /\ overdue' \in [Loans -> Int]
    BY <1>1, <1>2 DEF IInv, TypeOK
  <2> QED  BY <2>1, <1>1, <1>2 DEF IInv, TypeOK, Readers
<1>5. DueFollowsPayments'
  BY <1>1, <1>2, <1>3 DEF IInv, TypeOK, DueFollowsPayments, Due, Borrowed, Orderly
<1>p. PaidExactly'
  BY <1>1, <1>2, <1>3 DEF IInv, TypeOK, PaidExactly, Borrowed, Orderly
<1>6. OrdersArePaid'
  BY <1>2 DEF IInv, TypeOK, OrdersArePaid
<1>7. FreshSnap'
  BY <1>1, <1>2, <1>3 DEF IInv, TypeOK, FreshSnap, Orderly
<1>8. Paying'
  BY <1>2 DEF IInv, TypeOK, Paying
<1>9. Gone'
  BY <1>2 DEF IInv, Gone
<1> QED  BY <1>4, <1>5, <1>6, <1>7, <1>8, <1>9, <1>p DEF IInv

LEMMA RemoveStep ==
  ASSUME IInv, NEW l \in Loans, remove(l)
  PROVE  IInv'
<1>1. TypeOK'
  BY DEF remove, IInv, TypeOK
<1>2. DueFollowsPayments' /\ PaidExactly' /\ Gone'
  BY DEF remove, IInv, DueFollowsPayments, PaidExactly, Due, Borrowed, Orderly, Gone
<1>3. OrdersArePaid' /\ FreshSnap' /\ Paying'
  BY DEF remove, IInv, OrdersArePaid, FreshSnap, Orderly, Paying
<1> QED  BY <1>1, <1>2, <1>3 DEF IInv

LEMMA FailStep ==
  ASSUME IInv, NEW t \in Tasks, fail(t)
  PROVE  IInv'
BY RefuseStep DEF fail

LEMMA Invariant == Spec => []IInv
<1>1. IInv /\ UNCHANGED vars => IInv'
  BY DEF vars, loan, IInv, TypeOK, DueFollowsPayments, PaidExactly, Due, Borrowed, Orderly,
         OrdersArePaid, FreshSnap, Paying, Gone
<1>2. IInv /\ [Next]_vars => IInv'
  BY <1>1, FindLoanStep, GetWalletStep, DebitStep, HandleStep, UpdateStep, RemoveStep, FailStep
     DEF Next, Step, Idle
<1> QED  BY <1>2, InitHolds, PTL DEF Spec

\* Every variable of Loans stays in its range, for any loans, payments and edits.
THEOREM TypeCorrect == Spec => []TypeOK
BY Invariant, PTL DEF IInv

\* On a loan whose payments did not overlap and that nobody edited, what is due
\* is what was borrowed less what was paid, the part of a payment beyond the
\* installment counted twice.
THEOREM DueFollowsPaymentsHolds == Spec => []DueFollowsPayments
BY Invariant, PTL DEF IInv

\* Such a loan, paid within its installment, is Paid exactly when its payments
\* add up to what was borrowed.
THEOREM PaidExactlyHolds == Spec => []PaidExactly
BY Invariant, PTL DEF IInv

\* An order is marked SUCCESS without a debit only after a failure or when the
\* wallet was drawn on in between.
THEOREM OrdersArePaidHolds == Spec => []OrdersArePaid
BY Invariant, PTL DEF IInv


-----------------------------------------------------------------------------
(* LoanSchedule: its types, the bounds of the installments and the months  *)
(* they fall due in, for every total, every installment and every start.    *)

HIDE LoansAssumption

(* The calendar.                                                           *)

Valid(date) == date \in Dates /\ date.day <= LastDayOfMonth(date.year, date.month)

LEMMA LastDays ==
  ASSUME NEW y \in Nat, NEW m \in 0..11
  PROVE  /\ LastDayOfMonth(y, m) \in {28, 29, 30, 31}
         /\ m # 1 => LastDayOfMonth(y, m) >= 30
         /\ m \in {0, 11} => LastDayOfMonth(y, m) = 31
         /\ m = 1 => LastDayOfMonth(y, m) = IF IsLeapYear(y) THEN 29 ELSE 28
BY DEF LastDayOfMonth

LEMMA NextMonthValid ==
  ASSUME NEW d \in Dates
  PROVE  /\ NextMonth(d) \in Dates
         /\ NextMonth(d).day = d.day
         /\ MonthNumber(NextMonth(d)) = MonthNumber(d) + 1
         /\ NextMonth(d).month = 1 <=> d.month = 0
BY DEF NextMonth, MonthNumber, Dates

\* Whatever day a date has, Date makes it a day of the calendar.
LEMMA CarriedValid ==
  ASSUME NEW d \in Dates
  PROVE  Valid(Carried(d))
<1> DEFINE last == LastDayOfMonth(d.year, d.month)
<1>1. last \in {28, 29, 30, 31} /\ d.year \in Nat /\ d.month \in 0..11 /\ d.day \in 1..31
  BY LastDays DEF Dates
<1>2. CASE d.day <= last
  BY <1>2 DEF Carried, Valid
<1>3. CASE d.day > last
  <2> DEFINE n == NextMonth(d)
             c == [n EXCEPT !.day = d.day - last]
  <2>1. n \in Dates
    BY NextMonthValid
  <2>2. d.day - last \in 1..3
    BY <1>1, <1>3
  <2>3. c \in Dates /\ c.day \in 1..3 /\ c.year \in Nat /\ c.month \in 0..11
    BY <2>1, <2>2 DEF Dates
  <2>4. Carried(d) = c
    BY <1>1, <1>3 DEF Carried
  <2>5. c.day <= 3
    BY <2>3
  <2> HIDE DEF c
  <2>6. c.day <= LastDayOfMonth(c.year, c.month)
    <3>1. LastDayOfMonth(c.year, c.month) \in {28, 29, 30, 31}
      BY <2>3, LastDays
    <3> QED
      BY <2>3, <2>5, <3>1
  <2> QED
    BY <2>3, <2>4, <2>6 DEF Valid
<1> QED
  BY <1>1, <1>2, <1>3

LEMMA SetDateValid ==
  ASSUME NEW d \in Dates, NEW n \in 1..31
  PROVE  /\ Valid(SetDate(d, n))
         /\ n <= LastDayOfMonth(d.year, d.month) => SetDate(d, n) = [d EXCEPT !.day = n]
<1>1. [d EXCEPT !.day = n] \in Dates
  BY DEF Dates
<1>2. LastDayOfMonth(d.year, d.month) \in {28, 29, 30, 31}
  BY LastDays DEF Dates
<1>3. [d EXCEPT !.day = n].year = d.year /\ [d EXCEPT !.day = n].month = d.month
      /\ [d EXCEPT !.day = n].day = n
  BY DEF Dates
<1> QED
  BY <1>1, <1>2, <1>3, CarriedValid DEF SetDate, Carried

\* One step of addMonths leads to a day of the calendar, and from a day up to
\* the 30th to the next month: to the same day if that month has it.
LEMMA AddMonth ==
  ASSUME NEW d \in Dates, Valid(d)
  PROVE  /\ Valid(addMonth(d))
         /\ d.day <= 30 =>
              /\ MonthNumber(addMonth(d)) = MonthNumber(d) + 1
              /\ addMonth(d).day <= d.day
              /\ d.day <= 28 => addMonth(d).day = d.day
<1> DEFINE n == NextMonth(d)
           newDate == Carried(n)
           last == LastDayOfMonth(n.year, n.month)
<1>1. n \in Dates /\ n.day = d.day /\ MonthNumber(n) = MonthNumber(d) + 1
      /\ (n.month = 1 <=> d.month = 0)
  BY NextMonthValid
<1>2. Valid(newDate)
  BY <1>1, CarriedValid
<1>3. last \in {28, 29, 30, 31} /\ (n.month # 1 => last >= 30)
      /\ (n.month = 1 => last = IF IsLeapYear(n.year) THEN 29 ELSE 28)
  BY <1>1, LastDays DEF Dates
<1>4. d.day \in 1..31 /\ d.month \in 0..11 /\ n.year \in Nat
  BY <1>1 DEF Dates
<1> HIDE DEF n, newDate, last
<1>5. CASE d.month = 0 /\ d.day > 28
  <2> DEFINE day == IF IsLeapYear(newDate.year) THEN 29 ELSE 28
             set == SetDate(newDate, day)
  <2>1. newDate \in Dates /\ newDate.year = n.year /\ newDate.month \in {1, 2}
    <3>1. n.month = 1
      BY <1>1, <1>5
    <3>2. CASE n.day <= last
      BY <1>1, <3>1, <3>2 DEF newDate, Carried, last
    <3>3. CASE n.day > last
      <4>1. newDate = [NextMonth(n) EXCEPT !.day = n.day - last]
        BY <1>1, <1>3, <1>4, <3>3 DEF newDate, Carried, last
      <4>2. NextMonth(n) = [year |-> n.year, month |-> 2, day |-> n.day]
        BY <1>1, <3>1 DEF NextMonth, Dates
      <4>3. n.day - last \in 1..31
        BY <1>1, <1>3, <1>4, <3>3
      <4> QED
        BY <1>4, <4>1, <4>2, <4>3 DEF Dates
    <3> QED
      BY <1>1, <1>3, <1>4, <3>2, <3>3
  <2>2. day \in {28, 29} /\ day = last
    BY <1>1, <1>3, <1>5, <2>1
  <2>3. set = [newDate EXCEPT !.day = day]
    <3>1. LastDayOfMonth(newDate.year, newDate.month) >= day
      BY <1>4, <2>1, <2>2, LastDays
    <3> HIDE DEF day
    <3>2. day \in 1..31
      BY <2>2
    <3>3. LastDayOfMonth(newDate.year, newDate.month) \in Int
      BY <1>4, <2>1, LastDays
    <3> QED
      BY <2>1, <2>2, <3>1, <3>2, <3>3, SetDateValid
  <2>4. [set EXCEPT !.month = 1] = [year |-> n.year, month |-> 1, day |-> last]
    BY <2>1, <2>2, <2>3 DEF Dates
  <2>5. LastDayOfMonth(n.year, 1) = last
    BY <1>1, <1>5 DEF last
  <2>6. SetMonth(set, 1) = [year |-> n.year, month |-> 1, day |-> last]
    BY <1>3, <2>4, <2>5 DEF SetMonth, Carried
  <2>7. addMonth(d) = [year |-> n.year, month |-> 1, day |-> last]
    BY <1>5, <2>6 DEF addMonth, newDate, n
  <2>8. MonthNumber(addMonth(d)) = MonthNumber(n)
    BY <1>1, <1>5, <2>7 DEF MonthNumber
  <2>9. last \in 28..29
    BY <2>2
  <2>10. addMonth(d) \in Dates /\ addMonth(d).day = last
    BY <1>4, <2>7, <2>9 DEF Dates
  <2>11. Valid(addMonth(d))
    BY <2>5, <2>7, <2>9, <2>10 DEF Valid
  <2> QED
    BY <1>1, <1>4, <1>5, <2>8, <2>9, <2>10, <2>11
<1>6. CASE ~(d.month = 0 /\ d.day > 28)
  <2> DEFINE most == AtMost(d.day, LastDayOfMonth(newDate.year, newDate.month))
  <2>1. addMonth(d) = SetDate(newDate, most)
    BY <1>6 DEF addMonth, newDate, n
  <2>2. newDate \in Dates /\ newDate.year \in Nat /\ newDate.month \in 0..11
    BY <1>2 DEF Valid, Dates
  <2>3. LastDayOfMonth(newDate.year, newDate.month) \in {28, 29, 30, 31}
    BY <2>2, LastDays
  <2>4. most \in 1..31 /\ most <= LastDayOfMonth(newDate.year, newDate.month)
    BY <1>4, <2>3 DEF AtMost
  <2> HIDE DEF most
  <2>5. Valid(addMonth(d))
    BY <2>1, <2>2, <2>4, SetDateValid
  <2>6. CASE d.day > 30
    BY <1>4, <2>5, <2>6
  <2>7. CASE d.day <= 30
    <3>1. d.day <= last
      BY <1>1, <1>3, <1>4, <1>6, <2>7
    <3>2. newDate = n
      BY <1>1, <3>1 DEF newDate, Carried, last
    <3>3. most = d.day
      BY <1>4, <2>3, <3>1, <3>2 DEF most, AtMost, last
    <3>4. addMonth(d) = [n EXCEPT !.day = n.day]
      BY <1>1, <2>1, <2>2, <2>4, <3>2, <3>3, SetDateValid
    <3>5. addMonth(d) = n
      BY <1>1, <3>4 DEF Dates
    <3> QED
      BY <1>1, <1>4, <2>5, <3>5
  <2> QED
    BY <1>4, <2>6, <2>7
<1> QED
  BY <1>5, <1>6

-----------------------------------------------------------------------------
(* The rows.                                                               *)

LEMMA Ceiling ==
  ASSUME NEW a \in Nat \ {0}, NEW b \in Nat \ {0}, NEW c, c = (a + b - 1) \div b
  PROVE  c \in Nat \ {0} /\ b * (c - 1) < a /\ a <= b * c
OBVIOUS

LEMMA LoanAmounts ==
  ASSUME request \in Requests
  PROVE  /\ InstallmentsCount \in Nat \ {0}
         /\ \A i \in 1..InstallmentsCount : LoanAmount(i) \in 1..request.installment
<1> DEFINE b == request.installment
           c == InstallmentsCount
<1>1. request.total \in Nat \ {0} /\ b \in Nat \ {0}
  BY ScheduleAssumption
<1>2. c \in Nat \ {0} /\ b * (c - 1) < request.total /\ request.total <= b * c
  BY <1>1, Ceiling DEF InstallmentsCount
<1> HIDE DEF c
<1>3. b * c = b * (c - 1) + b /\ b * (c - 1) \in Nat
  BY <1>1, <1>2
<1>4. ASSUME NEW i \in 1..c
      PROVE  LoanAmount(i) \in 1..b
  <2>1. CASE i = c
    <3>1. LoanAmount(i) = request.total - b * (c - 1)
      BY <2>1 DEF LoanAmount, c
    <3> QED
      BY <1>1, <1>2, <1>3, <3>1
  <2>2. CASE i # c
    BY <1>1, <2>2 DEF LoanAmount, c
  <2> QED
    BY <2>1, <2>2
<1> QED
  BY <1>2, <1>4 DEF c

\* How the date of a row follows from the one before it.
Follows(a, b) == b = addMonth(a)

\* The day a due date may have.
DayKept(date) ==
  /\ Valid(date)
  /\ start.day <= 30 => date.day <= start.day
  /\ start.day <= 28 => date.day = start.day

Dated ==
  /\ DayKept(due)
  /\ \A i \in 1..Len(loans) : DayKept(loans[i].due)
  /\ \A i \in 1..(Len(loans) - 1) : Follows(loans[i].due, loans[i + 1].due)
  /\ Len(loans) > 0 => Follows(loans[Len(loans)].due, due)

\* The rows are those of the agreed amounts, and all are there when they are saved.
Agreed ==
  /\ \A i \in 1..Len(loans) : loans[i].amount = LoanAmount(i)
  /\ step = "saved" => Len(loans) = InstallmentsCount

ScheduleInv == ScheduleTypeOK /\ AmountsWithin /\ Agreed /\ Dated

LEMMA DayKeptFollows ==
  ASSUME start \in Starts, NEW d, DayKept(d)
  PROVE  DayKept(addMonth(d))
<1>1. start.day \in 1..31
  BY ScheduleAssumption DEF Dates
<1>2. d \in Dates /\ d.day \in 1..31
  BY DEF DayKept, Valid, Dates
<1>3. Valid(addMonth(d)) /\ addMonth(d).day \in 1..31
  BY <1>2, AddMonth DEF DayKept, Valid, Dates
<1> QED
  BY <1>1, <1>2, <1>3, AddMonth DEF DayKept

LEMMA ScheduleInitHolds ==
  ASSUME ScheduleInit
  PROVE  ScheduleInv
<1>1. start \in Dates /\ start.day <= LastDayOfMonth(start.year, start.month)
  BY ScheduleAssumption DEF ScheduleInit
<1>2. loans = <<>> /\ Len(loans) = 0
  BY DEF ScheduleInit
<1>3. ScheduleTypeOK
  BY <1>1, <1>2 DEF ScheduleInit, ScheduleTypeOK
<1>4. start.day \in 1..31
  BY <1>1 DEF Dates
<1>5. AmountsWithin
  BY <1>2 DEF AmountsWithin
<1>6. Dated
  <2>1. due = start
    BY DEF ScheduleInit
  <2>2. DayKept(due)
    BY <1>1, <1>4, <2>1 DEF DayKept, Valid
  <2> QED
    BY <1>2, <2>2 DEF Dated
<1>7. Agreed
  BY <1>2 DEF Agreed, ScheduleInit
<1> QED
  BY <1>3, <1>5, <1>6, <1>7 DEF ScheduleInv

LEMMA ScheduleStep ==
  ASSUME ScheduleInv, [ScheduleNext]_scheduleVars
  PROVE  ScheduleInv'
<1> USE DEF ScheduleInv
<1>1. CASE build
  <2> DEFINE n == Len(loans)
             new == [amount |-> LoanAmount(n + 1), due |-> due]
  <2>1. n \in Nat /\ n < InstallmentsCount /\ request \in Requests /\ start \in Starts
    BY <1>1 DEF build, ScheduleTypeOK
  <2>2. LoanAmount(n + 1) \in 1..request.installment
    BY <2>1, LoanAmounts
  <2>3. DayKept(due) /\ DayKept(addMonth(due))
    BY <2>1, DayKeptFollows DEF Dated
  <2>4. /\ loans' = Append(loans, new) /\ due' = addMonth(due)
        /\ request' = request /\ start' = start /\ step' = step
    BY <1>1 DEF build
  <2>5. new \in [amount : Int, due : Dates]
    BY <2>2, <2>3 DEF DayKept, Valid
  <2>6. loans \in Seq([amount : Int, due : Dates])
    BY DEF ScheduleTypeOK
  <2> HIDE DEF new
  <2>7. /\ Len(loans') = n + 1
        /\ loans'[n + 1] = new
        /\ \A i \in 1..n : loans'[i] = loans[i]
        /\ loans' \in Seq([amount : Int, due : Dates])
    BY <2>4, <2>5, <2>6
  <2>8. ScheduleTypeOK'
    BY <2>3, <2>4, <2>7 DEF ScheduleTypeOK, DayKept, Valid
  <2>9. AmountsWithin'
    <3> SUFFICES ASSUME NEW i \in 1..(n + 1)
                 PROVE  loans'[i].amount \in 1..request.installment
      BY <2>4, <2>7 DEF AmountsWithin
    <3>1. CASE i = n + 1
      BY <2>2, <2>7, <3>1 DEF new
    <3>2. CASE i # n + 1
      BY <2>1, <2>7, <3>2 DEF AmountsWithin
    <3> QED
      BY <3>1, <3>2
  <2>10. Dated'
    <3>1. \A date : DayKept(date)' <=> DayKept(date)
      BY <2>4 DEF DayKept
    <3>2. DayKept(due)'
      BY <2>3, <2>4 DEF DayKept
    <3>3. ASSUME NEW i \in 1..(n + 1)
          PROVE  DayKept(loans'[i].due)
      <4>1. CASE i = n + 1
        BY <2>3, <2>7, <4>1 DEF new
      <4>2. CASE i # n + 1
        <5>1. i \in 1..n
          BY <2>1, <4>2
        <5>2. DayKept(loans[i].due)
          BY <5>1 DEF Dated
        <5>3. loans'[i] = loans[i]
          BY <2>7, <5>1
        <5> QED
          BY <5>2, <5>3
      <4> QED
        BY <4>1, <4>2
    <3>4. ASSUME NEW i \in 1..n
          PROVE  Follows(loans'[i].due, loans'[i + 1].due)
      <4>1. CASE i = n
        BY <2>1, <2>7, <4>1 DEF new, Dated
      <4>2. CASE i # n
        <5>1. i \in 1..(n - 1) /\ i + 1 \in 1..n
          BY <2>1, <4>2
        <5> QED
          BY <2>7, <5>1 DEF Dated
      <4> QED
        BY <4>1, <4>2
    <3>5. Follows(loans'[n + 1].due, due')
      BY <2>4, <2>7 DEF new, Follows
    <3>6. \A i \in 1..(n + 1) : DayKept(loans[i].due)'
      BY <2>4, <3>3 DEF DayKept
    <3>7. (n + 1) - 1 = n
      BY <2>1
    <3> QED
      BY <2>7, <3>2, <3>4, <3>5, <3>6, <3>7 DEF Dated, Follows
  <2>11. Agreed'
    <3>1. InstallmentsCount' = InstallmentsCount /\ \A i : LoanAmount(i)' = LoanAmount(i)
      BY <2>4 DEF InstallmentsCount, LoanAmount
    <3>2. \A i \in 1..(n + 1) : loans'[i].amount = LoanAmount(i)
      BY <2>1, <2>7 DEF Agreed, new
    <3>3. step' # "saved"
      BY <1>1 DEF build
    <3> QED
      BY <2>7, <3>1, <3>2, <3>3 DEF Agreed
  <2> QED
    BY <2>8, <2>9, <2>10, <2>11
<1>2. CASE findUser \/ save \/ Ended \/ UNCHANGED scheduleVars
  <2>1. /\ loans' = loans /\ due' = due /\ request' = request /\ start' = start
        /\ step' \in {step, "build", "refused", "saved"}
    BY <1>2 DEF findUser, save, Ended, scheduleVars
  <2>2. ScheduleTypeOK'
    BY <2>1 DEF ScheduleTypeOK
  <2>3. AmountsWithin' /\ Dated'
    BY <2>1 DEF AmountsWithin, Dated, DayKept, Follows
  <2>4. step' = "saved" => Len(loans) = InstallmentsCount
    BY <1>2 DEF findUser, save, Ended, scheduleVars, Agreed
  <2>5. Agreed'
    BY <2>1, <2>4 DEF Agreed, InstallmentsCount, LoanAmount
  <2> QED
    BY <2>2, <2>3, <2>5
<1> QED
  BY <1>1, <1>2 DEF ScheduleNext

LEMMA DayKeptMonthly ==
  ASSUME start \in Starts, NEW d, DayKept(d), start.day <= 30
  PROVE  /\ MonthNumber(addMonth(d)) = MonthNumber(d) + 1
         /\ addMonth(d).day <= d.day
<1>1. start.day \in Int
  BY ScheduleAssumption DEF Dates
<1>2. d \in Dates /\ Valid(d) /\ d.day <= start.day
  BY DEF DayKept, Valid
<1>3. d.day \in Int
  BY <1>2 DEF Dates
<1>4. d.day <= 30
  BY <1>1, <1>2, <1>3
<1> QED
  BY <1>2, <1>4, AddMonth

LEMMA DatedDueMonthly ==
  ASSUME ScheduleInv
  PROVE  DueMonthly
<1> SUFFICES ASSUME NEW i \in 1..(Len(loans) - 1), start.day <= 30
             PROVE  /\ MonthNumber(loans[i + 1].due) = MonthNumber(loans[i].due) + 1
                    /\ loans[i + 1].due.day <= loans[i].due.day
                    /\ start.day <= 28 => loans[i + 1].due.day = start.day
  BY DEF DueMonthly
<1>1. i \in 1..Len(loans) /\ i + 1 \in 1..Len(loans) /\ start \in Starts
  BY DEF ScheduleInv, ScheduleTypeOK
<1>2. /\ DayKept(loans[i].due) /\ DayKept(loans[i + 1].due)
      /\ loans[i + 1].due = addMonth(loans[i].due)
  BY <1>1 DEF ScheduleInv, Dated, Follows
<1>3. start.day <= 28 => loans[i + 1].due.day = start.day
  BY <1>2 DEF DayKept
<1> QED
  BY <1>1, <1>2, <1>3, DayKeptMonthly

-----------------------------------------------------------------------------
(* The sum of the rows.  A recursive function is what CHOOSE makes of its    *)
(* equation: a closed form solves it, and two solutions are equal, since the *)
(* least place where they differ has none before it.                         *)

LEMMA LeastNumber ==
  ASSUME NEW T \in SUBSET Nat, T # {}
  PROVE  \E n \in T : \A m \in T : n <= m
<1> DEFINE R == OpToRel(<, Nat)
<1>1. IsWellFoundedOn(R, Nat)
  BY NatLessThanWellFounded
<1>2. R = {p \in Nat \X Nat : p[1] < p[2]}
  BY DEF OpToRel
<1> HIDE DEF R
<1>3. PICK n \in T : \A m \in T : ~(<<m, n>> \in R)
  BY <1>1, WFMin
<1>4. \A m \in T : ~(m < n)
  BY <1>2, <1>3
<1> QED  BY <1>4

Sums(f, rows) ==
  f = [i \in 0..Len(rows) |-> IF i = 0 THEN 0 ELSE f[i - 1] + rows[i].amount]

LEMMA OneSum ==
  ASSUME NEW rows, Len(rows) \in Nat, NEW f, NEW g, Sums(f, rows), Sums(g, rows)
  PROVE  \A i \in 0..Len(rows) : f[i] = g[i]
<1> DEFINE T == {i \in 0..Len(rows) : f[i] # g[i]}
<1> SUFFICES ASSUME T # {} PROVE FALSE
  OBVIOUS
<1>0. T \in SUBSET Nat
  OBVIOUS
<1> HIDE DEF T
<1>1. PICK n \in T : \A m \in T : n <= m
  BY <1>0, LeastNumber
<1> USE DEF T
<1>2. n \in 0..Len(rows) /\ f[n] # g[n]
  OBVIOUS
<1>3. n # 0
  BY <1>2 DEF Sums
<1>4. n - 1 \in 0..Len(rows) /\ ~(n <= n - 1)
  BY <1>2, <1>3
<1>5. f[n - 1] = g[n - 1]
  BY <1>1, <1>4
<1>6. f[n] = f[n - 1] + rows[n].amount /\ g[n] = g[n - 1] + rows[n].amount
  BY <1>2, <1>3 DEF Sums
<1> QED  BY <1>2, <1>5, <1>6

LEMMA SavedRowsAddUp ==
  ASSUME ScheduleInv
  PROVE  RowsAddUp
<1> SUFFICES ASSUME step = "saved"
             PROVE  LET sum[i \in 0..Len(loans)] ==
                          IF i = 0 THEN 0 ELSE sum[i - 1] + loans[i].amount
                    IN sum[Len(loans)] = request.total
  BY DEF RowsAddUp
<1> DEFINE n == Len(loans)
           b == request.installment
           F == [i \in 0..n |-> IF i = n THEN request.total ELSE b * i]
<1>1. n = InstallmentsCount /\ n \in Nat \ {0} /\ b \in Nat \ {0} /\ request.total \in Nat
  BY LoanAmounts, ScheduleAssumption DEF ScheduleInv, ScheduleTypeOK, Agreed
<1>2. \A i \in 1..n : loans[i].amount = IF i = n THEN request.total - b * (n - 1) ELSE b
  BY <1>1 DEF ScheduleInv, Agreed, LoanAmount
<1> HIDE DEF n, b
<1>3. \A i \in 0..n : F[i] = IF i = 0 THEN 0 ELSE F[i - 1] + loans[i].amount
  <2> SUFFICES ASSUME NEW i \in 0..n
               PROVE  F[i] = IF i = 0 THEN 0 ELSE F[i - 1] + loans[i].amount
    OBVIOUS
  <2>1. CASE i = 0
    BY <1>1, <2>1
  <2>2. CASE i \in 1..n
    <3>1. F[i - 1] = b * (i - 1)
      BY <1>1, <2>2
    <3>2. b * (i - 1) + b = b * i
      BY <1>1, <2>2
    <3>3. b * (i - 1) \in Int /\ b * i \in Int
      BY <1>1, <2>2
    <3>4. F[i] = IF i = n THEN request.total ELSE b * i
      OBVIOUS
    <3>5. loans[i].amount = IF i = n THEN request.total - b * (n - 1) ELSE b
      BY <1>2, <2>2
    <3> HIDE DEF F
    <3>6. CASE i = n
      <4>1. b * (i - 1) + loans[i].amount = request.total
        BY <1>1, <3>3, <3>5, <3>6
      <4> QED  BY <1>1, <2>2, <3>1, <3>4, <3>6, <4>1
    <3>7. CASE i # n
      BY <1>1, <2>2, <3>1, <3>2, <3>4, <3>5, <3>7
    <3> QED  BY <3>6, <3>7
  <2> QED  BY <1>1, <2>1, <2>2
<1>4. Sums(F, loans)
  <2>1. F = [i \in 0..n |-> F[i]]
    OBVIOUS
  <2> QED  BY <1>3, <2>1 DEF Sums, n
<1> DEFINE S == CHOOSE f : Sums(f, loans)
<1>5. Sums(S, loans)
  BY <1>4
<1>6. S[n] = F[n]
  BY <1>1, <1>4, <1>5, OneSum DEF n
<1>7. S[n] = request.total
  BY <1>1, <1>6
<1> QED  BY <1>7 DEF n, Sums

\* The invariant, of which the theorems below are parts or consequences.
THEOREM ScheduleInvariant == ScheduleSpec => []ScheduleInv
<1> QED
  BY ScheduleInitHolds, ScheduleStep, PTL DEF ScheduleSpec

\* The due dates createLoan computes are days of the calendar, for every start.
THEOREM ScheduleTypeCorrect == ScheduleSpec => []ScheduleTypeOK
<1>1. ScheduleInv => ScheduleTypeOK
  BY DEF ScheduleInv
<1> QED
  BY <1>1, ScheduleInvariant, PTL

\* createLoan never stores an installment that is empty, negative or above the
\* agreed amount, for every total and every amount.
THEOREM AmountsWithinHolds == ScheduleSpec => []AmountsWithin
<1>1. ScheduleInv => AmountsWithin
  BY DEF ScheduleInv
<1> QED
  BY <1>1, ScheduleInvariant, PTL

\* addMonths leaves out no month as long as the loan starts on a day up to the
\* 30th, and keeps the day up to the 28th, however many installments follow.
THEOREM DueMonthlyHolds == ScheduleSpec => []DueMonthly
<1> QED
  BY DatedDueMonthly, ScheduleInvariant, PTL

\* The rows of a saved loan add up to its total, for every total, every agreed
\* amount and however many installments there are.
THEOREM RowsAddUpHolds == ScheduleSpec => []RowsAddUp
<1> QED
  BY SavedRowsAddUp, ScheduleInvariant, PTL
=============================================================================
