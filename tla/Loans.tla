-------------------------------- MODULE Loans --------------------------------
(***************************************************************************)
(* Paying and administering loans (loans.service.ts).                      *)
(*                                                                         *)
(* payLoan reads the loan, reads the wallet, has the amount debited by     *)
(* processRechargePayment, and only then, in handleLoanPayment, judges the *)
(* payment and writes the loan, all of it from the loan it read first.     *)
(* The debit is one step: a transaction of its own that commits or leaves  *)
(* nothing (module Ledger).                                                *)
(***************************************************************************)
EXTENDS Integers, FiniteSets, Functions

CONSTANTS Users, Loans,
          Owner,        \* the user of each loan
          Opening,      \* wallet balances at the start
          Installment,  \* installmentAmount and
          Overdue,      \* overdueAmount of each loan at the start
          Tasks, Faulty,
          Payments,     \* calls of payLoan
          Updates,      \* calls of updateLoan
          Keep          \* "this field is not in the request"

ASSUME LoansAssumption ==
  /\ Owner \in [Loans -> Users]
  /\ Opening \in [Users -> Nat]
  /\ Installment \in [Loans -> Nat] /\ Overdue \in [Loans -> Nat]
  /\ Faulty \subseteq Tasks
  /\ Payments \subseteq [kind : {"pay"}, user : Users, loan : Loans, amount : Nat]
  /\ Updates \subseteq [kind : {"update"}, loan : Loans, status : {"Pending", "PartiallyPaid", "Paid"},
                        installment : Nat \cup {Keep}, overdue : Nat \cup {Keep}]
  /\ Keep \notin Int

VARIABLES balance,              \* committed wallet balances
          exists,               \* loans not removed
          status, installment, overdue,   \* the columns of a loan
          op, pc,               \* the call of each task and its next step
          snap,                 \* the loan it has read
          ordered,              \* payments whose order is saved, with status SUCCESS
          poorer,               \* history: payments whose wallet was debited since they read it
          applied,              \* history: payments a loan has accepted
          extra,                \* history: what they paid beyond the installment
          missed,               \* history: tasks whose loan was written since they read it
          stale,                \* history: loans once written from such a read
          edited                \* history: loans an administrator has written or removed

loan == <<exists, status, installment, overdue>>
vars == <<balance, loan, op, pc, snap, ordered, poorer, applied, extra, missed, stale, edited>>

LoanStatus == {"Pending", "PartiallyPaid", "Paid"}

Init ==
  /\ balance = Opening
  /\ exists = Loans
  /\ status = [l \in Loans |-> "Pending"]
  /\ installment = Installment /\ overdue = Overdue
  /\ op \in [Tasks -> Payments \cup Updates]
  /\ pc = [t \in Tasks |-> "read"]
  /\ snap = [t \in Tasks |-> [status |-> "Pending", installment |-> 0, overdue |-> 0]]
  /\ applied = [l \in Loans |-> 0] /\ extra = [l \in Loans |-> 0]
  /\ ordered = {} /\ poorer = {} /\ missed = {} /\ stale = {} /\ edited = {}

Goto(t, step) == pc' = [pc EXCEPT ![t] = step]

Refuse(t, step) ==
  /\ Goto(t, step)
  /\ UNCHANGED <<balance, loan, op, snap, ordered, poorer, applied, extra, missed, stale, edited>>

\* findOneBy: the loan must exist and, to be paid, be the caller's.
findLoan(t) ==
  LET l == op[t].loan
  IN /\ pc[t] = "read"
     /\ IF l \in exists /\ (op[t].kind = "pay" => Owner[l] = op[t].user)
        THEN /\ snap' = [snap EXCEPT ![t] =
                  [status |-> status[l], installment |-> installment[l], overdue |-> overdue[l]]]
             /\ missed' = missed \ {t}
             /\ Goto(t, IF op[t].kind = "pay" THEN "wallet" ELSE "save")
             /\ UNCHANGED <<balance, loan, op, ordered, poorer, applied, extra, stale, edited>>
        ELSE Refuse(t, "refused")

\* A mutant: the wallet is not looked at before the order is saved.
Affordable_notTested(t) == TRUE

Affordable(t) == balance[op[t].user] >= op[t].amount

\* The wallet is tested and the order saved as a SUCCESS; that save is not
\* awaited and nothing takes it back.
getWallet(t) ==
  /\ pc[t] = "wallet"
  /\ IF Affordable(t)
     THEN /\ ordered' = ordered \cup {t}
          /\ poorer' = poorer \ {t}
          /\ Goto(t, "debit")
          /\ UNCHANGED <<balance, loan, op, snap, applied, extra, missed, stale, edited>>
     ELSE Refuse(t, "refused")

processRechargePayment(t) ==
  LET u == op[t].user
  IN /\ pc[t] = "debit"
     /\ IF op[t].amount <= balance[u]
        THEN /\ balance' = [balance EXCEPT ![u] = @ - op[t].amount]
             /\ poorer' = poorer \cup {s \in Tasks \ {t} : pc[s] = "debit" /\ op[s].user = u}
             /\ Goto(t, "handle")
             /\ UNCHANGED <<loan, op, snap, ordered, applied, extra, missed, stale, edited>>
        ELSE Refuse(t, "refused")

\* handleLoanPayment throws for an amount above what is due and on a paid loan.
Acceptable(s, amount) == amount <= s.installment + s.overdue /\ s.status # "Paid"

\* A mutant: a payment that covers the installment alone pays the loan.
NewStatus_installment(s, amount) ==
  IF amount >= s.installment THEN "Paid" ELSE "PartiallyPaid"

NewStatus(s, amount) ==
  IF amount >= s.installment + s.overdue THEN "Paid" ELSE "PartiallyPaid"

\* What a payment has beyond the installment.
Extra(s, amount) == IF amount > s.installment THEN amount - s.installment ELSE 0

\* A mutant: the overdue amount is reduced by the whole payment.
NewOverdue_whole(s, amount) == IF amount > s.installment THEN s.overdue - amount ELSE s.overdue

NewOverdue(s, amount) == s.overdue - Extra(s, amount)

\* The tasks that hold a read of loan l.
Readers(l) == {s \in Tasks : op[s].loan = l}

\* The update of the loan row by a payment.  The new installmentAmount is
\* computed before the extra is split off, so it may fall below zero; a loan
\* that is gone is not noticed.
handleLoanPayment(t) ==
  LET l == op[t].loan
      s == snap[t]
      amount == op[t].amount
  IN /\ pc[t] = "handle"
     /\ IF Acceptable(s, amount)
        THEN /\ IF l \in exists
                THEN /\ status' = [status EXCEPT ![l] = NewStatus(s, amount)]
                     /\ installment' = [installment EXCEPT ![l] = s.installment - amount]
                     /\ overdue' = [overdue EXCEPT ![l] = NewOverdue(s, amount)]
                     /\ missed' = missed \cup (Readers(l) \ {t})
                     /\ stale' = stale \cup (IF t \in missed THEN {l} ELSE {})
                ELSE UNCHANGED <<status, installment, overdue, missed, stale>>
             /\ applied' = [applied EXCEPT ![l] = @ + amount]
             /\ extra' = [extra EXCEPT ![l] = @ + Extra(s, amount)]
             /\ Goto(t, "done")
             /\ UNCHANGED <<balance, exists, op, snap, ordered, poorer, edited>>
        ELSE Refuse(t, "rejected")

Field(given, old) == IF given = Keep THEN old ELSE given

\* updateLoan: save writes the whole loan as it was read, with the fields of
\* the request; a loan removed since is inserted again.
updateLoan(t) ==
  LET l == op[t].loan
  IN /\ pc[t] = "save"
     /\ exists' = exists \cup {l}
     /\ status' = [status EXCEPT ![l] = op[t].status]
     /\ installment' = [installment EXCEPT ![l] = Field(op[t].installment, snap[t].installment)]
     /\ overdue' = [overdue EXCEPT ![l] = Field(op[t].overdue, snap[t].overdue)]
     /\ missed' = missed \cup (Readers(l) \ {t})
     /\ edited' = edited \cup {l}
     /\ Goto(t, "done")
     /\ UNCHANGED <<balance, op, snap, ordered, poorer, applied, extra, stale>>

remove(l) ==
  /\ l \in exists
  /\ exists' = exists \ {l}
  /\ edited' = edited \cup {l}
  /\ UNCHANGED <<balance, status, installment, overdue, op, pc, snap, ordered, poorer,
                 applied, extra, missed, stale>>

Over(t) == pc[t] \in {"done", "refused", "rejected", "failed"}

\* A query fails or the process stops: a debit that is committed stays.
fail(t) ==
  /\ t \in Faulty
  /\ ~Over(t)
  /\ Refuse(t, IF pc[t] = "handle" THEN "failed" ELSE "refused")

Idle == (\A t \in Tasks : Over(t)) /\ UNCHANGED vars

Step(t) ==
  findLoan(t) \/ getWallet(t) \/ processRechargePayment(t) \/ handleLoanPayment(t) \/ updateLoan(t)

Next ==
  \/ \E t \in Tasks : Step(t) \/ fail(t)
  \/ \E l \in Loans : remove(l)
  \/ Idle

Spec == Init /\ [][Next]_vars

-----------------------------------------------------------------------------
\* Every variable stays in its range.
TypeOK ==
  /\ balance \in [Users -> Nat]
  /\ exists \subseteq Loans
  /\ status \in [Loans -> LoanStatus]
  /\ installment \in [Loans -> Int] /\ overdue \in [Loans -> Int]
  /\ op \in [Tasks -> Payments \cup Updates]
  /\ pc \in [Tasks -> {"read", "wallet", "debit", "handle", "save",
                       "done", "refused", "rejected", "failed"}]
  /\ snap \in [Tasks -> [status : LoanStatus, installment : Int, overdue : Int]]
  /\ applied \in [Loans -> Nat] /\ extra \in [Loans -> Nat]
  /\ ordered \subseteq Tasks /\ poorer \subseteq Tasks /\ missed \subseteq Tasks
  /\ stale \subseteq Loans /\ edited \subseteq Loans

Due(l) == installment[l] + overdue[l]
Borrowed(l) == Installment[l] + Overdue[l]

\* Loans whose columns are the work of payments that did not overlap.
Orderly == Loans \ (stale \cup edited)

\* What is due on a loan is what was borrowed less the payments it accepted,
\* where the code counts the part of a payment beyond the installment twice:
\* it leaves the installment negative AND reduces the overdue amount.
DueFollowsPayments ==
  \A l \in Orderly : Due(l) + applied[l] + extra[l] = Borrowed(l)

\* A loan is Paid when its accepted payments add up to exactly what was
\* borrowed, provided none of them went beyond the installment.
PaidExactly ==
  \A l \in Orderly : extra[l] = 0 /\ Borrowed(l) > 0 =>
    (status[l] = "Paid" <=> applied[l] = Borrowed(l))

\* An order says SUCCESS although nothing was debited only if a step failed, or
\* if another payment emptied the wallet between the test and the debit.
OrdersArePaid ==
  \A t \in Tasks \ (Faulty \cup poorer) : pc[t] = "refused" => t \notin ordered

-----------------------------------------------------------------------------
(* What makes DueFollowsPayments and PaidExactly inductive.                *)

\* A task that no write has passed holds the loan as it is.
FreshSnap ==
  \A t \in Tasks \ missed : pc[t] \in {"wallet", "debit", "handle"} =>
    LET l == op[t].loan
    IN l \in Orderly => snap[t] = [status |-> status[l], installment |-> installment[l],
                                   overdue |-> overdue[l]]

\* What is underway is a call of the kind its steps belong to, and the wallet
\* it has tested can pay for it unless somebody else has drawn on it.
Paying ==
  \A t \in Tasks :
    /\ pc[t] \in {"wallet", "debit", "handle"} => op[t] \in Payments
    /\ pc[t] = "save" => op[t] \in Updates
    /\ pc[t] \in {"read", "wallet"} => t \notin ordered
    /\ pc[t] = "debit" /\ t \notin poorer => balance[op[t].user] >= op[t].amount

\* Only an administrator removes a loan.
Gone == Loans \ exists \subseteq edited

IInv ==
  /\ TypeOK /\ DueFollowsPayments /\ PaidExactly /\ OrdersArePaid
  /\ FreshSnap /\ Paying /\ Gone

=============================================================================
