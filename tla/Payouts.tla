------------------------------ MODULE Payouts ------------------------------
(***************************************************************************)
(* Money that leaves the system through a provider: rechargeAccount of     *)
(* recharge.service.ts, payoutAccount and payoutUPI (and their New forms)  *)
(* of payout.service.ts.  A call checks the wallet and the limits, has the *)
(* provider pay, stores an order without waiting for it, and only then     *)
(* debits the wallet.  Nothing is locked or reserved from the first check  *)
(* to the debit, and nothing is taken back from the provider when the      *)
(* debit fails.                                                            *)
(*                                                                         *)
(* The module follows the calls of one user.  Amounts are in paise.  The   *)
(* wallet's transaction is two steps, its reads and its commit; what may   *)
(* happen inside it is the subject of WalletService.                       *)
(***************************************************************************)
EXTENDS Integers, FiniteSets

CONSTANTS Calls,         \* the payouts and recharges the user asks for
          Requests,      \* what a call may ask
          Opening,       \* the balance of the user's wallet
          DailyLimit,    \* of each service the limits apply to
          MonthlyLimit,
          Days,          \* how many days are followed
          MonthOf,       \* the month each day belongs to
          Moves,         \* changes other handlers make to the wallet
          MaxMoves,      \* bound: how many of them
          Faulty         \* calls that may lose an answer or a statement

Limited == {"Payout", "UPI"}

Services == Limited \cup {"Recharge"}

\* validatePayout knows the services of its own two callers only.
ServiceOf == [payoutAccount |-> "Payout", payoutUPI |-> "UPI", rechargeAccount |-> "Recharge"]

ASSUME PayoutsAssumption ==
  /\ Requests \subseteq [kind : DOMAIN ServiceOf, neft : BOOLEAN, amount : Nat \ {0}, fee : Nat]
  /\ Opening \in Nat
  /\ DailyLimit \in [Limited -> Nat] /\ MonthlyLimit \in [Limited -> Nat]
  /\ Days \in Nat \ {0} /\ MonthOf \in [1..Days -> Nat]
  /\ Moves \subseteq Int /\ MaxMoves \in Nat
  /\ Faulty \subseteq Calls

VARIABLES balance,    \* wallet.balance
          daily,      \* sum of the DEBIT rows of a service created today
          monthly,    \* the same since the first of the month
          day,
          req,        \* what each call asks
          pc,         \* what it does next
          begun,      \* the day its transaction started
          rd,         \* the balance its debit has read
          paidOut,    \* calls the provider has paid
          saving,     \* orders on their way to the table
          placed,     \* orders in the table
          had,        \* history: the balance its first check saw
          overtaken,  \* history: calls another's row was added to after their check
          poorer,     \* history: calls the wallet was emptied under since that check
          moves       \* how often another handler has moved the balance

sums == <<daily, monthly, day>>
orders == <<saving, placed>>
vars == <<balance, sums, req, pc, begun, rd, paidOut, orders, had, overtaken, poorer, moves>>

-----------------------------------------------------------------------------
(* What a call costs.                                                      *)

\* The table has no row for an amount between two of its tiers.
Priced(a) ==
  \/ a <= 100000
  \/ a \in 100100..1000000
  \/ a >= 1000100

getIMPSOrRTGSCharges(a) ==
  IF a <= 100000 THEN 0 ELSE IF a <= 1000000 THEN 500 ELSE IF a <= 2500000 THEN 900 ELSE 1300

\* Only a payout to an account, and not by NEFT, has charges.
Charged(r) == r.kind = "payoutAccount" /\ ~r.neft

Charges(r) == IF Charged(r) THEN getIMPSOrRTGSCharges(r.amount) ELSE 0

\* The rows carry the amount and the charges, the wallet pays the fee as well.
Booked(r) == r.amount + Charges(r)

Total(r) == Booked(r) + r.fee

Service(t) == ServiceOf[req[t].kind]

Goto(t, step) == pc' = [pc EXCEPT ![t] = step]

\* The calls that have looked at the balance and will look at it again.
Waiting == {s \in Calls : pc[s] \in {"limits", "provider", "order", "debit"}}

\* The calls of a service whose limits have been checked and which have no row.
Admitted(service) ==
  {s \in Calls : Service(s) = service /\ pc[s] \in {"provider", "order", "debit", "commit"}}

Init ==
  /\ balance = Opening
  /\ daily = [s \in Services |-> 0] /\ monthly = [s \in Services |-> 0]
  /\ day = 1
  /\ req \in [Calls -> Requests]
  /\ pc = [t \in Calls |-> "start"]
  /\ begun = [t \in Calls |-> 1]
  /\ rd = [t \in Calls |-> 0] /\ had = [t \in Calls |-> 0]
  /\ paidOut = {} /\ saving = {} /\ placed = {}
  /\ overtaken = {} /\ poorer = {}
  /\ moves = 0

-----------------------------------------------------------------------------
(* A call, step by step.                                                   *)

\* A mutant: the balance check is dropped.
Covers_always(b, a) == TRUE

Covers(b, a) == b >= a

\* validatePayout and rechargeAccount read the wallet of the user.
checkBalance(t) ==
  /\ pc[t] = "start"
  /\ had' = [had EXCEPT ![t] = balance]
  /\ IF Covers(balance, req[t].amount)
     THEN Goto(t, IF Service(t) \in Limited THEN "limits" ELSE "provider")
     ELSE Goto(t, "refused")
  /\ UNCHANGED <<balance, sums, req, begun, rd, paidOut, orders, overtaken, poorer, moves>>

\* getPoolBalance: the provider's own pool is short, or it does not answer.
poolShort(t) ==
  /\ pc[t] = "start" /\ Service(t) \in Limited
  /\ Goto(t, "refused")
  /\ UNCHANGED <<balance, sums, req, begun, rd, paidOut, orders, had, overtaken, poorer, moves>>

\* A mutant: the monthly sum is not looked at.
Within_dailyOnly(service, a) == daily[service] + a <= DailyLimit[service]

\* The rows counted include those of the charges, the amount asked does not.
Within(service, a) ==
  /\ daily[service] + a <= DailyLimit[service]
  /\ monthly[service] + a <= MonthlyLimit[service]

validateTransactionLimit(t) ==
  /\ pc[t] = "limits"
  /\ Goto(t, IF Within(Service(t), req[t].amount) THEN "provider" ELSE "refused")
  /\ UNCHANGED <<balance, sums, req, begun, rd, paidOut, orders, had, overtaken, poorer, moves>>

\* payoutUsingAccount, payoutUsingUPI, initRecharge.  The provider may have
\* paid although its answer is lost and the call fails.
provider(t) ==
  /\ pc[t] = "provider"
  /\ \/ paidOut' = paidOut \cup {t} /\ Goto(t, "order")
     \/ paidOut' = paidOut /\ Goto(t, "refused")
     \/ t \in Faulty /\ paidOut' = paidOut \cup {t} /\ Goto(t, "failed")
  /\ UNCHANGED <<balance, sums, req, begun, rd, orders, had, overtaken, poorer, moves>>

\* The charges are looked up after the provider has paid; the save of the
\* order is started and not awaited.
createOrder(t) ==
  /\ pc[t] = "order"
  /\ IF Charged(req[t]) /\ ~Priced(req[t].amount)
     THEN Goto(t, "failed") /\ saving' = saving
     ELSE Goto(t, "debit") /\ saving' = saving \cup {t}
  /\ UNCHANGED <<balance, sums, req, begun, rd, paidOut, placed, had, overtaken, poorer, moves>>

saveOrder(t) ==
  /\ t \in saving
  /\ saving' = saving \ {t}
  /\ placed' = placed \cup {t}
  /\ UNCHANGED <<balance, sums, req, pc, begun, rd, paidOut, had, overtaken, poorer, moves>>

\* processRechargePayment starts its transaction and reads the wallet again.
findWallet(t) ==
  /\ pc[t] = "debit"
  /\ begun' = [begun EXCEPT ![t] = day]
  /\ rd' = [rd EXCEPT ![t] = balance]
  /\ Goto(t, IF balance >= req[t].amount THEN "commit" ELSE "failed")
  /\ UNCHANGED <<balance, sums, req, paidOut, orders, had, overtaken, poorer, moves>>

\* What the sums become when t's rows are added.  created_at is the start of
\* the transaction, which may lie in a day or a month that is over.
AddRows(t) ==
  /\ daily' = [daily EXCEPT ![Service(t)] = @ + IF begun[t] = day THEN Booked(req[t]) ELSE 0]
  /\ monthly' = [monthly EXCEPT ![Service(t)] =
                   @ + IF MonthOf[begun[t]] = MonthOf[day] THEN Booked(req[t]) ELSE 0]

\* @Check('balance >= 0') of the wallet.
Allowed(b) == b >= 0

\* The commit: the rows, and the balance computed from what was read.
commit(t) ==
  /\ pc[t] = "commit"
  /\ LET left == rd[t] - Total(req[t]) IN
     IF Allowed(left)
     THEN /\ balance' = left
          /\ AddRows(t)
          /\ Goto(t, "debited")
          /\ overtaken' = overtaken \cup (Admitted(Service(t)) \ {t})
          /\ poorer' = poorer \cup IF left < balance THEN Waiting ELSE {}
     ELSE /\ Goto(t, "failed")
          /\ UNCHANGED <<balance, daily, monthly, overtaken, poorer>>
  /\ UNCHANGED <<day, req, begun, rd, paidOut, orders, had, moves>>

\* A statement or a query fails.  Whatever was paid stays paid.
fault(t) ==
  /\ t \in Faulty /\ pc[t] \in {"start", "limits", "order", "debit", "commit"}
  /\ Goto(t, IF t \in paidOut THEN "failed" ELSE "refused")
  /\ UNCHANGED <<balance, sums, req, begun, rd, paidOut, orders, had, overtaken, poorer, moves>>

-----------------------------------------------------------------------------
(* Around it.                                                              *)

\* Another handler of WalletService moves the balance.
otherHandler(m) ==
  /\ moves < MaxMoves /\ Allowed(balance + m)
  /\ balance' = balance + m
  /\ poorer' = poorer \cup IF m < 0 THEN Waiting ELSE {}
  /\ moves' = moves + 1
  /\ UNCHANGED <<sums, req, pc, begun, rd, paidOut, orders, had, overtaken>>

nextDay ==
  /\ day < Days
  /\ day' = day + 1
  /\ daily' = [s \in Services |-> 0]
  /\ monthly' = IF MonthOf[day + 1] = MonthOf[day] THEN monthly ELSE [s \in Services |-> 0]
  /\ UNCHANGED <<balance, req, pc, begun, rd, paidOut, orders, had, overtaken, poorer, moves>>

Step(t) ==
  \/ checkBalance(t) \/ poolShort(t) \/ validateTransactionLimit(t) \/ provider(t)
  \/ createOrder(t) \/ saveOrder(t) \/ findWallet(t) \/ commit(t) \/ fault(t)

Ended(t) == pc[t] \in {"debited", "failed", "refused"}

\* Nothing is left to do.
Terminated == (\A t \in Calls : Ended(t)) /\ saving = {} /\ UNCHANGED vars

Next ==
  \/ \E t \in Calls : Step(t)
  \/ \E m \in Moves : otherHandler(m)
  \/ nextDay
  \/ Terminated

Spec == Init /\ [][Next]_vars

-----------------------------------------------------------------------------
(* Properties.                                                             *)

TypeOK ==
  /\ balance \in Nat
  /\ daily \in [Services -> Nat] /\ monthly \in [Services -> Nat]
  /\ day \in 1..Days /\ begun \in [Calls -> 1..Days]
  /\ req \in [Calls -> Requests]
  /\ pc \in [Calls -> {"start", "limits", "provider", "order", "debit", "commit",
                       "debited", "failed", "refused"}]
  /\ rd \in [Calls -> Nat] /\ had \in [Calls -> Nat]
  /\ paidOut \subseteq Calls /\ saving \subseteq Calls /\ placed \subseteq Calls
  /\ overtaken \subseteq Calls /\ poorer \subseteq Calls
  /\ moves \in 0..MaxMoves

\* The first check saw the amount in the wallet, but not the charges and the
\* fee that the debit would add to it.
ShortOfCharges(t) == req[t].amount <= had[t] /\ had[t] < Total(req[t])

Unpriced(t) == Charged(req[t]) /\ ~Priced(req[t].amount)

\* When the provider has paid and the call is over, the wallet has been debited
\* and the order stored or on its way, unless the call was faulty, the wallet
\* was emptied under it, it could not bear the charges and the fee, or the
\* amount has no charges.  No other sequence of steps loses the debit of a
\* payout (payoutAccount, payoutUPI, rechargeAccount).
PaidOutIsDebited ==
  \A t \in paidOut : Ended(t) =>
    \/ pc[t] = "debited" /\ t \in saving \cup placed
    \/ t \in Faulty \cup poorer \/ ShortOfCharges(t) \/ Unpriced(t)

\* A debit no other row has slipped in front of since its check leaves the sums
\* of the day and of the month within the limits of validateTransactionLimit,
\* but for its own charges, whatever day it ends up on.
WithinLimits ==
  [][\A t \in Calls :
       pc[t] = "commit" /\ pc'[t] = "debited" /\ Service(t) \in Limited /\ t \notin overtaken =>
         LET most == Charges(req[t]) IN
         /\ daily'[Service(t)] <= DailyLimit[Service(t)] + most
         /\ monthly'[Service(t)] <= MonthlyLimit[Service(t)] + most]_vars

\* Why the two hold: what each step leaves behind for the steps that follow it.
CallOK(t) ==
  /\ t \in paidOut => pc[t] \in {"order", "debit", "commit", "debited", "failed"}
  /\ pc[t] \in {"order", "debit", "commit", "debited"} => t \in paidOut
  /\ pc[t] \in {"debit", "commit", "debited"} => t \in saving \cup placed /\ ~Unpriced(t)
  /\ t \in Waiting => req[t].amount <= had[t] /\ (t \in poorer \/ had[t] <= balance)
  /\ pc[t] = "commit" => req[t].amount <= had[t] /\ (t \in poorer \/ had[t] <= rd[t])
  /\ pc[t] = "failed" => t \in Faulty \cup poorer \/ ShortOfCharges(t) \/ Unpriced(t)
  /\ t \in Admitted(Service(t)) /\ Service(t) \in Limited =>
       t \in overtaken \/ Within(Service(t), req[t].amount)

\* The inductive invariant of the proofs.
IInv == TypeOK /\ \A t \in Calls : CallOK(t)
=============================================================================
