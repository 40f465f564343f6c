------------------------------- MODULE Ledger -------------------------------
(***************************************************************************)
(* What the wallet handlers promise their callers: a call takes effect     *)
(* once, as a whole, or not at all.  Wallets, rows and order statuses move *)
(* together, in one step, by what the handler intends (WalletProfiles).    *)
(*                                                                         *)
(* The promise has one gap, which the code leaves open.  A call may settle *)
(* on rows that other calls have settled on since it looked at them; what  *)
(* it then leaves in those wallets is any balance the constraint of the    *)
(* entity allows, and their owners' books are marked overwritten.          *)
(***************************************************************************)
EXTENDS WalletProfiles

VARIABLES balance,     \* committed wallet.balance
          posted,      \* signed sum of the committed transactions rows of a user
          offbook,     \* committed wallet changes that have no row
          order,       \* committed orders.status
          row,         \* committed transactions.status of the order's debit row
          refunds,     \* how often an order's amount was credited back
          op,          \* the call each task makes
          outcome,     \* "open", "settled" or "dropped"
          overwritten  \* rows some call has settled on after another had

books == <<balance, posted, offbook, order, row, refunds, overwritten>>
vars == <<books, op, outcome>>

Init ==
  /\ balance = Opening
  /\ posted = Nothing /\ offbook = Nothing
  /\ order = [o \in Orders |-> "NONE"]
  /\ row = [o \in Orders |-> "NONE"]
  /\ refunds = [o \in Orders |-> 0]
  /\ op \in [Tasks -> Operations]
  /\ outcome = [t \in Tasks |-> "open"]
  /\ overwritten = {}

\* The order of a recharge may be stored at any time.
PlaceOrder(o) ==
  /\ order[o] = "NONE"
  /\ order' = [order EXCEPT ![o] = "PENDING"]
  /\ UNCHANGED <<balance, posted, offbook, row, refunds, overwritten, op, outcome>>

\* What a call writes besides the wallets.
Record(o, post) ==
  /\ posted' = [u \in Users |-> posted[u] + post[u]]
  /\ offbook' = [u \in Users |-> offbook[u] + OffLedger(o)[u]]
  /\ order' = [i \in Orders |->
       IF i \in Targets(o) THEN CallbackStatus(o) ELSE order[i]]
  /\ row' = [i \in Orders |-> IF i \in Targets(o) THEN CallbackStatus(o)
                              ELSE IF DebitsOrder(o) /\ i = o.order THEN "PENDING" ELSE row[i]]
  /\ refunds' = [i \in Orders |->
       refunds[i] + IF o.kind = "processRechargeRefundPayment" /\ i = o.order THEN 1 ELSE 0]

\* A call settles: it changes each wallet by what its handler intends, and the
\* handler's checks hold of the balances and the status it settles on.  It may
\* be late on some of its rows, whose current content it then overwrites.
Settle(t) ==
  /\ outcome[t] = "open"
  /\ \E late \in SUBSET Targets(op[t]), status \in Statuses :
       LET e == Handler(op[t], balance, status)
           read == [u \in Users |-> IF u \in late THEN balance'[u] - e.delta[u] ELSE balance[u]]
       IN /\ \A i \in (Targets(op[t]) \cap Orders) \ late : status = order[i]
          /\ op[t].kind \in OrderCallbacks => status # "NONE"
          /\ Handler(op[t], read, status).guard
          /\ balance' \in [Users -> Nat]
          /\ \A u \in Users : balance'[u] = read[u] + e.delta[u]
          /\ Record(op[t], e.post)
          /\ overwritten' = overwritten \cup late
  /\ outcome' = [outcome EXCEPT ![t] = "settled"]
  /\ UNCHANGED op

\* A refused, failed or aborted call leaves the books alone.
Drop(t) ==
  /\ outcome[t] = "open"
  /\ outcome' = [outcome EXCEPT ![t] = "dropped"]
  /\ UNCHANGED <<books, op>>

Next ==
  \/ \E o \in Orders : PlaceOrder(o)
  \/ \E t \in Tasks : Settle(t) \/ Drop(t)

Spec == Init /\ [][Next]_vars
=============================================================================
