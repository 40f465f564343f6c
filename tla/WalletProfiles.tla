--------------------------- MODULE WalletProfiles ---------------------------
(***************************************************************************)
(* What the balance-moving handlers of WalletService (wallet.service.ts)   *)
(* do with the balances they have read, apart from when they read, write   *)
(* and commit.                                                             *)
(***************************************************************************)
EXTENDS Integers, FiniteSets

CONSTANTS Users,       \* users; each owns one wallet
          Orders,      \* recharge orders the provider may call back about
          NoOrder,     \* "this call concerns no recharge order"
          Tasks,       \* calls of the handlers
          Operations,  \* the calls the tasks may make (records, see Ops)
          Opening      \* wallet balances at the start

Credits == {"adminCredit", "processPaymentGatewaySuccess", "handleReferrelBonus",
            "handleCoinRedeem", "processRechargeRefundPayment"}
Payments == {"processRechargePayment", "processRechargePaymentNew", "processLoanPayment"}
Debits == {"adminDebit", "debitMyAccount", "debitAmountOnCardTransaction"} \cup Payments
OrderCallbacks == {"processRechargeRefundPayment", "processRechargeSuccess"}
Kinds == Credits \cup Debits \cup OrderCallbacks \cup {"processFundTransfer"}

Ops == [kind : Kinds, user : Users, peer : Users, amount : Int,
        charges : Int, fee : Int, order : Orders \cup {NoOrder}]

\* user is the caller, the payer or the referrer; peer the receiver or the
\* referee.  Only transfers and referral bonuses have two parties.
ASSUME WalletAssumption ==
  /\ NoOrder \notin Orders
  /\ Users \cap Orders = {}
  /\ Opening \in [Users -> Nat]
  /\ Operations \subseteq Ops
  /\ \A o \in Operations :
       /\ o.kind = "handleReferrelBonus" => o.peer # o.user
       /\ o.kind \in OrderCallbacks => o.order \in Orders
       /\ o.order \in Orders => o.kind \in OrderCallbacks \cup {"processRechargePayment"}
       /\ o.charges # 0 => o.kind \in Payments \ {"processLoanPayment"}
       /\ o.fee # 0 => o.kind = "processRechargePaymentNew"

Statuses == {"NONE", "PENDING", "SUCCESS", "FAILED"}

-----------------------------------------------------------------------------
(* What each handler does with the balances it has read: the checks it     *)
(* throws on, the change it makes to each wallet, what its rows add up to, *)
(* and the walletBalanceAfter its newest row shows.                        *)

Nothing == [u \in Users |-> 0]
At(user, amount) == [u \in Users |-> IF u = user THEN amount ELSE 0]

\* One wallet, one row built from the balance that was read.
SingleEntry(o, amount, bal, guard) ==
  [guard |-> guard, delta |-> At(o.user, amount), post |-> At(o.user, amount),
   rows |-> {o.user}, after |-> At(o.user, bal[o.user] + amount)]

UpdateMoneyToWallet(o, bal) ==
  SingleEntry(o, IF o.kind = "adminCredit" THEN o.amount ELSE -o.amount, bal, TRUE)

debitMyAccount(o, bal) == SingleEntry(o, -o.amount, bal, o.amount >= 0)

debitAmountOnCardTransaction(o, bal) == SingleEntry(o, -o.amount, bal, TRUE)

processPaymentGatewaySuccess(o, bal) == SingleEntry(o, o.amount, bal, o.amount >= 0)

processLoanPayment(o, bal) ==
  SingleEntry(o, -o.amount, bal, o.amount >= 0 /\ o.amount <= bal[o.user])

handleCoinRedeem(o, bal) == SingleEntry(o, o.amount, bal, TRUE)

\* A mutant: the charges are deducted but their row is forgotten.
Payment_chargesWithoutRow(o, bal, fee) ==
  [guard |-> o.amount >= 0 /\ o.amount <= bal[o.user],
   delta |-> At(o.user, -(o.amount + o.charges) - fee), post |-> At(o.user, -o.amount),
   rows |-> {o.user}, after |-> At(o.user, bal[o.user] - o.amount)]

\* The charges are a row of their own, saved before the main row; the guard
\* compares the balance with the amount alone; a fee has no row.
Payment(o, bal, fee) ==
  [guard |-> o.amount >= 0 /\ o.amount <= bal[o.user],
   delta |-> At(o.user, -(o.amount + o.charges) - fee),
   post |-> At(o.user, -(o.amount + o.charges)),
   rows |-> {o.user}, after |-> At(o.user, bal[o.user] - o.amount)]

processRechargePayment(o, bal) == Payment(o, bal, 0)

processRechargePaymentNew(o, bal) == Payment(o, bal, o.fee)

\* updateWalletBalance changes wallet.balance before its first await, so the
\* row literals that follow it count the amount twice.
processFundTransfer(o, bal) ==
  LET move == [u \in Users |-> IF u = o.user THEN -o.amount
                               ELSE IF u = o.peer THEN o.amount ELSE 0]
  IN [guard |-> o.user # o.peer /\ o.amount >= 0 /\ o.amount <= bal[o.user],
      delta |-> move, post |-> move, rows |-> {o.user, o.peer},
      after |-> [u \in Users |-> bal[u] + 2 * move[u]]]

\* The rows are built from wallets that already carry the bonus; with no bonus
\* configured the handler returns at once.
handleReferrelBonus(o, bal) ==
  LET bonus == [u \in Users |-> IF u \in {o.user, o.peer} THEN o.amount ELSE 0]
  IN [guard |-> o.amount # 0, delta |-> bonus, post |-> bonus,
      rows |-> {o.user, o.peer}, after |-> [u \in Users |-> bal[u] + 2 * bonus[u]]]

\* A mutant: the test of the order's status is dropped.
processRechargeRefundPayment_anyStatus(o, status) ==
  [guard |-> o.amount >= 0, delta |-> At(o.user, o.amount),
   post |-> Nothing, rows |-> {}, after |-> Nothing]

\* No row: the debit's own row turns FAILED.
processRechargeRefundPayment(o, status) ==
  [guard |-> o.amount >= 0 /\ status = "PENDING", delta |-> At(o.user, o.amount),
   post |-> Nothing, rows |-> {}, after |-> Nothing]

processRechargeSuccess ==
  [guard |-> TRUE, delta |-> Nothing, post |-> Nothing, rows |-> {}, after |-> Nothing]

Handler(o, bal, status) ==
  CASE o.kind \in {"adminCredit", "adminDebit"} -> UpdateMoneyToWallet(o, bal)
    [] o.kind = "debitMyAccount" -> debitMyAccount(o, bal)
    [] o.kind = "debitAmountOnCardTransaction" -> debitAmountOnCardTransaction(o, bal)
    [] o.kind = "processPaymentGatewaySuccess" -> processPaymentGatewaySuccess(o, bal)
    [] o.kind = "processLoanPayment" -> processLoanPayment(o, bal)
    [] o.kind = "handleCoinRedeem" -> handleCoinRedeem(o, bal)
    [] o.kind = "processRechargePayment" -> processRechargePayment(o, bal)
    [] o.kind = "processRechargePaymentNew" -> processRechargePaymentNew(o, bal)
    [] o.kind = "processFundTransfer" -> processFundTransfer(o, bal)
    [] o.kind = "handleReferrelBonus" -> handleReferrelBonus(o, bal)
    [] o.kind = "processRechargeRefundPayment" -> processRechargeRefundPayment(o, status)
    [] OTHER -> processRechargeSuccess

-----------------------------------------------------------------------------
(* The rows and effects of a call that do not depend on what it reads.     *)

Wallets(o) ==   \* the wallets it reads and saves
  CASE o.kind \in {"processFundTransfer", "handleReferrelBonus"} -> {o.user, o.peer}
    [] o.kind = "processRechargeSuccess" -> {}
    [] OTHER -> {o.user}

Targets(o) ==   \* the rows its transaction updates
  Wallets(o) \cup (IF o.kind \in OrderCallbacks THEN {o.order} ELSE {})

SavedBefore(o, x) ==   \* what it saves before x
  IF o.kind \in OrderCallbacks THEN {o.order} \ {x} ELSE {o.user} \ {x}

AddsCoins(o) ==
  o.kind \in Payments \cup {"processFundTransfer"}

SavesOrder(o) ==
  o.kind \in {"handleReferrelBonus", "handleCoinRedeem"}

Notifies(o) ==
  o.kind \notin {"debitAmountOnCardTransaction", "processFundTransfer", "processLoanPayment"}

DebitsOrder(o) == o.kind \notin OrderCallbacks /\ o.order \in Orders

\* The two wallet changes the handlers make without a transactions row.
OffLedger(o) ==
  CASE o.kind = "processRechargeRefundPayment" -> At(o.user, o.amount)
    [] o.kind = "processRechargePaymentNew" -> At(o.user, -o.fee)
    [] OTHER -> Nothing

CallbackStatus(o) == IF o.kind = "processRechargeSuccess" THEN "SUCCESS" ELSE "FAILED"

=============================================================================
