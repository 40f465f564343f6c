--------------------------- MODULE WalletService ---------------------------
(***************************************************************************)
(* The balance-moving handlers of WalletService (wallet.service.ts).       *)
(*                                                                         *)
(* A task is one call of a handler.  handleTransaction opens a database    *)
(* transaction for it, but the handler reads the wallet and the order      *)
(* through the repositories, that is on another connection: it sees the    *)
(* committed row and takes no lock.  queryRunner.manager.save(wallet) then *)
(* writes, inside the transaction, the ABSOLUTE balance computed from what *)
(* was read, and holds the row lock until commit or rollback.  The coin    *)
(* row and the referral and cashback orders are written outside the        *)
(* transaction, the notification job is added to its queue before commit.  *)
(***************************************************************************)
EXTENDS WalletProfiles

CONSTANT Faulty   \* tasks on which a statement or a queue call may fail

ASSUME FaultyAssumption == Faulty \subseteq Tasks

VARIABLES balance,   \* committed wallet.balance
          posted,    \* signed sum of the committed transactions rows of a user
          offbook,   \* history: committed wallet changes that have no row
          shown,     \* walletBalanceAfter of the user's newest transactions row
          order,     \* committed orders.status, "NONE" before the row exists
          row,       \* committed transactions.status of the order's debit row
          refunds,   \* history: how often an order's amount was credited back
          op,        \* the call each task makes
          pc,        \* what the task does next
          seen,      \* the order status a callback handler has read
          rd,        \* the balances a handler has read
          got,       \* the wallets and the order it has read
          saved,     \* rows its transaction has written and keeps locked
          missed,    \* history: what others have committed since it read it
          stale,     \* history: rows once written from such a stale read
          outside,   \* tasks whose write outside the transaction is done
          notified   \* tasks whose notification job is queued

store == <<balance, posted, offbook, shown, order, row, refunds, stale>>
local == <<op, seen, rd, got, missed>>
vars == <<store, local, pc, saved, outside, notified>>

Active(t) == pc[t] \notin {"committed", "aborted"}

-----------------------------------------------------------------------------
(* The order in which a handler reads, writes and commits.                 *)

Effect(t) == Handler(op[t], rd[t], seen[t])

FirstStep(o) == IF o.kind \in OrderCallbacks THEN "order" ELSE "wallet"

AfterCheck(o) ==
  IF o.kind \in OrderCallbacks THEN "row" ELSE IF SavesOrder(o) THEN "outside" ELSE "save"

AfterOutside(o) == IF SavesOrder(o) THEN "save" ELSE IF Notifies(o) THEN "notify" ELSE "commit"

\* A mutant: the transaction commits without waiting for addCoins.
AfterSave_withoutCoins(o) == IF Notifies(o) THEN "notify" ELSE "commit"

AfterSave(o) == IF AddsCoins(o) THEN "outside" ELSE IF Notifies(o) THEN "notify" ELSE "commit"

Init ==
  /\ balance = Opening
  /\ posted = Nothing /\ offbook = Nothing
  /\ shown = Opening
  /\ order = [o \in Orders |-> "NONE"]
  /\ row = [o \in Orders |-> "NONE"]
  /\ refunds = [o \in Orders |-> 0]
  /\ stale = {}
  /\ op \in [Tasks -> Operations]
  /\ \A t \in Tasks : \A s \in Tasks \ {t} :   \* an order is debited by one call
       DebitsOrder(op[t]) /\ DebitsOrder(op[s]) => op[t].order # op[s].order
  /\ pc = [t \in Tasks |-> FirstStep(op[t])]
  /\ seen = [t \in Tasks |-> "NONE"]
  /\ rd = [t \in Tasks |-> Nothing]
  /\ got = [t \in Tasks |-> {}]
  /\ saved = [t \in Tasks |-> {}]
  /\ missed = [t \in Tasks |-> {}]
  /\ outside = {} /\ notified = {}

Goto(t, step) == pc' = [pc EXCEPT ![t] = step]

\* A mutant: the rollback in the catch block is missing.
handleTransactionRollback_missing(t) ==
  /\ Goto(t, "aborted")
  /\ UNCHANGED <<store, local, saved, outside, notified>>

\* rollbackTransaction: nothing the transaction wrote remains, its locks go.
\* What the handler wrote outside of it stays.
handleTransactionRollback(t) ==
  /\ Goto(t, "aborted")
  /\ saved' = [saved EXCEPT ![t] = {}]
  /\ UNCHANGED <<store, local, outside, notified>>

\* rechargeAccount does not await this save, so it may land at any time.
saveRechargeOrder(o) ==
  /\ order[o] = "NONE"
  /\ order' = [order EXCEPT ![o] = "PENDING"]
  /\ UNCHANGED <<balance, posted, offbook, shown, row, refunds, stale,
                 local, pc, saved, outside, notified>>

\* A mutant: a missing row is tolerated.
Found_tolerant(status) == TRUE

\* A missing order or debit row is null, and the next member access throws.
Found(status) == status # "NONE"

findOrder(t) ==
  /\ pc[t] = "order"
  /\ IF Found(order[op[t].order])
     THEN /\ seen' = [seen EXCEPT ![t] = order[op[t].order]]
          /\ got' = [got EXCEPT ![t] = @ \cup {op[t].order}]
          /\ Goto(t, IF op[t].kind = "processRechargeSuccess" THEN "row" ELSE "wallet")
          /\ UNCHANGED <<store, op, rd, missed, saved, outside, notified>>
     ELSE handleTransactionRollback(t)

\* A mutant: wallets are read through a cache that is never refreshed.
WalletRead_cached(u) == Opening[u]

\* What a repository read returns: the last committed balance.
WalletRead(u) == balance[u]

findWalletByUserId(t, u) ==
  /\ pc[t] = "wallet"
  /\ u \in Wallets(op[t]) \ got[t]
  /\ op[t].kind = "processFundTransfer" /\ u # op[t].user => op[t].user \in got[t]
  /\ rd' = [rd EXCEPT ![t][u] = WalletRead(u)]
  /\ got' = [got EXCEPT ![t] = @ \cup {u}]
  /\ Goto(t, IF Wallets(op[t]) \subseteq got[t] \cup {u} THEN "check" ELSE "wallet")
  /\ UNCHANGED <<store, op, seen, missed, saved, outside, notified>>

check(t) ==
  /\ pc[t] = "check"
  /\ IF Effect(t).guard
     THEN /\ Goto(t, AfterCheck(op[t]))
          /\ UNCHANGED <<store, local, saved, outside, notified>>
     ELSE handleTransactionRollback(t)

findTransaction(t) ==
  /\ pc[t] = "row"
  /\ IF Found(row[op[t].order])
     THEN /\ Goto(t, "save")
          /\ UNCHANGED <<store, local, saved, outside, notified>>
     ELSE handleTransactionRollback(t)

\* addCoins, or the save of the referral or cashback order: committed at once.
writeOutside(t) ==
  /\ pc[t] = "outside"
  /\ outside' = outside \cup {t}
  /\ Goto(t, AfterOutside(op[t]))
  /\ UNCHANGED <<store, local, saved, notified>>

LockHolders(x) == {t \in Tasks : x \in saved[t]}

NextSaves(t) == {x \in Targets(op[t]) \ saved[t] : SavedBefore(op[t], x) \subseteq saved[t]}

\* A mutant: the balance helper is applied twice to the same wallet object.
NewBalance_twice(t, u) == rd[t][u] + 2 * Effect(t).delta[u]

NewBalance(t, u) == rd[t][u] + Effect(t).delta[u]

SatisfiesCheck(amount) == amount >= 0   \* @Check('balance >= 0')

\* manager.save(x): waits for the row lock; a negative balance is refused by
\* the database and rolls the transaction back.
save(t, x) ==
  /\ pc[t] = "save"
  /\ x \in NextSaves(t)
  /\ LockHolders(x) = {}
  /\ IF x \in Users => SatisfiesCheck(NewBalance(t, x))
     THEN /\ saved' = [saved EXCEPT ![t] = @ \cup {x}]
          /\ Goto(t, IF Targets(op[t]) \subseteq saved[t] \cup {x}
                     THEN AfterSave(op[t]) ELSE "save")
          /\ UNCHANGED <<store, local, outside, notified>>
     ELSE handleTransactionRollback(t)

notify(t) ==
  /\ pc[t] = "notify"
  /\ notified' = notified \cup {t}
  /\ Goto(t, "commit")
  /\ UNCHANGED <<store, local, saved, outside>>

\* commitTransaction: every row the transaction wrote becomes visible at once.
commit(t) ==
  LET o == op[t]
      e == Effect(t)
  IN /\ pc[t] = "commit"
     /\ balance' = [u \in Users |-> IF u \in saved[t] THEN NewBalance(t, u) ELSE balance[u]]
     /\ posted' = [u \in Users |-> posted[u] + e.post[u]]
     /\ offbook' = [u \in Users |-> offbook[u] + OffLedger(o)[u]]
     /\ shown' = [u \in Users |-> IF u \in e.rows THEN e.after[u] ELSE shown[u]]
     /\ order' = [i \in Orders |-> IF i \in saved[t] THEN CallbackStatus(o) ELSE order[i]]
     /\ row' = [i \in Orders |-> IF i \in saved[t] THEN CallbackStatus(o)
                                 ELSE IF DebitsOrder(o) /\ i = o.order THEN "PENDING" ELSE row[i]]
     /\ refunds' = [i \in Orders |->
          refunds[i] + IF o.kind = "processRechargeRefundPayment" /\ i = o.order THEN 1 ELSE 0]
     /\ missed' = [s \in Tasks |->
          IF s # t THEN missed[s] \cup (got[s] \cap saved[t]) ELSE missed[s]]
     /\ stale' = stale \cup (saved[t] \cap missed[t])
     /\ saved' = [saved EXCEPT ![t] = {}]
     /\ Goto(t, "committed")
     /\ UNCHANGED <<op, seen, rd, got, outside, notified>>

\* A statement or a queue call fails, or the process dies: handleTransaction
\* (or the database, for a dead connection) rolls back.
fail(t) ==
  /\ t \in Faulty
  /\ Active(t)
  /\ handleTransactionRollback(t)

\* handleReferrelBonus catches the failure of its notification and commits.
referralNotifyFails(t) ==
  /\ t \in Faulty
  /\ pc[t] = "notify"
  /\ op[t].kind = "handleReferrelBonus"
  /\ Goto(t, "commit")
  /\ UNCHANGED <<store, local, saved, outside, notified>>

\* The tasks holding the lock that t is waiting for.
WaitsFor(t) ==
  IF pc[t] = "save" THEN UNION {LockHolders(x) : x \in NextSaves(t)} ELSE {}

Deadlocked(t) ==
  \E ring \in SUBSET Tasks :
    /\ t \in ring
    /\ \A s \in ring : \E r \in ring : r \in WaitsFor(s)
    /\ \A r \in ring : \E s \in ring : r \in WaitsFor(s)

\* The database aborts one transaction of a cycle of lock waits.
deadlockDetected(t) == Deadlocked(t) /\ handleTransactionRollback(t)

Step(t) ==
  \/ findOrder(t)
  \/ \E u \in Users : findWalletByUserId(t, u)
  \/ check(t)
  \/ findTransaction(t)
  \/ writeOutside(t)
  \/ \E x \in Users \cup Orders : save(t, x)
  \/ notify(t)
  \/ commit(t)
  \/ deadlockDetected(t)

\* Every call has ended or waits for a lock.
Terminated == (\A t \in Tasks : Active(t) => WaitsFor(t) # {}) /\ UNCHANGED vars

Next ==
  \/ \E o \in Orders : saveRechargeOrder(o)
  \/ \E t \in Tasks : Step(t) \/ fail(t) \/ referralNotifyFails(t)
  \/ Terminated

Spec == Init /\ [][Next]_vars

\* The database and the event loop keep running every call.
FairSpec == Spec /\ \A t \in Tasks : WF_vars(Step(t))

-----------------------------------------------------------------------------
Steps == {"order", "wallet", "check", "row", "outside", "save", "notify", "commit",
          "committed", "aborted"}

\* Every variable stays in its range.
TypeOK ==
  /\ balance \in [Users -> Int]
  /\ posted \in [Users -> Int] /\ offbook \in [Users -> Int] /\ shown \in [Users -> Int]
  /\ order \in [Orders -> Statuses] /\ row \in [Orders -> Statuses]
  /\ refunds \in [Orders -> Nat]
  /\ op \in [Tasks -> Operations]
  /\ pc \in [Tasks -> Steps]
  /\ seen \in [Tasks -> Statuses]
  /\ rd \in [Tasks -> [Users -> Int]]
  /\ got \in [Tasks -> SUBSET (Users \cup Orders)]
  /\ saved \in [Tasks -> SUBSET (Users \cup Orders)]
  /\ missed \in [Tasks -> SUBSET (Users \cup Orders)]
  /\ stale \subseteq Users \cup Orders /\ outside \subseteq Tasks /\ notified \subseteq Tasks

\* No committed wallet balance is negative, whatever mix of handlers races on
\* it: the guards compare with a balance that may be out of date, so it is the
\* constraint of the entity that must hold the line.
NonNegative == \A u \in Users : balance[u] >= 0

\* A wallet agrees with its rows, up to the refunds and convenience fees that
\* have none, unless some handler wrote it from a read another commit had made
\* out of date: the lost update of the read-then-save handlers is the ONLY way
\* the books go wrong, and rollbacks, deadlock victims and negative saves leave
\* wallet and rows together.
BooksBalance ==
  \A u \in Users \ stale : balance[u] = Opening[u] + posted[u] + offbook[u]

\* A commit that no other commit has raced changes each wallet by exactly what
\* its handler intends, no matter what was running beside it; and the balance it
\* leaves on the statement is the one in the wallet, for a handler with one
\* party and without charges and fee.
FreshCommit ==
  [][\A t \in Tasks : pc[t] = "commit" /\ pc'[t] = "committed" =>
       /\ \A u \in Wallets(op[t]) \ missed[t] : balance'[u] = balance[u] + Effect(t).delta[u]
       /\ op[t].kind \notin {"processFundTransfer", "handleReferrelBonus"}
          /\ op[t].charges = 0 /\ op[t].fee = 0 =>
            \A u \in Effect(t).rows \ missed[t] : shown'[u] = balance'[u]]_vars

\* What a handler does outside its transaction is done before it commits: no
\* payment is committed without its coins, no bonus without its order, and
\* (but for a referral whose notification failed) none without its notification.
EffectsBeforeCommit ==
  \A t \in Tasks : pc[t] = "committed" =>
    /\ AddsCoins(op[t]) \/ SavesOrder(op[t]) => t \in outside
    /\ Notifies(op[t]) /\ ~(t \in Faulty /\ SavesOrder(op[t])) => t \in notified

Debited(o) == \E t \in Tasks : DebitsOrder(op[t]) /\ op[t].order = o /\ pc[t] = "committed"

\* A callback settles an order, and a refund credits it, only once the debit
\* it answers is committed, although callbacks may overtake the debit.
CallbackNeedsDebit ==
  \A o \in Orders : refunds[o] > 0 \/ order[o] \in {"SUCCESS", "FAILED"} => Debited(o)

\* Every call ends, committed or rolled back: no lock is kept for ever and
\* calls that wait for each other do not wait for ever.
HandlersFinish == \A t \in Tasks : <>~Active(t)

\* The error of wallet.service.ts:531, 'Order is not in pending state', says
\* that an order is refunded at most once: while no wallet write was lost, the
\* amount of an order reaches the wallet once.
RefundOnce == stale \cap Users = {} => \A o \in Orders : refunds[o] <= 1

\* An order that no callback has settled from an outdated read is refunded at
\* most once, and never before it has left PENDING: duplicates, SUCCESS after
\* FAILED and FAILED after SUCCESS do no harm as long as they do not overlap.
RefundOnceUnlessRaced ==
  \A o \in Orders \ stale :
    /\ refunds[o] <= 1
    /\ order[o] \in {"NONE", "PENDING"} => refunds[o] = 0

-----------------------------------------------------------------------------
(* What makes the invariants above inductive.                              *)

\* How far a task has read and saved follows from what it does next.
Progress(t) ==
  /\ got[t] \subseteq Targets(op[t])
  /\ saved[t] \subseteq Targets(op[t])
  /\ pc[t] = "order" => got[t] = {}
  /\ Active(t) /\ pc[t] # "order" => Targets(op[t]) \cap Orders \subseteq got[t]
  /\ pc[t] \in {"order", "wallet", "check", "row"} => saved[t] = {}
  /\ pc[t] \in {"check", "row", "outside", "save", "notify", "commit"} =>
       Wallets(op[t]) \subseteq got[t]
  /\ pc[t] \in {"notify", "commit"} => saved[t] = Targets(op[t])
  /\ pc[t] = "outside" /\ ~SavesOrder(op[t]) => saved[t] = Targets(op[t])

\* A handler past its checks holds on to reads that satisfied them.
Checked(t) ==
  pc[t] \in {"row", "outside", "save", "notify", "commit"} /\ op[t].kind # "processRechargeSuccess"
    => Effect(t).guard

\* What a running handler has read is current unless a commit has passed it.
FreshRead(t) ==
  Active(t) =>
    /\ \A u \in (got[t] \cap Users) \ missed[t] : rd[t][u] = balance[u]
    /\ \A o \in got[t] \cap Orders :
         seen[t] # "NONE" /\ (o \notin missed[t] => seen[t] = order[o])

\* A written but uncommitted balance has passed the CHECK constraint.
PendingNonNegative(t) == \A u \in saved[t] \cap Users : NewBalance(t, u) >= 0

\* What a handler has left outside its transaction, and a callback has found,
\* follows from how far it has come.
Reached(t) ==
  /\ AddsCoins(op[t]) /\ pc[t] \in {"notify", "commit", "committed"} => t \in outside
  /\ SavesOrder(op[t]) /\ pc[t] \in {"save", "notify", "commit", "committed"} => t \in outside
  /\ Notifies(op[t]) /\ ~(t \in Faulty /\ SavesOrder(op[t])) /\ pc[t] \in {"commit", "committed"}
       => t \in notified
  /\ op[t].kind \in OrderCallbacks /\ pc[t] \in {"save", "notify", "commit"}
       => row[op[t].order] # "NONE"
  /\ pc[t] = "outside" => op[t].kind \notin OrderCallbacks

\* The debit's row exists only once the debit is committed.
InOrder ==
  /\ \A t \in Tasks : Reached(t)
  /\ \A o \in Orders : row[o] # "NONE" => Debited(o)
  /\ CallbackNeedsDebit

IInv ==
  /\ \A t \in Tasks : Progress(t) /\ Checked(t) /\ FreshRead(t) /\ PendingNonNegative(t)
  /\ NonNegative
  /\ BooksBalance
  /\ RefundOnceUnlessRaced

=============================================================================
