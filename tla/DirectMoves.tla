---------------------------- MODULE DirectMoves ----------------------------
(***************************************************************************)
(* The handlers that write wallets without a transaction: sendMoney by     *)
(* number, scratchReward and checkPaymentStatus of users.service.ts,       *)
(* handleBusyBoxPayoutEvents of external.service.ts, dynamicQRHandler of   *)
(* payment-external.service.ts, upgradePlan of subscriptions.service.ts.   *)
(*                                                                         *)
(* Each statement commits on its own.  A handler is a program: the list of *)
(* its reads and saves, in the order of the code.  Any number of calls run *)
(* interleaved, and one may break off between any two statements.          *)
(***************************************************************************)
EXTENDS Integers, Sequences, FiniteSets, Functions

CONSTANTS Users, Tasks,
          Operations,   \* the calls a task may make; no amount is negative, though
                        \* SendMoneyRequestDto does not say so
          Items,        \* the rewards and the QR orders they are about
          Opening,      \* the balances of the wallets
          Faulty        \* tasks on which a statement may fail

\* What each handler does, statement by statement.  A wallet is debited at
\* "savePayer" and credited at "savePayee"; "rowPayer" and "rowPayee" add a row
\* to the user's statement (transactionMoney).
sendMoney == <<"readPayer", "savePayer", "readPayee", "savePayee", "rowPayee", "rowPayer">>

scratchReward == <<"findReward", "markRead", "rowPayee", "readPayee", "savePayee">>

checkPaymentStatus == <<"readPayee", "savePayee">>

handleBusyBoxPayoutEvents == <<"readPayee", "savePayee", "rowPayee">>

\* A mutant: the order is settled first and the wallet credited afterwards.
paymentSucceeded_orderFirst == <<"findOrder", "saveOrder", "readPayee", "savePayee", "rowPayee">>

paymentSucceeded == <<"findOrder", "readPayee", "savePayee", "rowPayee", "saveOrder">>

paymentFailed == <<"findOrder", "saveOrder">>

upgradePlan == <<"findPlan", "readPayer", "savePayer", "saveSubscription">>

Program ==
  [sendMoney |-> sendMoney, scratchReward |-> scratchReward,
   checkPaymentStatus |-> checkPaymentStatus,
   handleBusyBoxPayoutEvents |-> handleBusyBoxPayoutEvents,
   paymentSucceeded |-> paymentSucceeded, paymentFailed |-> paymentFailed,
   upgradePlan |-> upgradePlan]

ASSUME DirectMovesAssumption ==
  /\ Operations \subseteq [kind : DOMAIN Program, from : Users, to : Users,
                           amount : Nat, fee : Nat, item : Items]
  /\ Opening \in [Users -> Nat]
  /\ Faulty \subseteq Tasks

VARIABLES balance,   \* wallet.balance
          listed,    \* signed sum of a user's transactionMoney rows
          isRead,    \* rewards that are marked read
          order,     \* orders.status of a QR order, "NONE" before it exists
          plans,     \* how many subscriptions of a user are current
          op, pc,    \* the call of each task, and where it is in its program
          over,      \* tasks whose call was refused or has broken off
          rd,        \* the balance a task has read
          missed,    \* history: tasks whose wallet another has saved since
          stale,     \* history: wallets saved from such a read
          raced      \* history: items and users two calls looked at before either wrote

wallets == <<balance, missed, stale>>
rest == <<listed, isRead, order, plans, raced>>
vars == <<wallets, rest, op, pc, over, rd>>

Running(t) == t \notin over /\ pc[t] <= Len(Program[op[t].kind])

At(t, step) == Running(t) /\ Program[op[t].kind][pc[t]] = step

\* What a task has behind it.
Did(t, step) == \E i \in 1..(pc[t] - 1) : Program[op[t].kind][i] = step

Advance(t) == pc' = [pc EXCEPT ![t] = @ + 1] /\ UNCHANGED <<op, over>>

Refuse(t) == over' = over \cup {t} /\ UNCHANGED <<op, pc>>

Init ==
  /\ balance = Opening /\ listed = [u \in Users |-> 0]
  /\ isRead = {} /\ order = [i \in Items |-> "NONE"]
  /\ plans = [u \in Users |-> 0]
  /\ op \in [Tasks -> Operations] /\ pc = [t \in Tasks |-> 1]
  /\ over = {} /\ rd = [t \in Tasks |-> 0]
  /\ missed = {} /\ stale = {} /\ raced = {}

-----------------------------------------------------------------------------
(* Wallets.                                                                *)

\* A mutant: the fee is shown on the statement and not taken.
Cost_withoutFee(o) == o.amount

Cost(o) == o.amount + o.fee

\* sendMoney compares the amount alone, upgradePlan has no fee.
readPayer(t) ==
  /\ At(t, "readPayer")
  /\ rd' = [rd EXCEPT ![t] = balance[op[t].from]]
  /\ missed' = missed \ {t}
  /\ IF balance[op[t].from] >= op[t].amount THEN Advance(t) ELSE Refuse(t)
  /\ UNCHANGED <<balance, stale, rest>>

readPayee(t) ==
  /\ At(t, "readPayee")
  /\ rd' = [rd EXCEPT ![t] = balance[op[t].to]]
  /\ missed' = missed \ {t}
  /\ Advance(t)
  /\ UNCHANGED <<balance, stale, rest>>

\* The tasks that have read wallet u and are about to save it.
Savers(u) ==
  {s \in Tasks : \/ At(s, "savePayer") /\ op[s].from = u
                 \/ At(s, "savePayee") /\ op[s].to = u}

\* walletRepository.save: the absolute balance, whatever is there by now.
Save(t, u, amount) ==
  /\ balance' = [balance EXCEPT ![u] = amount]
  /\ stale' = stale \cup IF t \in missed THEN {u} ELSE {}
  /\ missed' = missed \cup (Savers(u) \ {t})
  /\ Advance(t)
  /\ UNCHANGED <<rest, rd>>

\* @Check('balance >= 0') of the wallet.
Allowed(b) == b >= 0

savePayer(t) ==
  /\ At(t, "savePayer")
  /\ Allowed(rd[t] - Cost(op[t]))
  /\ Save(t, op[t].from, rd[t] - Cost(op[t]))

\* The constraint refuses the save, and the handler throws.
violatesCheck(t) ==
  /\ At(t, "savePayer")
  /\ ~Allowed(rd[t] - Cost(op[t]))
  /\ Refuse(t)
  /\ UNCHANGED <<wallets, rest, rd>>

savePayee(t) ==
  /\ At(t, "savePayee")
  /\ Save(t, op[t].to, rd[t] + op[t].amount)

\* The rows of the statement: the payer's shows the fee as well.
saveRow(t) ==
  /\ \/ /\ At(t, "rowPayer")
        /\ listed' = [listed EXCEPT ![op[t].from] = @ - op[t].amount - op[t].fee]
     \/ /\ At(t, "rowPayee")
        /\ listed' = [listed EXCEPT ![op[t].to] = @ + op[t].amount]
  /\ Advance(t)
  /\ UNCHANGED <<wallets, isRead, order, plans, raced, rd>>

-----------------------------------------------------------------------------
(* Rewards, QR orders and subscriptions.                                   *)

\* A mutant: the reward is looked up by its id alone.
Unread_any(i) == TRUE

Unread(i) == i \notin isRead

findReward(t) ==
  /\ At(t, "findReward")
  /\ IF Unread(op[t].item) THEN Advance(t) ELSE Refuse(t)
  /\ raced' = raced \cup
       {i \in {op[t].item} : \E s \in Tasks \ {t} : At(s, "markRead") /\ op[s].item = i}
  /\ UNCHANGED <<wallets, listed, isRead, order, plans, rd>>

markRead(t) ==
  /\ At(t, "markRead")
  /\ isRead' = isRead \cup {op[t].item}
  /\ Advance(t)
  /\ UNCHANGED <<wallets, listed, order, plans, raced, rd>>

createPaymentRequestOrder(i) ==
  /\ order[i] = "NONE"
  /\ order' = [order EXCEPT ![i] = "PENDING"]
  /\ UNCHANGED <<wallets, listed, isRead, plans, raced, op, pc, over, rd>>

\* dynamicQRHandler asks whether the order exists, not what state it is in.
findOrder(t) ==
  /\ At(t, "findOrder")
  /\ IF order[op[t].item] = "NONE" THEN Refuse(t) ELSE Advance(t)
  /\ UNCHANGED <<wallets, rest, rd>>

saveOrder(t) ==
  /\ At(t, "saveOrder")
  /\ order' = [order EXCEPT ![op[t].item] =
                 IF op[t].kind = "paymentSucceeded" THEN "SUCCESS" ELSE "FAILED"]
  /\ Advance(t)
  /\ UNCHANGED <<wallets, listed, isRead, plans, raced, rd>>

\* A mutant: the plan is found, and its subscription never made a former one.
HasNoPlan_anyPlan(u) == TRUE

\* calculateUpgradeCost looks the current plan up by the id of the
\* subscription, finds none, and reads the price of null.
HasNoPlan(u) == plans[u] = 0

findPlan(t) ==
  /\ At(t, "findPlan")
  /\ IF HasNoPlan(op[t].from) THEN Advance(t) ELSE Refuse(t)
  /\ raced' = raced \cup
       {u \in {op[t].from} : \E s \in Tasks \ {t} :
          /\ op[s].kind = "upgradePlan" /\ op[s].from = u
          /\ Did(s, "findPlan") /\ Running(s)}
  /\ UNCHANGED <<wallets, listed, isRead, order, plans, rd>>

\* The update of the former subscription matches no row, for the same reason.
saveSubscription(t) ==
  /\ At(t, "saveSubscription")
  /\ plans' = [plans EXCEPT ![op[t].from] = @ + 1]
  /\ Advance(t)
  /\ UNCHANGED <<wallets, listed, isRead, order, raced, rd>>

\* A statement fails: what came before it stays.
fail(t) ==
  /\ t \in Faulty /\ Running(t)
  /\ Refuse(t)
  /\ UNCHANGED <<wallets, rest, rd>>

Step(t) ==
  \/ readPayer(t) \/ readPayee(t) \/ savePayer(t) \/ violatesCheck(t) \/ savePayee(t)
  \/ saveRow(t) \/ findReward(t) \/ markRead(t) \/ findOrder(t) \/ saveOrder(t)
  \/ findPlan(t) \/ saveSubscription(t) \/ fail(t)

Terminated == (\A t \in Tasks : ~Running(t)) /\ UNCHANGED vars

Next ==
  \/ \E t \in Tasks : Step(t)
  \/ \E i \in Items : createPaymentRequestOrder(i)
  \/ Terminated

Spec == Init /\ [][Next]_vars

-----------------------------------------------------------------------------
(* Properties.                                                             *)

TypeOK ==
  /\ balance \in [Users -> Nat] /\ listed \in [Users -> Int]
  /\ isRead \subseteq Items /\ order \in [Items -> {"NONE", "PENDING", "SUCCESS", "FAILED"}]
  /\ plans \in [Users -> Nat]
  /\ op \in [Tasks -> Operations] /\ pc \in [Tasks -> Nat \ {0}]
  /\ over \subseteq Tasks /\ rd \in [Tasks -> Nat]
  /\ missed \subseteq Tasks /\ stale \subseteq Users /\ raced \subseteq Items \cup Users

\* A call that has changed no wallet and listed nothing, or has run to its end
\* and lists what it does.  checkPaymentStatus and upgradePlan list nothing.
Settled(t) ==
  \/ ~\E step \in {"savePayer", "savePayee", "rowPayer", "rowPayee"} : Did(t, step)
  \/ op[t].kind \notin {"checkPaymentStatus", "upgradePlan"} /\ t \notin over /\ ~Running(t)

\* A user's statement explains the balance, when no call on the wallet is under
\* way or broken off and no save was made from an outdated read (sendMoney,
\* scratchReward, the webhooks): no other interleaving loses or makes money.
StatementAddsUp ==
  \A u \in Users \ stale :
    (\A t \in Tasks : u \in {op[t].from, op[t].to} => Settled(t)) =>
      balance[u] = Opening[u] + listed[u]

Scratches(i) == {t \in Tasks : op[t].kind = "scratchReward" /\ op[t].item = i}

\* A reward is paid at most once, however many calls of scratchReward there
\* are, unless two of them looked for it before either had marked it; and one
\* marked read has been paid, is about to be, or fell to a fault: no legal
\* sequence of calls uses a reward up for nothing.
RewardPaidOnce ==
  /\ \A i \in Items \ raced : \A t, s \in Scratches(i) :
       Did(t, "savePayee") /\ Did(s, "savePayee") => t = s
  /\ \A i \in isRead : \E t \in Scratches(i) : Did(t, "savePayee") \/ Running(t) \/ t \in Faulty

\* A QR order shows SUCCESS only after its amount was credited, even when
\* notifications overlap, repeat or break off (dynamicQRHandler).
SuccessIsCredited ==
  \A i \in Items : order[i] = "SUCCESS" =>
    \E t \in Tasks : op[t].kind = "paymentSucceeded" /\ op[t].item = i /\ Did(t, "savePayee")

\* A user has at most one current subscription, unless two upgrades overlap;
\* and each was paid for (upgradePlan).
OneCurrentPlan ==
  \A u \in Users :
    /\ u \in raced \/ plans[u] <= 1
    /\ plans[u] > 0 => \E t \in Tasks :
         op[t].kind = "upgradePlan" /\ op[t].from = u /\ Did(t, "savePayer")

-----------------------------------------------------------------------------
(* Why they hold, by the position of the calls in their programs.          *)

Upgrades(u) == {t \in Tasks : op[t].kind = "upgradePlan" /\ op[t].from = u}

Payments(i) == {t \in Tasks : op[t].kind = "paymentSucceeded" /\ op[t].item = i}

\* The call has found its reward, and marks it next or has marked it.
InMark(t) == pc[t] > 2 \/ (pc[t] = 2 /\ t \notin over)

\* The call has marked its reward, and only a fault has stopped it since.
InPayment(t) == pc[t] > 2 /\ (t \notin over \/ t \in Faulty)

\* The call has found no current subscription and has not stored its own.
InUpgrade(t) == pc[t] \in 2..4 /\ t \notin over

RewardsOK ==
  \A i \in Items :
    /\ \A t \in Scratches(i) : pc[t] > 2 => i \in isRead
    /\ i \in isRead => \E t \in Scratches(i) : InPayment(t)
    /\ i \notin raced => \A t, s \in Scratches(i) : InMark(t) /\ InMark(s) => t = s

OrdersOK == \A i \in Items : order[i] = "SUCCESS" => \E t \in Payments(i) : pc[t] > 3

PlansOK ==
  \A u \in Users :
    /\ plans[u] > 0 => \E t \in Upgrades(u) : pc[t] > 3
    /\ u \notin raced =>
         /\ plans[u] <= 1
         /\ \A t \in Upgrades(u) : InUpgrade(t) => plans[u] = 0
         /\ \A t, s \in Upgrades(u) : InUpgrade(t) /\ InUpgrade(s) => t = s

\* A call that no save has passed holds the balance it is about to save on.
FreshRead == \A u \in Users : \A t \in Savers(u) \ missed : rd[t] = balance[u]

Done(t, step, amount) == IF Did(t, step) THEN amount ELSE 0

\* What each call has put into or taken from a user's wallet and not listed.
Unlisted(u) ==
  [t \in Tasks |->
     (IF op[t].to = u
      THEN Done(t, "savePayee", op[t].amount) - Done(t, "rowPayee", op[t].amount) ELSE 0)
     + (IF op[t].from = u
        THEN Done(t, "rowPayer", Cost(op[t])) - Done(t, "savePayer", Cost(op[t])) ELSE 0)]

Begun == {t \in Tasks : pc[t] > 1}

\* The balance is what the statement says and what the calls have not listed.
Explained ==
  /\ IsFiniteSet(Begun)
  /\ \A u \in Users \ stale :
       balance[u] = Opening[u] + listed[u] + SumFunctionOnSet(Unlisted(u), Begun)

\* The inductive invariants of the proofs, the second of which rests on the first.
Accounted == FreshRead /\ Explained

IInv ==
  /\ TypeOK
  /\ \A t \in Tasks : pc[t] <= Len(Program[op[t].kind]) + 1
  /\ RewardsOK /\ OrdersOK /\ PlansOK
=============================================================================
