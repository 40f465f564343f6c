-------------------------------- MODULE Coins --------------------------------
(***************************************************************************)
(* RyCoins of one user: coins.service.ts and coin-cron.service.ts.         *)
(*                                                                         *)
(* redeemCoins runs without a transaction: every query and every save is   *)
(* a step of its own, and other requests, the midnight job and the         *)
(* calendar move in between.  A save of a coin row writes the ABSOLUTE     *)
(* coinAmount and isExpired of the object that was read.                   *)
(***************************************************************************)
EXTENDS Integers, FiniteSets, Functions

CONSTANTS Entries,     \* rows that earn coins, numbered in the order of created_at
          Earned,      \* coinAmount a row is created with
          Tasks,       \* calls of redeemCoins
          Faulty,      \* calls whose next query or save may fail
          Rules,       \* redemption rules: coins required, value in rupees
          NoRule,      \* a redemptionId that no rule has
          MonthLimit,  \* 100
          YearLimit,   \* 1200
          Months       \* months of the modelled year

ASSUME CoinsAssumption ==
  /\ Entries \subseteq Nat
  /\ Earned \in [Entries -> Nat]
  /\ Faulty \subseteq Tasks
  /\ Rules \subseteq [coins : Nat, value : Nat]
  /\ NoRule \notin Rules
  /\ MonthLimit \in Nat \ {0} /\ YearLimit \in Nat \ {0} /\ Months \in Nat \ {0}

VARIABLES month, day,          \* the calendar: day is "last" or an "earlier" one
          created, aged,       \* rows that exist, rows older than twelve months
          amount, expired,     \* coin_transactions.coinAmount, rows with isExpired
          counted,             \* redemptionValue of a month, its last day left out
          yearly,              \* redemptionValue of the year, its last day left out
          pc, rule,            \* of each call: its next step and the rule asked for
          read, todo,          \* the rows deductCoins has fetched, those not yet saved
          remaining,           \* its remainingCoins
          expiring, cronRead,  \* the rows the job is about to save, as it read them
          queued,              \* calls whose 'redeem' job is queued
          taken, paid,         \* history: coins deducted from a row, by a call
          redeemed,            \* history: redemptionValue of a month
          missed, cronMissed,  \* history: rows saved by others since they were read
          stale,               \* history: rows once saved from such a read
          raced, shaken        \* history: see record, deduct

rows == <<created, aged, amount, expired>>
redemptions == <<counted, yearly, redeemed>>
cron == <<expiring, cronRead, cronMissed>>
task == <<pc, rule, read, todo, remaining, queued, paid, missed, raced, shaken>>
vars == <<month, day, rows, redemptions, cron, task, taken, stale>>

Init ==
  /\ month = 1 /\ day = "earlier"
  /\ created = {} /\ aged = {}
  /\ amount = Earned
  /\ expired = {}
  /\ counted = [m \in 1..Months |-> 0] /\ yearly = 0
  /\ pc = [t \in Tasks |-> "year"]
  /\ rule \in [Tasks -> Rules \cup {NoRule}]
  /\ read = [t \in Tasks |-> Earned]
  /\ todo = [t \in Tasks |-> {}]
  /\ remaining = [t \in Tasks |-> 0]
  /\ expiring = {} /\ cronRead = Earned
  /\ queued = {}
  /\ taken = [e \in Entries |-> 0]
  /\ paid = [t \in Tasks |-> 0]
  /\ redeemed = [m \in 1..Months |-> 0]
  /\ missed = [t \in Tasks |-> {}] /\ cronMissed = {}
  /\ stale = {} /\ raced = {} /\ shaken = {}

-----------------------------------------------------------------------------
(* The calendar, and rows that come from payments (addCoins).              *)

\* The last day of a month is a day of its own: Between(monthStart, monthEnd)
\* ends at its first instant.
nextDay ==
  /\ \/ day = "earlier" /\ day' = "last" /\ UNCHANGED month
     \/ day = "last" /\ month < Months /\ month' = month + 1 /\ day' = "earlier"
  /\ UNCHANGED <<rows, redemptions, cron, task, taken, stale>>

addCoins(e) ==
  /\ e \notin created
  /\ \A f \in Entries : f < e => f \in created
  /\ created' = created \cup {e}
  /\ UNCHANGED <<month, day, aged, amount, expired, redemptions, cron, task, taken, stale>>

\* Tasks that have counted the user's coins and not yet fetched them.
Counting == {t \in Tasks : pc[t] = "fetch"}

\* Twelve months have passed since the row was created.
age(e) ==
  /\ e \in created \ aged
  /\ \A f \in created : f < e => f \in aged
  /\ aged' = aged \cup {e}
  /\ shaken' = shaken \cup Counting
  /\ UNCHANGED <<month, day, created, amount, expired, redemptions, cron,
                 pc, rule, read, todo, remaining, queued, paid, missed, raced, taken, stale>>

-----------------------------------------------------------------------------
(* redeemCoins.                                                            *)

Goto(t, step) == pc' = [pc EXCEPT ![t] = step]

Spendable == {e \in created \ (aged \cup expired) : amount[e] > 0}

getTotalUnexpiredCoins == SumFunctionOnSet(amount, Spendable)

Proceed(t, ok, step) ==
  /\ Goto(t, IF ok THEN step ELSE "failed")
  /\ UNCHANGED <<month, day, rows, redemptions, cron, rule, read, todo, remaining,
                 queued, paid, missed, raced, shaken, taken, stale>>

validateYearRedemption(t) == pc[t] = "year" /\ Proceed(t, yearly < YearLimit, "month")

\* A mutant: the limit is compared with > instead of >=.
MonthlyLimitReached_above(total) == total > MonthLimit

MonthlyLimitReached(total) == total >= MonthLimit

validateMonthlyRedemption(t) ==
  pc[t] = "month" /\ Proceed(t, ~MonthlyLimitReached(counted[month]), "rule")

findRule(t) == pc[t] = "rule" /\ Proceed(t, rule[t] # NoRule, "coins")

\* A mutant: the test of the coins that are left is dropped.
EnoughCoins_notTested(required) == TRUE

EnoughCoins(required) == getTotalUnexpiredCoins >= required

countCoins(t) == pc[t] = "coins" /\ Proceed(t, EnoughCoins(rule[t].coins), "fetch")

\* A mutant: running out of rows is not an error.
AfterEntry_noThrow(left, rest) == IF rest # {} /\ left > 0 THEN "deduct" ELSE "record"

\* The loop of deductCoins goes on, ends, or has run out of rows and throws.
AfterEntry(left, rest) ==
  IF left > 0 THEN IF rest # {} THEN "deduct" ELSE "failed" ELSE "record"

fetchEntries(t) ==
  /\ pc[t] = "fetch"
  /\ read' = [read EXCEPT ![t] = amount]
  /\ todo' = [todo EXCEPT ![t] = Spendable]
  /\ remaining' = [remaining EXCEPT ![t] = rule[t].coins]
  /\ missed' = [missed EXCEPT ![t] = {}]
  /\ Goto(t, AfterEntry(rule[t].coins, Spendable))
  /\ UNCHANGED <<month, day, rows, redemptions, cron, rule, queued, paid, raced, shaken,
                 taken, stale>>

\* What one entry contributes.
Part(coins, left) == IF coins <= left THEN coins ELSE left

\* A mutant: the partial branch stores what was deducted instead of the rest.
Rest_deducted(coins, left) == IF coins <= left THEN 0 ELSE left

Rest(coins, left) == coins - Part(coins, left)

\* The save of one entry, oldest first, from the object that was fetched.
deduct(t, e) ==
  LET part == Part(read[t][e], remaining[t])
  IN /\ pc[t] = "deduct"
     /\ e \in todo[t]
     /\ \A f \in todo[t] : e <= f
     /\ amount' = [amount EXCEPT ![e] = Rest(read[t][e], remaining[t])]
     /\ expired' = expired \ {e}
     /\ remaining' = [remaining EXCEPT ![t] = @ - part]
     /\ todo' = [todo EXCEPT ![t] = @ \ {e}]
     /\ Goto(t, AfterEntry(remaining[t] - part, todo[t] \ {e}))
     /\ taken' = [taken EXCEPT ![e] = @ + part]
     /\ paid' = [paid EXCEPT ![t] = @ + part]
     /\ missed' = [s \in Tasks |-> IF s # t THEN missed[s] \cup {e} ELSE missed[s]]
     /\ cronMissed' = cronMissed \cup {e}
     /\ stale' = stale \cup ({e} \cap missed[t])
     /\ shaken' = shaken \cup Counting
     /\ UNCHANGED <<month, day, created, aged, redemptions, expiring, cronRead,
                    rule, read, queued, raced>>

\* The redemption row.  Others that are past their first limit check and have
\* not recorded yet have been raced.
record(t) ==
  LET value == rule[t].value
  IN /\ pc[t] = "record"
     /\ redeemed' = [redeemed EXCEPT ![month] = @ + value]
     /\ counted' = IF day = "last" THEN counted ELSE [counted EXCEPT ![month] = @ + value]
     /\ yearly' = IF day = "last" /\ month = Months THEN yearly ELSE yearly + value
     /\ raced' = raced \cup {s \in Tasks \ {t} : pc[s] # "year"}
     /\ Goto(t, "enqueue")
     /\ UNCHANGED <<month, day, rows, cron, rule, read, todo, remaining, queued, paid,
                    missed, shaken, taken, stale>>

\* walletBridge.add('redeem'): the wallet is credited by the queue's worker.
enqueue(t) ==
  /\ pc[t] = "enqueue"
  /\ queued' = queued \cup {t}
  /\ Goto(t, "done")
  /\ UNCHANGED <<month, day, rows, redemptions, cron, rule, read, todo, remaining, paid,
                 missed, raced, shaken, taken, stale>>

\* A query or save fails, or the process stops: nothing is undone.
fail(t) ==
  /\ t \in Faulty
  /\ pc[t] \notin {"done", "failed"}
  /\ Proceed(t, FALSE, "failed")

redeemCoins(t) ==
  \/ validateYearRedemption(t)
  \/ validateMonthlyRedemption(t)
  \/ findRule(t)
  \/ countCoins(t)
  \/ fetchEntries(t)
  \/ \E e \in Entries : deduct(t, e)
  \/ record(t)
  \/ enqueue(t)

-----------------------------------------------------------------------------
(* The midnight job.                                                       *)

\* A mutant: MoreThan where LessThan is meant.
Due_young == {e \in created \ (aged \cup expired) : amount[e] > 0}

Due == {e \in (created \cap aged) \ expired : amount[e] > 0}

findCoinsToExpire ==
  /\ expiring = {}
  /\ Due # {}
  /\ expiring' = Due
  /\ cronRead' = amount
  /\ cronMissed' = {}
  /\ UNCHANGED <<month, day, rows, redemptions, task, taken, stale>>

\* save(coinsToExpire) is one transaction; it writes back the amounts it read.
expireOldCoins ==
  /\ expiring # {}
  /\ amount' = [e \in Entries |-> IF e \in expiring THEN cronRead[e] ELSE amount[e]]
  /\ expired' = expired \cup expiring
  /\ missed' = [t \in Tasks |-> missed[t] \cup expiring]
  /\ stale' = stale \cup (expiring \cap cronMissed)
  /\ shaken' = shaken \cup Counting
  /\ expiring' = {}
  /\ UNCHANGED <<month, day, created, aged, redemptions, cronRead, cronMissed,
                 pc, rule, read, todo, remaining, queued, paid, raced, taken>>

Idle ==
  /\ \A t \in Tasks : pc[t] \in {"done", "failed"}
  /\ UNCHANGED vars

Next ==
  \/ nextDay
  \/ \E e \in Entries : addCoins(e) \/ age(e)
  \/ \E t \in Tasks : redeemCoins(t) \/ fail(t)
  \/ findCoinsToExpire \/ expireOldCoins
  \/ Idle

Spec == Init /\ [][Next]_vars

\* Requests are served and the job runs every midnight.
FairSpec ==
  /\ Spec
  /\ \A t \in Tasks : WF_vars(redeemCoins(t))
  /\ WF_vars(findCoinsToExpire) /\ WF_vars(expireOldCoins)

-----------------------------------------------------------------------------
Steps == {"year", "month", "rule", "coins", "fetch", "deduct", "record", "enqueue",
          "done", "failed"}

\* Every variable stays in its range.
TypeOK ==
  /\ month \in 1..Months /\ day \in {"earlier", "last"}
  /\ created \subseteq Entries /\ aged \subseteq Entries
  /\ amount \in [Entries -> Nat] /\ expired \subseteq Entries
  /\ counted \in [1..Months -> Nat] /\ redeemed \in [1..Months -> Nat] /\ yearly \in Nat
  /\ pc \in [Tasks -> Steps]
  /\ rule \in [Tasks -> Rules \cup {NoRule}]
  /\ read \in [Tasks -> [Entries -> Nat]]
  /\ todo \in [Tasks -> SUBSET Entries]
  /\ remaining \in [Tasks -> Nat]
  /\ expiring \subseteq Entries /\ cronRead \in [Entries -> Nat]
  /\ taken \in [Entries -> Nat] /\ paid \in [Tasks -> Nat]
  /\ missed \in [Tasks -> SUBSET Entries] /\ cronMissed \subseteq Entries
  /\ stale \subseteq Entries
  /\ queued \subseteq Tasks /\ raced \subseteq Tasks /\ shaken \subseteq Tasks

\* A row holds what it earned less what the redemptions took from it, unless
\* somebody saved it from a read that was out of date.  Failed redemptions,
\* partial deductions and expiry lose no coin and create none.
CoinsConserved ==
  \A e \in Entries \ stale : amount[e] + taken[e] = Earned[e]

\* A redemption is recorded, and its money queued, only if its call wrote off
\* exactly the coins of the rule, whatever other calls spent between its count
\* of the coins and its fetch of the rows.
RecordedIsPaid ==
  \A t \in Tasks : pc[t] \in {"record", "enqueue", "done"} => paid[t] = rule[t].coins

\* A refused redemption costs no coins, unless the user's coins changed between
\* the count and the fetch: deductCoins saves entry after entry and keeps what
\* it saved when it throws.
RefusedTakesNothing ==
  \A t \in Tasks \ (Faulty \cup shaken) : pc[t] = "failed" => paid[t] = 0

\* A redemption that no other one overlapped is recorded only while the counted
\* redemptions of month and year are below their limits, even if the month ends
\* between the check and the record.  On all but its last day these are all the
\* redemptions of the month.
WithinLimits ==
  [][\A t \in Tasks \ raced : pc[t] = "record" /\ pc'[t] = "enqueue" =>
       /\ counted[month] < MonthLimit /\ yearly < YearLimit
       /\ day = "earlier" => redeemed[month] < MonthLimit]_vars

\* In the end coins older than twelve months are expired or spent, although a
\* redemption in progress may write isExpired back to false.
ExpiryStands ==
  \A e \in Entries : <>[](e \in aged => e \in expired \/ amount[e] = 0)

-----------------------------------------------------------------------------
(* What makes the invariants above inductive.                              *)

\* A row that nobody has saved since it was fetched is as it was fetched.
FreshRead ==
  /\ \A t \in Tasks : pc[t] = "deduct" =>
       \A e \in todo[t] \ missed[t] : read[t][e] = amount[e]
  /\ \A e \in expiring \ cronMissed : cronRead[e] = amount[e]

\* What a call has written off and has still to write off is the rule's price.
Underway ==
  \A t \in Tasks :
    /\ pc[t] \notin {"year", "month", "rule", "failed"} => rule[t] \in Rules
    /\ pc[t] = "deduct" => paid[t] + remaining[t] = rule[t].coins
    /\ pc[t] \in {"year", "month", "rule", "coins", "fetch"} => paid[t] = 0

\* The limits a call has checked still hold unless it has been raced; months
\* to come have no redemptions, and until its last day a month counts all.
LimitsChecked ==
  /\ \A m \in 1..Months : m > month => counted[m] = 0 /\ redeemed[m] = 0
  /\ day = "earlier" => redeemed[month] = counted[month]
  /\ \A t \in Tasks \ raced :
       /\ pc[t] \notin {"year", "enqueue", "done", "failed"} => yearly < YearLimit
       /\ pc[t] \notin {"year", "month", "enqueue", "done", "failed"} => counted[month] < MonthLimit

\* A call has coins enough for what it has still to write off, unless they
\* changed between its count and its fetch.
Covered ==
  /\ IsFiniteSet(created) /\ \A t \in Tasks : IsFiniteSet(todo[t])
  /\ \A t \in Tasks \ shaken :
       /\ pc[t] = "fetch" => getTotalUnexpiredCoins >= rule[t].coins
       /\ pc[t] = "deduct" => SumFunctionOnSet(read[t], todo[t]) >= remaining[t]

IInv ==
  /\ TypeOK
  /\ CoinsConserved
  /\ RecordedIsPaid
  /\ FreshRead
  /\ Underway
  /\ LimitsChecked

=============================================================================
