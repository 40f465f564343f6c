# RyPay wallet backend: models, checks and proofs

RyPay is a NestJS service over PostgreSQL (TypeORM) with Bull queues on Redis.
Users hold a wallet; they transfer money, recharge, pay out to banks and UPI,
redeem coins, repay loans and subscribe to plans, and providers answer through
webhooks. The program is under `src/src`; `src/dist` is its compiled output and
the tests are the generated "should be defined" stubs, so nearly everything that
several calls do together is untested. This directory models that part in TLA+,
checks it with TLC on small instances and proves the most important results with
TLAPS for all of them.

Four facts of the code shape every model:

* `handleTransaction` (wallet.service.ts:45) opens a transaction on its own
  connection, but the repositories its callbacks read from use *other* pooled
  connections: reads see what is committed, take no lock, and are not repeated.
* `save(wallet)` writes the **absolute** balance that was computed from such a
  read. Two handlers that overlap overwrite each other (a lost update); the row
  lock of the save is held until commit or rollback.
* Several writes happen outside any transaction, or are started and not awaited.
* What is not money is handled the same way: a user's row, a code, a notification
  is read whole, changed and saved whole, with statements of other calls between.

So the question is never "do lost updates happen" (they do) but *what exactly
goes wrong, and when is everything else right*. The models carry history variables
(`stale`, `missed`, `raced`, `poorer`, `overtaken`, `tangled`, `torn`, `cut`, ...) that record which row was
written from an outdated read or which calls overlapped; the properties say that
the books are right for everything these variables do not excuse. The excuses are
as narrow as the code allows: mutants of the code break each property.

## Inventory

| Part | State | Operations | Talks to |
|---|---|---|---|
| Wallet handlers (`wallet/`) | wallet balance, transactions rows, order status | transfer, admin credit/debit, card debit, recharge payment (two forms), gateway credit, refund and success callbacks, referral bonus, coin redemption, loan payment | coins, notifications queue, orders |
| Wallet queue (`wallet.processor.ts`) | Bull jobs | `referrel`, `redeem`; the handler is started and not awaited | wallet handlers |
| Connections (`core.module.ts`) | the driver's pool | lend, queue, give back | every call |
| Coins (`coins/`) | coin rows, redemptions, rules | earn, redeem, expire at midnight | wallet queue |
| Loans (`loans/`) | one row per installment | create with schedule, pay, update, remove | wallet handlers, orders |
| Recharges and payouts (`recharge/`, `integration/busybox/.../payout.service.ts`) | orders, the rows' sums per day and month | check, limits, provider call, order, debit | providers, wallet handlers |
| Direct movements (`users.service.ts`) | wallets, `transaction_money`, rewards | send money, scratch reward, payment status | wallets directly |
| Payment gateway (`integration/upitransact`) | QR orders | create order, dynamic and static notifications | wallet handlers |
| BusyBox webhooks (`external.service.ts`) | webhook log | VA credit, card debit, KYC, UPI, payout events | wallets, users |
| Subscriptions | plans, subscriptions | cost, upgrade | wallets directly |
| Accounts (`users.service.ts`) | the row of a user, documents, virtual account | profile, block, KYC upload and result, pictures, PINs | every call reads it |
| Registration (`users.service.ts`) | users, wallets, cards, virtual accounts | sign up in three forms, create account | cards, wallet queue, providers |
| Cards and kit numbers (`cards/`) | cards, kits | upload kits, pick one, activate | registration, BusyBox |
| Sessions (`auth/`, `otp.repository.ts`) | codes, refresh tokens, devices | send, check and use a code, log in, log out | SMS, mail, the user's row |
| Notifications (`notifications/`) | rows with read marks | consume the queue, announce, mark, list, delete old | Firebase |
| Beneficiaries (`beneficiary/`) | rows of a user | create, update, remove | the profile saves |
| Money requests (`money-request/`) | rows | create, change the status, list | – |
| Transactions, rewards, statements | rows | store, list page by page, PDF | wallet handlers, direct movements |
| Provider clients, mail, SMS | – | forward a request | outside |

What is hard in each, and what correctness means there:

* **Wallet**: unlocked reads and absolute saves; guards that look at outdated
  balances; locks in the caller's order; callbacks that overtake or repeat; writes
  outside the transaction; queue calls inside it. Correct: no committed balance is
  negative, wallet and rows agree, a refund is paid once and only for a debit.
* **Connections**: a handler holds one connection and asks for another. Correct:
  connections come back, calls are served, the pool does not jam.
* **Coins**: check, count, fetch, and save are separate; the midnight job saves
  what it read; limits are per month and year. Correct: coins are neither lost nor
  spent twice, limits hold, a refusal costs nothing, expiry stands.
* **Loans**: the debit commits before the payment is judged; the order is SUCCESS
  before either; calendar arithmetic on month ends. Correct: what is due follows
  what was accepted, orders tell the truth, schedules add up and skip no month.
* **Payouts**: the provider pays first and nothing is reserved. Correct: whatever
  was paid out is debited; limits limit.
* **Direct movements**: no transaction at all. Correct: the statement explains the
  balance, a reward is paid once, SUCCESS means credited, one plan is current.
* **Accounts**: whole rows and whole relations are saved as they were read; one
  update has no criterion. Correct: a column changes only by who means to, a
  document or beneficiary keeps its user, a blocked user stays out.
* **Sessions**: a code is sent before it is stored, looked up, compared and marked in
  separate statements. Correct: it is used once, and the last one sent is the valid one.
* **Registration**: four tables in one transaction without a lock on the stock of
  kits, and a provider and another table after its commit. Correct: one user per
  person, one card per kit number, no circle of waits, an answer that means it.
* **Lists**: pages by offset while rows come and go. Correct: a walk shows what is
  there, what is private stays private, what is old goes away.

`PROJECT.json` lists every hazard at its line with the properties that cover it.

## Modules

| Module | Models | Proofs |
|---|---|---|
| `WalletProfiles` | what each wallet handler intends: guard, change of balances, rows (pure operators) | |
| `WalletService` | the handlers step by step, with locks, deadlocks, failures | `WalletService_proofs` |
| `Ledger` | abstract: each call settles at once or is dropped | |
| `WalletRefinement` | `WalletService` implements `Ledger` | `WalletService_proofs` |
| `ConnectionPool` | the pool and the calls that compete for it | `Registration_proofs` |
| `Coins` | redemption, earning, expiry, the month | `Coins_proofs` |
| `Loans` | payments, updates, removals | `Loans_proofs` |
| `LoanSchedule` | `createLoan` and `addMonths` over the calendar | `Loans_proofs` |
| `Payouts` | payouts and recharges up to the debit | `Payouts_proofs` |
| `DirectMoves` | handlers without a transaction | `DirectMoves_proofs` |
| `Accounts` | a user's row, codes, sessions, documents, beneficiaries | `Accounts_proofs` |
| `Registration` | how a person becomes a user with card and account; the stock of kits | `Registration_proofs` |
| `Lists` | lists read page by page, and what writes their rows | `Lists_proofs` |
| `MC*` | instances for TLC | |

`PROJECT.json`, "map", gives the lines every definition stands for.

### WalletService, WalletProfiles, Ledger, WalletRefinement

A task is one call. `op[t]` is its parameters, `pc[t]` its next statement: read
order, read wallets, check, read the debit row, write outside the transaction,
save rows one by one (taking their locks), queue the notification, commit. What
the handlers differ in, the guard, the balance changes, the rows and the balance
a row shows, is the data of `WalletProfiles`, one operator per handler with the
handler's name. `rd` and `seen` are what the task has read, `got` and `saved` the
rows it has read and saved, `missed` those another task has committed since.
`fail` rolls back at any point; `referralNotifyFails` is the `catch` of
`handleReferrelBonus`, after which `handleTransaction` commits what was saved;
`deadlockDetected` is PostgreSQL aborting one of two tasks that wait for each
other. `saveRechargeOrder` stores the order of a recharge at any time, because
`rechargeAccount` does not await it.

Abstractions: amounts are small integers; TypeORM's `save` (SELECT, diff, UPDATE)
is one step; the orders written outside the transaction by referral and
redemption have no status worth following.

`Ledger` is the promise to callers: one atomic step per call. Its only gap is the
lost update, written down as such: a call may settle `late` on some rows, and
those rows' owners are `overwritten`. `WalletRefinement` maps `outcome` to `pc`
and `overwritten` to `stale`.

### ConnectionPool

Calls by what they hold: `Transactions` (`handleTransaction`,
`updateUserKycDetails`: released in `finally`), `Registrations` (`registerUser`,
`registerUserNew`: `release()` is only on the rollback paths, so a committed one
keeps its connection, also when the step after the commit fails), and plain
queries. `read` asks for a second connection. The queue is first come, first
served and has no timeout, as pg-pool's defaults are.

### Coins

Entries are coin rows; `amount`, `expired`, `created`, `aged` their columns and
age. `redeemCoins` is validate year, validate month, find rule, count, fetch,
deduct entry by entry, record, enqueue. `counted` is what
`getMonthlyRedemptionValue` sums: its `monthEnd` is the first instant of the last
day, so redemptions on that day (`day = "last"`) are in `redeemed` but not in
`counted`. `findCoinsToExpire` and `expireOldCoins` are the two halves of the job.

### Loans, LoanSchedule

`Loans`: `findLoan`, `getWallet` (with the order, saved as SUCCESS and not
awaited), `processRechargePayment` (one step here, the handler is
`WalletService`'s), `handleLoanPayment`. `edited` marks loans an administrator
has changed; the debit's own race with other wallet handlers is `poorer`.
`LoanSchedule`: `Carried` is what a JavaScript `Date` does with a day its month
lacks; `addMonth` the code's correction of it. The column that repeats the overdue
amount on each row is left out, and time zones are.

### Payouts

One user. `checkBalance`, `validateTransactionLimit` (both sums read at one
instant), `provider` (paid, refused, or paid with the answer lost), `createOrder`
(charges are computed here; an amount between two tiers throws), `saveOrder`
(un-awaited), `findWallet`, `commit`. `nextDay` resets the sums; rows carry the
start of their transaction, which may lie in the day before. `otherHandler` is any
other wallet handler. Amounts are paise.

### DirectMoves

Each handler is a list of statements in the order of the code (`sendMoney`,
`scratchReward`, ...); a task's `pc` is its place in the list, and each statement
commits at once. `paymentSucceeded`/`paymentFailed` are the two outcomes of
`dynamicQRHandler`, whose call of `processPaymentGatewaySuccess` is a read and a
save. Amounts are naturals, as clients send them; `SendMoneyRequestDto` does not check
that. `upgradePlan` looks the current plan up by the *subscription's* id, finds
nothing and throws, so only a user without a subscription passes `findPlan`.

### Accounts

Calls are programs again: `Calls` gives each its list of statements, the columns it
means to write and the relations its find loads. Data is known by the call it comes
from: `row[u][c]` is the set of calls whose data column `c` of user `u` shows
(a set, because the list of devices grows), a code is the call that sent it.
`saveUser` writes back the columns the entity was read with, since TypeORM compares
the entity with the row of that moment; `AfterSave` does the same for loaded
relations, where a missing child loses its user. `updateColumn` is an update of
named columns. `storeCode` and `useCode` write the record that `findCode` found.
`saveChild` is the upload of one document, whose last update, when the documents
qualify, reaches the rows of *all* users. A login with a device is `validateOTP`,
one without `getUserData`. Left out: bcrypt, the value and the expiry of a code
(`checkCode` may refuse any), the loans that `updateUserProfile` loads with the user
(users.service.ts:519; loans stored or changed meanwhile would be treated as the other
relations are), the merchant, card and address that go with a profile, a second virtual
account of a user (the transfer PIN is one column here), the special numbers that need
no code, uploads to the file store (one step that may fail), several documents in one
upload.

### Registration

The transaction of a registration is read off its position: what it has written
between its first statement and `commit` is invisible to the others, except that
`insertUser` waits for the same person and `saveKit` for the same kit, as PostgreSQL
makes them. `findKit` takes any kit that no *committed* registration has, so two may
pick the same; the unique column of the card (`HasCard`) refuses the second.
`aadhaarVerifyOtp` goes on to `createVirtualAccount`, whose refusals of the
BadRequest kind are *returned*, so that the caller goes on as after a success
(`Answer`), and whose other errors are thrown. It looks for an account of the user
*and* the phone number of the request (users.service.ts:686), which need not be the
user's own: `phone` is one of `Phones`, and `StoredOnce` promises one account for each
pair, not for each user. `kits` are rows, not numbers: no
constraint keeps a number unique, uploads that overlap store it twice.

### Lists

A row has an id and the time of its creation. `Openings` pairs rows of the
beginning with the calls that work on their table. An insert is two steps, since a
row carries the time at which its transaction (or `new Date()`) began and is seen
when it is committed. Rows that one transaction stores have one time: a payment and its
charges, both sides of a transfer, the bonuses of a referral (wallet.service.ts:396 and
401, 461 and 466, 307 and 324, 642 and 643; `Further`), and other rows may have it too. The
lists sort by `createdAt` and nothing else, so each query may put rows of one time in
another order: `Beginnings` are the sets of rows that may come first, `Pages` what skip
and take may leave of them. `getWalletTransactions` and `findAll` may be asked for without
a direction (`"none"`), and then every order will do. `count` is the total by a second
query, and a client walks on while `HasNextPage` says so. `cut` records the rows that
might have lain on either side of a page's end when a query ran. `Asked` is how
filter and search combine: joined for transactions, alternatives for requests.
`saveRead` is `markAsRead`: a save of an entity whose row is gone inserts it again,
and findOne has not loaded its user. `deleteOldNotifications` deletes what is
fourteen days old. The two statements that save a transaction's rows are one step of
`Lists`, their commit: readers see both or neither.

## Runs

All runs are exhaustive; the bounds are the constants of the `.cfg` files.

| Run | Question | Bounds |
|---|---|---|
| `wallet_handlers` | do wallets, rows, refunds and effects agree under any interleaving? | 3 calls from 18, one may fail anywhere, 2 wallets, 1 order |
| `wallet_ledger` | do the handlers implement `Ledger`, and does every call end? | 3 calls from 6 that race on one wallet and order or lock in opposite orders |
| `connection_pool` | who keeps connections, when do calls wait for ever? | 4 calls, 3 connections, 2 reads each |
| `coins` | conservation, limits, expiry | 2 redemptions, 2 rows, 2 rules, 2 months |
| `loans` | what is due, who is debited | 3 calls of pay and update on 2 loans of 2 users |
| `loan_schedule` | installments and due dates | totals to 7, installments to 4, critical days of 2023 and 2024 |
| `payouts` | which payouts go unpaid, what limits limit | 2 calls, 3 days in 2 months, 2 other debits |
| `direct_moves` | statements, rewards, QR orders, plans | 3 calls, 2 wallets, 1 reward, 1 order |
| `accounts` | what is lost, used twice, let in or cut off when calls on a user overlap? | 3 of 29 calls on 2 users, one may fail; 2 account numbers |
| `registration` | who ends with user, card, kit and account, and can everybody wait? | 3 of 9 calls, one may fail; 2 persons, 2 kit numbers |
| `lists` | what does a client see that reads page by page, and do old rows go, whatever marks bring back? | 3 calls on one of 5 tables (6 openings), one may fail; pages of 2 rows |
| `refund_once` | a claim of the code that does not hold | see Findings |

Only `registration` and `lists` check a type invariant, because theirs say more than
types (no two rows have one id; what refers to a user refers to a stored one). Those of
the other modules are proved only. Every invariant and every action property that a
run checks is also a theorem, for every value of the constants.

Why the bounds are enough to be interesting: a lost update needs two calls, and a
third one shows whether its damage spreads; amounts lie below, at and above what
guards and the constraint let through; opposite locks need two wallets; a jam
needs as many transactions as connections; limits are reached by one and passed by
two calls; a save that
undoes another's needs two calls and a third to be let in or refused by it; pages of
two rows make walks of up to three pages; the calendar has the 28th to 31st of both kinds of year. One task is
`Faulty`: faults of more tasks only add calls that end early. For larger
instances there are the proofs.

Fairness is assumed in four runs. `wallet_ledger`: each call's next step, since
the event loop and the database keep serving calls; locks are released by commit,
rollback, or the deadlock detector. (It leaves the pool out, so its liveness holds
where `ConnectionPool`'s does.) `connection_pool`: the pool serves its line and
begun calls go on; nothing is assumed about new calls. `coins`: requests are
served and the job runs every midnight. `lists`: the deletion job runs every five
seconds (where `DELETE_NOTIFICATIONS_14DAYS` is set); calls need not go on, time need not
pass and no task need fail or succeed. The other runs check safety only.

## Proofs

`tlapm` checks every theorem; assumptions on constants are the named `ASSUME`s
of the modules: finite or non-empty sets, amounts that are naturals, and, where what a
call asks for is a constant, what the code's routes let it ask (`ListsAssumption`: the
lists of notifications filter nothing, all but three of the lists run from the newest,
two may be asked for without a direction, and the rows there at the beginning are
finitely many with ids of their own).

* **WalletService**: `TypeCorrect`, `NonNegativeHolds`, `BooksBalanceHolds`,
  `RefundOnceHolds`, `FreshCommitHolds`, `CallbackNeedsDebitHolds`,
  `EffectsBeforeCommitHolds`. The invariant says what a task knows at
  each `pc`: rows it has read and nobody has committed since are as it read them;
  saved rows are locked by it and by nobody else; its guard holds of what it read.
  The first is what makes a commit from a current read exact.
* **WalletRefinement** (in the same module): `Refinement`, that is `Spec => L!Spec`. Commit is
  `Settle` with `late = missed[t]`; ends without commit are `Drop`; the rest stutters.
* **Registration**: `Placed` and what a call's place in its program says: what it has
  found, what its transaction has written so far, which rows it holds. `NoStandstill`
  follows from an order of the locks: a call that waits for a person waits for calls
  further on in their transaction; one that waits for a kit waits for calls behind
  `saveKit`, and those wait for nobody. The unique parts (`UsersUnique`, `KitsUnique`)
  say that a person has one stored row and a kit one writer; `KitsContended`,
  `NumbersUnique` and `AccountsRaced`, that whoever meets a kit, a number or an account
  it had not seen belongs to the history of those that picked or looked together.
* **ConnectionPool** (in `Registration_proofs`): who holds what follows from `phase`
  (`Holding`). `NoJam` adds a counting argument: holders of a connection are among
  those that have started.
* **Coins**: `FreshRead` (fetched and unmissed rows are as fetched) and an
  accounting of each partial deduction: what is left to deduct plus what was paid
  is the rule's price. `RefusedTakesNothing` rests on `Covered`: the coins a call has
  counted, or still finds in the rows it has to deduct from, suffice unless it `missed`
  a change.
* **Loans**: `FreshSnap` and `Paying`; the balance covers a tested payment unless
  the wallet has become `poorer`. `DueFollowsPayments` and `PaidExactly` carry each
  other: without an extra, nothing is due exactly when all was paid.
* **LoanSchedule** (in `Loans_proofs`): `addMonth` maps days of the calendar to days of
  the next month for starts up to the 30th; amounts by the arithmetic of division;
  `RowsAddUp` by a closed form of the running sum.
* **Payouts**: `CallOK`, what each step leaves for the next: a call past the limit
  check is `overtaken` or still within the limits, one past the balance check is
  `poorer` or still covered. A frame lemma says a step of one call leaves the
  others' `CallOK` alone.
* **DirectMoves**: the position of a task in its program: past "markRead" the
  reward is read, past "savePayee" the order's amount is credited, two tasks
  between look-up and write have `raced`. `StatementAddsUp` from `Explained`: at every
  moment a balance is what it was, plus the rows, plus what each call has under way, as
  long as no save was made from an outdated read (`FreshRead`).
* **Lists**: `WalkGoesOn`. A walk has a place in its list, the rows it has passed. What
  stayed in the list and has to lie before that place was shown, unless it is `cut`; and
  while the list has got no row, what was shown lies there. A row with fewer than n rows
  that must come before it is among the first n in every order, or lies across the n-th
  place (`InBeginning`); that is a count of finite sets. New rows push others away from the
  beginning, a mark changes no list, and a deletion takes rows from the end of lists that
  run from the newest: so nothing that stays slips back past the walk. For the ids:
  `PendingIsNew`, each row that waits for its insert has an id of its own; `FoundIsKnown`,
  what a mark has found is still stored, in the same table, or is old.
* **Accounts**: `Fresh`, what a task has read is what the table holds but for what
  it has `missed`; `CodesOK`, a code in the table or in hand was stored by the call
  it is named after, and one that has been used is not in the table again;
  `LatestOK`, nobody works on a code beside the call that sent it last; `Owned`,
  `Held` and `Alone`, a child belongs to the user it was stored for, a profile save
  cuts off `torn` ones only, and a call that stores a child it has not found is the
  only one to do so or the item has `raced`. Each is shown by what the actions write
  and the place of the task in its program; together with the type invariant they
  give `ColumnsStand`, `BlockedStaysOut`, `CodeUsedOnce`, `LatestCodeStored` and
  `ChildrenAsStored`.

Sums and recursive functions. The library's induction theorems cannot be used here,
since they take an operator as a parameter. Where a proof needs induction over data it
argues by the least counterexample instead: a non-empty set of numbers has a least
element, and of the finite sets with a property one has the fewest elements
(`LeastNumber`, `LeastSet`). In this way `Coins_proofs` and `DirectMoves_proofs` show what
`SumFunctionOnSet` is on a set with one element more and on a function changed at one
point (`SumFirst`, `SumTakes`, `SumChanges`), and `Loans_proofs` that the recursive
function of `RowsAddUp` is the only one with its equation (`OneSum`).

Only model-checked: liveness (`HandlersFinish`, `CallsServed`, `ExpiryStands`,
`OldGoesAway`), for which the prover has no rules of fairness.

## Findings

`refund_once`: two overlapping FAILED callbacks refund an order twice, although the
second should hear 'Order is not in pending state' (wallet.service.ts:531).

Three more claims the code makes in its own words do not hold of it, as the models
show when they are stated as properties:

* A FAILED callback that overtakes the debit throws in an un-awaited call and is
  forgotten; the debit that follows is never refunded, although
  recharge-external.controller.ts:25 says 'refund wallet money, update order and
  transaction status to failed'.
* Redemptions on the last day of a month are not counted, although
  coins.service.ts:100 says 'You have reached the monthly redemption limit of ₹100.'
* `payLoan` debits first and judges the payment after, so one it rejects ('Loan
  Payment amount is greater than loan amount', loans.service.ts:213) has left the wallet.

Others, seen while modelling, have no run of their own, but the properties name them
as excuses: overlapping redemptions spend the same coins (`stale` in `Coins`);
installments that start on the 31st skip the months of 30 days (`DueMonthly` stops
at the 30th); payments beyond the installment are counted twice (`extra`); a payout
whose wallet cannot bear charges and fee, or whose amount lies between two tiers,
is never debited (`ShortOfCharges`, `Unpriced`); limits are passed by the charges
and by overlapping payouts (`WithinLimits`); repeated gateway notifications and
`checkPaymentStatus` credit each time; a late FAILED overwrites SUCCESS; a second
upgrade throws and the former subscription is never expired. A profile save undoes a
block, a PIN or a result of the KYC it has not seen (`missed`) and cuts off
beneficiaries and documents stored meanwhile (`torn`); an upload of documents sets
the KYC of every user to REQUESTED; `update` and `remove` of a beneficiary reach the
rows of other users; `markAllRead` marks everybody's notifications, and `markAsRead`
of one just deleted brings it back for all; a registration whose transfer PIN is
malformed answers success without an account; a user who names another phone number gets
a second virtual account, and `changeTransferPin` and `sendMoney` then look for it by the
user alone, so that the database chooses whose PIN counts; rows of one transaction that
lie across the end of a page may be missed or shown twice (`cut`); a blocked user's refresh token still
makes access tokens (token.service.ts:79).

## Not modelled, and why

* DTOs, PDFs, file uploads, mail, SMS and provider clients: they keep no state. The
  provider's outcomes (answer, refusal, lost answer) are steps of the callers.
* `handlePayoutEvents` and its siblings store the webhook and do nothing; payouts
  stay PENDING.
* Calls that always throw before they write: `updateUserKycStatus` reads documents
  its find does not load; `requestPhysicalCard` and `lockUnlockCard` search the
  cards for a phone number, since all repositories of `CardsService` are the cards'.
* The answers of the Aadhaar provider are stored and never read.
* Making an access token from a refresh token changes no state.
* A missing `convenienceFee` makes a balance NaN: the models' balances are integers.
* Decimals and time zones; who may call what (guards and roles).

## Plan

1. *(done)* Wallet handlers with their refinement of the ledger; connections;
   coins; loans; payouts; direct movements.
2. *(done)* Accounts with sessions and beneficiaries; registration with cards and
   kits; lists.
3. **Composition**: recharge from order to callback over `Payouts` and
   `WalletService`; registration over `ConnectionPool`.
4. *(done)* **Proofs** of every invariant and action property the runs check. Left:
   that the compositions of 3, once written, implement their parts.
