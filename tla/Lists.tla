------------------------------- MODULE Lists -------------------------------
(***************************************************************************)
(* The lists a client reads page by page, and what writes them meanwhile:  *)
(* the jobs, marks and deletion of notifications (notification.service.ts),*)
(* the rows of transactions, rewards and statements                        *)
(* (transactions.service.ts, users.service.ts), the requests for money and *)
(* their status (money-request.service.ts).                                *)
(*                                                                         *)
(* A row has an id of its own and the time of its creation, by which lists *)
(* are sorted and by nothing else: rows that one transaction stores have   *)
(* one time, and the order among rows of one time is left open.  No row is *)
(* older than its readers are users.                                       *)
(***************************************************************************)
EXTENDS Integers, Sequences, FiniteSets

CONSTANTS Users, Tasks,
          Openings,     \* the rows of the beginning, and the calls that tasks may make
          Codes,        \* the UTR of a request for money, what a search looks for
          PageSize,
          Faulty,       \* tasks on which a statement may fail
          Everyone, NoRow

\* A row's time is that of the start of its transaction, or of new Date(); it is
\* seen when that commits.
Insert == <<"takeTime", "save">>
Walk == <<"find", "count">>

\* handleRechargeNotification and the other handlers of the queue: none awaits
\* the service, so that the jobs run interleaved.
insertInAppNotification == <<"findUser", "push">> \o Insert
processAnnouncementNotification == <<"push">> \o Insert
\* One row: refunds, receipts, redemptions and payments without charges.
saveTransaction == Insert
\* Two rows in one transaction: a payment and its charges, both sides of a
\* transfer, the bonuses of two users.
processRechargePayment == Insert
processFundTransfer == Insert
handleReferrelBonus == Insert
\* By UPI or bank: the payout with its debit is in Payouts, its row and the
\* reward are stored afterwards.
sendMoney == <<"payout">> \o Insert \o <<"takeRewardTime", "save">>
createMoneyRequest == Insert
updateRequest == <<"findRequest", "updateStatus">>
markAsRead == <<"findNotification", "saveRead">>
markAllRead == <<"updateAll">>

\* What a client walks through, page by page.
findAllPaginated == Walk
getNotificationList == Walk
getWalletTransactions == Walk
getAllWalletTransactions == Walk
getTransactionHistory == Walk
getRecentTransaction == Walk
getRewardHistory == Walk
findAll == Walk

Program ==
  [insertInAppNotification |-> insertInAppNotification,
   processAnnouncementNotification |-> processAnnouncementNotification,
   saveTransaction |-> saveTransaction, processRechargePayment |-> processRechargePayment,
   processFundTransfer |-> processFundTransfer, handleReferrelBonus |-> handleReferrelBonus,
   sendMoney |-> sendMoney,
   createMoneyRequest |-> createMoneyRequest, updateRequest |-> updateRequest,
   markAsRead |-> markAsRead, markAllRead |-> markAllRead,
   findAllPaginated |-> findAllPaginated, getNotificationList |-> getNotificationList,
   getWalletTransactions |-> getWalletTransactions,
   getAllWalletTransactions |-> getAllWalletTransactions,
   getTransactionHistory |-> getTransactionHistory,
   getRecentTransaction |-> getRecentTransaction,
   getRewardHistory |-> getRewardHistory, findAll |-> findAll]

\* The table a call reads or writes.
Table ==
  [insertInAppNotification |-> "notification", processAnnouncementNotification |-> "notification",
   markAsRead |-> "notification", markAllRead |-> "notification",
   findAllPaginated |-> "notification", getNotificationList |-> "notification",
   saveTransaction |-> "transaction", processRechargePayment |-> "transaction",
   processFundTransfer |-> "transaction", handleReferrelBonus |-> "transaction",
   getWalletTransactions |-> "transaction",
   getAllWalletTransactions |-> "transaction",
   sendMoney |-> "transactionMoney", getTransactionHistory |-> "transactionMoney",
   getRecentTransaction |-> "transactionMoney",
   getRewardHistory |-> "reward",
   createMoneyRequest |-> "moneyRequest", updateRequest |-> "moneyRequest",
   findAll |-> "moneyRequest"]

Walks == {"findAllPaginated", "getNotificationList", "getWalletTransactions",
          "getAllWalletTransactions", "getTransactionHistory", "getRecentTransaction",
          "getRewardHistory", "findAll"}

\* "status" is the mark of a notification, the type of a transaction or the state
\* of a request.
Statuses == {"unread", "read", "CREDIT", "DEBIT", "Requested", "Rejected", "Paid"}
Tables == {"notification", "transaction", "transactionMoney", "reward", "moneyRequest"}
Rows == [id : Nat \ {0}, time : Nat, table : Tables,
         owner : Users \cup {Everyone}, status : Statuses, code : Codes]

\* What a list tells of a row that pages and walks depend on.
Keys == [id : Nat \ {0}, time : Nat]
Key(r) == [id |-> r.id, time |-> r.time]

Operations == UNION {b.operations : b \in Openings}

Inserts == {"insertInAppNotification", "processAnnouncementNotification", "saveTransaction",
            "processRechargePayment", "processFundTransfer", "handleReferrelBonus",
            "sendMoney", "createMoneyRequest"}

\* "status" is what a row gets or a list asks for ("any": no filter), "code" the
\* UTR of a new request or the search of a list ("any": no search), "order" the
\* direction, which some lists may be asked for without ("none").  The lists of
\* notifications filter and search nothing.
ASSUME ListsAssumption ==
  /\ PageSize \in Nat \ {0} /\ Faulty \subseteq Tasks /\ Everyone \notin Users
  /\ Operations \subseteq [kind : DOMAIN Program, user : Users \cup {Everyone},
                           order : {"ASC", "DESC", "none"}, status : Statuses \cup {"any"},
                           code : Codes \cup {"any"}]
  /\ \A b \in Openings :
       /\ b.rows \subseteq Rows /\ IsFiniteSet(b.rows)
       /\ \A r, s \in b.rows : r.id <= Cardinality(b.rows) /\ (r.id = s.id => r = s)
  /\ \A o \in Operations :
       /\ o.kind \in Walks \ {"getWalletTransactions", "getAllWalletTransactions", "findAll"}
            => o.order = "DESC"
       /\ o.kind = "getAllWalletTransactions" => o.order # "none"
  /\ \A o \in Operations :
       /\ o.kind \in Inserts => o.status \in Statuses /\ o.code \in Codes
       /\ o.kind = "updateRequest" => o.status \in Statuses
       /\ o.kind \in {"findAllPaginated", "getNotificationList"} => o.status = "any" /\ o.code = "any"

VARIABLES rows,      \* the rows of all tables
          last,      \* the last id given
          now,       \* the last time taken
          cutoff,    \* rows up to this time are fourteen days old
          op, pc,    \* the call of each task, and where it is in its program
          over,      \* tasks whose call was refused or has broken off
          held,      \* the row a task has read
          coming,    \* the rows that a task is going to store
          page,      \* the page a walk is at
          shown,     \* what it has been shown
          stayed,    \* history: what a walk's list has held since it began
          twice,     \* history: what it was shown twice
          cut,       \* history: what lay across an end of a page of it
          grown,     \* history: walks whose list has got a row since
          thinned,   \* history: walks whose list has lost a row to a new status
          private    \* history: notifications that were stored for one user

walks == <<page, shown, twice, cut>>
history == <<stayed, grown>>
vars == <<rows, last, now, cutoff, op, pc, over, held, coming, walks, history, thinned, private>>

Running(t) == t \notin over /\ pc[t] <= Len(Program[op[t].kind])

At(t, step) == Running(t) /\ Program[op[t].kind][pc[t]] = step

Advance(t) == pc' = [pc EXCEPT ![t] = @ + 1] /\ UNCHANGED <<op, over>>

Refuse(t) == over' = over \cup {t} /\ UNCHANGED <<op, pc>>

-----------------------------------------------------------------------------
(* What a list holds, and what a page shows of it.                         *)

\* The rows that are a user's, or the list is for all.
Visible(o, r) ==
  \/ o.kind \in {"getAllWalletTransactions", "findAll"}
  \/ r.owner = o.user
  \/ o.kind \in {"findAllPaginated", "getNotificationList"} /\ r.owner = Everyone

\* The status and the search of requests for money are alternatives, those of
\* transactions are joined.
Asked(o, r) ==
  IF o.kind = "findAll" /\ o.code # "any"
  THEN o.status \in {"any", r.status} \/ o.code = r.code
  ELSE o.status \in {"any", r.status} /\ o.code \in {"any", r.code}

Listed(o, R) ==
  {Key(r) : r \in {s \in R : s.table = Table[o.kind] /\ Visible(o, s) /\ Asked(o, s)}}

\* What has to come before i in the list S, and what may.
Before(o, S, i) ==
  {j \in S : \/ o.order = "DESC" /\ j.time > i.time
             \/ o.order = "ASC" /\ j.time < i.time}

NotAfter(o, S, i) == {j \in S : i \notin Before(o, S, j)}

Skip(p) == (p - 1) * PageSize

\* What the first n of the list may be, and the pages by skip and take: an order
\* that the times leave open is another one in each query.
Beginnings(o, S, n) ==
  {B \in SUBSET S : /\ Cardinality(B) = IF n <= Cardinality(S) THEN n ELSE Cardinality(S)
                    /\ \A i \in B : Before(o, S, i) \subseteq B}

Pages(o, S, p) ==
  UNION {{B \ A : A \in {A \in Beginnings(o, S, Skip(p)) : A \subseteq B}} :
           B \in Beginnings(o, S, p * PageSize)}

\* What may lie on either side of the n-th place.
Cut(o, S, n) ==
  {i \in S : Cardinality(Before(o, S, i)) < n /\ n < Cardinality(NotAfter(o, S, i))}

\* A mutant: the last page is left out when it is not full.
HasNextPage_full(total, p) == p < total \div PageSize

\* page < Math.ceil(total / limit)
HasNextPage(total, p) == p * PageSize < total

-----------------------------------------------------------------------------

Init ==
  /\ \E b \in Openings : rows = b.rows /\ op \in [Tasks -> b.operations]
  /\ last = Cardinality(rows) /\ now = Cardinality(rows) /\ cutoff = 0
  /\ pc = [t \in Tasks |-> 1] /\ over = {}
  /\ held = [t \in Tasks |-> NoRow] /\ coming = [t \in Tasks |-> {}]
  /\ page = [t \in Tasks |-> 1] /\ shown = [t \in Tasks |-> {}]
  /\ stayed = [t \in Tasks |-> {}]
  /\ twice = [t \in Tasks |-> {}] /\ cut = [t \in Tasks |-> {}]
  /\ grown = {} /\ thinned = {}
  /\ private = {r.id : r \in {s \in rows : s.owner # Everyone}}

InWalk(t) == op[t].kind \in Walks /\ Running(t) /\ (page[t] > 1 \/ pc[t] > 1)

\* What a change of the rows means to the walks under way.
Watch(R) ==
  /\ stayed' = [t \in Tasks |-> IF InWalk(t) THEN stayed[t] \cap Listed(op[t], R) ELSE stayed[t]]
  /\ grown' = grown \cup
       {t \in Tasks : InWalk(t) /\ ~(Listed(op[t], R) \subseteq Listed(op[t], rows))}

SetRows(R) == rows' = R /\ Watch(R)

\* One page, of the rows there are when the query runs.
find(t) ==
  LET list == Listed(op[t], rows)
      ends == {Skip(page[t]), page[t] * PageSize}
  IN /\ At(t, "find")
     /\ \E new \in Pages(op[t], list, page[t]) :
          /\ shown' = [shown EXCEPT ![t] = @ \cup new]
          /\ twice' = [twice EXCEPT ![t] = @ \cup (new \cap shown[t])]
     /\ cut' = [cut EXCEPT ![t] = @ \cup UNION {Cut(op[t], list, n) : n \in ends}]
     /\ stayed' = [stayed EXCEPT ![t] = IF page[t] = 1 THEN list ELSE @]
     /\ Advance(t)
     /\ UNCHANGED <<rows, last, now, cutoff, held, coming, page, grown, thinned, private>>

\* The total, by a query of its own; the client asks for the next page if the
\* answer says there is one.
count(t) ==
  /\ At(t, "count")
  /\ IF HasNextPage(Cardinality(Listed(op[t], rows)), page[t])
     THEN /\ page' = [page EXCEPT ![t] = @ + 1] /\ pc' = [pc EXCEPT ![t] = 1]
          /\ UNCHANGED <<op, over>>
     ELSE Advance(t) /\ UNCHANGED page
  /\ UNCHANGED <<rows, last, now, cutoff, held, coming, shown, twice, cut, history, thinned, private>>

-----------------------------------------------------------------------------
(* New rows.                                                               *)

\* A mutant: a row takes the last id again.
NewId_again(n) == n

NewId(n) == n + 1

NewRow(t, table, time) ==
  [id |-> NewId(last), time |-> time, table |-> table, owner |-> op[t].user,
   status |-> op[t].status, code |-> op[t].code]

\* What is stored with the row r: charges if there are any, the credit of another.
Further(t, r) ==
  LET next == [r EXCEPT !.id = NewId(@)] IN
  IF op[t].kind = "processRechargePayment" THEN {{}, {next}}
  ELSE IF op[t].kind \in {"processFundTransfer", "handleReferrelBonus"}
       THEN {{[next EXCEPT !.owner = u, !.status = "CREDIT"]} : u \in Users \ {r.owner}}
       ELSE {{}}

\* The clock may have moved on since the last row, or not.
TakeTime(t, table) ==
  \E time \in {n \in {now, now + 1} : n > cutoff} :
    LET r == NewRow(t, table, time) IN
    \E more \in Further(t, r) :
      /\ coming' = [coming EXCEPT ![t] = {r} \cup more]
      /\ last' = IF more = {} THEN r.id ELSE NewId(r.id)
      /\ now' = time
      /\ Advance(t)

takeTime(t) ==
  /\ At(t, "takeTime")
  /\ TakeTime(t, Table[op[t].kind])
  /\ UNCHANGED <<rows, cutoff, held, walks, history, thinned, private>>

\* Without a reference from the provider, or when the reward is nothing, the call
\* ends with its row.
takeRewardTime(t) ==
  /\ At(t, "takeRewardTime")
  /\ TakeTime(t, "reward") \/ (Refuse(t) /\ UNCHANGED <<last, now, coming>>)
  /\ UNCHANGED <<rows, cutoff, held, walks, history, thinned, private>>

\* The address is not valid, the PIN is wrong or the payout throws; or it answers.
payout(t) ==
  /\ At(t, "payout")
  /\ Advance(t) \/ Refuse(t)
  /\ UNCHANGED <<rows, last, now, cutoff, held, coming, walks, history, thinned, private>>

\* insertInAppNotification throws on a user that is not found; a job that names
\* none (processStaticQRNotification) ends here as well.
findUser(t) ==
  /\ At(t, "findUser")
  /\ IF op[t].user \in Users THEN Advance(t) ELSE Refuse(t)
  /\ UNCHANGED <<rows, last, now, cutoff, held, coming, walks, history, thinned, private>>

\* sendNotificationToMultipleTokens answers an error and throws none.
PushFails(t) == Advance(t)

push(t) ==
  /\ At(t, "push")
  /\ Advance(t) \/ PushFails(t)
  /\ UNCHANGED <<rows, last, now, cutoff, held, coming, walks, history, thinned, private>>

\* The UTR of a request for money is unique.
Clashes(r) ==
  r.table = "moneyRequest" /\ \E s \in rows : s.table = r.table /\ s.code = r.code

save(t) ==
  /\ At(t, "save")
  /\ IF \E r \in coming[t] : Clashes(r)
     THEN Refuse(t) /\ UNCHANGED <<rows, history, private>>
     ELSE /\ SetRows(rows \cup coming[t])
          /\ private' = private \cup {r.id : r \in {s \in coming[t] : s.owner # Everyone}}
          /\ Advance(t)
  /\ UNCHANGED <<last, now, cutoff, held, coming, walks, thinned>>

-----------------------------------------------------------------------------
(* The status of a request, the marks and the deletion of notifications.   *)

\* Any row of the table, or none.
findRow(t) ==
  /\ At(t, "findRequest") \/ At(t, "findNotification")
  /\ \/ Refuse(t) /\ UNCHANGED held
     \/ \E r \in rows :
          /\ r.table = Table[op[t].kind]
          /\ held' = [held EXCEPT ![t] = r]
          /\ Advance(t)
  /\ UNCHANGED <<rows, last, now, cutoff, coming, walks, history, thinned, private>>

With(R, status) == {[r EXCEPT !.status = status] : r \in R}

updateStatus(t) ==
  LET hit == {r \in rows : r.id = held[t].id}
      R == (rows \ hit) \cup With(hit, op[t].status)
  IN /\ At(t, "updateStatus")
     /\ SetRows(R)
     /\ thinned' = thinned \cup
          {s \in Tasks : InWalk(s) /\ ~(Listed(op[s], rows) \subseteq Listed(op[s], R))}
     /\ Advance(t)
     /\ UNCHANGED <<last, now, cutoff, held, coming, walks, private>>

markAll(t) ==
  LET hit == {r \in rows : r.table = "notification"} IN
  /\ At(t, "updateAll")
  /\ SetRows((rows \ hit) \cup With(hit, "read"))
  /\ Advance(t)
  /\ UNCHANGED <<last, now, cutoff, held, coming, walks, thinned, private>>

\* A mutant: the entity has lost its user, and the update writes that.
Marked_unowned(hit) == {[r EXCEPT !.owner = Everyone] : r \in With(hit, "read")}

Marked(hit) == With(hit, "read")

\* save of an entity whose row is gone inserts it again: without its user, which
\* findOne has not loaded.
saveRead(t) ==
  LET hit == {r \in rows : r.id = held[t].id} IN
  /\ At(t, "saveRead")
  /\ SetRows((rows \ hit) \cup
       IF hit # {} THEN Marked(hit) ELSE With({[held[t] EXCEPT !.owner = Everyone]}, "read"))
  /\ Advance(t)
  /\ UNCHANGED <<last, now, cutoff, held, coming, walks, thinned, private>>

\* Time passes until one more notification is fourteen days old.
fourteenDaysPass ==
  /\ \E r \in rows : r.table = "notification" /\ r.time > cutoff /\ cutoff' = r.time
  /\ UNCHANGED <<rows, last, now, op, pc, over, held, coming, walks, history, thinned, private>>

\* A mutant: only what has been read is deleted.
Old_read(r) == r.table = "notification" /\ r.time <= cutoff /\ r.status = "read"

Old(r) == r.table = "notification" /\ r.time <= cutoff

deleteOldNotifications ==
  /\ \E r \in rows : Old(r)
  /\ SetRows({r \in rows : ~Old(r)})
  /\ UNCHANGED <<last, now, cutoff, op, pc, over, held, coming, walks, thinned, private>>

\* A statement fails: what came before it stays.
fail(t) ==
  /\ t \in Faulty /\ Running(t)
  /\ Refuse(t)
  /\ UNCHANGED <<rows, last, now, cutoff, held, coming, walks, history, thinned, private>>

-----------------------------------------------------------------------------

Step(t) ==
  \/ find(t) \/ count(t) \/ findUser(t) \/ push(t) \/ payout(t) \/ takeTime(t)
  \/ takeRewardTime(t) \/ save(t) \/ findRow(t) \/ updateStatus(t) \/ markAll(t) \/ saveRead(t)

Next ==
  \/ \E t \in Tasks : Step(t)
  \/ \E t \in Tasks : fail(t)
  \/ fourteenDaysPass \/ deleteOldNotifications

\* The job that deletes runs every five seconds.  Calls need not go on, time need
\* not pass, and nothing has to fail.
Fairness == WF_vars(deleteOldNotifications)

Spec == Init /\ [][Next]_vars /\ Fairness

-----------------------------------------------------------------------------
(* Properties.                                                             *)

TypeOK ==
  /\ rows \subseteq Rows /\ last \in Nat /\ now \in Nat /\ cutoff \in Nat
  /\ \A r, s \in rows : r.id = s.id => r = s
  /\ op \in [Tasks -> Operations] /\ pc \in [Tasks -> Nat \ {0}] /\ over \subseteq Tasks
  /\ held \in [Tasks -> Rows \cup {NoRow}] /\ coming \in [Tasks -> SUBSET Rows]
  /\ page \in [Tasks -> Nat \ {0}] /\ shown \in [Tasks -> SUBSET Keys]
  /\ stayed \in [Tasks -> SUBSET Keys]
  /\ twice \in [Tasks -> SUBSET Keys] /\ cut \in [Tasks -> SUBSET Keys]
  /\ grown \subseteq Tasks /\ thinned \subseteq Tasks
  /\ private \subseteq 1..last

\* A client that goes on while hasNextPage says so is shown every row that was in
\* the list when it began and has stayed there, although rows come and old ones
\* are deleted between its queries and the total is counted apart: unless a
\* request took another status and left the list, or the row was created at the
\* same time as others, stored with it in one transaction for instance, and the
\* end of a page fell among them.  It is shown a row twice only for that reason,
\* or when the list has got a row meanwhile.
WalkShowsList ==
  /\ \A t \in Tasks \ (over \cup thinned) :
       op[t].kind \in Walks /\ ~Running(t) => stayed[t] \ cut[t] \subseteq shown[t]
  /\ \A t \in Tasks \ grown : twice[t] \subseteq cut[t]

\* A notification stored for one user and shown to all is fourteen days old and
\* read: only a mark that had found it before its deletion brings it back without
\* its user (markAsRead).
PrivateStaysPrivate ==
  \A r \in rows : r.owner = Everyone /\ r.id \in private => r.time <= cutoff /\ r.status = "read"

-----------------------------------------------------------------------------
(* What makes the properties inductive.                                    *)

\* Rows that wait for their insert, and one that was found and will be written.
Pending(t) == At(t, "save")
Found(t) == At(t, "updateStatus") \/ At(t, "saveRead")

IdsGiven == IsFiniteSet(rows) /\ \A r \in rows : r.id <= last

\* The id of a row that waits is nobody else's, and nothing that is stored.
PendingIsNew ==
  \A t \in Tasks : Pending(t) =>
    /\ IsFiniteSet(coming[t])
    /\ \A c, d \in coming[t] : c.id = d.id => c = d
    /\ \A c \in coming[t] :
         /\ c.id <= last /\ c.id \notin private
         /\ \A r \in rows : r.id # c.id
         /\ \A s \in Tasks \ {t} : Pending(s) => \A d \in coming[s] : d.id # c.id
         /\ \A s \in Tasks : Found(s) => held[s].id # c.id

\* What was found is there still, as old and in the same table, unless it was old.
FoundIsKnown ==
  \A t \in Tasks : Found(t) =>
    /\ held[t] \in Rows /\ held[t].id <= last /\ held[t].table = Table[op[t].kind]
    /\ \A r \in rows : r.id = held[t].id => r.table = held[t].table /\ r.time = held[t].time
    /\ \A s \in Tasks : Found(s) /\ held[s].id = held[t].id =>
         held[s].table = held[t].table /\ held[s].time = held[t].time
    /\ held[t].time <= cutoff \/ \E r \in rows : r.id = held[t].id

\* Only a notification loses its user.
LostIsNotification ==
  \A r \in rows : r.owner = Everyone /\ r.id \in private => r.table = "notification"

\* A walk has passed the places before this one.
Passed(t) == IF pc[t] = 1 THEN Skip(page[t]) ELSE page[t] * PageSize

Place(t, i) == Cardinality(Before(op[t], Listed(op[t], rows), i))

\* What has stayed and lies where the walk has been was shown; and while the list
\* has got no row, what was shown lies there: unless the end of a page cut it off.
WalkGoesOn ==
  \A t \in Tasks : op[t].kind \in Walks =>
    /\ pc[t] \in 1..3
    /\ pc[t] = 1 /\ page[t] = 1 => shown[t] = {} /\ stayed[t] = {}
    /\ pc[t] < 3 /\ t \notin over \cup thinned =>
         /\ stayed[t] \subseteq Listed(op[t], rows)
         /\ \A i \in stayed[t] \ cut[t] : Place(t, i) < Passed(t) => i \in shown[t]
    /\ pc[t] < 3 /\ t \notin over \cup grown =>
         \A i \in shown[t] \cap Listed(op[t], rows) : Place(t, i) < Passed(t)

IInv ==
  /\ TypeOK /\ IdsGiven /\ PendingIsNew /\ FoundIsKnown
  /\ LostIsNotification /\ PrivateStaysPrivate
  /\ WalkGoesOn /\ WalkShowsList

-----------------------------------------------------------------------------

\* In the end an old notification is gone, whatever marks brought it back.
OldGoesAway == <>[](\A r \in rows : r.table = "notification" => r.time > cutoff)
=============================================================================
