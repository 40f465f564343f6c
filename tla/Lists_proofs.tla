---------------------------- MODULE Lists_proofs ----------------------------
(***************************************************************************)
(* Proofs about Lists: a walk through the pages of a list misses no row    *)
(* that stays, whatever is stored, marked and deleted meanwhile, unless    *)
(* the end of a page fell among rows of one time, and shows none twice     *)
(* unless that, or the list has got one; and a notification that has lost  *)
(* its user is an old one.                                                 *)
(***************************************************************************)
EXTENDS Lists, FiniteSetTheorems, SequenceTheorems, TLAPS

-----------------------------------------------------------------------------
(* The programs.                                                           *)

StepNames ==
  {"find", "count", "findUser", "push", "payout", "takeTime", "takeRewardTime", "save",
   "findRequest", "findNotification", "updateStatus", "updateAll", "saveRead"}

IsProgram(p) == p \in Seq(StepNames)

Join(p, q) == p \o q

\* All programs that are joined end with two steps.
LEMMA Joined ==
  ASSUME NEW p, IsProgram(p), NEW q, IsProgram(q), Len(q) = 2
  PROVE  /\ IsProgram(Join(p, q))
         /\ Len(p) = 1 => /\ Len(Join(p, q)) = 3 /\ Join(p, q)[1] = p[1]
                          /\ Join(p, q)[2] = q[1] /\ Join(p, q)[3] = q[2]
         /\ Len(p) = 2 => /\ Len(Join(p, q)) = 4 /\ Join(p, q)[1] = p[1] /\ Join(p, q)[2] = p[2]
                          /\ Join(p, q)[3] = q[1] /\ Join(p, q)[4] = q[2]
         /\ Len(p) = 3 => /\ Len(Join(p, q)) = 5 /\ Join(p, q)[1] = p[1] /\ Join(p, q)[2] = p[2]
                          /\ Join(p, q)[3] = p[3] /\ Join(p, q)[4] = q[1] /\ Join(p, q)[5] = q[2]
<1> DEFINE n == Len(p)
           r == p \o q
<1>1. n \in Nat /\ p \in Seq(StepNames) /\ q \in Seq(StepNames)
  BY DEF IsProgram
<1>2. /\ r \in Seq(StepNames) /\ Len(r) = Len(p) + Len(q)
      /\ \A i \in 1..(Len(p) + Len(q)) : r[i] = IF i <= Len(p) THEN p[i] ELSE q[i - Len(p)]
  BY <1>1, ConcatProperties
<1>3. Join(p, q) = r /\ n = Len(p)
  BY DEF Join
<1> HIDE DEF n, r
<1>4. /\ IsProgram(r) /\ Len(r) = n + 2
      /\ \A i \in 1..(n + 2) : r[i] = IF i <= n THEN p[i] ELSE q[i - n]
  BY <1>2, <1>3 DEF IsProgram
<1>5. /\ n = 1 => Len(r) = 3 /\ r[1] = p[1] /\ r[2] = q[1] /\ r[3] = q[2]
      /\ n = 2 => Len(r) = 4 /\ r[1] = p[1] /\ r[2] = p[2] /\ r[3] = q[1] /\ r[4] = q[2]
      /\ n = 3 => /\ Len(r) = 5 /\ r[1] = p[1] /\ r[2] = p[2] /\ r[3] = p[3]
                  /\ r[4] = q[1] /\ r[5] = q[2]
  BY <1>4
<1> QED  BY <1>3, <1>4, <1>5

LEMMA Kinds ==
  DOMAIN Program =
    Inserts \cup {"updateRequest", "markAsRead", "markAllRead"} \cup Walks
BY DEF Program, Inserts, Walks

LEMMA InsertProgram ==
  IsProgram(Insert) /\ Len(Insert) = 2 /\ Insert[1] = "takeTime" /\ Insert[2] = "save"
BY DEF Insert, IsProgram, StepNames

LEMMA InAppProgram ==
  LET p == insertInAppNotification
  IN Len(p) = 4 /\ p[1] = "findUser" /\ p[2] = "push" /\ p[3] = "takeTime" /\ p[4] = "save"
<1> DEFINE q == <<"findUser", "push">>
<1>1. IsProgram(q) /\ Len(q) = 2 /\ q[1] = "findUser" /\ q[2] = "push"
  BY DEF IsProgram, StepNames
<1>2. insertInAppNotification = Join(q, Insert)
  BY DEF insertInAppNotification, Join
<1> HIDE DEF q
<1> QED  BY <1>1, <1>2, InsertProgram, Joined

LEMMA AnnouncementProgram ==
  LET p == processAnnouncementNotification
  IN Len(p) = 3 /\ p[1] = "push" /\ p[2] = "takeTime" /\ p[3] = "save"
<1> DEFINE q == <<"push">>
<1>1. IsProgram(q) /\ Len(q) = 1 /\ q[1] = "push"
  BY DEF IsProgram, StepNames
<1>2. processAnnouncementNotification = Join(q, Insert)
  BY DEF processAnnouncementNotification, Join
<1> HIDE DEF q
<1> QED  BY <1>1, <1>2, InsertProgram, Joined

LEMMA MoneyProgram ==
  LET p == sendMoney
  IN /\ Len(p) = 5 /\ p[1] = "payout" /\ p[2] = "takeTime" /\ p[3] = "save"
     /\ p[4] = "takeRewardTime" /\ p[5] = "save"
<1> DEFINE q == <<"payout">>
           w == <<"takeRewardTime", "save">>
           r == Join(q, Insert)
<1>1. IsProgram(q) /\ Len(q) = 1 /\ q[1] = "payout"
  BY DEF IsProgram, StepNames
<1>2. IsProgram(w) /\ Len(w) = 2 /\ w[1] = "takeRewardTime" /\ w[2] = "save"
  BY DEF IsProgram, StepNames
<1>3. sendMoney = Join(r, w)
  BY DEF sendMoney, Join
<1> HIDE DEF q, w
<1>4. IsProgram(r) /\ Len(r) = 3 /\ r[1] = "payout" /\ r[2] = "takeTime" /\ r[3] = "save"
  BY <1>1, InsertProgram, Joined
<1> HIDE DEF r
<1> QED  BY <1>2, <1>3, <1>4, Joined

LEMMA OtherPrograms ==
  /\ Program["saveTransaction"] = <<"takeTime", "save">>
  /\ Program["processRechargePayment"] = <<"takeTime", "save">>
  /\ Program["processFundTransfer"] = <<"takeTime", "save">>
  /\ Program["handleReferrelBonus"] = <<"takeTime", "save">>
  /\ Program["createMoneyRequest"] = <<"takeTime", "save">>
  /\ Program["updateRequest"] = <<"findRequest", "updateStatus">>
  /\ Program["markAsRead"] = <<"findNotification", "saveRead">>
  /\ Program["markAllRead"] = <<"updateAll">>
  /\ \A k \in Walks : Program[k] = <<"find", "count">>
BY DEF Program, Walks, Insert, Walk, saveTransaction, processRechargePayment,
       processFundTransfer, handleReferrelBonus, createMoneyRequest, updateRequest, markAsRead,
       markAllRead, findAllPaginated, getNotificationList, getWalletTransactions,
       getAllWalletTransactions, getTransactionHistory, getRecentTransaction, getRewardHistory,
       findAll

Is(k, i, step) == i <= Len(Program[k]) /\ Program[k][i] = step

\* Who has a step, and what comes before it.
LEMMA Places ==
  ASSUME NEW k \in DOMAIN Program, NEW i \in Nat \ {0}
  PROVE  /\ Len(Program[k]) \in Nat
         /\ Is(k, i, "find") <=> k \in Walks /\ i = 1
         /\ Is(k, i, "count") <=> k \in Walks /\ i = 2
         /\ k \in Walks => Len(Program[k]) = 2
         /\ Is(k, i, "takeTime") \/ Is(k, i, "takeRewardTime") \/ Is(k, i, "save") => k \in Inserts
         /\ Is(k, i, "updateStatus") \/ Is(k, i, "findRequest") => k = "updateRequest"
         /\ Is(k, i, "saveRead") \/ Is(k, i, "findNotification") => k = "markAsRead"
         /\ Is(k, i, "save") => Is(k, i - 1, "takeTime") \/ Is(k, i - 1, "takeRewardTime")
         /\ Is(k, i, "updateStatus") => Is(k, i - 1, "findRequest")
         /\ Is(k, i, "saveRead") => Is(k, i - 1, "findNotification")
         /\ Is(k, i, "save") \/ Is(k, i, "updateStatus") \/ Is(k, i, "saveRead") => i > 1
<1> USE DEF Is
<1>1. CASE k \in {"saveTransaction", "processRechargePayment", "processFundTransfer",
                 "handleReferrelBonus", "createMoneyRequest"}
  <2>1. Program[k] = <<"takeTime", "save">>
    BY <1>1, OtherPrograms
  <2>2. k \in Inserts /\ k \notin Walks
    BY <1>1 DEF Inserts, Walks
  <2> QED  BY <2>1, <2>2
<1>2. CASE k = "insertInAppNotification"
  <2>1. Program[k] = insertInAppNotification /\ k \in Inserts /\ k \notin Walks
    BY <1>2 DEF Program, Inserts, Walks
  <2> QED  BY <2>1, InAppProgram
<1>3. CASE k = "processAnnouncementNotification"
  <2>1. Program[k] = processAnnouncementNotification /\ k \in Inserts /\ k \notin Walks
    BY <1>3 DEF Program, Inserts, Walks
  <2> QED  BY <2>1, AnnouncementProgram
<1>4. CASE k = "sendMoney"
  <2>1. Program[k] = sendMoney /\ k \in Inserts /\ k \notin Walks
    BY <1>4 DEF Program, Inserts, Walks
  <2> QED  BY <2>1, MoneyProgram
<1>5. CASE k = "updateRequest"
  <2>1. Program[k] = <<"findRequest", "updateStatus">> /\ k \notin Inserts /\ k \notin Walks
    BY <1>5, OtherPrograms DEF Inserts, Walks
  <2> QED  BY <1>5, <2>1
<1>6. CASE k = "markAsRead"
  <2>1. Program[k] = <<"findNotification", "saveRead">> /\ k \notin Inserts /\ k \notin Walks
    BY <1>6, OtherPrograms DEF Inserts, Walks
  <2> QED  BY <1>6, <2>1
<1>7. CASE k = "markAllRead"
  <2>1. Program[k] = <<"updateAll">> /\ k \notin Inserts /\ k \notin Walks
    BY <1>7, OtherPrograms DEF Inserts, Walks
  <2> QED  BY <2>1
<1>8. CASE k \in Walks
  <2>1. Program[k] = <<"find", "count">> /\ k \notin Inserts
    BY <1>8, OtherPrograms DEF Inserts, Walks
  <2> QED  BY <1>8, <2>1
<1> QED  BY <1>1, <1>2, <1>3, <1>4, <1>5, <1>6, <1>7, <1>8, Kinds DEF Inserts

-----------------------------------------------------------------------------
(* What a step moves.                                                      *)

\* A call goes on, ends, or asks for the next page.
Moves(t) ==
  Advance(t) \/ Refuse(t) \/ (pc' = [pc EXCEPT ![t] = 1] /\ UNCHANGED <<op, over>>)

\* No row has come to wait, and none to be found.
Calm == \A s \in Tasks : (Pending(s)' => Pending(s)) /\ (Found(s)' => Found(s))

LEMMA KindIsKnown ==
  ASSUME TypeOK, NEW t \in Tasks
  PROVE  /\ op[t].kind \in DOMAIN Program /\ op[t].user \in Users \cup {Everyone}
         /\ pc[t] \in Nat \ {0} /\ op[t] \in Operations
<1>1. op[t] \in Operations /\ pc[t] \in Nat \ {0}
  BY DEF TypeOK
<1> QED  BY <1>1, ListsAssumption

LEMMA AtIs ==
  ASSUME NEW t, NEW step
  PROVE  At(t, step) <=> t \notin over /\ Is(op[t].kind, pc[t], step)
BY DEF At, Is, Running

LEMMA AtNext ==
  ASSUME NEW t, NEW step
  PROVE  At(t, step)' <=> t \notin over' /\ Is(op'[t].kind, pc'[t], step)
BY DEF At, Is, Running

LEMMA MovesTyped ==
  ASSUME TypeOK, NEW t \in Tasks, Moves(t)
  PROVE  /\ op' = op /\ pc' \in [Tasks -> Nat \ {0}] /\ over' \subseteq Tasks
         /\ \A s \in Tasks \ {t} : pc'[s] = pc[s] /\ (s \in over' <=> s \in over)
BY DEF TypeOK, Moves, Advance, Refuse

LEMMA OthersStay ==
  ASSUME TypeOK, NEW t \in Tasks, Moves(t), NEW s \in Tasks \ {t}, NEW step
  PROVE  At(s, step)' <=> At(s, step)
BY MovesTyped, AtIs, AtNext

LEMMA OneArrives ==
  ASSUME TypeOK, NEW t \in Tasks, Moves(t)
  PROVE  /\ Pending(t)' => Advance(t) /\ (At(t, "takeTime") \/ At(t, "takeRewardTime"))
         /\ Found(t)' => Advance(t) /\ (At(t, "findRequest") \/ At(t, "findNotification"))
<1> DEFINE k == op[t].kind
<1>1. k \in DOMAIN Program /\ pc[t] \in Nat \ {0} /\ op'[t].kind = k
  BY KindIsKnown, MovesTyped
<1>2. CASE Refuse(t)
  <2>1. \A step : ~At(t, step)'
    BY <1>2, AtNext DEF Refuse
  <2> QED  BY <2>1 DEF Pending, Found
<1>3. CASE pc' = [pc EXCEPT ![t] = 1] /\ UNCHANGED <<op, over>>
  <2>1. pc'[t] = 1 /\ 1 \in Nat \ {0}
    BY <1>3 DEF TypeOK
  <2>2. ~(Is(k, 1, "save") \/ Is(k, 1, "updateStatus") \/ Is(k, 1, "saveRead"))
    BY <1>1, <2>1, Places
  <2> QED  BY <1>1, <2>1, <2>2, AtNext DEF Pending, Found
<1>4. CASE Advance(t)
  <2>1. pc'[t] = pc[t] + 1 /\ over' = over
    BY <1>4 DEF Advance, TypeOK
  <2>2. pc'[t] \in Nat \ {0} /\ pc'[t] - 1 = pc[t]
    BY <1>1, <2>1
  <2>3. ASSUME Pending(t)'
        PROVE  At(t, "takeTime") \/ At(t, "takeRewardTime")
    <3>1. Is(k, pc'[t], "save") /\ t \notin over'
      BY <1>1, <2>3, AtNext DEF Pending
    <3>2. Is(k, pc'[t] - 1, "takeTime") \/ Is(k, pc'[t] - 1, "takeRewardTime")
      BY <1>1, <2>2, <3>1, Places
    <3> QED  BY <2>1, <2>2, <3>1, <3>2, AtIs
  <2>4. ASSUME Found(t)'
        PROVE  At(t, "findRequest") \/ At(t, "findNotification")
    <3>1. (Is(k, pc'[t], "updateStatus") \/ Is(k, pc'[t], "saveRead")) /\ t \notin over'
      BY <1>1, <2>4, AtNext DEF Found
    <3>2. Is(k, pc'[t] - 1, "findRequest") \/ Is(k, pc'[t] - 1, "findNotification")
      BY <1>1, <2>2, <3>1, Places
    <3> QED  BY <2>1, <2>2, <3>1, <3>2, AtIs
  <2> QED  BY <1>4, <2>3, <2>4
<1> QED  BY <1>2, <1>3, <1>4 DEF Moves

LEMMA StepsDiffer ==
  ASSUME NEW t, NEW x, NEW y, At(t, x), At(t, y)
  PROVE  x = y
BY DEF At

\* Only a call that takes a time, or finds a row, comes to write one.
LEMMA MostAreCalm ==
  ASSUME TypeOK, NEW t \in Tasks, Moves(t),
         Refuse(t) \/ \E step : At(t, step) /\ step \notin {"takeTime", "takeRewardTime",
                                                           "findRequest", "findNotification"}
  PROVE  Calm /\ ~Pending(t)' /\ ~Found(t)'
<1>1. ~Pending(t)' /\ ~Found(t)'
  <2>1. CASE Refuse(t)
    <3>1. \A step : ~At(t, step)'
      BY <2>1, AtNext DEF Refuse
    <3> QED  BY <3>1 DEF Pending, Found
  <2>2. CASE \E step : At(t, step) /\ step \notin {"takeTime", "takeRewardTime",
                                                   "findRequest", "findNotification"}
    BY <2>2, OneArrives, StepsDiffer
  <2> QED  BY <2>1, <2>2
<1>2. \A s \in Tasks \ {t} : (Pending(s)' => Pending(s)) /\ (Found(s)' => Found(s))
  BY OthersStay DEF Pending, Found
<1> QED  BY <1>1, <1>2 DEF Calm

-----------------------------------------------------------------------------
(* What a step leaves of the rows.                                         *)

\* R has the rows there are, with what marks and new states change of them.
SameRows(R) ==
  /\ IsFiniteSet(rows) => IsFiniteSet(R)
  /\ \A r \in R : \E s \in rows :
       s.id = r.id /\ s.time = r.time /\ s.table = r.table /\ s.owner = r.owner
  /\ \A s \in rows : \E r \in R : r.id = s.id

\* What a step may leave of what is told of rows, apart from their types.
RowsOK ==
  IdsGiven /\ PendingIsNew /\ FoundIsKnown /\ LostIsNotification /\ PrivateStaysPrivate

LEMMA ImageFinite ==
  ASSUME NEW S, NEW T, NEW f \in [S -> T], \A y \in T : \E x \in S : f[x] = y, IsFiniteSet(S)
  PROVE  IsFiniteSet(T)
BY FS_Surjection DEF Surjection

LEMMA WithFinite ==
  ASSUME NEW hit, IsFiniteSet(hit), NEW status
  PROVE  IsFiniteSet(With(hit, status))
<1> DEFINE f == [r \in hit |-> [r EXCEPT !.status = status]]
<1>1. f \in [hit -> With(hit, status)] /\ \A y \in With(hit, status) : \E x \in hit : f[x] = y
  BY DEF With
<1> HIDE DEF f
<1> QED  BY <1>1, ImageFinite

LEMMA Rewritten ==
  ASSUME TypeOK, NEW hit \in SUBSET rows, NEW status \in Statuses, NEW R,
         R = (rows \ hit) \cup With(hit, status)
  PROVE  /\ R \subseteq Rows /\ SameRows(R)
         /\ \A r, s \in R : r.id = s.id => r = s
         /\ \A r \in R \ rows : /\ r.status = status
                                /\ \E s \in hit :
                                     s.id = r.id /\ s.time = r.time /\ s.table = r.table /\ s.owner = r.owner
<1> DEFINE N(r) == [r EXCEPT !.status = status]
<1>1. rows \subseteq Rows /\ \A r, s \in rows : r.id = s.id => r = s
  BY DEF TypeOK
<1>2. \A r \in hit : /\ N(r) \in Rows /\ N(r).id = r.id /\ N(r).time = r.time
                     /\ N(r).table = r.table /\ N(r).owner = r.owner /\ N(r).status = status
  BY <1>1 DEF Rows
<1>3. With(hit, status) = {N(r) : r \in hit}
  BY DEF With
<1> HIDE DEF N
<1>4. \A r \in R : r \in rows \ hit \/ \E s \in hit : r = N(s)
  BY <1>3
<1>5. (\A s \in hit : N(s) \in R) /\ \A s \in rows \ hit : s \in R
  BY <1>3
<1>6. R \subseteq Rows
  BY <1>1, <1>2, <1>4
<1>7. SameRows(R)
  <2>1. IsFiniteSet(rows) => IsFiniteSet(R)
    BY WithFinite, FS_Subset, FS_Union
  <2> QED  BY <1>2, <1>4, <1>5, <2>1 DEF SameRows
<1>8. \A r, s \in R : r.id = s.id => r = s
  BY <1>1, <1>2, <1>4
<1>9. \A r \in R \ rows : /\ r.status = status
                         /\ \E s \in hit :
                              s.id = r.id /\ s.time = r.time /\ s.table = r.table /\ s.owner = r.owner
  BY <1>2, <1>4
<1> QED  BY <1>6, <1>7, <1>8, <1>9

LEMMA SameRowsKeep ==
  ASSUME TypeOK, RowsOK, Calm, UNCHANGED <<held, coming, last, cutoff, private, op>>, SameRows(rows')
  PROVE  IdsGiven' /\ PendingIsNew' /\ FoundIsKnown' /\ LostIsNotification'
<1>1. IdsGiven'
  BY DEF RowsOK, IdsGiven, SameRows
<1>2. PendingIsNew'
  <2>1. \A t \in Tasks : Pending(t)' => Pending(t)
    BY DEF Calm
  <2>2. \A t \in Tasks : Found(t)' => Found(t)
    BY DEF Calm
  <2>3. \A r \in rows' : \E s \in rows : s.id = r.id
    BY DEF SameRows
  <2> QED  BY <2>1, <2>2, <2>3 DEF RowsOK, PendingIsNew
<1>3. FoundIsKnown'
  <2>1. \A t \in Tasks : Found(t)' => Found(t)
    BY DEF Calm
  <2>2. \A r \in rows' : \E s \in rows : s.id = r.id /\ s.time = r.time /\ s.table = r.table
    BY DEF SameRows
  <2>3. \A r \in rows : \E s \in rows' : s.id = r.id
    BY DEF SameRows
  <2> QED  BY <2>1, <2>2, <2>3 DEF RowsOK, FoundIsKnown
<1>4. LostIsNotification'
  BY DEF RowsOK, LostIsNotification, SameRows
<1> QED  BY <1>1, <1>2, <1>3, <1>4

LEMMA RowsStay ==
  ASSUME TypeOK, RowsOK, Calm, UNCHANGED <<held, coming, last, cutoff, private, op, rows>>
  PROVE  RowsOK'
<1>1. SameRows(rows')
  BY DEF SameRows
<1>2. PrivateStaysPrivate'
  BY DEF RowsOK, PrivateStaysPrivate
<1> QED  BY <1>1, <1>2, SameRowsKeep DEF RowsOK

-----------------------------------------------------------------------------
(* The types and the rows, step by step.                                   *)

LEMMA ListedKeys ==
  ASSUME NEW o, NEW R \in SUBSET Rows
  PROVE  /\ Listed(o, R) \in SUBSET Keys
         /\ IsFiniteSet(R) => IsFiniteSet(Listed(o, R))
<1> DEFINE T == {s \in R : s.table = Table[o.kind] /\ Visible(o, s) /\ Asked(o, s)}
           f == [r \in T |-> Key(r)]
<1>1. Listed(o, R) = {Key(r) : r \in T} /\ T \in SUBSET R
  BY DEF Listed
<1>2. \A r \in R : Key(r) \in Keys
  BY DEF Rows, Key, Keys
<1>3. IsFiniteSet(R) => IsFiniteSet(T)
  BY <1>1, FS_Subset
<1> HIDE DEF T
<1>4. f \in [T -> Listed(o, R)] /\ \A y \in Listed(o, R) : \E x \in T : f[x] = y
  BY <1>1
<1> HIDE DEF f
<1>5. IsFiniteSet(R) => IsFiniteSet(Listed(o, R))
  BY <1>3, <1>4, ImageFinite
<1> QED  BY <1>1, <1>2, <1>5

LEMMA WatchTyped ==
  ASSUME TypeOK, NEW R, Watch(R)
  PROVE  stayed' \in [Tasks -> SUBSET Keys] /\ grown' \subseteq Tasks
BY DEF TypeOK, Watch

\* What waits or was found is a row.
RowsTyped(R) == R \subseteq Rows /\ \A r, s \in R : r.id = s.id => r = s

LEMMA NewRowTyped ==
  ASSUME TypeOK, NEW t \in Tasks, op[t].kind \in Inserts, NEW table \in Tables, NEW time \in Nat
  PROVE  LET r == NewRow(t, table, time) IN r \in Rows /\ r.id = last + 1
<1>1. op[t] \in Operations /\ op[t].user \in Users \cup {Everyone} /\ last \in Nat
  BY KindIsKnown DEF TypeOK
<1>2. op[t].status \in Statuses /\ op[t].code \in Codes
  BY <1>1, ListsAssumption
<1>3. last + 1 \in Nat \ {0}
  BY <1>1
<1> QED  BY <1>1, <1>2, <1>3 DEF NewRow, NewId, Rows

\* What is stored with a row is nothing, or one more row with the next id.
LEMMA FurtherTyped ==
  ASSUME NEW t, NEW r \in Rows, NEW more \in Further(t, r)
  PROVE  more = {} \/ \E x \in Rows : more = {x} /\ x.id = r.id + 1
<1> DEFINE next == [r EXCEPT !.id = NewId(@)]
           of(u) == [next EXCEPT !.owner = u, !.status = "CREDIT"]
<1>1. next \in Rows /\ next.id = r.id + 1
  BY DEF Rows, NewId
<1>2. \A u \in Users : of(u) \in Rows /\ of(u).id = r.id + 1
  <2> HIDE DEF next
  <2> QED  BY <1>1 DEF Rows, Statuses
<1>3. more \in {{}, {next}} \/ \E u \in Users : more = {of(u)}
  BY DEF Further
<1> QED  BY <1>1, <1>2, <1>3

LEMMA TablesKnown ==
  ASSUME NEW k \in DOMAIN Program
  PROVE  /\ Table[k] \in Tables
         /\ k = "updateRequest" => Table[k] = "moneyRequest"
         /\ k = "markAsRead" => Table[k] = "notification"
         /\ k \in {"findAllPaginated", "getNotificationList"} => Table[k] = "notification"
         /\ k \in Walks \ {"findAllPaginated", "getNotificationList"} => Table[k] # "notification"
<1>1. CASE k \in Inserts
  BY <1>1 DEF Table, Tables, Inserts, Walks
<1>2. CASE k \in {"updateRequest", "markAsRead", "markAllRead"}
  BY <1>2 DEF Table, Tables, Walks
<1>3. CASE k \in Walks
  BY <1>3 DEF Table, Tables, Walks
<1> QED  BY <1>1, <1>2, <1>3, Kinds

LEMMA FindTyped ==
  ASSUME TypeOK, IdsGiven, NEW t \in Tasks, find(t)
  PROVE  TypeOK'
<1> DEFINE o == op[t]
           list == Listed(o, rows)
           p == page[t]
           more == UNION {Cut(o, list, n) : n \in {Skip(p), p * PageSize}}
<1>1. list \in SUBSET Keys
  BY ListedKeys DEF TypeOK
<1>2. \A new \in Pages(o, list, p) : new \in SUBSET list
  BY DEF Pages, Beginnings
<1>3. more \in SUBSET list
  BY DEF Cut
<1>4. PICK new \in Pages(o, list, p) :
             /\ shown' = [shown EXCEPT ![t] = @ \cup new]
             /\ twice' = [twice EXCEPT ![t] = @ \cup (new \cap shown[t])]
  BY DEF find
<1>5. /\ cut' = [cut EXCEPT ![t] = @ \cup more]
      /\ stayed' = [stayed EXCEPT ![t] = IF p = 1 THEN list ELSE @]
      /\ Advance(t)
      /\ UNCHANGED <<rows, last, now, cutoff, held, coming, page, grown, thinned, private>>
  BY DEF find
<1>6. new \in SUBSET Keys
  BY <1>1, <1>2
<1> HIDE DEF list, more, o, p
<1>7. /\ shown' \in [Tasks -> SUBSET Keys] /\ twice' \in [Tasks -> SUBSET Keys]
      /\ cut' \in [Tasks -> SUBSET Keys] /\ stayed' \in [Tasks -> SUBSET Keys]
  BY <1>1, <1>3, <1>4, <1>5, <1>6 DEF TypeOK
<1>8. op' = op /\ pc' \in [Tasks -> Nat \ {0}] /\ over' \subseteq Tasks
  BY <1>5, MovesTyped DEF Moves
<1> QED  BY <1>5, <1>7, <1>8 DEF TypeOK

LEMMA CountTyped ==
  ASSUME TypeOK, NEW t \in Tasks, count(t)
  PROVE  TypeOK' /\ Moves(t)
<1>1. Moves(t)
  BY DEF count, Moves
<1>2. page' \in [Tasks -> Nat \ {0}]
  BY DEF count, TypeOK
<1>3. UNCHANGED <<rows, last, now, cutoff, held, coming, shown, twice, cut, history, thinned, private>>
  BY DEF count
<1> QED  BY <1>1, <1>2, <1>3, MovesTyped DEF TypeOK, history

LEMMA QuietTyped ==
  ASSUME TypeOK, NEW t \in Tasks, Moves(t),
         UNCHANGED <<rows, last, now, cutoff, held, coming, walks, history, thinned, private>>
  PROVE  TypeOK'
BY MovesTyped DEF TypeOK, history, walks

\* The rows a call is going to store, with ids beyond all that were given.
NewRows(t) ==
  /\ last' \in Nat /\ last < last'
  /\ coming'[t] \subseteq Rows /\ IsFiniteSet(coming'[t])
  /\ \A c, d \in coming'[t] : c.id = d.id => c = d
  /\ \A c \in coming'[t] : last < c.id /\ c.id <= last'

LEMMA TakesTyped ==
  ASSUME TypeOK, NEW t \in Tasks, op[t].kind \in Inserts, NEW table \in Tables,
         TakeTime(t, table), UNCHANGED <<rows, cutoff, held, walks, history, thinned, private>>
  PROVE  TypeOK' /\ Moves(t) /\ NewRows(t) /\ \A s \in Tasks \ {t} : coming'[s] = coming[s]
<1>1. Moves(t)
  BY DEF TakeTime, Moves
<1>2. PICK time \in {n \in {now, now + 1} : n > cutoff} :
        LET q == NewRow(t, table, time) IN
        \E more \in Further(t, q) : /\ coming' = [coming EXCEPT ![t] = {q} \cup more]
                                    /\ last' = IF more = {} THEN q.id ELSE NewId(q.id)
                                    /\ now' = time
  BY DEF TakeTime
<1> DEFINE q == NewRow(t, table, time)
<1>3. PICK more \in Further(t, q) : /\ coming' = [coming EXCEPT ![t] = {q} \cup more]
                                    /\ last' = IF more = {} THEN q.id ELSE NewId(q.id)
                                    /\ now' = time
  BY <1>2
<1>4. time \in Nat /\ last \in Nat
  BY <1>2 DEF TypeOK
<1>5. q \in Rows /\ q.id = last + 1
  BY <1>4, NewRowTyped
<1> HIDE DEF q
<1>6. more = {} \/ \E x \in Rows : more = {x} /\ x.id = q.id + 1
  BY <1>5, FurtherTyped
<1>7. coming'[t] = {q} \cup more /\ \A s \in Tasks \ {t} : coming'[s] = coming[s]
  BY <1>3 DEF TypeOK
<1>8. NewRows(t)
  <2>1. CASE more = {}
    <3>1. last' = last + 1 /\ coming'[t] = {q}
      BY <1>3, <1>5, <1>7, <2>1
    <3> QED  BY <1>4, <1>5, <3>1, FS_Singleton DEF NewRows
  <2>2. ASSUME NEW x \in Rows, more = {x}, x.id = q.id + 1
        PROVE  NewRows(t)
    <3>1. last' = last + 2 /\ coming'[t] = {q, x} /\ x.id = last + 2
      BY <1>3, <1>4, <1>5, <1>7, <2>2 DEF NewId
    <3>2. IsFiniteSet({q} \cup {x})
      BY FS_Singleton, FS_Union
    <3>3. coming'[t] \subseteq Rows /\ IsFiniteSet(coming'[t])
      <4>1. {q, x} = {q} \cup {x}
        OBVIOUS
      <4> QED  BY <1>5, <3>1, <3>2, <4>1
    <3>4. /\ last' \in Nat /\ last < last' /\ q.id # x.id
          /\ last < q.id /\ q.id <= last' /\ last < x.id /\ x.id <= last'
      BY <1>4, <1>5, <3>1
    <3> QED  BY <3>1, <3>3, <3>4 DEF NewRows
  <2> QED  BY <1>6, <2>1, <2>2
<1>9. coming' \in [Tasks -> SUBSET Rows]
  BY <1>3, <1>5, <1>6 DEF TypeOK
<1>10. last' \in Nat /\ 1..last \subseteq 1..last' /\ now' \in Nat
  BY <1>3, <1>4, <1>8 DEF NewRows
<1>11. private' \subseteq 1..last'
  BY <1>10 DEF TypeOK
<1> QED  BY <1>1, <1>7, <1>8, <1>9, <1>10, <1>11, MovesTyped DEF TypeOK, walks, history

LEMMA RowsSetTyped ==
  ASSUME TypeOK, NEW R, RowsTyped(R), SetRows(R), op' = op,
         pc' \in [Tasks -> Nat \ {0}], over' \subseteq Tasks, thinned' \subseteq Tasks,
         private' \subseteq 1..last, UNCHANGED <<last, now, cutoff, held, coming, walks>>
  PROVE  TypeOK'
<1>1. rows' = R /\ stayed' \in [Tasks -> SUBSET Keys] /\ grown' \subseteq Tasks
  BY WatchTyped DEF SetRows
<1> QED  BY <1>1 DEF TypeOK, RowsTyped, walks

LEMMA SaveTyped ==
  ASSUME TypeOK, RowsOK, NEW t \in Tasks, save(t)
  PROVE  TypeOK' /\ Moves(t)
<1>1. Moves(t) /\ At(t, "save")
  BY DEF save, Moves
<1>2. /\ \A c, d \in coming[t] : c.id = d.id => c = d
      /\ \A c \in coming[t] : c.id <= last /\ \A r \in rows : r.id # c.id
  BY <1>1 DEF RowsOK, PendingIsNew, Pending
<1>3. RowsTyped(rows \cup coming[t])
  BY <1>2 DEF TypeOK, RowsTyped
<1>4. (\A c \in coming[t] : c.id \in 1..last) /\ private \subseteq 1..last
  BY <1>2 DEF Rows, TypeOK
<1>5. op' = op /\ pc' \in [Tasks -> Nat \ {0}] /\ over' \subseteq Tasks
  BY <1>1, MovesTyped
<1>6. CASE \E r \in coming[t] : Clashes(r)
  BY <1>1, <1>6, QuietTyped DEF save
<1>7. CASE ~\E r \in coming[t] : Clashes(r)
  <2>1. private' \subseteq 1..last
    <3>1. private' = private \cup {r.id : r \in {s \in coming[t] : s.owner # Everyone}}
      BY <1>7 DEF save
    <3> QED  BY <1>4, <3>1
  <2>2. SetRows(rows \cup coming[t])
    BY <1>7 DEF save
  <2>3. UNCHANGED <<last, now, cutoff, held, coming, walks, thinned>>
    BY DEF save
  <2> QED  BY <1>1, <1>3, <1>5, <2>1, <2>2, <2>3, RowsSetTyped DEF TypeOK
<1> QED  BY <1>6, <1>7

LEMMA TakesRows ==
  ASSUME TypeOK, RowsOK, NEW t \in Tasks, At(t, "takeTime") \/ At(t, "takeRewardTime"),
         NEW table \in Tables, TakeTime(t, table), op[t].kind \in Inserts,
         UNCHANGED <<rows, cutoff, held, walks, history, thinned, private>>
  PROVE  RowsOK'
<1>1. /\ Moves(t) /\ NewRows(t) /\ last \in Nat /\ last' \in Nat /\ last < last'
      /\ \A s \in Tasks \ {t} : coming'[s] = coming[s]
  BY TakesTyped DEF TypeOK, NewRows
<1>2. \A s \in Tasks \ {t} : (Pending(s)' <=> Pending(s)) /\ (Found(s)' <=> Found(s))
  BY <1>1, OthersStay DEF Pending, Found
<1>3. ~Found(t)'
  BY <1>1, OneArrives, StepsDiffer
<1>4. /\ rows' = rows /\ private' = private /\ cutoff' = cutoff /\ held' = held
      /\ op' = op /\ private \subseteq 1..last
  BY <1>1, MovesTyped DEF TypeOK
<1>5. \A r \in rows : r.id \in Nat /\ r.id <= last
  BY DEF RowsOK, IdsGiven, TypeOK, Rows
<1>6. IdsGiven'
  BY <1>1, <1>4, <1>5 DEF RowsOK, IdsGiven
<1>7. \A s \in Tasks : Found(s)' => s # t /\ Found(s) /\ held[s].id \in Nat /\ held[s].id <= last
  BY <1>2, <1>3 DEF RowsOK, FoundIsKnown, Rows
<1>8. \A s \in Tasks : \A c \in coming[s] : c.id \in Nat
  BY DEF TypeOK, Rows
<1>9. PendingIsNew'
  <2>1. ASSUME NEW s \in Tasks \ {t}, Pending(s)'
        PROVE  /\ IsFiniteSet(coming'[s])
               /\ \A c, d \in coming'[s] : c.id = d.id => c = d
               /\ \A c \in coming'[s] :
                    /\ c.id <= last' /\ c.id \notin private'
                    /\ \A r \in rows' : r.id # c.id
                    /\ \A x \in Tasks \ {s} : Pending(x)' => \A d \in coming'[x] : d.id # c.id
                    /\ \A x \in Tasks : Found(x)' => held'[x].id # c.id
    <3>1. /\ coming'[s] = coming[s] /\ IsFiniteSet(coming[s])
          /\ \A c, d \in coming[s] : c.id = d.id => c = d
      BY <1>1, <1>2, <2>1 DEF RowsOK, PendingIsNew
    <3>2. ASSUME NEW c \in coming[s]
          PROVE  /\ c.id <= last /\ c.id \notin private
                 /\ \A r \in rows : r.id # c.id
                 /\ \A x \in Tasks \ {s} : Pending(x) => \A d \in coming[x] : d.id # c.id
                 /\ \A x \in Tasks : Found(x) => held[x].id # c.id
      BY <1>2, <2>1 DEF RowsOK, PendingIsNew
    <3>3. ASSUME NEW c \in coming[s]
          PROVE  c.id <= last' /\ \A d \in coming'[t] : d.id # c.id
      <4>1. c.id \in Nat /\ c.id <= last
        BY <1>8, <3>2
      <4>2. \A d \in coming'[t] : d.id \in Nat /\ last < d.id
        BY <1>1 DEF NewRows, Rows
      <4> QED  BY <1>1, <4>1, <4>2
    <3>4. ASSUME NEW c \in coming[s], NEW x \in Tasks \ {s}, Pending(x)'
          PROVE  \A d \in coming'[x] : d.id # c.id
      <4>1. CASE x = t
        BY <3>3, <4>1
      <4>2. CASE x # t
        BY <1>1, <1>2, <3>2, <3>4, <4>2
      <4> QED  BY <4>1, <4>2
    <3> QED  BY <1>4, <1>7, <3>1, <3>2, <3>3, <3>4
  <2>2. /\ IsFiniteSet(coming'[t])
        /\ \A c, d \in coming'[t] : c.id = d.id => c = d
        /\ \A c \in coming'[t] :
             /\ c.id <= last' /\ c.id \notin private'
             /\ \A r \in rows' : r.id # c.id
             /\ \A x \in Tasks \ {t} : Pending(x)' => \A d \in coming'[x] : d.id # c.id
             /\ \A x \in Tasks : Found(x)' => held'[x].id # c.id
    <3>1. IsFiniteSet(coming'[t]) /\ \A c, d \in coming'[t] : c.id = d.id => c = d
      BY <1>1 DEF NewRows
    <3>2. \A c \in coming'[t] : c.id \in Nat /\ last < c.id /\ c.id <= last'
      BY <1>1 DEF NewRows, Rows
    <3>3. \A n \in Nat : n <= last => \A c \in coming'[t] : c.id # n
      BY <1>1, <3>2
    <3>4. \A c \in coming'[t] : c.id \notin private'
      BY <1>1, <1>4, <3>2
    <3>5. \A x \in Tasks \ {t} : Pending(x)' =>
            \A d \in coming'[x] : d.id \in Nat /\ d.id <= last
      BY <1>1, <1>2, <1>8 DEF RowsOK, PendingIsNew
    <3> QED  BY <1>4, <1>5, <1>7, <3>1, <3>2, <3>3, <3>4, <3>5
  <2> QED  BY <2>1, <2>2 DEF PendingIsNew
<1>10. FoundIsKnown'
  BY <1>1, <1>4, <1>7 DEF RowsOK, FoundIsKnown
<1>11. LostIsNotification' /\ PrivateStaysPrivate'
  BY <1>4 DEF RowsOK, LostIsNotification, PrivateStaysPrivate
<1> QED  BY <1>6, <1>9, <1>10, <1>11 DEF RowsOK

LEMMA SaveRows ==
  ASSUME TypeOK, RowsOK, NEW t \in Tasks, save(t)
  PROVE  RowsOK'
<1>1. /\ Moves(t) /\ At(t, "save") /\ Pending(t)
      /\ UNCHANGED <<last, now, cutoff, held, coming>> /\ op' = op
  BY SaveTyped, MovesTyped DEF save, Pending
<1>2. Calm /\ ~Pending(t)' /\ ~Found(t)'
  BY <1>1, MostAreCalm
<1>3. CASE \E r \in coming[t] : Clashes(r)
  BY <1>1, <1>2, <1>3, RowsStay DEF save
<1>4. CASE ~\E r \in coming[t] : Clashes(r)
  <2> DEFINE C == coming[t]
  <2>1. /\ rows' = rows \cup C
        /\ private' = private \cup {r.id : r \in {s \in C : s.owner # Everyone}}
    BY <1>4 DEF save, SetRows
  <2>2. /\ IsFiniteSet(C) /\ \A c, d \in C : c.id = d.id => c = d
        /\ \A c \in C :
             /\ c.id <= last /\ c.id \notin private
             /\ \A r \in rows : r.id # c.id
             /\ \A s \in Tasks \ {t} : Pending(s) => \A d \in coming[s] : d.id # c.id
             /\ \A s \in Tasks : Found(s) => held[s].id # c.id
    BY <1>1 DEF RowsOK, PendingIsNew
  <2> HIDE DEF C
  <2>3. \A s \in Tasks : (Pending(s)' => Pending(s) /\ s # t) /\ (Found(s)' => Found(s) /\ s # t)
    BY <1>2 DEF Calm
  <2>4. IdsGiven'
    BY <1>1, <2>1, <2>2, FS_Union DEF RowsOK, IdsGiven
  <2>5. PendingIsNew'
    <3>1. ASSUME NEW s \in Tasks, Pending(s)'
          PROVE  \A c \in coming[s] : c.id \notin private' /\ \A r \in rows' : r.id # c.id
      <4>1. Pending(s) /\ s # t
        BY <2>3, <3>1
      <4>2. \A c \in coming[s] : c.id \notin private /\ \A r \in rows : r.id # c.id
        BY <4>1 DEF RowsOK, PendingIsNew
      <4>3. \A c \in coming[s] : \A d \in C : c.id # d.id
        BY <2>2, <4>1
      <4> QED  BY <2>1, <4>2, <4>3
    <3> QED  BY <1>1, <2>3, <3>1 DEF RowsOK, PendingIsNew
  <2>6. FoundIsKnown'
    <3>1. \A s \in Tasks : Found(s)' => Found(s) /\ \A c \in C : c.id # held[s].id
      BY <2>2, <2>3
    <3> QED  BY <1>1, <2>1, <3>1 DEF RowsOK, FoundIsKnown
  <2>7. ASSUME NEW r \in rows', r.owner = Everyone, r.id \in private'
        PROVE  r \in rows /\ r.id \in private
    <3>1. r \notin C
      BY <2>1, <2>2, <2>7
    <3> QED  BY <2>1, <2>2, <2>7, <3>1
  <2>8. LostIsNotification' /\ PrivateStaysPrivate'
    BY <1>1, <2>7 DEF RowsOK, LostIsNotification, PrivateStaysPrivate
  <2> QED  BY <2>4, <2>5, <2>6, <2>8 DEF RowsOK
<1> QED  BY <1>3, <1>4

LEMMA FindRowKeeps ==
  ASSUME TypeOK, RowsOK, NEW t \in Tasks, findRow(t)
  PROVE  TypeOK' /\ RowsOK'
<1>1. /\ At(t, "findRequest") \/ At(t, "findNotification")
      /\ UNCHANGED <<rows, last, now, cutoff, coming, walks, history, thinned, private>>
  BY DEF findRow
<1>2. CASE Refuse(t) /\ UNCHANGED held
  <2>1. Moves(t) /\ op' = op
    BY <1>2 DEF Moves, Refuse
  <2>2. Calm
    BY <1>2, <2>1, MostAreCalm
  <2> QED  BY <1>1, <1>2, <2>1, <2>2, QuietTyped, RowsStay
<1>3. ASSUME NEW r \in rows, r.table = Table[op[t].kind],
             held' = [held EXCEPT ![t] = r], Advance(t)
      PROVE  TypeOK' /\ RowsOK'
  <2>1. Moves(t) /\ op' = op /\ pc' \in [Tasks -> Nat \ {0}] /\ over' \subseteq Tasks
    BY <1>3, MovesTyped DEF Moves
  <2>2. held' \in [Tasks -> Rows \cup {NoRow}] /\ held'[t] = r /\ r \in Rows
    BY <1>3 DEF TypeOK
  <2>3. TypeOK'
    BY <1>1, <2>1, <2>2 DEF TypeOK, walks, history
  <2>4. \A s \in Tasks \ {t} : /\ held'[s] = held[s]
                               /\ Pending(s)' <=> Pending(s)
                               /\ Found(s)' <=> Found(s)
    BY <1>3, <2>1, OthersStay DEF Pending, Found, TypeOK
  <2>5. ~Pending(t)'
    BY <1>1, <2>1, OneArrives, StepsDiffer
  <2>6. /\ rows' = rows /\ last' = last /\ coming' = coming /\ cutoff' = cutoff /\ private' = private /\ op' = op
    BY <1>1, <2>1
  <2>7. IdsGiven' /\ LostIsNotification' /\ PrivateStaysPrivate'
    BY <2>6 DEF RowsOK, IdsGiven, LostIsNotification, PrivateStaysPrivate
  <2>8. PendingIsNew'
    <3>1. ASSUME NEW s \in Tasks, Pending(s)'
          PROVE  s # t /\ Pending(s) /\ \A c \in coming[s] : r.id # c.id
      <4>1. s # t /\ Pending(s)
        BY <2>4, <2>5, <3>1
      <4> QED  BY <4>1 DEF RowsOK, PendingIsNew
    <3> QED  BY <2>2, <2>4, <2>6, <3>1 DEF RowsOK, PendingIsNew
  <2>9. FoundIsKnown'
    <3>1. \A q \in rows : q.id = r.id => q = r
      BY DEF TypeOK
    <3>2. r.id <= last
      BY DEF RowsOK, IdsGiven
    <3>3. \A s \in Tasks \ {t} : Found(s)' /\ held[s].id = r.id =>
            held[s].table = r.table /\ held[s].time = r.time
      BY <2>4 DEF RowsOK, FoundIsKnown
    <3>4. ASSUME NEW s \in Tasks, Found(s)'
          PROVE  /\ held'[s] \in Rows /\ held'[s].id <= last /\ held'[s].table = Table[op[s].kind]
                 /\ \A q \in rows : q.id = held'[s].id =>
                      q.table = held'[s].table /\ q.time = held'[s].time
                 /\ held'[s].time <= cutoff \/ \E q \in rows : q.id = held'[s].id
      BY <1>3, <2>2, <2>4, <3>1, <3>2, <3>4 DEF RowsOK, FoundIsKnown
    <3>5. ASSUME NEW s \in Tasks, Found(s)', NEW x \in Tasks, Found(x)', held'[x].id = held'[s].id
          PROVE  held'[x].table = held'[s].table /\ held'[x].time = held'[s].time
      BY <2>2, <2>4, <3>3, <3>5 DEF RowsOK, FoundIsKnown
    <3> QED  BY <2>6, <3>4, <3>5 DEF FoundIsKnown
  <2> QED  BY <2>3, <2>7, <2>8, <2>9 DEF RowsOK
<1> QED  BY <1>2, <1>3 DEF findRow

\* A new status keeps the types and the rows.
LEMMA StatusKeeps ==
  ASSUME TypeOK, RowsOK, Calm, NEW hit \in SUBSET rows, NEW status \in Statuses, NEW R,
         R = (rows \ hit) \cup With(hit, status), SetRows(R), op' = op,
         pc' \in [Tasks -> Nat \ {0}], over' \subseteq Tasks, thinned' \subseteq Tasks,
         UNCHANGED <<last, now, cutoff, held, coming, walks, private>>
  PROVE  /\ TypeOK' /\ IdsGiven' /\ PendingIsNew' /\ FoundIsKnown' /\ LostIsNotification'
         /\ \A r \in rows' \ rows :
              /\ r.status = status
              /\ \E s \in hit :
                   s.id = r.id /\ s.time = r.time /\ s.table = r.table /\ s.owner = r.owner
<1>1. /\ R \subseteq Rows /\ SameRows(R) /\ \A r, s \in R : r.id = s.id => r = s
      /\ \A r \in R \ rows : /\ r.status = status
                             /\ \E s \in hit :
                                  s.id = r.id /\ s.time = r.time /\ s.table = r.table /\ s.owner = r.owner
  BY Rewritten
<1>2. rows' = R
  BY DEF SetRows
<1>3. TypeOK'
  BY <1>1, RowsSetTyped DEF RowsTyped, TypeOK
<1>4. IdsGiven' /\ PendingIsNew' /\ FoundIsKnown' /\ LostIsNotification'
  BY <1>1, <1>2, SameRowsKeep
<1> QED  BY <1>1, <1>2, <1>3, <1>4

LEMMA UpdateStatusKeeps ==
  ASSUME TypeOK, RowsOK, NEW t \in Tasks, updateStatus(t)
  PROVE  TypeOK' /\ RowsOK'
<1> DEFINE hit == {r \in rows : r.id = held[t].id}
           status == op[t].status
<1>1. /\ At(t, "updateStatus") /\ Found(t) /\ Advance(t) /\ thinned' \subseteq Tasks
      /\ SetRows((rows \ hit) \cup With(hit, status))
      /\ UNCHANGED <<last, now, cutoff, held, coming, walks, private>>
  BY DEF updateStatus, Found, TypeOK
<1>2. op[t].kind = "updateRequest" /\ status \in Statuses
  BY <1>1, AtIs, KindIsKnown, Places, ListsAssumption
<1>3. Moves(t) /\ op' = op /\ pc' \in [Tasks -> Nat \ {0}] /\ over' \subseteq Tasks
  BY <1>1, MovesTyped DEF Moves
<1>4. Calm
  BY <1>1, <1>3, MostAreCalm
<1>5. \A s \in hit : s.table = "moneyRequest"
  <2>1. held[t].table = Table[op[t].kind] /\ \A r \in rows : r.id = held[t].id => r.table = held[t].table
    BY <1>1 DEF RowsOK, FoundIsKnown
  <2> QED  BY <1>2, <2>1, TablesKnown, Kinds
<1>6. hit \in SUBSET rows
  OBVIOUS
<1> HIDE DEF hit, status
<1>7. /\ TypeOK' /\ IdsGiven' /\ PendingIsNew' /\ FoundIsKnown' /\ LostIsNotification'
      /\ \A r \in rows' \ rows : \E s \in hit : s.table = r.table
  BY <1>1, <1>2, <1>3, <1>4, <1>6, StatusKeeps
<1>8. PrivateStaysPrivate'
  <2>1. ASSUME NEW r \in rows', r.owner = Everyone, r.id \in private'
        PROVE  r \in rows /\ r.id \in private
    BY <1>1, <1>5, <1>7, <2>1 DEF LostIsNotification
  <2> QED  BY <1>1, <2>1 DEF RowsOK, PrivateStaysPrivate
<1> QED  BY <1>7, <1>8 DEF RowsOK

\* So does a mark, and what is marked has been read.
LEMMA ReadKeeps ==
  ASSUME TypeOK, RowsOK, Calm, NEW hit \in SUBSET rows,
         SetRows((rows \ hit) \cup With(hit, "read")), op' = op,
         pc' \in [Tasks -> Nat \ {0}], over' \subseteq Tasks,
         UNCHANGED <<last, now, cutoff, held, coming, walks, thinned, private>>
  PROVE  TypeOK' /\ RowsOK'
<1>1. "read" \in Statuses /\ thinned' \subseteq Tasks
  BY DEF Statuses, TypeOK
<1>2. /\ TypeOK' /\ IdsGiven' /\ PendingIsNew' /\ FoundIsKnown' /\ LostIsNotification'
      /\ \A r \in rows' \ rows : r.status = "read" /\ \E s \in hit :
           s.id = r.id /\ s.time = r.time /\ s.owner = r.owner
  BY <1>1, StatusKeeps
<1>3. PrivateStaysPrivate'
  BY <1>2 DEF RowsOK, PrivateStaysPrivate
<1> QED  BY <1>2, <1>3 DEF RowsOK

LEMMA MarkAllKeeps ==
  ASSUME TypeOK, RowsOK, NEW t \in Tasks, markAll(t)
  PROVE  TypeOK' /\ RowsOK'
<1> DEFINE hit == {r \in rows : r.table = "notification"}
<1>1. /\ At(t, "updateAll") /\ SetRows((rows \ hit) \cup With(hit, "read")) /\ Advance(t) /\ hit \in SUBSET rows
      /\ UNCHANGED <<last, now, cutoff, held, coming, walks, thinned, private>>
  BY DEF markAll
<1>2. Moves(t) /\ op' = op /\ pc' \in [Tasks -> Nat \ {0}] /\ over' \subseteq Tasks
  BY <1>1, MovesTyped DEF Moves
<1>3. Calm
  BY <1>1, <1>2, MostAreCalm
<1> HIDE DEF hit
<1> QED  BY <1>1, <1>2, <1>3, ReadKeeps

\* What a mark brings back.
Returned(h) == [[h EXCEPT !.owner = Everyone] EXCEPT !.status = "read"]

LEMMA ReturnedRow ==
  ASSUME NEW h \in Rows
  PROVE  /\ Returned(h) \in Rows /\ Returned(h).id = h.id
         /\ Returned(h).time = h.time /\ Returned(h).table = h.table
         /\ Returned(h).status = "read"
         /\ With({[h EXCEPT !.owner = Everyone]}, "read") = {Returned(h)}
<1>1. [h EXCEPT !.owner = Everyone] \in Rows
  BY DEF Rows
<1>2. With({[h EXCEPT !.owner = Everyone]}, "read") = {Returned(h)}
  BY DEF With, Returned
<1> QED  BY <1>1, <1>2 DEF Returned, Rows, Statuses

LEMMA SaveReadKeeps ==
  ASSUME TypeOK, RowsOK, NEW t \in Tasks, saveRead(t)
  PROVE  TypeOK' /\ RowsOK'
<1> DEFINE hit == {r \in rows : r.id = held[t].id}
           h == held[t]
<1>1. /\ At(t, "saveRead") /\ Found(t) /\ Advance(t)
      /\ UNCHANGED <<last, now, cutoff, held, coming, walks, thinned, private>>
  BY DEF saveRead, Found
<1>2. Moves(t) /\ op' = op /\ pc' \in [Tasks -> Nat \ {0}] /\ over' \subseteq Tasks
  BY <1>1, MovesTyped DEF Moves
<1>3. Calm /\ ~Pending(t)' /\ ~Found(t)'
  BY <1>1, <1>2, MostAreCalm
<1>4. CASE hit # {}
  <2>1. SetRows((rows \ hit) \cup With(hit, "read")) /\ hit \in SUBSET rows
    BY <1>4 DEF saveRead, Marked
  <2> HIDE DEF hit
  <2> QED  BY <1>1, <1>2, <1>3, <2>1, ReadKeeps
<1>5. CASE hit = {}
  <2> DEFINE n == Returned(h)
  <2>1. /\ h \in Rows /\ h.id <= last /\ h.table = "notification" /\ h.time <= cutoff
        /\ \A r \in rows : r.id # h.id
    <3>1. op[t].kind = "markAsRead"
      BY <1>1, AtIs, KindIsKnown, Places
    <3>2. Table["markAsRead"] = "notification"
      BY TablesKnown, Kinds
    <3>3. /\ h \in Rows /\ h.id <= last /\ h.table = Table[op[t].kind]
          /\ h.time <= cutoff \/ \E r \in rows : r.id = h.id
      BY <1>1 DEF RowsOK, FoundIsKnown
    <3>4. \A r \in rows : r.id # h.id
      BY <1>5
    <3> QED  BY <3>1, <3>2, <3>3, <3>4
  <2>2. n \in Rows /\ n.id = h.id /\ n.time = h.time /\ n.table = h.table /\ n.status = "read"
    BY <2>1, ReturnedRow
  <2>3. SetRows(rows \cup {n})
    <3>1. SetRows((rows \ hit) \cup With({[h EXCEPT !.owner = Everyone]}, "read"))
      BY <1>5 DEF saveRead
    <3> QED  BY <1>5, <2>1, <3>1, ReturnedRow
  <2> HIDE DEF n, hit
  <2>4. rows' = rows \cup {n}
    BY <2>3 DEF SetRows
  <2>5. RowsTyped(rows \cup {n})
    BY <2>1, <2>2 DEF RowsTyped, TypeOK
  <2>6. TypeOK'
    BY <1>1, <1>2, <2>3, <2>5, RowsSetTyped DEF TypeOK
  <2>7. IdsGiven'
    BY <1>1, <2>1, <2>2, <2>4, FS_AddElement DEF RowsOK, IdsGiven
  <2>8. PendingIsNew'
    <3>1. ASSUME NEW s \in Tasks, Pending(s)'
          PROVE  Pending(s) /\ \A c \in coming[s] : n.id # c.id
      <4>1. Pending(s)
        BY <1>3, <3>1 DEF Calm
      <4>2. \A c \in coming[s] : held[t].id # c.id
        BY <1>1, <4>1 DEF RowsOK, PendingIsNew
      <4> QED  BY <2>2, <4>1, <4>2
    <3>2. \A s \in Tasks : Found(s)' => Found(s)
      BY <1>3 DEF Calm
    <3> QED  BY <1>1, <2>4, <3>1, <3>2 DEF RowsOK, PendingIsNew
  <2>9. FoundIsKnown'
    <3>1. \A s \in Tasks : Found(s)' => Found(s)
      BY <1>3 DEF Calm
    <3>2. \A s \in Tasks : Found(s)' /\ n.id = held[s].id =>
            n.table = held[s].table /\ n.time = held[s].time
      BY <1>1, <2>2, <3>1 DEF RowsOK, FoundIsKnown
    <3> QED  BY <1>1, <1>2, <2>4, <3>1, <3>2 DEF RowsOK, FoundIsKnown
  <2>10. LostIsNotification' /\ PrivateStaysPrivate'
    BY <1>1, <2>1, <2>2, <2>4 DEF RowsOK, LostIsNotification, PrivateStaysPrivate
  <2> QED  BY <2>6, <2>7, <2>8, <2>9, <2>10 DEF RowsOK
<1> QED  BY <1>4, <1>5

LEMMA TimeKeeps ==
  ASSUME TypeOK, RowsOK, fourteenDaysPass
  PROVE  TypeOK' /\ RowsOK'
<1>1. /\ cutoff' \in Nat /\ cutoff < cutoff' /\ cutoff \in Nat
      /\ UNCHANGED <<rows, last, now, op, pc, over, held, coming, walks, history, thinned, private>>
  BY DEF fourteenDaysPass, TypeOK, RowsOK, IdsGiven, Rows
<1>2. TypeOK'
  BY <1>1 DEF TypeOK, walks, history
<1>3. \A t \in Tasks : (Pending(t)' <=> Pending(t)) /\ (Found(t)' <=> Found(t))
  BY <1>1 DEF Pending, Found, At, Running
<1>4. IdsGiven' /\ PendingIsNew' /\ LostIsNotification'
  BY <1>1, <1>3 DEF RowsOK, IdsGiven, PendingIsNew, LostIsNotification
<1>5. \A i \in Nat : i <= cutoff => i <= cutoff'
  BY <1>1
<1>6. \A t \in Tasks : Found(t) => held[t].time \in Nat
  BY DEF RowsOK, FoundIsKnown, Rows
<1>7. FoundIsKnown'
  BY <1>1, <1>3, <1>5, <1>6 DEF RowsOK, FoundIsKnown
<1>8. \A r \in rows : r.time \in Nat
  BY DEF TypeOK, Rows
<1>9. PrivateStaysPrivate'
  BY <1>1, <1>5, <1>8 DEF RowsOK, PrivateStaysPrivate
<1> QED  BY <1>2, <1>4, <1>7, <1>9 DEF RowsOK

LEMMA DeletionKeeps ==
  ASSUME TypeOK, RowsOK, deleteOldNotifications
  PROVE  TypeOK' /\ RowsOK'
<1> DEFINE R == {r \in rows : ~Old(r)}
<1>1. SetRows(R) /\ UNCHANGED <<last, now, cutoff, op, pc, over, held, coming, walks, thinned, private>>
  BY DEF deleteOldNotifications
<1>2. R \subseteq rows /\ \A r \in rows : r \in R \/ r.time <= cutoff
  BY DEF Old
<1> HIDE DEF R
<1>3. rows' = R
  BY <1>1 DEF SetRows
<1>4. RowsTyped(R)
  BY <1>2 DEF RowsTyped, TypeOK
<1>5. TypeOK'
  BY <1>1, <1>4, RowsSetTyped DEF TypeOK
<1>6. \A t \in Tasks : (Pending(t)' <=> Pending(t)) /\ (Found(t)' <=> Found(t))
  BY <1>1 DEF Pending, Found, At, Running
<1>7. IdsGiven' /\ PendingIsNew' /\ LostIsNotification' /\ PrivateStaysPrivate'
  BY <1>1, <1>2, <1>3, <1>6, FS_Subset
     DEF RowsOK, IdsGiven, PendingIsNew, LostIsNotification, PrivateStaysPrivate
<1>8. FoundIsKnown'
  <2>1. ASSUME NEW t \in Tasks, Found(t)
        PROVE  held[t].time <= cutoff \/ \E r \in R : r.id = held[t].id
    BY <1>2, <2>1 DEF RowsOK, FoundIsKnown
  <2> QED  BY <1>1, <1>2, <1>3, <1>6, <2>1 DEF RowsOK, FoundIsKnown
<1> QED  BY <1>5, <1>7, <1>8 DEF RowsOK

-----------------------------------------------------------------------------
(* Places in a list.                                                       *)

LEMMA PageEnds ==
  ASSUME NEW p \in Nat \ {0}
  PROVE  /\ Skip(p) \in Nat /\ p * PageSize \in Nat /\ Skip(p) + PageSize = p * PageSize
         /\ Skip(p) <= p * PageSize
         /\ Skip(p + 1) = p * PageSize /\ Skip(1) = 0 /\ p + 1 \in Nat \ {0}
<1>1. PageSize \in Nat \ {0}
  BY ListsAssumption
<1>2. p - 1 \in Nat /\ (p - 1) * PageSize \in Nat
  BY <1>1
<1>3. (p - 1) * PageSize + PageSize = p * PageSize
  BY <1>1
<1>4. (p + 1) - 1 = p /\ (1 - 1) * PageSize = 0
  BY <1>1
<1>5. (p - 1) * PageSize <= p * PageSize
  <2> DEFINE a == (p - 1) * PageSize
             b == p * PageSize
  <2>1. a \in Nat /\ a + PageSize = b
    BY <1>2, <1>3
  <2> HIDE DEF a, b
  <2>2. a <= b
    BY <1>1, <2>1
  <2> QED  BY <2>2 DEF a, b
<1> QED  BY <1>1, <1>2, <1>3, <1>4, <1>5 DEF Skip

LEMMA BeforeCounted ==
  ASSUME NEW S, IsFiniteSet(S), NEW o, NEW i
  PROVE  /\ Before(o, S, i) \subseteq S /\ NotAfter(o, S, i) \subseteq S
         /\ IsFiniteSet(Before(o, S, i)) /\ Cardinality(Before(o, S, i)) \in Nat
         /\ IsFiniteSet(NotAfter(o, S, i)) /\ Cardinality(NotAfter(o, S, i)) \in Nat
<1>1. Before(o, S, i) \in SUBSET S /\ NotAfter(o, S, i) \in SUBSET S
  BY DEF Before, NotAfter
<1>2. IsFiniteSet(Before(o, S, i)) /\ IsFiniteSet(NotAfter(o, S, i))
  BY <1>1, FS_Subset
<1> QED  BY <1>1, <1>2, FS_CardinalityType

\* A list that has grown, has no less before a row.
LEMMA BeforeGrows ==
  ASSUME NEW S, NEW T, IsFiniteSet(T), NEW o, NEW i, Before(o, S, i) \subseteq Before(o, T, i)
  PROVE  Cardinality(Before(o, S, i)) <= Cardinality(Before(o, T, i))
<1>1. IsFiniteSet(Before(o, T, i))
  BY BeforeCounted
<1> QED  BY <1>1, FS_Subset

LEMMA NotBeforeItself ==
  ASSUME NEW S \in SUBSET Keys, NEW o, NEW i \in S
  PROVE  i \notin Before(o, S, i)
BY DEF Before, Keys

\* A set has more than a part of it that lacks one of its own.
LEMMA OneLess ==
  ASSUME NEW S, IsFiniteSet(S), NEW T \in SUBSET S, NEW i \in S \ T
  PROVE  Cardinality(T) \in Nat /\ Cardinality(S) \in Nat /\ Cardinality(T) < Cardinality(S)
<1>1. /\ IsFiniteSet(T) /\ Cardinality(T) <= Cardinality(S)
      /\ (Cardinality(S) = Cardinality(T) => S = T)
  BY FS_Subset
<1>2. Cardinality(S) \in Nat /\ Cardinality(T) \in Nat
  BY <1>1, FS_CardinalityType
<1>3. Cardinality(S) # Cardinality(T)
  BY <1>1
<1> QED  BY <1>1, <1>2, <1>3

LEMMA BeforeIsLess ==
  ASSUME NEW S \in SUBSET Keys, IsFiniteSet(S), NEW o, NEW i \in S
  PROVE  Cardinality(Before(o, S, i)) < Cardinality(S)
BY BeforeCounted, NotBeforeItself, OneLess

\* What is in the first n has less than n before it, and what has less than n before
\* it is among the first n, unless it may be on either side of their end.
LEMMA InBeginning ==
  ASSUME NEW S \in SUBSET Keys, IsFiniteSet(S), NEW o, NEW n \in Nat,
         NEW A \in Beginnings(o, S, n), NEW i \in S
  PROVE  /\ i \in A => Cardinality(Before(o, S, i)) < n
         /\ i \notin A /\ Cardinality(Before(o, S, i)) < n => i \in Cut(o, S, n)
<1> DEFINE P == Before(o, S, i)
           N == NotAfter(o, S, i)
<1>1. /\ A \in SUBSET S /\ \A j \in A : Before(o, S, j) \subseteq A
      /\ Cardinality(A) = IF n <= Cardinality(S) THEN n ELSE Cardinality(S)
  BY DEF Beginnings
<1>2. IsFiniteSet(A) /\ Cardinality(A) \in Nat /\ Cardinality(S) \in Nat
  BY <1>1, FS_Subset, FS_CardinalityType
<1>3. i \notin P
  BY NotBeforeItself
<1>4. /\ P \subseteq S /\ N \subseteq S /\ Cardinality(P) \in Nat
      /\ IsFiniteSet(N) /\ Cardinality(N) \in Nat
  BY BeforeCounted
<1>5. ASSUME i \in A
      PROVE  Cardinality(P) < n
  <2>1. P \in SUBSET A /\ i \in A \ P
    BY <1>1, <1>3, <1>5
  <2>2. Cardinality(P) < Cardinality(A)
    BY <1>2, <2>1, OneLess
  <2> HIDE DEF P
  <2> QED  BY <1>1, <1>2, <1>4, <2>2
<1>6. ASSUME i \notin A, Cardinality(P) < n
      PROVE  i \in Cut(o, S, n)
  <2>1. A \in SUBSET N
    BY <1>1, <1>6 DEF NotAfter
  <2>2. i \in N \ A
    BY <1>3, <1>6 DEF NotAfter
  <2>3. Cardinality(A) < Cardinality(N)
    BY <1>4, <2>1, <2>2, OneLess
  <2>4. Cardinality(A) < Cardinality(S)
    BY <1>1, <1>6, OneLess
  <2>5. Cardinality(A) = n
    BY <1>1, <1>2, <2>4
  <2> QED  BY <1>6, <2>3, <2>5 DEF Cut
<1> QED  BY <1>5, <1>6

\* What a page shows, and what it may pass over or show again.
LEMMA OnPage ==
  ASSUME NEW S \in SUBSET Keys, IsFiniteSet(S), NEW o, NEW p \in Nat \ {0},
         NEW new \in Pages(o, S, p), NEW i \in S
  PROVE  LET place == Cardinality(Before(o, S, i))
         IN /\ i \in new => place < p * PageSize
            /\ i \in new /\ place < Skip(p) => i \in Cut(o, S, Skip(p))
            /\ place < p * PageSize => place < Skip(p) \/ i \in new \/ i \in Cut(o, S, p * PageSize)
<1> DEFINE n == Skip(p)
           m == p * PageSize
<1>1. n \in Nat /\ m \in Nat
  BY PageEnds
<1>2. PICK B \in Beginnings(o, S, m), A \in Beginnings(o, S, n) : new = B \ A
  BY DEF Pages
<1> HIDE DEF n, m
<1>3. /\ i \in A => Cardinality(Before(o, S, i)) < n
      /\ i \notin A /\ Cardinality(Before(o, S, i)) < n => i \in Cut(o, S, n)
  BY <1>1, <1>2, InBeginning
<1>4. /\ i \in B => Cardinality(Before(o, S, i)) < m
      /\ i \notin B /\ Cardinality(Before(o, S, i)) < m => i \in Cut(o, S, m)
  BY <1>1, <1>2, InBeginning
<1> QED  BY <1>2, <1>3, <1>4 DEF n, m

\* The list of a call, now and after a step.
List(t) == Listed(op[t], rows)

LEMMA ListTyped ==
  ASSUME TypeOK, IdsGiven, NEW t
  PROVE  List(t) \in SUBSET Keys /\ IsFiniteSet(List(t))
BY ListedKeys DEF TypeOK, IdsGiven, List

LEMMA WalkRuns ==
  ASSUME TypeOK, NEW t \in Tasks, op[t].kind \in Walks
  PROVE  /\ Running(t) <=> t \notin over /\ pc[t] < 3
         /\ At(t, "find") <=> t \notin over /\ pc[t] = 1
         /\ At(t, "count") <=> t \notin over /\ pc[t] = 2
<1>1. op[t].kind \in DOMAIN Program /\ pc[t] \in Nat \ {0}
  BY KindIsKnown
<1>2. Len(Program[op[t].kind]) = 2
  BY <1>1, Places
<1> QED  BY <1>1, <1>2, Places, AtIs DEF Running

WalksOK == WalkGoesOn /\ WalkShowsList

LEMMA FindWalks ==
  ASSUME NEW t, NEW step \in {"find", "count"}, At(t, step), TypeOK, t \in Tasks
  PROVE  op[t].kind \in Walks
BY KindIsKnown, Places, AtIs

-----------------------------------------------------------------------------
(* The walks, step by step.                                                *)

\* The walk of a task other than the one that moves.
LEMMA OtherWalks ==
  ASSUME TypeOK, NEW t \in Tasks, Moves(t), NEW s \in Tasks \ {t}
  PROVE  (Running(s)' <=> Running(s)) /\ pc'[s] = pc[s] /\ (s \in over' <=> s \in over)
BY MovesTyped DEF Running

\* A step that leaves the rows as they are, and is no step of a walk.
LEMMA WalksStand ==
  ASSUME TypeOK, WalksOK, NEW t \in Tasks, Moves(t), Refuse(t) \/ op[t].kind \notin Walks,
         UNCHANGED <<rows, walks, history, thinned>>
  PROVE  WalksOK'
<1>1. op' = op /\ over \subseteq over'
  BY MovesTyped DEF Moves, Advance, Refuse
<1>2. UNCHANGED <<rows, page, shown, twice, cut, stayed, grown, thinned>>
  BY DEF walks, history
<1>3. \A s \in Tasks : op[s].kind \in Walks => pc'[s] = pc[s]
  BY OtherWalks DEF Refuse
<1>4. \A s \in Tasks : op[s].kind \in Walks => (s \notin over' => (Running(s)' <=> Running(s)))
  BY OtherWalks DEF Refuse
<1>5. WalkGoesOn'
  BY <1>1, <1>2, <1>3 DEF WalksOK, WalkGoesOn, Place, Passed
<1>6. WalkShowsList'
  BY <1>1, <1>2, <1>4 DEF WalksOK, WalkShowsList
<1> QED  BY <1>5, <1>6 DEF WalksOK

\* No row that stays comes nearer to the beginning of a list that someone walks.
Keeps(R) ==
  \A s \in Tasks : op[s].kind \in Walks /\ InWalk(s) /\ s \notin thinned' =>
    \A i \in List(s) \cap Listed(op[s], R) :
      Before(op[s], List(s), i) \subseteq Before(op[s], Listed(op[s], R), i)

\* A step that changes the rows, and is no step of a walk.
LEMMA WalksWatch ==
  ASSUME TypeOK, IdsGiven, WalksOK, IdsGiven', rows' \subseteq Rows, SetRows(rows'), Keeps(rows'),
         UNCHANGED <<last, op, walks>>, thinned \subseteq thinned',
         \A s \in Tasks : op[s].kind \in Walks =>
           pc'[s] = pc[s] /\ (s \in over' <=> s \in over) /\ (Running(s)' <=> Running(s))
  PROVE  WalksOK'
<1>1. UNCHANGED <<page, shown, twice, cut>>
  BY DEF walks
<1>2. /\ \A s \in Tasks : stayed'[s] = IF InWalk(s) THEN stayed[s] \cap List(s)' ELSE stayed[s]
      /\ grown' = grown \cup {s \in Tasks : InWalk(s) /\ ~(List(s)' \subseteq List(s))}
  BY DEF SetRows, Watch, List
<1>3. ASSUME NEW s \in Tasks, op[s].kind \in Walks, NEW i
      PROVE  /\ Cardinality(Before(op[s], List(s), i)) \in Nat
             /\ Cardinality(Before(op[s], List(s)', i)) \in Nat
             /\ Before(op[s], List(s), i) \subseteq Before(op[s], List(s)', i)
                  => Cardinality(Before(op[s], List(s), i)) <= Cardinality(Before(op[s], List(s)', i))
             /\ Before(op[s], List(s)', i) \subseteq Before(op[s], List(s), i)
                  => Cardinality(Before(op[s], List(s)', i)) <= Cardinality(Before(op[s], List(s), i))
  <2> DEFINE S == List(s)
             T == Listed(op[s], rows')
  <2>1. IsFiniteSet(S)
    BY ListTyped
  <2>2. IsFiniteSet(T)
    BY ListedKeys DEF IdsGiven
  <2>3. List(s)' = T
    BY DEF List
  <2> HIDE DEF S, T
  <2>4. Cardinality(Before(op[s], S, i)) \in Nat /\ Cardinality(Before(op[s], T, i)) \in Nat
    BY <2>1, <2>2, BeforeCounted
  <2>5. Before(op[s], S, i) \subseteq Before(op[s], T, i)
          => Cardinality(Before(op[s], S, i)) <= Cardinality(Before(op[s], T, i))
    BY <2>1, <2>2, BeforeGrows
  <2>6. Before(op[s], T, i) \subseteq Before(op[s], S, i)
          => Cardinality(Before(op[s], T, i)) <= Cardinality(Before(op[s], S, i))
    BY <2>1, <2>2, BeforeGrows
  <2>7. List(s) = S
    BY DEF S
  <2> QED  BY <2>3, <2>4, <2>5, <2>6, <2>7
<1>4. ASSUME NEW s \in Tasks, op[s].kind \in Walks
      PROVE  Passed(s)' = Passed(s) /\ Passed(s) \in Int
  <2>1. Passed(s)' = Passed(s)
    BY <1>1, <1>4 DEF Passed
  <2>2. page[s] \in Nat \ {0}
    BY DEF TypeOK
  <2> QED  BY <2>1, <2>2, PageEnds DEF Passed
<1>5. ASSUME NEW s \in Tasks, op[s].kind \in Walks, pc[s] < 3, s \notin over, ~InWalk(s)
      PROVE  shown[s] = {} /\ stayed[s] = {} /\ stayed'[s] = {}
  <2>1. pc[s] = 1 /\ page[s] = 1
    <3>1. pc[s] \in Nat \ {0} /\ page[s] \in Nat \ {0}
      BY DEF TypeOK
    <3> QED  BY <1>5, <3>1, WalkRuns DEF InWalk
  <2> QED  BY <1>2, <1>5, <2>1 DEF WalksOK, WalkGoesOn
<1>6. ASSUME NEW s \in Tasks, op[s].kind \in Walks, pc[s] < 3, s \notin over \cup thinned'
      PROVE  /\ stayed'[s] \subseteq List(s)'
             /\ \A i \in stayed'[s] \ cut[s] : Place(s, i)' < Passed(s) => i \in shown[s]
  <2>1. CASE ~InWalk(s)
    BY <1>5, <1>6, <2>1
  <2>2. CASE InWalk(s)
    <3>1. stayed'[s] = stayed[s] \cap List(s)'
      BY <1>2, <2>2
    <3>2. s \notin over \cup thinned
      BY <1>6
    <3>3. /\ stayed[s] \subseteq List(s)
          /\ \A i \in stayed[s] \ cut[s] :
               Cardinality(Before(op[s], List(s), i)) < Passed(s) => i \in shown[s]
      BY <1>6, <3>2 DEF WalksOK, WalkGoesOn, Place, List
    <3>4. ASSUME NEW i \in stayed'[s] \ cut[s], Cardinality(Before(op[s], List(s)', i)) < Passed(s)
          PROVE  i \in shown[s]
      <4>1. i \in List(s) \cap List(s)'
        BY <3>1, <3>3, <3>4
      <4>2. List(s)' = Listed(op[s], rows')
        BY DEF List
      <4>3. Before(op[s], List(s), i) \subseteq Before(op[s], List(s)', i)
        BY <1>6, <2>2, <4>1, <4>2 DEF Keeps
      <4>4. Cardinality(Before(op[s], List(s), i)) < Passed(s)
        BY <1>3, <1>4, <1>6, <3>4, <4>3
      <4> QED  BY <3>1, <3>3, <3>4, <4>4
    <3>5. \A i : Place(s, i)' = Cardinality(Before(op[s], List(s)', i))
      BY DEF Place, List
    <3> QED  BY <3>1, <3>4, <3>5
  <2> QED  BY <2>1, <2>2
<1>7. ASSUME NEW s \in Tasks, op[s].kind \in Walks, pc[s] < 3, s \notin over \cup grown',
             NEW i \in shown[s] \cap List(s)'
      PROVE  Place(s, i)' < Passed(s)
  <2>1. InWalk(s)
    BY <1>5, <1>7
  <2>2. List(s)' \subseteq List(s) /\ s \notin over \cup grown
    BY <1>2, <1>7, <2>1
  <2>3. Cardinality(Before(op[s], List(s), i)) < Passed(s)
    BY <1>7, <2>2 DEF WalksOK, WalkGoesOn, Place, List
  <2>4. Before(op[s], List(s)', i) \subseteq Before(op[s], List(s), i)
    BY <2>2 DEF Before
  <2>5. Cardinality(Before(op[s], List(s)', i)) < Passed(s)
    BY <1>3, <1>4, <1>7, <2>3, <2>4
  <2>6. Place(s, i)' = Cardinality(Before(op[s], List(s)', i))
    BY DEF Place, List
  <2> QED  BY <2>5, <2>6
<1>8. WalkGoesOn'
  <2>1. ASSUME NEW s \in Tasks, op'[s].kind \in Walks
        PROVE  /\ pc'[s] = pc[s] /\ pc[s] \in 1..3 /\ op[s].kind \in Walks
               /\ pc[s] = 1 /\ page[s] = 1 => shown[s] = {} /\ stayed'[s] = {}
    <3>1. /\ pc'[s] = pc[s] /\ pc[s] \in 1..3 /\ op[s].kind \in Walks
          /\ pc[s] = 1 /\ page[s] = 1 => shown[s] = {} /\ stayed[s] = {}
      BY <2>1 DEF WalksOK, WalkGoesOn
    <3>2. stayed[s] = {} => stayed'[s] = {}
      BY <1>2
    <3> QED  BY <3>1, <3>2
  <2>2. \A s \in Tasks : op[s].kind \in Walks => (s \in over' <=> s \in over)
    OBVIOUS
  <2>3. \A s \in Tasks : List(s)' = Listed(op'[s], rows')
    BY DEF List
  <2>4. op' = op /\ page' = page /\ shown' = shown /\ cut' = cut
    BY <1>1
  <2> QED  BY <1>4, <1>6, <1>7, <2>1, <2>2, <2>3, <2>4 DEF WalkGoesOn
<1>9. WalkShowsList'
  <2>1. ASSUME NEW s \in Tasks \ (over' \cup thinned'), op[s].kind \in Walks, ~Running(s)'
        PROVE  stayed'[s] \ cut[s] \subseteq shown[s]
    <3>1. ~Running(s) /\ s \in Tasks \ (over \cup thinned)
      BY <2>1
    <3>2. stayed'[s] = stayed[s]
      BY <1>2, <3>1 DEF InWalk
    <3> QED  BY <2>1, <3>1, <3>2 DEF WalksOK, WalkShowsList
  <2>2. \A s \in Tasks \ grown' : twice'[s] \subseteq cut'[s]
    BY <1>1, <1>2 DEF WalksOK, WalkShowsList
  <2> QED  BY <1>1, <2>1, <2>2 DEF WalkShowsList
<1> QED  BY <1>8, <1>9 DEF WalksOK

LEMMA FindKeepsWalks ==
  ASSUME TypeOK, IdsGiven, WalksOK, NEW t \in Tasks, find(t)
  PROVE  WalksOK'
<1> DEFINE o == op[t]
           L == List(t)
           p == page[t]
           P(i) == Cardinality(Before(o, L, i))
           more == UNION {Cut(o, L, n) : n \in {Skip(p), p * PageSize}}
<1>1. /\ At(t, "find") /\ Advance(t) /\ Moves(t)
      /\ cut' = [cut EXCEPT ![t] = @ \cup more]
      /\ stayed' = [stayed EXCEPT ![t] = IF p = 1 THEN L ELSE @]
      /\ UNCHANGED <<rows, last, now, cutoff, held, coming, page, grown, thinned, private>>
  BY DEF find, Moves, List
<1>2. PICK new \in Pages(o, L, p) :
             /\ shown' = [shown EXCEPT ![t] = @ \cup new]
             /\ twice' = [twice EXCEPT ![t] = @ \cup (new \cap shown[t])]
  BY DEF find, List
<1>3. op[t].kind \in Walks /\ pc[t] = 1 /\ t \notin over /\ p \in Nat \ {0}
  BY <1>1, FindWalks, WalkRuns DEF TypeOK
<1>4. op' = op /\ over' = over /\ pc'[t] = 2 /\ \A s \in Tasks \ {t} : pc'[s] = pc[s]
  BY <1>1, <1>3 DEF Advance, TypeOK
<1>5. /\ shown'[t] = shown[t] \cup new /\ stayed'[t] = IF p = 1 THEN L ELSE stayed[t]
      /\ cut'[t] = cut[t] \cup more /\ twice'[t] = twice[t] \cup (new \cap shown[t])
      /\ \A s \in Tasks \ {t} : /\ shown'[s] = shown[s] /\ stayed'[s] = stayed[s]
                                /\ cut'[s] = cut[s] /\ twice'[s] = twice[s]
  <2> HIDE DEF more, L, p
  <2> QED  BY <1>2, <1>1 DEF TypeOK
<1>6. L \in SUBSET Keys /\ IsFiniteSet(L) /\ \A i : P(i) \in Nat
  BY ListTyped, BeforeCounted
<1>7. new \subseteq L
  BY DEF Pages, Beginnings
<1>8. /\ Skip(p) \in Nat /\ p * PageSize \in Nat
      /\ (p = 1 => Skip(p) = 0) /\ Skip(p) <= p * PageSize
  <2> HIDE DEF p
  <2> QED  BY <1>3, PageEnds
<1>9. /\ p = 1 => shown[t] = {} /\ stayed[t] = {}
      /\ t \notin thinned => /\ stayed[t] \subseteq L
                             /\ \A i \in stayed[t] \ cut[t] : P(i) < Skip(p) => i \in shown[t]
      /\ t \notin grown => \A i \in shown[t] \cap L : P(i) < Skip(p)
  BY <1>3 DEF WalksOK, WalkGoesOn, Place, Passed, List
<1>10. /\ Passed(t)' = p * PageSize /\ L = Listed(op'[t], rows')
      /\ \A i : Place(t, i)' = P(i)
  BY <1>1, <1>3, <1>4 DEF Passed, Place, List
<1>11. ASSUME NEW i \in L
       PROVE  /\ i \in new => P(i) < p * PageSize
              /\ i \in new /\ P(i) < Skip(p) => i \in more
              /\ P(i) < p * PageSize => P(i) < Skip(p) \/ i \in new \/ i \in more
  <2> HIDE DEF o, L, p
  <2> QED  BY <1>2, <1>3, <1>6, <1>11, OnPage
<1> HIDE DEF P, more, L
<1>12. t \notin thinned => /\ stayed'[t] \subseteq L
                           /\ \A i \in stayed'[t] \ cut'[t] : P(i) < p * PageSize => i \in shown'[t]
  <2>1. p = 1 => \A i \in L : ~(P(i) < Skip(p))
    BY <1>6, <1>8
  <2> QED  BY <1>5, <1>9, <1>11, <2>1
<1>13. t \notin grown => \A i \in shown'[t] \cap L : P(i) < p * PageSize
  <2>1. \A i \in L : P(i) < Skip(p) => P(i) < p * PageSize
    BY <1>6, <1>8
  <2> QED  BY <1>5, <1>9, <1>11, <2>1
<1>14. t \notin grown => new \cap shown[t] \subseteq more
  BY <1>7, <1>9, <1>11
<1>15. WalkGoesOn'
  <2>1. ASSUME NEW s \in Tasks \ {t}
        PROVE  /\ Passed(s)' = Passed(s) /\ pc'[s] = pc[s] /\ shown'[s] = shown[s]
               /\ stayed'[s] = stayed[s] /\ cut'[s] = cut[s] /\ page'[s] = page[s]
               /\ \A i : Place(s, i)' = Place(s, i)
    BY <1>1, <1>4, <1>5 DEF Passed, Place
  <2>2. /\ pc'[t] = 2
        /\ t \notin thinned => /\ stayed'[t] \subseteq Listed(op'[t], rows')
                               /\ \A i \in stayed'[t] \ cut'[t] :
                                    Place(t, i)' < Passed(t)' => i \in shown'[t]
        /\ t \notin grown =>
             \A i \in shown'[t] \cap Listed(op'[t], rows') : Place(t, i)' < Passed(t)'
    BY <1>4, <1>10, <1>12, <1>13
  <2>3. \A s \in Tasks \ {t} : op[s].kind \in Walks =>
          /\ pc[s] \in 1..3
          /\ pc[s] = 1 /\ page[s] = 1 => shown[s] = {} /\ stayed[s] = {}
          /\ pc[s] < 3 /\ s \notin over \cup thinned =>
               /\ stayed[s] \subseteq Listed(op[s], rows)
               /\ \A i \in stayed[s] \ cut[s] : Place(s, i) < Passed(s) => i \in shown[s]
          /\ pc[s] < 3 /\ s \notin over \cup grown =>
               \A i \in shown[s] \cap Listed(op[s], rows) : Place(s, i) < Passed(s)
    BY DEF WalksOK, WalkGoesOn
  <2>4. /\ op' = op /\ over' = over /\ rows' = rows /\ thinned' = thinned /\ grown' = grown
    BY <1>1, <1>4
  <2> QED  BY <2>1, <2>2, <2>3, <2>4 DEF WalkGoesOn
<1>16. WalkShowsList'
  <2>1. \A s \in Tasks \ {t} : Running(s)' <=> Running(s)
    BY <1>1, OtherWalks
  <2>2. Running(t)'
    <3>1. Len(Program[op[t].kind]) = 2
      BY <1>3, KindIsKnown, Places
    <3> QED  BY <1>3, <1>4, <3>1 DEF Running
  <2>3. \A s \in Tasks \ grown : twice'[s] \subseteq cut'[s]
    BY <1>5, <1>14 DEF WalksOK, WalkShowsList
  <2> QED  BY <1>1, <1>4, <1>5, <2>1, <2>2, <2>3 DEF WalksOK, WalkShowsList
<1> QED  BY <1>15, <1>16 DEF WalksOK

LEMMA CountKeepsWalks ==
  ASSUME TypeOK, IdsGiven, WalksOK, NEW t \in Tasks, count(t)
  PROVE  WalksOK'
<1> DEFINE L == List(t)
           p == page[t]
           P(i) == Cardinality(Before(op[t], L, i))
<1>1. /\ At(t, "count") /\ Moves(t)
      /\ UNCHANGED <<rows, last, now, cutoff, held, coming, shown, twice, cut, history, thinned, private>>
  BY CountTyped DEF count
<1>2. op[t].kind \in Walks /\ pc[t] = 2 /\ t \notin over /\ p \in Nat \ {0}
  BY <1>1, FindWalks, WalkRuns DEF TypeOK
<1>3. /\ op' = op /\ over' = over
      /\ \/ HasNextPage(Cardinality(L), p) /\ pc'[t] = 1 /\ page'[t] = p + 1
         \/ ~HasNextPage(Cardinality(L), p) /\ pc'[t] = 3 /\ page'[t] = p
      /\ \A s \in Tasks \ {t} : pc'[s] = pc[s] /\ page'[s] = page[s]
  <2>1. CASE HasNextPage(Cardinality(L), p)
    BY <1>2, <2>1 DEF count, List, TypeOK
  <2>2. CASE ~HasNextPage(Cardinality(L), p)
    BY <1>2, <2>2 DEF count, List, TypeOK, Advance
  <2> QED  BY <2>1, <2>2
<1>4. L \in SUBSET Keys /\ IsFiniteSet(L) /\ \A i : P(i) \in Nat
  BY ListTyped, BeforeCounted
<1>5. /\ Skip(p + 1) = p * PageSize /\ p + 1 # 1 /\ p * PageSize \in Nat
  BY <1>2, PageEnds
<1>6. /\ Passed(t) = p * PageSize
      /\ pc'[t] = 1 => Passed(t)' = p * PageSize
      /\ \A i : Place(t, i) = P(i)
  BY <1>2, <1>3, <1>5 DEF Passed, Place, List
<1>7. /\ UNCHANGED <<rows, shown, twice, cut, stayed, grown, thinned, op, over>>
      /\ \A s \in Tasks : \A i : Place(s, i)' = Place(s, i)
  BY <1>1, <1>3 DEF history, Place
<1>8. WalkGoesOn'
  <2>1. \A s \in Tasks \ {t} : Passed(s)' = Passed(s)
    BY <1>3 DEF Passed
  <2>2. pc'[t] < 3 => Passed(t)' = Passed(t) /\ ~(pc'[t] = 1 /\ page'[t] = 1)
    BY <1>3, <1>5, <1>6
  <2>3. pc'[t] \in 1..3 /\ pc[t] < 3
    BY <1>2, <1>3
  <2> QED  BY <1>3, <1>7, <2>1, <2>2, <2>3 DEF WalksOK, WalkGoesOn
<1>9. ASSUME pc'[t] = 3, t \notin thinned
      PROVE  stayed[t] \ cut[t] \subseteq shown[t]
  <2>1. /\ stayed[t] \subseteq L
        /\ \A i \in stayed[t] \ cut[t] : P(i) < p * PageSize => i \in shown[t]
    BY <1>2, <1>6, <1>9 DEF WalksOK, WalkGoesOn, List
  <2>2. Cardinality(L) \in Nat /\ Cardinality(L) <= p * PageSize
    <3>1. Cardinality(L) \in Nat
      BY <1>4, FS_CardinalityType
    <3>2. ~(p * PageSize < Cardinality(L))
      BY <1>3, <1>9 DEF HasNextPage
    <3> HIDE DEF L, p
    <3> QED  BY <1>5, <3>1, <3>2
  <2>3. \A i \in L : P(i) < Cardinality(L)
    BY <1>4, BeforeIsLess
  <2> HIDE DEF P, L
  <2>4. \A i \in L : P(i) < p * PageSize
    BY <1>4, <1>5, <2>2, <2>3
  <2> QED  BY <2>1, <2>4
<1>10. WalkShowsList'
  <2>1. \A s \in Tasks \ {t} : Running(s)' <=> Running(s)
    BY <1>1, OtherWalks
  <2>2. ~Running(t)' => pc'[t] = 3
    <3>1. Len(Program[op[t].kind]) = 2
      BY <1>2, KindIsKnown, Places
    <3> QED  BY <1>2, <1>3, <3>1 DEF Running
  <2> QED  BY <1>7, <1>9, <2>1, <2>2 DEF WalksOK, WalkShowsList
<1> QED  BY <1>8, <1>10 DEF WalksOK

-----------------------------------------------------------------------------
(* The steps that change the rows, and the walks.                          *)

LEMMA ListGrows ==
  ASSUME NEW o, NEW R, \A r \in rows : r \in R \/ \E n \in R :
           Key(n) = Key(r) /\ (r.table = Table[o.kind] /\ Visible(o, r) /\ Asked(o, r)
                             => n.table = Table[o.kind] /\ Visible(o, n) /\ Asked(o, n))
  PROVE  Listed(o, rows) \subseteq Listed(o, R)
BY DEF Listed

LEMMA GrowingKeeps ==
  ASSUME NEW R, \A s \in Tasks : op[s].kind \in Walks /\ InWalk(s) /\ s \notin thinned' =>
                  List(s) \subseteq Listed(op[s], R)
  PROVE  Keeps(R)
BY DEF Keeps, Before

\* The change of a call that is no walk.
LEMMA WriteKeepsWalks ==
  ASSUME TypeOK, IdsGiven, WalksOK, TypeOK', IdsGiven', NEW t \in Tasks, Moves(t),
         op[t].kind \notin Walks, SetRows(rows'), Keeps(rows'),
         UNCHANGED <<last, walks>>, thinned \subseteq thinned'
  PROVE  WalksOK'
<1>1. \A s \in Tasks : op[s].kind \in Walks =>
        pc'[s] = pc[s] /\ (s \in over' <=> s \in over) /\ (Running(s)' <=> Running(s))
  BY OtherWalks
<1>2. op' = op /\ rows' \subseteq Rows
  BY MovesTyped DEF TypeOK
<1> QED  BY <1>1, <1>2, WalksWatch

LEMMA NoWalk ==
  ASSUME TypeOK, NEW t \in Tasks, NEW step,
         At(t, step), step \notin {"find", "count"}
  PROVE  op[t].kind \notin Walks
<1> SUFFICES ASSUME op[t].kind \in Walks
             PROVE  FALSE
  OBVIOUS
<1>1. Len(Program[op[t].kind]) = 2 /\ pc[t] \in Nat \ {0} /\ op[t].kind \in DOMAIN Program
  BY KindIsKnown, Places
<1>2. pc[t] \in {1, 2} /\ t \notin over
  BY <1>1 DEF At, Running
<1>3. At(t, "find") \/ At(t, "count")
  BY <1>2, WalkRuns
<1> QED  BY <1>3, StepsDiffer

LEMMA SaveKeepsWalks ==
  ASSUME TypeOK, RowsOK, WalksOK, NEW t \in Tasks, save(t)
  PROVE  WalksOK'
<1>1. At(t, "save") /\ Moves(t) /\ TypeOK' /\ RowsOK'
  BY SaveTyped, SaveRows DEF save
<1>2. op[t].kind \notin Walks
  BY <1>1, NoWalk
<1>3. CASE \E r \in coming[t] : Clashes(r)
  BY <1>1, <1>2, <1>3, WalksStand DEF save
<1>4. CASE ~\E r \in coming[t] : Clashes(r)
  <2>1. /\ SetRows(rows \cup coming[t]) /\ rows' = rows \cup coming[t]
        /\ UNCHANGED <<last, now, cutoff, held, coming, walks, thinned>>
    BY <1>4 DEF save, SetRows
  <2>2. \A o : Listed(o, rows) \subseteq Listed(o, rows')
    BY <2>1, ListGrows
  <2>3. Keeps(rows') /\ SetRows(rows')
    BY <2>1, <2>2, GrowingKeeps DEF List
  <2> QED  BY <1>1, <1>2, <2>1, <2>3, WriteKeepsWalks DEF RowsOK
<1> QED  BY <1>3, <1>4

LEMMA UpdateStatusKeepsWalks ==
  ASSUME TypeOK, RowsOK, WalksOK, NEW t \in Tasks, updateStatus(t)
  PROVE  WalksOK'
<1>1. /\ At(t, "updateStatus") /\ Moves(t) /\ TypeOK' /\ RowsOK' /\ SetRows(rows')
      /\ UNCHANGED <<last, walks>>
      /\ thinned' = thinned \cup
           {s \in Tasks : InWalk(s) /\ ~(Listed(op[s], rows) \subseteq Listed(op[s], rows'))}
  BY UpdateStatusKeeps DEF updateStatus, Moves, SetRows
<1>2. op[t].kind \notin Walks
  BY <1>1, NoWalk
<1>3. Keeps(rows')
  BY <1>1, GrowingKeeps DEF List
<1> QED  BY <1>1, <1>2, <1>3, WriteKeepsWalks DEF RowsOK

\* A mark changes no list: those of notifications ask for no status.
LEMMA MarkedIsListed ==
  ASSUME TypeOK, NEW hit \in SUBSET rows, \A r \in hit : r.table = "notification",
         rows' = (rows \ hit) \cup With(hit, "read"),
         NEW s \in Tasks, op[s].kind \in Walks
  PROVE  List(s) \subseteq Listed(op[s], rows')
<1> DEFINE o == op[s]
           N(r) == [r EXCEPT !.status = "read"]
<1>1. o \in Operations /\ o.kind \in DOMAIN Program
  BY KindIsKnown
<1>2. \A r \in hit : /\ N(r) \in rows' /\ Key(N(r)) = Key(r) /\ N(r).table = r.table
                     /\ N(r).owner = r.owner
  <2>1. \A r \in hit : r \in Rows
    BY DEF TypeOK
  <2>2. \A r \in hit : Key(N(r)) = Key(r) /\ N(r).table = r.table /\ N(r).owner = r.owner
    BY <2>1 DEF Rows, Key
  <2>3. \A r \in hit : N(r) \in rows'
    BY DEF With
  <2> QED  BY <2>2, <2>3
<1> HIDE DEF N
<1>3. ASSUME NEW r \in hit, r.table = Table[o.kind], Visible(o, r)
      PROVE  N(r).table = Table[o.kind] /\ Visible(o, N(r)) /\ Asked(o, N(r))
  <2>1. o.kind \in {"findAllPaginated", "getNotificationList"}
    BY <1>1, <1>3, TablesKnown
  <2>2. o.status = "any" /\ o.code = "any"
    BY <1>1, <2>1, ListsAssumption
  <2>3. Asked(o, N(r))
    BY <2>2 DEF Asked
  <2>4. Visible(o, N(r))
    BY <1>2, <1>3 DEF Visible
  <2> QED  BY <1>2, <1>3, <2>3, <2>4
<1>4. \A r \in rows : r \in rows' \/ \E n \in rows' :
        Key(n) = Key(r) /\ (r.table = Table[o.kind] /\ Visible(o, r) /\ Asked(o, r)
                          => n.table = Table[o.kind] /\ Visible(o, n) /\ Asked(o, n))
  <2>1. \A r \in rows : r \in rows' \/ r \in hit
    OBVIOUS
  <2> QED  BY <1>2, <1>3, <2>1
<1> QED  BY <1>4, ListGrows DEF List

LEMMA MarkAllKeepsWalks ==
  ASSUME TypeOK, RowsOK, WalksOK, NEW t \in Tasks, markAll(t)
  PROVE  WalksOK'
<1> DEFINE hit == {r \in rows : r.table = "notification"}
<1>1. /\ At(t, "updateAll") /\ Moves(t) /\ TypeOK' /\ RowsOK' /\ SetRows(rows')
      /\ UNCHANGED <<last, walks, thinned>> /\ rows' = (rows \ hit) \cup With(hit, "read")
  BY MarkAllKeeps DEF markAll, Moves, SetRows
<1>2. op[t].kind \notin Walks
  BY <1>1, NoWalk
<1>3. hit \in SUBSET rows /\ \A r \in hit : r.table = "notification"
  OBVIOUS
<1> HIDE DEF hit
<1>4. Keeps(rows')
  BY <1>1, <1>3, MarkedIsListed, GrowingKeeps
<1> QED  BY <1>1, <1>2, <1>4, WriteKeepsWalks DEF RowsOK

LEMMA SaveReadKeepsWalks ==
  ASSUME TypeOK, RowsOK, WalksOK, NEW t \in Tasks, saveRead(t)
  PROVE  WalksOK'
<1> DEFINE hit == {r \in rows : r.id = held[t].id}
<1>1. /\ At(t, "saveRead") /\ Found(t) /\ Moves(t) /\ TypeOK' /\ RowsOK' /\ SetRows(rows')
      /\ UNCHANGED <<last, walks, thinned>>
  BY SaveReadKeeps DEF saveRead, Moves, SetRows, Found
<1>2. op[t].kind \notin Walks
  BY <1>1, NoWalk
<1>3. Keeps(rows')
  <2>1. CASE hit # {}
    <3>1. rows' = (rows \ hit) \cup With(hit, "read")
      BY <2>1 DEF saveRead, SetRows, Marked
    <3>2. \A r \in hit : r.table = "notification"
      <4>1. op[t].kind = "markAsRead" /\ Table["markAsRead"] = "notification"
        BY <1>1, AtIs, KindIsKnown, Places, TablesKnown, Kinds
      <4> QED  BY <1>1, <4>1 DEF RowsOK, FoundIsKnown
    <3>3. hit \in SUBSET rows
      OBVIOUS
    <3> HIDE DEF hit
    <3> QED  BY <3>1, <3>2, <3>3, MarkedIsListed, GrowingKeeps
  <2>2. CASE hit = {}
    <3>1. rows \subseteq rows'
      BY <2>2 DEF saveRead, SetRows
    <3>2. \A o : Listed(o, rows) \subseteq Listed(o, rows')
      BY <3>1, ListGrows
    <3> QED  BY <3>2, GrowingKeeps DEF List
  <2> QED  BY <2>1, <2>2
<1> QED  BY <1>1, <1>2, <1>3, WriteKeepsWalks DEF RowsOK

\* What is deleted lies at the end of the lists of notifications.
LEMMA DeletionKeepsWalks ==
  ASSUME TypeOK, RowsOK, WalksOK, deleteOldNotifications
  PROVE  WalksOK'
<1>1. /\ SetRows(rows') /\ rows' = {r \in rows : ~Old(r)} /\ TypeOK' /\ RowsOK'
      /\ UNCHANGED <<last, now, cutoff, op, pc, over, held, coming, walks, thinned, private>>
  BY DeletionKeeps DEF deleteOldNotifications, SetRows
<1>2. ASSUME NEW s \in Tasks, op[s].kind \in Walks,
             NEW i \in List(s) \cap Listed(op[s], rows'), NEW j \in Before(op[s], List(s), i)
      PROVE  j \in Before(op[s], Listed(op[s], rows'), i)
  <2> DEFINE o == op[s]
  <2>1. PICK q \in rows : /\ Key(q) = j /\ q.table = Table[o.kind] /\ Visible(o, q) /\ Asked(o, q)
    BY <1>2 DEF Before, Listed, List
  <2>2. PICK r \in rows' : Key(r) = i /\ r.table = Table[o.kind]
    BY DEF Listed
  <2>3. /\ o \in Operations /\ o.kind \in DOMAIN Program /\ q.time \in Nat /\ r.time \in Nat
        /\ cutoff \in Nat /\ j.time = q.time /\ i.time = r.time
    BY <1>1, <2>1, <2>2, KindIsKnown DEF TypeOK, Rows, Key
  <2>4. q \in rows'
    <3>1. CASE Table[o.kind] = "notification"
      <4>1. o.order = "DESC"
        <5>1. o.kind \in {"findAllPaginated", "getNotificationList"}
          BY <1>2, <2>3, <3>1, TablesKnown
        <5> QED  BY <2>3, <5>1, ListsAssumption DEF Walks
      <4>2. j.time > i.time
        BY <1>2, <4>1 DEF Before
      <4>3. ~(r.time <= cutoff)
        BY <1>1, <2>2, <3>1 DEF Old
      <4>4. ~(q.time <= cutoff)
        BY <2>1, <2>2, <2>3, <4>2, <4>3
      <4> QED  BY <1>1, <4>4 DEF Old
    <3>2. CASE Table[o.kind] # "notification"
      BY <1>1, <2>1, <3>2 DEF Old
    <3> QED  BY <3>1, <3>2
  <2>5. j \in Listed(o, rows')
    BY <2>1, <2>4 DEF Listed
  <2> QED  BY <1>2, <2>5 DEF Before
<1>3. Keeps(rows')
  BY <1>2 DEF Keeps
<1>4. rows' \subseteq Rows /\ IdsGiven' /\ IdsGiven
  BY <1>1 DEF TypeOK, RowsOK
<1>5. \A s \in Tasks : Running(s)' <=> Running(s)
  BY <1>1 DEF Running
<1> QED  BY <1>1, <1>3, <1>4, <1>5, WalksWatch

LEMMA TimeKeepsWalks ==
  ASSUME TypeOK, WalksOK, fourteenDaysPass
  PROVE  WalksOK'
<1>1. UNCHANGED <<rows, op, pc, over, page, shown, twice, cut, stayed, grown, thinned>>
  BY DEF fourteenDaysPass, walks, history
<1> QED  BY <1>1 DEF WalksOK, WalkGoesOn, WalkShowsList, Running, Place, Passed

-----------------------------------------------------------------------------
(* The invariant.                                                          *)

LEMMA InitIInv == Init => IInv
<1> SUFFICES ASSUME Init
             PROVE  IInv
  OBVIOUS
<1>1. PICK b \in Openings : rows = b.rows /\ op \in [Tasks -> b.operations]
  BY DEF Init
<1>2. /\ rows \subseteq Rows /\ IsFiniteSet(rows)
      /\ \A r, s \in rows : r.id <= Cardinality(rows) /\ (r.id = s.id => r = s)
  BY <1>1, ListsAssumption
<1>3. last = Cardinality(rows) /\ last \in Nat
  BY <1>2, FS_CardinalityType DEF Init
<1>4. /\ cutoff = 0 /\ pc = [t \in Tasks |-> 1] /\ over = {} /\ held = [t \in Tasks |-> NoRow]
      /\ coming = [t \in Tasks |-> {}] /\ now = last
      /\ page = [t \in Tasks |-> 1] /\ shown = [t \in Tasks |-> {}]
      /\ stayed = [t \in Tasks |-> {}] /\ twice = [t \in Tasks |-> {}]
      /\ cut = [t \in Tasks |-> {}] /\ grown = {} /\ thinned = {}
      /\ private = {r.id : r \in {s \in rows : s.owner # Everyone}}
  BY DEF Init
<1>5. \A r \in rows : r.id \in 1..last
  BY <1>2, <1>3 DEF Rows
<1>6. op \in [Tasks -> Operations]
  BY <1>1 DEF Operations
<1>7. private \subseteq 1..last
  BY <1>4, <1>5
<1>8. TypeOK
  BY <1>2, <1>3, <1>4, <1>6, <1>7 DEF TypeOK
<1>9. \A t \in Tasks : ~Pending(t) /\ ~Found(t)
  <2>1. ASSUME NEW t \in Tasks
        PROVE  ~(Is(op[t].kind, 1, "save") \/ Is(op[t].kind, 1, "updateStatus")
                   \/ Is(op[t].kind, 1, "saveRead"))
    <3>1. op[t].kind \in DOMAIN Program /\ 1 \in Nat \ {0}
      BY <1>8, KindIsKnown
    <3> QED  BY <3>1, Places
  <2> QED  BY <1>4, <2>1, AtIs DEF Pending, Found
<1>10. \A r \in rows : r.owner = Everyone => r.id \notin private
  BY <1>2, <1>4
<1>11. IdsGiven /\ PendingIsNew /\ FoundIsKnown /\ LostIsNotification /\ PrivateStaysPrivate
  BY <1>2, <1>3, <1>9, <1>10
     DEF IdsGiven, PendingIsNew, FoundIsKnown, LostIsNotification, PrivateStaysPrivate
<1>12. WalkGoesOn
  BY <1>4 DEF WalkGoesOn
<1>13. WalkShowsList
  BY <1>4 DEF WalkShowsList
<1> QED  BY <1>8, <1>11, <1>12, <1>13 DEF IInv

\* A step that changes no row and is no step of a walk.
LEMMA QuietKeeps ==
  ASSUME TypeOK, RowsOK, WalksOK, NEW t \in Tasks, Moves(t),
         Refuse(t) \/ \E step : At(t, step) /\ step \in {"findUser", "push", "payout"},
         UNCHANGED <<rows, last, now, cutoff, held, coming, walks, history, thinned, private>>
  PROVE  TypeOK' /\ RowsOK' /\ WalksOK'
<1>1. Calm /\ op' = op
  BY MostAreCalm, MovesTyped
<1>2. Refuse(t) \/ op[t].kind \notin Walks
  BY NoWalk
<1> QED  BY <1>1, <1>2, QuietTyped, RowsStay, WalksStand

LEMMA StepKeeps ==
  ASSUME TypeOK, RowsOK, WalksOK, NEW t \in Tasks, Step(t)
  PROVE  TypeOK' /\ RowsOK' /\ WalksOK'
<1>1. CASE find(t)
  <2>1. Moves(t) /\ At(t, "find") /\ UNCHANGED <<rows, last, now, cutoff, held, coming, private>>
    BY <1>1 DEF find, Moves
  <2>2. Calm /\ op' = op
    BY <2>1, MostAreCalm, MovesTyped
  <2> QED  BY <1>1, <2>1, <2>2, FindTyped, RowsStay, FindKeepsWalks DEF RowsOK
<1>2. CASE count(t)
  <2>1. Moves(t) /\ At(t, "count") /\ UNCHANGED <<rows, last, now, cutoff, held, coming, private>>
    BY <1>2, CountTyped DEF count
  <2>2. Calm /\ op' = op
    BY <2>1, MostAreCalm, MovesTyped
  <2> QED  BY <1>2, <2>1, <2>2, CountTyped, RowsStay, CountKeepsWalks DEF RowsOK
<1>3. CASE findUser(t) \/ push(t) \/ payout(t)
  <2>1. /\ Moves(t) /\ \E step : At(t, step) /\ step \in {"findUser", "push", "payout"}
        /\ UNCHANGED <<rows, last, now, cutoff, held, coming, walks, history, thinned, private>>
    BY <1>3 DEF findUser, push, payout, PushFails, Moves
  <2> QED  BY <2>1, QuietKeeps
<1>4. CASE takeTime(t) \/ takeRewardTime(t)
  <2>1. At(t, "takeTime") \/ At(t, "takeRewardTime")
    BY <1>4 DEF takeTime, takeRewardTime
  <2>2. /\ op[t].kind \in Inserts /\ op[t].kind \notin Walks
        /\ Table[op[t].kind] \in Tables /\ "reward" \in Tables
    BY <2>1, AtIs, KindIsKnown, Places, NoWalk, TablesKnown DEF Tables
  <2>3. UNCHANGED <<rows, cutoff, held, walks, history, thinned, private>>
    BY <1>4 DEF takeTime, takeRewardTime
  <2>4. ASSUME NEW table \in Tables, TakeTime(t, table)
        PROVE  TypeOK' /\ RowsOK' /\ WalksOK'
    <3>1. TypeOK' /\ Moves(t) /\ RowsOK'
      BY <2>1, <2>2, <2>3, <2>4, TakesTyped, TakesRows
    <3> QED  BY <2>2, <2>3, <3>1, WalksStand
  <2>5. CASE Refuse(t) /\ UNCHANGED <<last, now, coming>>
    <3>1. Moves(t)
      BY <2>5 DEF Moves
    <3> QED  BY <2>3, <2>5, <3>1, QuietKeeps
  <2> QED  BY <1>4, <2>2, <2>4, <2>5 DEF takeTime, takeRewardTime
<1>5. CASE save(t)
  BY <1>5, SaveTyped, SaveRows, SaveKeepsWalks
<1>6. CASE findRow(t)
  <2>1. /\ op[t].kind \notin Walks /\ Moves(t)
        /\ UNCHANGED <<rows, walks, history, thinned>>
    BY <1>6, NoWalk DEF findRow, Moves
  <2> QED  BY <1>6, <2>1, FindRowKeeps, WalksStand
<1>7. CASE updateStatus(t)
  BY <1>7, UpdateStatusKeeps, UpdateStatusKeepsWalks
<1>8. CASE markAll(t)
  BY <1>8, MarkAllKeeps, MarkAllKeepsWalks
<1>9. CASE saveRead(t)
  BY <1>9, SaveReadKeeps, SaveReadKeepsWalks
<1> QED  BY <1>1, <1>2, <1>3, <1>4, <1>5, <1>6, <1>7, <1>8, <1>9 DEF Step

LEMMA NextIInv == IInv /\ [Next]_vars => IInv'
<1> SUFFICES ASSUME IInv, [Next]_vars
             PROVE  IInv'
  OBVIOUS
<1>1. TypeOK /\ RowsOK /\ WalksOK
  BY DEF IInv, RowsOK, WalksOK
<1>2. TypeOK' /\ RowsOK' /\ WalksOK'
  <2>1. ASSUME NEW t \in Tasks, Step(t)
        PROVE  TypeOK' /\ RowsOK' /\ WalksOK'
    BY <1>1, <2>1, StepKeeps
  <2>2. ASSUME NEW t \in Tasks, fail(t)
        PROVE  TypeOK' /\ RowsOK' /\ WalksOK'
    <3>1. /\ Moves(t) /\ Refuse(t)
          /\ UNCHANGED <<rows, last, now, cutoff, held, coming, walks, history, thinned, private>>
      BY <2>2 DEF fail, Moves
    <3> QED  BY <1>1, <3>1, QuietKeeps
  <2>3. CASE fourteenDaysPass
    BY <1>1, <2>3, TimeKeeps, TimeKeepsWalks
  <2>4. CASE deleteOldNotifications
    BY <1>1, <2>4, DeletionKeeps, DeletionKeepsWalks
  <2>5. CASE UNCHANGED vars
    <3>1. UNCHANGED <<rows, last, now, cutoff, op, pc, over, held, coming, page, shown, twice, cut,
                      stayed, grown, thinned, private>>
      BY <2>5 DEF vars, walks, history
    <3>2. TypeOK'
      BY <1>1, <3>1 DEF TypeOK
    <3>3. RowsOK'
      BY <1>1, <3>1 DEF RowsOK, IdsGiven, PendingIsNew, FoundIsKnown, LostIsNotification,
                        PrivateStaysPrivate, Pending, Found, At, Running
    <3>4. WalksOK'
      BY <1>1, <3>1 DEF WalksOK, WalkGoesOn, WalkShowsList, Running, Place, Passed
    <3> QED  BY <3>2, <3>3, <3>4
  <2> QED  BY <2>1, <2>2, <2>3, <2>4, <2>5 DEF Next
<1> QED  BY <1>2 DEF IInv, RowsOK, WalksOK

LEMMA ListsInvariant == Spec => []IInv
BY InitIInv, NextIInv, PTL DEF Spec

\* Rows, calls and walks keep their types, and no two rows have an id in common.
THEOREM TypeCorrect == Spec => []TypeOK
<1>1. IInv => TypeOK
  BY DEF IInv
<1> QED  BY <1>1, ListsInvariant, PTL

\* A client that walks a list to its end is shown all that stays in it but for
\* rows of one time that lay across the end of a page, for every page size, number
\* of calls and order of their steps; and a row twice only when it lay there or the
\* list has got one (findAllPaginated, getWalletTransactions, findAll).
THEOREM WalkShowsListHolds == Spec => []WalkShowsList
<1>1. IInv => WalkShowsList
  BY DEF IInv
<1> QED  BY <1>1, ListsInvariant, PTL

\* A private notification that all can see is an old one that a mark brought back
\* (markAsRead, deleteOldNotifications).
THEOREM PrivateStaysPrivateHolds == Spec => []PrivateStaysPrivate
<1>1. IInv => PrivateStaysPrivate
  BY DEF IInv
<1> QED  BY <1>1, ListsInvariant, PTL
=============================================================================
