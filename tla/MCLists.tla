------------------------------ MODULE MCLists ------------------------------
EXTENDS Lists

CONSTANTS u1, u2, c1, c2, c3, t1, t2, t3

Row(id, time, table, owner, status, code) ==
  [id |-> id, time |-> time, table |-> table, owner |-> owner, status |-> status, code |-> code]

Ops(kinds, user, orders, status, code) ==
  [kind : kinds, user : {user}, order : orders, status : {status}, code : {code}]

NotificationRows ==
  {Row(1, 1, "notification", u1, "unread", c1), Row(2, 2, "notification", Everyone, "read", c1)}

Jobs ==
  [rows |-> NotificationRows,
   operations |->
     Ops({"findAllPaginated", "markAsRead"}, u1, {"DESC"}, "any", "any")
     \cup Ops({"insertInAppNotification"}, u1, {"DESC"}, "unread", c1)]

Announcements ==
  [rows |-> NotificationRows,
   operations |->
     Ops({"getNotificationList", "markAllRead"}, u1, {"DESC"}, "any", "any")
     \cup Ops({"insertInAppNotification", "processAnnouncementNotification"},
              Everyone, {"DESC"}, "unread", c1)]

Transactions ==
  [rows |-> {Row(1, 1, "transaction", u1, "CREDIT", c1), Row(2, 2, "transaction", u2, "CREDIT", c1),
             Row(3, 2, "transaction", u1, "CREDIT", c1)},
   operations |->
     Ops({"getWalletTransactions"}, u1, {"ASC", "DESC", "none"}, "CREDIT", "any")
     \cup Ops({"getAllWalletTransactions"}, u1, {"ASC"}, "any", "any")
     \cup Ops({"saveTransaction"}, u1, {"DESC"}, "CREDIT", c1)]

Transfers ==
  [rows |-> {Row(1, 1, "transaction", u1, "DEBIT", c1)},
   operations |->
     Ops({"getWalletTransactions"}, u1, {"DESC"}, "DEBIT", "any")
     \cup Ops({"getAllWalletTransactions"}, u1, {"DESC"}, "any", "any")
     \cup Ops({"processRechargePayment", "processFundTransfer"}, u1, {"DESC"}, "DEBIT", c1)
     \cup Ops({"handleReferrelBonus"}, u2, {"DESC"}, "CREDIT", c1)]

Payments ==
  [rows |-> {Row(1, 1, "transactionMoney", u1, "DEBIT", c1),
             Row(2, 2, "transactionMoney", u1, "DEBIT", c1),
             Row(3, 3, "reward", u1, "CREDIT", c1), Row(4, 4, "reward", u1, "CREDIT", c1)},
   operations |->
     Ops({"getTransactionHistory", "getRecentTransaction", "getRewardHistory"}, u1, {"DESC"}, "any", "any")
     \cup Ops({"sendMoney"}, u1, {"DESC"}, "DEBIT", c1)]

Requests ==
  [rows |-> {Row(1, 1, "moneyRequest", u1, "Requested", c1),
             Row(2, 2, "moneyRequest", u2, "Rejected", c2)},
   operations |->
     Ops({"findAll"}, u1, {"DESC"}, "any", "any")
     \cup Ops({"findAll"}, u1, {"ASC"}, "Requested", c2)
     \cup Ops({"createMoneyRequest"}, u2, {"DESC"}, "Requested", c2)
     \cup Ops({"createMoneyRequest"}, u2, {"DESC"}, "Requested", c3)
     \cup Ops({"updateRequest"}, u1, {"DESC"}, "Paid", c1)]

MCOpenings == {Jobs, Announcements, Transactions, Transfers, Payments, Requests}
=============================================================================
