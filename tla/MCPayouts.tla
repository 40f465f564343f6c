----------------------------- MODULE MCPayouts -----------------------------
EXTENDS Payouts

\* Amounts in paise: one below the first tier, one in the gap behind it, one
\* that has charges and one that takes half of the daily limit.
MCRequests ==
  [kind : {"payoutAccount"}, neft : {FALSE}, amount : {100050, 600000}, fee : {100}]
  \cup [kind : {"payoutUPI"}, neft : {FALSE}, amount : {600000}, fee : {0}]
  \cup [kind : {"rechargeAccount"}, neft : {FALSE}, amount : {300000}, fee : {0}]

MCLimit(p, u) == [s \in Limited |-> IF s = "Payout" THEN p ELSE u]
MCDailyLimit == MCLimit(1200000, 1000000)
MCMonthlyLimit == MCLimit(1200000, 1100000)
MCMonthOf == <<1, 1, 2>>
MCMoves == {-300000}
=============================================================================
