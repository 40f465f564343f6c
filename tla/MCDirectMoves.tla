--------------------------- MODULE MCDirectMoves ---------------------------
EXTENDS DirectMoves, TLC

CONSTANTS u1, u2, i1

Ops(kinds, from, to, amount, fee) ==
  [kind : kinds, from : {from}, to : {to}, amount : {amount}, fee : {fee}, item : {i1}]

MCOperations ==
  Ops({"sendMoney"}, u1, u2, 2, 1) \cup Ops({"sendMoney"}, u2, u1, 1, 1)
  \cup Ops({"scratchReward", "checkPaymentStatus", "handleBusyBoxPayoutEvents"}, u1, u1, 1, 0)
  \cup Ops({"paymentSucceeded", "paymentFailed"}, u1, u1, 1, 0)
  \cup Ops({"upgradePlan"}, u1, u1, 2, 0)

MCOpening == (u1 :> 4 @@ u2 :> 1)
MCSymmetry == Permutations(Tasks \ Faulty)
=============================================================================
