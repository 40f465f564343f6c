----------------------------- MODULE MCAccounts -----------------------------
EXTENDS Accounts, TLC

CONSTANTS u1, u2, i1, i2

Ops(kinds, user, isBlocked, item, newItem) ==
  [kind : kinds, user : {user}, isBlocked : {isBlocked}, item : {item}, newItem : {newItem}]

MCOperations ==
  Ops(DOMAIN Calls, u1, "false", i1, i2)
  \cup Ops({"updateUserProfile"}, u1, "true", i1, i2)
  \cup Ops({"createBeneficiary"}, u1, "false", i2, i2)
  \cup Ops({"createBeneficiary", "verifyTransactionLockPinOtp"}, u2, "false", i1, i1)

MCSymmetry == Permutations(Tasks \ Faulty)
=============================================================================
