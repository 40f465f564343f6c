SPECIFICATION FairSpec
CONSTANTS
  u1 = u1
  u2 = u2
  o1 = o1
  NoOrder = NoOrder
  Users = {u1, u2}
  Orders = {o1}
  Tasks = {t1, t2, t3}
  Faulty = {t1}
  Operations <- LedgerCalls
  Opening <- OpeningBalances
PROPERTIES
  ImplementsLedger
  HandlersFinish
