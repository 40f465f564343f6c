SPECIFICATION FairSpec
CONSTANTS
  t1 = t1
  t2 = t2
  r1 = r1
  q1 = q1
  Calls <- AllCalls
  Transactions <- TransactionCalls
  Registrations <- RegistrationCalls
  PoolSize = 3
  MaxReads = 2
INVARIANTS OnlyRegistrationsLeak JamOnlyWhenFull
PROPERTIES CallsServed
