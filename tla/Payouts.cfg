SPECIFICATION Spec
CONSTANTS
  c1 = c1
  c2 = c2
  Calls = {c1, c2}
  Faulty = {c1}
  Requests <- MCRequests
  Opening = 1200600
  DailyLimit <- MCDailyLimit
  MonthlyLimit <- MCMonthlyLimit
  Days = 3
  MonthOf <- MCMonthOf
  Moves <- MCMoves
  MaxMoves = 2
INVARIANTS PaidOutIsDebited
PROPERTIES WithinLimits
