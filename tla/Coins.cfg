SPECIFICATION FairSpec
CONSTANTS
  Entries = {1, 2}
  Earned <- EarnedCoins
  Tasks = {t1, t2}
  Faulty = {t1}
  Rules <- TwoRules
  NoRule = NoRule
  MonthLimit = 2
  YearLimit = 3
  Months = 2
INVARIANTS CoinsConserved RecordedIsPaid RefusedTakesNothing
PROPERTIES WithinLimits ExpiryStands
