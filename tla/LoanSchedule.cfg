SPECIFICATION ScheduleSpec
CONSTANTS
  Requests <- SomeRequests
  Starts <- SomeStarts
INVARIANTS RowsAddUp DueMonthly
