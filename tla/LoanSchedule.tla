------------------------------ MODULE LoanSchedule ------------------------------
(***************************************************************************)
(* The installments of a new loan: createLoan and addMonths of             *)
(* loans.service.ts.  The loop builds one row per installment and steps    *)
(* the due date with the setMonth and setDate of JavaScript, which carry   *)
(* days that a month does not have over into the next month.               *)
(***************************************************************************)
EXTENDS Integers, Sequences

CONSTANTS Requests,   \* [total, installment] of createLoanDto
          Starts      \* installmentDates

Dates == [year : Nat, month : 0..11, day : 1..31]

IsLeapYear(year) == year % 4 = 0 /\ (year % 100 # 0 \/ year % 400 = 0)

LastDayOfMonth(year, month) ==
  IF month = 1 THEN IF IsLeapYear(year) THEN 29 ELSE 28
  ELSE IF month \in {3, 5, 8, 10} THEN 30 ELSE 31

ASSUME ScheduleAssumption ==
  /\ Requests \subseteq [total : Nat \ {0}, installment : Nat \ {0}]
  /\ Starts \subseteq {d \in Dates : d.day <= LastDayOfMonth(d.year, d.month)}

VARIABLES request, start,   \* the call
          step,             \* its next step
          due,              \* currentOverdueDate
          loans             \* the rows built so far, amount and due date

scheduleVars == <<request, start, step, due, loans>>

-----------------------------------------------------------------------------
(* addMonths(date, 1).                                                     *)

NextMonth(date) ==
  [year |-> IF date.month = 11 THEN date.year + 1 ELSE date.year,
   month |-> IF date.month = 11 THEN 0 ELSE date.month + 1, day |-> date.day]

\* What Date makes of a day its month does not have.
Carried(date) ==
  LET last == LastDayOfMonth(date.year, date.month)
  IN IF date.day <= last THEN date ELSE [NextMonth(date) EXCEPT !.day = date.day - last]

SetDate(date, day) == Carried([date EXCEPT !.day = day])

SetMonth(date, month) == Carried([date EXCEPT !.month = month])

AtMost(a, b) == IF a <= b THEN a ELSE b

\* A mutant: setMonth without the correction that follows it.
addMonth_carried(date) == Carried(NextMonth(date))

addMonth(date) ==
  LET newDate == Carried(NextMonth(date))
  IN IF date.month = 0 /\ date.day > 28
     THEN SetMonth(SetDate(newDate, IF IsLeapYear(newDate.year) THEN 29 ELSE 28), 1)
     ELSE SetDate(newDate, AtMost(date.day, LastDayOfMonth(newDate.year, newDate.month)))

-----------------------------------------------------------------------------
(* createLoan.                                                             *)

\* Math.ceil(totalAmount / installmentAmount)
InstallmentsCount == (request.total + request.installment - 1) \div request.installment

\* A mutant: the last installment is a full one.
LoanAmount_full(i) == request.installment

LoanAmount(i) ==
  IF i = InstallmentsCount THEN request.total - request.installment * (InstallmentsCount - 1)
  ELSE request.installment

ScheduleInit ==
  /\ request \in Requests /\ start \in Starts
  /\ step = "user"
  /\ due = start
  /\ loans = <<>>

findUser ==
  /\ step = "user"
  /\ step' \in {"build", "refused"}
  /\ UNCHANGED <<request, start, due, loans>>

build ==
  /\ step = "build"
  /\ Len(loans) < InstallmentsCount
  /\ loans' = Append(loans, [amount |-> LoanAmount(Len(loans) + 1), due |-> due])
  /\ due' = addMonth(due)
  /\ UNCHANGED <<request, start, step>>

\* save(loans) stores all rows in one transaction, or none.
save ==
  /\ step = "build"
  /\ Len(loans) = InstallmentsCount
  /\ step' \in {"saved", "refused"}
  /\ UNCHANGED <<request, start, due, loans>>

Ended == step \in {"saved", "refused"} /\ UNCHANGED scheduleVars

ScheduleNext == findUser \/ build \/ save \/ Ended

ScheduleSpec == ScheduleInit /\ [][ScheduleNext]_scheduleVars

-----------------------------------------------------------------------------
\* Every variable stays in its range; due dates are days their months have.
ScheduleTypeOK ==
  /\ request \in Requests /\ start \in Starts
  /\ step \in {"user", "build", "saved", "refused"}
  /\ due \in Dates /\ due.day <= LastDayOfMonth(due.year, due.month)
  /\ loans \in Seq([amount : Int, due : Dates])

\* No installment is empty, negative or above the agreed amount, also when the
\* total is no multiple of it or smaller than it.
AmountsWithin ==
  \A i \in 1..Len(loans) : loans[i].amount \in 1..request.installment

\* The rows that are saved add up to the total of the loan.
RowsAddUp ==
  LET sum[i \in 0..Len(loans)] == IF i = 0 THEN 0 ELSE sum[i - 1] + loans[i].amount
  IN step = "saved" => sum[Len(loans)] = request.total

MonthNumber(date) == 12 * date.year + date.month

\* Installments that start on a day up to the 30th fall due in every month, on
\* the day before them or, after a February, on an earlier one; up to the 28th
\* on the same day.
DueMonthly ==
  \A i \in 1..(Len(loans) - 1) :
    LET a == loans[i].due
        b == loans[i + 1].due
    IN start.day <= 30 =>
         /\ MonthNumber(b) = MonthNumber(a) + 1
         /\ b.day <= a.day
         /\ start.day <= 28 => b.day = start.day

=============================================================================
