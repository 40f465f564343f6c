---------------------------- MODULE MCLoanSchedule ----------------------------
(* Instances of LoanSchedule for TLC: totals below, at and above multiples of  *)
(* the installment, starts in every month of a leap year and the year before. *)
EXTENDS LoanSchedule

SomeRequests == [total : 1..7, installment : 1..4]

SomeStarts ==
  {d \in [year : {2023, 2024}, month : 0..11, day : {1, 28, 29, 30, 31}] :
     d.day <= LastDayOfMonth(d.year, d.month)}
=============================================================================
