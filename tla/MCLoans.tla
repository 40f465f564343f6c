------------------------------ MODULE MCLoans ------------------------------
(* Instances of Loans for TLC. *)
EXTENDS Loans, TLC

CONSTANTS u1, u2, l1, l2

OwnerOf == (l1 :> u1) @@ (l2 :> u2)
OpeningBalances == (u1 :> 4) @@ (u2 :> 1)
Installments == (l1 :> 2) @@ (l2 :> 1)
Overdues == (l1 :> 1) @@ (l2 :> 0)

Pay(user, l, amount) == [kind |-> "pay", user |-> user, loan |-> l, amount |-> amount]

\* Payments below, at and above the installment and what is due, one by a
\* stranger, one beyond the wallet.
PaymentCalls ==
  {Pay(u1, l1, 0), Pay(u1, l1, 1), Pay(u1, l1, 2), Pay(u1, l1, 3), Pay(u1, l1, 4),
   Pay(u2, l1, 1), Pay(u2, l2, 1), Pay(u2, l2, 2)}

OwnPayments == {Pay(u1, l1, 2), Pay(u2, l2, 1)}

UpdateCalls ==
  {[kind |-> "update", loan |-> l1, status |-> "Paid", installment |-> Keep, overdue |-> Keep],
   [kind |-> "update", loan |-> l1, status |-> "Pending", installment |-> 1, overdue |-> 0]}

NoCalls == {}

TaskSymmetry == Permutations(Tasks \ Faulty)
=============================================================================
