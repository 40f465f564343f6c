SPECIFICATION Spec
CONSTANTS
  u1 = u1
  u2 = u2
  l1 = l1
  l2 = l2
  Keep = Keep
  Users = {u1, u2}
  Loans = {l1, l2}
  Owner <- OwnerOf
  Opening <- OpeningBalances
  Installment <- Installments
  Overdue <- Overdues
  Tasks = {t1, t2, t3}
  Faulty = {t1}
  Payments <- PaymentCalls
  Updates <- UpdateCalls
SYMMETRY TaskSymmetry
INVARIANTS DueFollowsPayments PaidExactly OrdersArePaid
