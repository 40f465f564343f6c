SPECIFICATION Spec
CONSTANTS
  u1 = u1
  u2 = u2
  i1 = i1
  t1 = t1
  t2 = t2
  t3 = t3
  Users = {u1, u2}
  Tasks = {t1, t2, t3}
  Faulty = {t1}
  Items = {i1}
  Operations <- MCOperations
  Opening <- MCOpening
SYMMETRY MCSymmetry
INVARIANTS StatementAddsUp RewardPaidOnce SuccessIsCredited OneCurrentPlan
