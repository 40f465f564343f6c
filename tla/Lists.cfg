SPECIFICATION Spec
CONSTANTS
  u1 = u1  u2 = u2  c1 = c1  c2 = c2  c3 = c3  t1 = t1  t2 = t2  t3 = t3
  Users = {u1, u2}
  Codes = {c1, c2, c3}
  Tasks = {t1, t2, t3}
  Faulty = {t3}
  PageSize = 2
  Everyone = Everyone
  NoRow = NoRow
  Openings <- MCOpenings
CHECK_DEADLOCK FALSE
INVARIANTS TypeOK WalkShowsList PrivateStaysPrivate
PROPERTIES OldGoesAway
