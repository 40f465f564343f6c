SPECIFICATION Spec
CONSTANTS
  u1 = u1  u2 = u2  i1 = i1  i2 = i2
  Users = {u1, u2}
  Items = {i1, i2}
  Tasks = {t1, t2, t3}
  Faulty = {t3}
  HasAccount = {u1}
  NoUser = NoUser
  NoCode = NoCode
  Operations <- MCOperations
SYMMETRY MCSymmetry
INVARIANTS CodeUsedOnce LatestCodeStored ChildrenAsStored
PROPERTIES ColumnsStand BlockedStaysOut
