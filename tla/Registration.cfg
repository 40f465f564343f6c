SPECIFICATION Spec
CONSTANTS
  p1 = p1  p2 = p2  n1 = n1  n2 = n2  k1 = k1  k2 = k2
  Persons = {p1, p2}
  Phones = {n1, n2}
  Numbers = {k1, k2}
  Stock = {k1}
  Tasks = {t1, t2, t3}
  Faulty = {t3}
  NoKit = NoKit
  Operations <- MCOperations
SYMMETRY MCSymmetry
INVARIANTS TypeOK OneCardPerNumber NoStandstill AnswerMeansRegistered StoredOnce
