SPECIFICATION Spec
CONSTANTS
  n1 = n1
  n2 = n2
  t1 = t1
  t2 = t2
  NoOne = NoOne
  Notifier = {n1, n2}
  Token = {t1}
  MaxVersion = 2
  SizeMax = 7
INVARIANTS
  TypeOK
  OneVersion
SYMMETRY Symmetry
CHECK_DEADLOCK FALSE
