SPECIFICATION Spec
CONSTANTS
  n1 = n1
  n2 = n2
  t1 = t1
  t2 = t2
  NoOne = NoOne
  Notifier = {n1}
  Token = {t1, t2}
  MaxVersion = 2
  SizeMax = 7
INVARIANTS
  CountFitsIfCounted
  NothingIsLost
  OnlyNews
CHECK_DEADLOCK FALSE
