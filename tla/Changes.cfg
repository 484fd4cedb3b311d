SPECIFICATION Spec
CONSTANTS
  SizeMax = 12
  Id <- Ids
  Kinds <- AllKinds
  Lengths = {3}
  MaxRows = 4
  Key <- TwoKeys
  MaxOps <- FewOps
INVARIANTS
  TypeOK
  ListIsDescribed
  RowsAreFollowed
  AccumulatedDescribes
  ModificationsAgree
CHECK_DEADLOCK FALSE
