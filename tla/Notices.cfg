SPECIFICATION FairSpec
CONSTANTS
  n1 = n1
  t1 = t1
  n2 = n2
  t2 = t2
  NoOne = NoOne
  Notifier = {n1}
  Token = {t1}
  MaxVersion = 3
  SizeMax = 7
INVARIANTS
  NothingIsLost
  OnlyNews
  ToldOfWhatIsRead
  SkipsForward
PROPERTIES
  WaitEndsUnlessAbandoned
  EveryCommitIsTold
CHECK_DEADLOCK FALSE
