SPECIFICATION FairSpec
CONSTANTS
  Tasks = {t1, t2, t3}
  InitTask = t1
  NULL = NULL
INVARIANTS
  TypeOK
  SignalReachesAll
  KillReachesThreads
  ListedAreForking
PROPERTIES
  SignalHandled
