SPECIFICATION FairSpec
CONSTANTS
  Tasks = {t1, t2, t3, t4}
  InitTask = t1
  NULL = NULL
INVARIANTS
  TypeOK
  CompletionAlive
  ChildNotFreed
  ParentSuspended
PROPERTIES
  ParentResumes
