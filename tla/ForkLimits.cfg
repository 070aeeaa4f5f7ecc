SPECIFICATION Spec
CONSTANTS
  Tasks = {t1, t2, t3, t4, t5, t6, t7}
  InitTask = t1
  NprocLimit = 3
  MAX_THREADS = 3
  NULL = NULL
INVARIANTS
  TypeOK
  NprocRespected
  ThreadsBounded
  CountsExact
SYMMETRY Symmetry
