SPECIFICATION Spec
CONSTANTS
  Tasks = {t1, t2, t3, t4}
  InitTask = t1
  Kinds = {"files", "signal"}
  Objs = {1, 2, 3, 4}
  CloneFlags <- TwoFlags
  NULL = NULL
INVARIANTS
  CountsCover
  NothingLeft
SYMMETRY Symmetry
