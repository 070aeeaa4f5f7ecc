SPECIFICATION Spec
CONSTANTS
  Tasks = {t1, t2, t3}
  InitTask = t1
  Kinds = {"files", "fs", "sighand", "signal", "mm", "io"}
  Objs = {1, 2, 3}
  CloneFlags <- MCFlags
  NULL = NULL
INVARIANTS
  TypeOK
  CountsCover
  NothingLeft
  GroupsShare
SYMMETRY Symmetry
