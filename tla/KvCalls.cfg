SPECIFICATION Spec
CONSTANTS
  Tasks = {t1, t2}
  Stores = {s1, s2}
  Nodes = {n1, n2}
  Keys <- MCKeys
  Values = {5, 7}
  NBuckets = 2
  NULL = NULL
  InitTask = t1
  InitStore = s1
  MaxRef = 3
INVARIANTS
  TypeOK
  MutualExclusion
  UniqueKeys
  NodesAccounted
PROPERTY
  Linearizable
SYMMETRY Symmetry
