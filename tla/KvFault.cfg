SPECIFICATION Spec
CONSTANTS
  Tasks = {t1, t2}
  Stores = {s1, s2}
  Nodes = {n1}
  Keys = {1}
  Values = {5}
  NBuckets = 1
  NULL = NULL
  InitTask = t1
  InitStore = s1
  MaxRef = 3
INVARIANT CallsNeverFault
