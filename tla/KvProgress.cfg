SPECIFICATION FairSpec
CONSTANTS
  Tasks = {t1, t2, t3}
  Stores = {s1, s2}
  Nodes = {n1}
  Keys = {1}
  Values = {5}
  NBuckets = 1
  NULL = NULL
  InitTask = t1
  InitStore = s1
  MaxRef = 3
  NCpus = 2
PROPERTIES
  CallsReturn
  ExitsFinish
\* A machine whose CPUs all spin behind a sleeping writer stops.
CHECK_DEADLOCK FALSE
