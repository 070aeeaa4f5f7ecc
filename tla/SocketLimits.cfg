SPECIFICATION Spec
CONSTANTS
  Threads = {t1, t2}
  Main = t1
  Sockets = {s1, s2, s3}
  Limits <- MCLimits
  MaxLimit = 3
  SOCKET_FAIR_DEFAULT_MAX = 2
  CountFloor <- MCFloor
INVARIANTS
  TypeOK
  CountBounded
SYMMETRY Symmetry
