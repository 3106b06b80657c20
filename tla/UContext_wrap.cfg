CONSTANTS
  Threads = {t1}
  Cothreads = {c1, c2, c3}
  Null = Null
  MaxId = 2
CHECK_DEADLOCK FALSE
SPECIFICATION Spec
SYMMETRY Symmetry
INVARIANT BeginsOwnEntry
