CONSTANTS
  Cothreads = {c1, c2, c3}
  Threads = {t1}
  Spans = {s1}
  Blocks = {b1, b2, b3, b4, b5}
  Null = Null
  ImplWords = 5
CHECK_DEADLOCK FALSE
SPECIFICATION Spec
SYMMETRY Symmetry
INVARIANT TypeOK
INVARIANT NoBadRelease
INVARIANT OneOwner
PROPERTY DestroyGivesBack
