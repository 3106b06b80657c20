CONSTANTS
  Threads = {t1, t2}
  Cothreads = {c1, c2, c3}
  Null = Null
  Backend = "x86"
  ClientRule = "departed"
  Spans = {s1}
  Blocks = {b1, b2, b3, b4, b5}
  ImplWords = 5
SPECIFICATION LibrarySpec
SYMMETRY Symmetry
INVARIANT MemoryUnderFoot
