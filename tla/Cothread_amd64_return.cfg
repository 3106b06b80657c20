CONSTANTS
  Threads = {t1}
  Cothreads = {c1, c2}
  Null = Null
  Backend = "amd64"
  ClientRule = "departed"
SPECIFICATION Spec
SYMMETRY Symmetry
INVARIANT ReturnTerminates
