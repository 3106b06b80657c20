CONSTANTS
  Threads = {t1}
  Cothreads = {c1, c2}
  Null = Null
  Backend = "aarch64"
  ClientRule = "departed"
SPECIFICATION Spec
SYMMETRY Symmetry
INVARIANT HandlerCalledOnce
