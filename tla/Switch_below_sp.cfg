CONSTANTS
  Cothreads = {c1}
  Kernel = k
  Abis = {"amd64_windows"}
  Interrupted = {"amd64_windows"}
  Words = 96
SPECIFICATION Spec
INVARIANT RegistersKept
