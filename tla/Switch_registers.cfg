CONSTANTS
  Cothreads = {c1, c2}
  Kernel = k
  Abis = {"amd64_sysv", "amd64_windows", "x86", "aarch64"}
  Interrupted = {"amd64_sysv", "x86", "aarch64"}
  Words = 96
SPECIFICATION Spec
SYMMETRY Symmetry
INVARIANT TypeOK
INVARIANT RegistersKept
INVARIANT ReachesTarget
INVARIANT NeverLost
INVARIANT EntryBegins
INVARIANT HandlerAligned
INVARIANT WaitInv
PROPERTY ImplementsSwitchTo
