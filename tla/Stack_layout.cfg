CONSTANTS
  Backends = {"amd64_sysv", "amd64_windows", "x86", "aarch64", "setjmp", "ucontext"}
  Requests <- Sizes
  SizeT = 1048576
SPECIFICATION Spec
INVARIANT TypeOK
INVARIANT EnoughFits
INVARIANT EntryAligned
INVARIANT RoomAsRequested
INVARIANT SizeNotExcessive
