CONSTANTS
  Backends = {"amd64_sysv"}
  Requests <- SmallRequest
  SizeT = 1048576
SPECIFICATION Spec
INVARIANT SizeHonoured
