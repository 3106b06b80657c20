CONSTANTS
  Threads = {t1, t2, t3}
  Cothreads = {c1, c2}
  Null = Null
  Backend = "x86"
  ClientRule = "departed"
SPECIFICATION FairSpec
INVARIANT TypeOK
INVARIANT ResumesOwnFlow
INVARIANT OneThreadPerFlow
INVARIANT CurrentAgrees
INVARIANT NoFlowLost
INVARIANT HandlerGetsReturner
INVARIANT HandlerCalledOnce
PROPERTY ImplementsCoroutines
PROPERTY SwitchCompletes
PROPERTY ReturnEndsProgram
