CONSTANTS
  Threads = {t1, t2}
  Cothreads = {c1, c2}
  Null = Null
  MaxStrays = 2
CHECK_DEADLOCK FALSE
SPECIFICATION FairSpec
INVARIANT TypeOK
INVARIANT ReadyBeginsEntry
INVARIANT ThunkContextLive
INVARIANT SignalStateRestored
INVARIANT Serialized
PROPERTY PrepareEnds
PROPERTY ImplementsPreparation
