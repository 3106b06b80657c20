CONSTANTS
  Threads = {t1, t2}
  Cothreads = {c1, c2, c3}
  Null = Null
  MaxId = 3
CHECK_DEADLOCK FALSE
SPECIFICATION FairSpec
INVARIANT TypeOK
PROPERTY FindsOwnEntry
PROPERTY SectionsEnd
PROPERTY ImplementsPreparation
