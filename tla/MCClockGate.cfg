SPECIFICATION FairSpec
CONSTANTS
  t1 = t1
  t2 = t2
  t3 = t3
  x = x
  y = y
  z = z
  NoLock = NoLock
  NoThread = NoThread
  Threads <- MCThreads
  Locks <- MCLocks
  Vars <- MCVars
  Programs <- MCPrograms
INVARIANTS
  SectionExclusion
  Inductive
  ReplayFaithful
PROPERTIES
  BothRunsEnd
  OrderSpec
