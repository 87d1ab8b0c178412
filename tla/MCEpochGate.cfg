SPECIFICATION FairSpec
CONSTANTS
  t1 = t1
  t2 = t2
  t3 = t3
  x = x
  y = y
  z = z
  NoLock = NoLock
  NoThread = NoThread
  Threads <- MCThreads
  Locks <- MCLocks
  Vars <- MCVars
  Programs <- MCPrograms
  SlotCount = 16
  Window = 2
  FreshSlots <- Zeroed
INVARIANTS OverlapSafe Inductive ReplayFaithful
PROPERTIES BothRunsEnd
