SPECIFICATION FairSpec
CONSTANTS
  t1 = t1
  t2 = t2
  t3 = t3
  x = x
  y = y
  z = z
  NoLock = NoLock
  NoThread = NoThread
  Threads <- MCThreads
  Locks <- MCTidLocks
  NumLocks = 4
  Vars <- MCVars
  Programs <- MCPrograms
INVARIANTS TurnsSerial ReplayFaithfulUnmixed
PROPERTIES RunsEndUnmixed
CHECK_DEADLOCK FALSE
