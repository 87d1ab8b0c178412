SPECIFICATION FairSpec
CONSTANTS
  h1 = h1
  h2 = h2
  r1 = r1
  r2 = r2
  Handles <- MCHandles
  Sources <- MCSources
  AnySource = AnySource
  Canceled = Canceled
  None = None
  MaxSize = 10
  ChunkLength = 1
  MaxRecvs = 2
  MaxTests = 1
INVARIANTS StreamInOrder HandleForgotten
PROPERTIES RecordEnds
CHECK_DEADLOCK FALSE
