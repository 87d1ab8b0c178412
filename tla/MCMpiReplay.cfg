SPECIFICATION FairSpec
CONSTANTS
  p0 = p0
  p1 = p1
  p2 = p2
  A = A
  B = B
  AnySource = AnySource
  AnyTag = AnyTag
  None = None
  LastSource = LastSource
  Canceled = Canceled
  Ranks <- MCRanks
  Tags <- MCTags
  Programs <- MCPrograms
INVARIANTS NoError ReplayFaithful
PROPERTIES BothRunsEnd
