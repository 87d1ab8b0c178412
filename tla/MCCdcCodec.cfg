\* Clock delta compression of one rank's receives, two kinds of run.
SPECIFICATION Spec
CONSTANTS
    Word = 64
    Source = {1, 2}
    MatchingSet = {1, 2}
    Workloads <- const_Workloads
    MayOvertake = FALSE
INVARIANTS ReplayFaithful AlikeChunksReplay ShortestRecord
PROPERTIES LookAheadHolds CutRecordRefused ReplayEnds
CHECK_DEADLOCK FALSE
