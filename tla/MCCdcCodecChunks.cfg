\* Records of several chunks: the replay may abort.
SPECIFICATION Spec
CONSTANTS
    Word = 64
    Source = {1, 2}
    MatchingSet = {1, 2}
    Workloads <- const_Overtaking
    MayOvertake = FALSE
INVARIANTS NeverAborts
CHECK_DEADLOCK FALSE
