\* A message is observed in a later chunk than one its source sent after it.
SPECIFICATION Spec
CONSTANTS
    Word = 64
    Source = {1, 2}
    MatchingSet = {1, 2}
    Workloads <- const_Overtaking
    MayOvertake = TRUE
INVARIANTS ReplayFaithful
CHECK_DEADLOCK FALSE
