SPECIFICATION Spec
CONSTANTS
    Word = 64
    Rank <- const_Rank
    MatchingSet = {1, 2}
    Programs <- const_Programs
    MaxSome = 2
    CountFirst = FALSE
    Rendezvous = FALSE
    Root = 0
INVARIANTS ReplayFaithful ClocksAgree PublishedHolds BoundsHold
PROPERTIES BothRunsEnd
