SPECIFICATION Spec
CONSTANTS
    Word = 64
    Rank <- const_Rank
    MatchingSet = {1, 2}
    Programs <- const_Three
    MaxSome = 2
    CountFirst = TRUE
    Rendezvous = FALSE
    Root = 0
INVARIANTS
    ReplayFaithful
