SPECIFICATION Spec
CONSTANTS
    Word = 64
    Rank <- const_Rank
    MatchingSet = {1, 2}
    Programs <- const_Bcast
    MaxSome = 2
    CountFirst = FALSE
    Rendezvous = FALSE
    Root = 0
INVARIANTS
    ReplayFaithful
