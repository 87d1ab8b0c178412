\* Receives of one rank, several programs, recorded and replayed.
SPECIFICATION Spec
CONSTANTS
    UNKNOWN = UNKNOWN
    ANY_SOURCE = ANY_SOURCE
    ANY_TAG = ANY_TAG
    Source <- const_Source
    Programs <- const_Programs
INVARIANTS KeptInOrder ReplayFaithful
PROPERTIES BothRunsEnd
