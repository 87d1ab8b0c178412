\* Receives of one rank, messages that come in between two tests.
SPECIFICATION Spec
CONSTANTS
    UNKNOWN = UNKNOWN
    ANY_SOURCE = ANY_SOURCE
    ANY_TAG = ANY_TAG
    Source <- const_Source
    Programs <- const_Overtaken
INVARIANTS ReceivedInOrder
