CONSTANTS
    MaxMessages = 3
    MaxCalls = 2
    MaxReplies = 1
    None = None
SPECIFICATION Spec
INVARIANTS
    RequestsAreAnswered
    EachMessageOnce
    SteeringWaitsOneTurn
    CompactionKeepsTheEnd
PROPERTIES
    AbortEnds
CHECK_DEADLOCK FALSE
