SPECIFICATION Spec
CONSTANTS
    MaxEvents = 5
INVARIANTS
    NothingIsLost
PROPERTY
    ListenerHearsAll
CHECK_DEADLOCK FALSE
