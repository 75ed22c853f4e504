CONSTANTS
    Root = Root
    Main = "main"
    NoLane = NoLane
    NoLabel = NoLabel
    Torn <- MCTorn
    None <- MCNone
    Calls <- MCCalls
    MaxQueue = 2
    MaxLog = 3
SPECIFICATION Spec
INVARIANTS
    MemoryIsTheFile
    OneOpenOperation
    ForksMatch
PROPERTIES
    ImplementsSessionLog
CHECK_DEADLOCK FALSE
