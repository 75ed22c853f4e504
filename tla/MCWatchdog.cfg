CONSTANTS
    a1 = a1
    a2 = a2
    b1 = b1
    b2 = b2
    Nodes = {a1, a2, b1, b2}
    Number <- MCNumber
SPECIFICATION WatchdogSpec
INVARIANTS
    ReportsExactlyTheCycles
PROPERTIES
    RemovalIsComplete
