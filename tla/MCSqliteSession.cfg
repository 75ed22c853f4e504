CONSTANTS
    Root = Root
    Main = "main"
    NoLane = NoLane
    NoLabel = NoLabel
    None = None
    p = p
    q = q
    Processes = {p, q}
    Prompt = {p}
    Calls <- MCCalls
    TTL = 2
    Interval = 1
    MaxLog = 4
    MaxOwners = 2
SPECIFICATION SqliteSpec
INVARIANTS
    WritersDoNotInterleave
    TablesMatchTheLog
    PromptWritersKeepTheirLease
    ForksAreWhole
PROPERTIES
    RowsImplementSessionLog
CHECK_DEADLOCK FALSE
