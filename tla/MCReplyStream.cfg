SPECIFICATION ReplySpec
CONSTANTS
    Apis = {"anthropic", "responses", "bedrock", "pi", "completions", "google", "mistral"}
    MaxPieces = 4
    MaxBlocks = 2
    None = None
INVARIANTS
    ListenerRebuildsTheMessage
    DoneIsWhole
CHECK_DEADLOCK FALSE
