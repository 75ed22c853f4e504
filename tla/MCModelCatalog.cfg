CONSTANTS
    MaxCalls = 3
    MaxTokens = 3
    Key = Key
    None = None
SPECIFICATION Spec
INVARIANTS
    CredentialIsGood
PROPERTIES
    EveryCallIsAnswered
    CatalogNeverGoesBack
CHECK_DEADLOCK FALSE
