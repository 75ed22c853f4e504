CONSTANTS
    a = a
    b = b
    Accounts <- MCAccounts
    AccountsOf <- MCAccountsOf
    MaxRequests = 3
    MaxOverlap = 2
    MaxSockets = 3
    MaxRetries = 1
    None = None
SPECIFICATION Spec
INVARIANTS
    ConnectionsAreNotShared
    ServerSeesTheWholeInput
    IdleConnectionsExpire
    AnswersAreNotMixed
CHECK_DEADLOCK FALSE
