CONSTANTS
    b1 = b1
    b2 = b2
    t1 = t1
    backend = backend
    testing = testing
    Nobody = Nobody
    Agents = {b1, b2, t1}
    Roles = {backend, testing}
    RoleOf <- MCRoleOf
    Scopes <- MCScopes
    Paths <- MCPaths
    Files <- MCFiles
    Below <- MCBelow
SPECIFICATION WSpec
INVARIANTS
    OverlapsWereReleased
    ConflictsWereReleased
SYMMETRY MCSymmetry
CHECK_DEADLOCK FALSE
