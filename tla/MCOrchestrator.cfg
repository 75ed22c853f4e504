CONSTANTS
    backend = backend
    testing = testing
    NoRole = NoRole
    NoSubtask = NoSubtask
    Plan <- MCPlan
    DependsOn <- MCDependsOn
    RoleOf <- MCRoleOf
    Roles = {backend, testing}
    Provides <- MCProvides
    Capabilities = {"server"}
    MaxAgents = 2
    MaxRepairRounds = 1
    MaxRespawns = 1
    MaxRequests = 1
    MaxBlocks = 1
SPECIFICATION FairSpec
INVARIANTS
    SpawnsAreBounded
    RunningKeepsItsResources
    WavesAreSettled
    DependenciesComeFirst
PROPERTIES
    GateEndsTheWork
    MissionEnds
