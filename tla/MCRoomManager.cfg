CONSTANTS
    a1 = a1
    a2 = a2
    Orchestrator = Orchestrator
    r1 = r1
    r2 = r2
    Agents = {a1, a2}
    RoomIds = {r1, r2}
    Budgets = {0, 2}
    MaxDecisions = 3
SPECIFICATION FairSpec
INVARIANTS
    MembersKnowTheDecisions
PROPERTIES
    DecisionsAreFinal
    BudgetEndsInADecision
CHECK_DEADLOCK FALSE
