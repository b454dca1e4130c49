SPECIFICATION ReasoningSpec
CONSTANTS
    Plans <- MCPlans
    MaxAttempts = 2
    Requests = {r1, r2, r3}
    Creator = creator
    NoHandler = NoHandler
    MaxFaults = 2
    AgentTasks = {t1, t2}
    ClusterNodes = {n1}
    Callers = {c1, c2}
    ServiceRoutes = {s1, s2}
    Chatters = {h1, h2, h3, h4, h5}

INVARIANTS ReasoningTypeOK ExecutedOnce OrderKept CompletedWasServed BillExact
    PlansExact 
PROPERTIES CancelHolds EngineEnds
CHECK_DEADLOCK FALSE
