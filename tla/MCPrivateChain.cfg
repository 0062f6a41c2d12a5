CONSTANTS
    supplier = supplier carrier = carrier warehouse = warehouse depot = depot shop = shop
    s1 = s1 l1 = l1 w1 = w1 m1 = m1
    stored = stored moved = moved direct = direct draft = draft broken = broken
    Users <- MCUsers
    RoleOf <- MCRoleOf
    Nodes = {s1, l1, w1, m1}
    Routes <- MCRoutes
    StagesOf <- MCStagesOf
    Threads = {t1, t2}
    FirstRoute = stored
    NoRoute = NoRoute NoNode = NoNode NoThread = NoThread Idle = Idle
    MaxBatches = 2
    MaxChallenges = 3
    MaxRouteChanges = 2
SPECIFICATION Spec
SYMMETRY Workers
INVARIANTS CompletedIsEligible StoredChainValidates ProgressNeverFails ChallengeUsedOnce
PROPERTIES RouteKeptByCommit ConfirmedStageIsRecorded
CHECK_DEADLOCK FALSE
