SPECIFICATION RuntimeFairSpec
CONSTANTS
    Sessions = {s1}
    Callers = {a, b}
    Clients = {c1}
    MaxCallers = 2
    MaxHistory = 2
    MaxIntents = 2
    Registrations = {}
    ChildRisks = {TRUE}
    Works = {FALSE}
    DetachFailures = {}
    None = None
    MaxSessions = 1
    MaxChildren = 2
    MaxOperations = 2
    MaxSpawns = 2
    MaxWork = 1
    SpawnOutcomes = {TRUE, FALSE}
    ReapOutcomes = {"reaped", "unreaped"}
    CloseOutcomes = {"closed"}
    ServerFails = TRUE
CHECK_DEADLOCK FALSE
PROPERTIES WorkEnds
