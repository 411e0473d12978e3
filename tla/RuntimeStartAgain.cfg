SPECIFICATION RuntimeSpec
CONSTANTS
    Sessions = {s1}
    Callers = {a}
    Clients = {c1}
    MaxCallers = 2
    MaxHistory = 2
    MaxIntents = 2
    Registrations = {}
    ChildRisks = {TRUE}
    Works = {FALSE}
    DetachFailures = {}
    None = None
    MaxSessions = 1
    MaxChildren = 2
    MaxOperations = 4
    MaxSpawns = 3
    MaxWork = 1
    SpawnOutcomes = {TRUE}
    ReapOutcomes = {"reaped"}
    CloseOutcomes = {"closed"}
    ServerFails = FALSE
CHECK_DEADLOCK FALSE
INVARIANTS LiveChildIsStoppable
