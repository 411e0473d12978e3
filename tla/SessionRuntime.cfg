SPECIFICATION RuntimeSpec
CONSTANTS
    Sessions = {s1}
    Callers = {a}
    Clients = {c1, c2}
    MaxCallers = 2
    MaxHistory = 2
    MaxIntents = 3
    Registrations = {}
    ChildRisks = {TRUE}
    Works = {FALSE}
    DetachFailures = {}
    None = None
    MaxSessions = 1
    MaxChildren = 2
    MaxOperations = 2
    MaxSpawns = 3
    MaxWork = 1
    SpawnOutcomes = {TRUE, FALSE}
    ReapOutcomes = {"reaped", "unreaped"}
    CloseOutcomes = {"closed", "broken"}
    ServerFails = TRUE
CHECK_DEADLOCK FALSE
SYMMETRY Symmetry
INVARIANTS WorkAccounted GenerationExclusive NotStranded LiveAreSessions
PROPERTIES CompleteDelivers
