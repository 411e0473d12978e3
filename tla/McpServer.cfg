SPECIFICATION FairSpec
CONSTANTS
    s1 = s1
    s2 = s2
    k1 = k1
    x1 = x1
    Serves = {s1, s2}
    Stoppers = {k1}
    Selectors = {x1}
    None = None
    Lines <- MCLines
    PublicationRoot = TRUE
    MaxLines = 2
    Outcomes = {"failed", "complete", "unsound"}
INVARIANTS NewestReachable RepliesMatch RepliesTellPublication
PROPERTIES ShutdownEndsCalls
