SPECIFICATION PublicationFairSpec
CONSTANTS
    c1 = c1
    c2 = c2
    c3 = c3
    p1 = p1
    p2 = p2
    Callers = {c1, c2, c3}
    Processes = {p1, p2}
    ProcessOf <- MCProcessOf
    Artifacts = {a1}
    Selectors = {s1}
    Jobs = {"object", "bundle"}
    Absent = Absent
    None = None
INVARIANT
    ObjectsIdempotent
PROPERTY
    CallsEnd
