SPECIFICATION PublicationSpec
CONSTANTS
    c1 = c1
    c2 = c2
    c3 = c3
    p1 = p1
    p2 = p2
    Callers = {c1, c3}
    Processes = {p1, p2}
    ProcessOf <- MCProcessOf
    Artifacts = {a1, a2}
    Selectors = {s1}
    Jobs = {"output"}
    Absent = Absent
    None = None
INVARIANTS
    SelectedIsWhole
    CheckedIsDurable
    AnswersMatchDisk
PROPERTY
    ImplementsGenerationStore
SYMMETRY Perms
