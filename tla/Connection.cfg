SPECIFICATION FairSpec
CONSTANTS
    Callers = {a, b}
    Notifiers = {a}
    Reader = Reader
    None = None
    Legacies <- AnyLegacy
    Capacity = 1
    MaxCalls = 2
    MaxSends = 1
INVARIANTS TableExact AnswersFit
PROPERTIES CommandEnds
