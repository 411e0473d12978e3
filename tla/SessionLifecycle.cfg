SPECIFICATION LifecycleSpec
CONSTANTS
    Sessions = {s1}
    Callers = {a, b}
    MaxCallers = 2
    MaxHistory = 2
    MaxIntents = 3
    Registrations <- MCRegistrations
    ChildRisks = {TRUE}
    Works = {TRUE}
    DetachFailures = {"REQUEST_TIMEOUT"}
    None = None
SYMMETRY Symmetry
INVARIANTS IncumbentIsCurrent CallersAgree HistoryIsTrue
PROPERTIES DrainingHasIntent AnswersAreFinal TabledTransitions
