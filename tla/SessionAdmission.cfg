SPECIFICATION Spec
CONSTANTS
    Sessions = {a, b, c, d}
    MaxSessions = 2
    Kinds = {"STOP", "RESTART"}
    Works = {FALSE}
    MaxEvents = 4
    MaxReservations = 3
    MaxGeneration = 2
    None = None
CHECK_DEADLOCK FALSE
SYMMETRY Symmetry
INVARIANT OneToOne
PROPERTIES LostInTurn EvictionInOrder EvictionsEndWaits
