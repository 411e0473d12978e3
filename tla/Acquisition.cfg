SPECIFICATION AcquisitionSpec
CONSTANTS
    lroot = lroot
    lsym = lsym
    lpos = lpos
    Locators = {lroot, lsym, lpos}
    SymbolLocators = {lsym}
    Requests <- AllRequests
    Widths = {1, 4}
    PeerCounts = {0, 2}
    MaxResponse = 2
    MaxPrepareProbes = 3
INVARIANTS
    AskedWithinBudget
    NoTargetStarved
    LayersAreDistances
    CompleteIsClosed
    ValidatorAccepts
    ReplayAgrees
