SPECIFICATION FairSpec
CONSTANTS
    MaxRequests = 2
    MaxMessages = 2
    Room = 2
    Unasked = {"other", "bad"}
    d1 = d1
    Descendants = {d1}
    None = None
INVARIANT
    LeaseReturnedClean
PROPERTY
    ExchangesEnd
CHECK_DEADLOCK FALSE
