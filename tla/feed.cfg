SPECIFICATION Spec
CONSTANTS
    acme = acme
    borealis = borealis
    Accounts = {acme, borealis}
    Nobody = Nobody
    Nothing = Nothing
    RECENT_CAPACITY = 1
    DEDUPE_CAPACITY = 2
    MaxEvents = 2
    MaxFaults = 2
    MaxSwitches = 2
INVARIANT NothingMissed
PROPERTY FeedReturns
CHECK_DEADLOCK FALSE
