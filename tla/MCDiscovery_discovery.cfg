SPECIFICATION DiscoverySpec
CONSTANTS
    o1 = o1
    o2 = o2
    s1 = s1
    s2 = s2
    Offers = {o1, o2}
    Opened = {o1}
    Studied = {o1}
    MaxFetches = 1
    MaxWork = 1
    Consumers = 1
    Budget = 2
    MaxText = 2
INVARIANTS ReadsAreAccounted LedgerCovers
PROPERTIES RevisionTells CancelStands
CHECK_DEADLOCK FALSE
