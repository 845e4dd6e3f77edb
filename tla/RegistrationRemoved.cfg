SPECIFICATION FairSpec
CONSTANTS
    a = a
    b = b
    both = both
    disabled = disabled
    moved = moved
    alone = alone
    empty = empty
    ttl1 = ttl1
    ttl2 = ttl2
    None = None
    Fqdn = fqdn
    Ips <- TwoIps
    Contents <- TwoContents
    MembersOf <- MembersIn
    HeaderOf <- Headers
    InOrder = TRUE
    MaxWrites = 2
    MaxPending = 1
    MaxFaults = 0
PROPERTY ServicesFollowStore
CHECK_DEADLOCK FALSE
