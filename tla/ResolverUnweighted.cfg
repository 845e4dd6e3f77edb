SPECIFICATION FairSpec
CONSTANTS
    east = east
    west = west
    here = here
    nowhere = nowhere
    m1 = m1
    m2 = m2
    m3 = m3
    g1 = g1
    g2 = g2
    None = None
    Addrs <- OneAddr
    Dcs <- TwoDcs
    InCidrs <- NoCidr
    ByDistance <- EastFirst
    Goroutines <- OneGoroutine
    Half = 6
    Members <- AllMembers
    CatalogEntries <- UnweightedOnly
    QueryTypes <- Ipv4Only
    MaxSets = 1
    MaxQueries = 3
PROPERTY QueriesEnd
CHECK_DEADLOCK FALSE
