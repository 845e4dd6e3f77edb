SPECIFICATION FairSpec
CONSTANTS
    f1 = f1
    f2 = f2
    c1 = c1
    c2 = c2
    bad = bad
    up = up
    None = None
    NoMembers = NoMembers
    Fqdns <- OneFqdn
    Contents <- TwoContents
    Unreadable <- Nothing
    HeaderOf <- OwnHeader
    Views <- TwoViews
    NbWorkers = 1
    CatalogPolling = TRUE
    InOrder = TRUE
    MaxWrites = 3
    MaxChanges = 1
    MaxRestarts = 1
INVARIANT TypeOK
INVARIANT CatalogFeedSound
PROPERTY DnsKeepsEntries
PROPERTY KvConverges
PROPERTY CatalogConverges
