SPECIFICATION FairSpec
CONSTANTS
    f1 = f1
    f2 = f2
    c1 = c1
    c2 = c2
    bad = bad
    up = up
    None = None
    NoMembers = NoMembers
    Fqdns <- OneFqdn
    Contents <- OneAndBad
    Unreadable <- Nothing
    HeaderOf <- OwnHeader
    Views <- TwoViews
    NbWorkers = 2
    CatalogPolling = TRUE
    InOrder = TRUE
    MaxWrites = 2
    MaxChanges = 1
    MaxRestarts = 0
PROPERTY DeletedLeavesDns
