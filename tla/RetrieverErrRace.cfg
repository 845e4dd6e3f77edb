SPECIFICATION Spec
CONSTANTS
    f1 = f1
    f2 = f2
    c1 = c1
    c2 = c2
    bad = bad
    up = up
    None = None
    NoMembers = NoMembers
    Fqdns <- TwoFqdns
    Contents <- OneAndBad
    Unreadable <- Bad
    HeaderOf <- OwnHeader
    Views <- OneView
    NbWorkers = 2
    CatalogPolling = FALSE
    InOrder = TRUE
    MaxWrites = 1
    MaxChanges = 0
    MaxRestarts = 0
INVARIANT UnreadableIgnored
