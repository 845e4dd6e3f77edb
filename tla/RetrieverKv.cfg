SPECIFICATION Spec
CONSTANTS
    f1 = f1
    f2 = f2
    c1 = c1
    c2 = c2
    bad = bad
    up = up
    None = None
    NoMembers = NoMembers
    Fqdns <- TwoFqdns
    Contents <- AndBad
    Unreadable <- Bad
    HeaderOf <- OwnHeader
    Views <- OneView
    NbWorkers = 2
    CatalogPolling = FALSE
    InOrder = TRUE
    MaxWrites = 2
    MaxChanges = 0
    MaxRestarts = 1
INVARIANT KvFeedSound
INVARIANT RemovalJustified
INVARIANT PollApplies
PROPERTY FeedSpec
