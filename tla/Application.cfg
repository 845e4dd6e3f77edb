SPECIFICATION FairSpec
CONSTANTS
    f1 = f1
    f2 = f2
    ip1 = ip1
    ip2 = ip2
    one = one
    both = both
    consulAgent = consulAgent
    other = other
    None = None
    NoTarget = NoTarget
    Fqdns <- TwoFqdns
    Ips <- TwoIps
    Contents <- TwoContents
    MembersOf <- MembersOfContents
    Checks <- AllPassOrOneFails
    Stores <- BothStored
    StatusWorkers = 2
    StatusCapacity = 1
    Targets <- TwoTargets
    Exposes <- TargetFamilies
    Own <- OwnFamilies
    FetchWorkers = 2
    Scenarios <- AllScenarios
    Healths <- OneHealth
INVARIANT TypeOK
INVARIANT AllReported
INVARIANT ScrapeExact
INVARIANT GatherRefused
INVARIANT GatherExact
INVARIANT NoScrapeStuck
INVARIANT GracefulStop
INVARIANT PanicOnlyAfterForcedStop
PROPERTY RunReturns
PROPERTY ScrapesEnd
CHECK_DEADLOCK FALSE
