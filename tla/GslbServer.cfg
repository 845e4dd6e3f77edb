SPECIFICATION Spec
CONSTANTS
    f1 = f1
    f2 = f2
    f3 = f3
    ip1 = ip1
    ip2 = ip2
    here = here
    gone = gone
    plain = plain
    noplugin = noplugin
    c1 = c1
    c2 = c2
    None = None
    Fqdns <- ThreeFqdns
    Ips <- TwoIps
    Dcs <- TwoDcs
    KnownDcs <- OneDc
    Hcs <- TwoHcs
    KnownHcs <- OneHc
    Clients <- OneClient
    MaxTransactions = 2
    MaxCalls = 4
SYMMETRY Symmetry
INVARIANT TypeOK
INVARIANT StoredValid
INVARIANT StatusApplied
PROPERTY OnlyAsked
CHECK_DEADLOCK FALSE
