SPECIFICATION FairSpec
CONSTANTS
    a = a
    b = b
    both = both
    disabled = disabled
    moved = moved
    alone = alone
    empty = empty
    ttl1 = ttl1
    ttl2 = ttl2
    None = None
    Fqdn = fqdn
    Ips <- OneIp
    Contents <- ThreeContents
    MembersOf <- MembersIn
    HeaderOf <- Headers
    InOrder = TRUE
    MaxWrites = 3
    MaxPending = 1
    MaxFaults = 1
INVARIANT TypeOK
INVARIANT AgentFollows
INVARIANT HandlerFollows
PROPERTY RemovalDeregisters
PROPERTY DisabledLeaves
PROPERTY MembersArrive
INVARIANT DeletedLeavesUnlessOvertaken
PROPERTY DisabledStaysOut
PROPERTY DisabledLeavesDns
PROPERTY EnabledReachesDns
CHECK_DEADLOCK FALSE
