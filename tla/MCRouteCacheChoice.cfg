SPECIFICATION Spec
CONSTANTS
    g1 = g1
    g2 = g2
    q1 = q1
    q2 = q2
    a1 = a1
    a2 = a2
    get = get
    Absent = Absent
    NoRoute = NoRoute
    Refused = Refused
    NotYet = NotYet
    Gateways = {g1}
    Requests = {q1, q2}
    Admins = {a1, a2}
    RouteIds = {r1, r2}
    Targets = {get}
    Definitions <- MCMergeDefinitions
    Creates <- MCMergeCreates
    Patches <- MCMergePatches
    Null = Null
    NoLimit = NoLimit
    DefaultTimeout = DefaultTimeout
    GatewayOf <- OneGateway
    TTL = 1
    MaxTime = 1
    MaxTables = 3
    MaxFailures = 0
INVARIANTS
    HighestPriorityWins
    WritesMerge
SYMMETRY Interchangeable
CHECK_DEADLOCK FALSE
