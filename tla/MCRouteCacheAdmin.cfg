SPECIFICATION Spec
CONSTANTS
    g1 = g1
    g2 = g2
    q1 = q1
    q2 = q2
    a1 = a1
    a2 = a2
    get = get
    Absent = Absent
    NoRoute = NoRoute
    Refused = Refused
    NotYet = NotYet
    Gateways = {g1, g2}
    Requests = {q1, q2}
    Admins = {a1}
    RouteIds = {r1, r2}
    Targets = {get}
    Definitions <- MCGoodDefinitions
    Creates <- MCGoodCreates
    Patches = {}
    Null = Null
    NoLimit = NoLimit
    DefaultTimeout = DefaultTimeout
    GatewayOf <- MCGatewayOf
    TTL = 2
    MaxTime = 2
    MaxTables = 2
    MaxFailures = 0
INVARIANTS
    CreatesServedAtOnce
CHECK_DEADLOCK FALSE
