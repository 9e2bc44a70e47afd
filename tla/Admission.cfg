SPECIFICATION Spec
CONSTANTS
    Calls = {c1, c2, c3}
    Loads <- MCLoads
    WindowLength = 2
    RelayTtl = 1
    MaxTime = 3
    Anyone = Anyone
    NoOne = NoOne
    NoField = NoField
    NoHost = NoHost
    NoValue = NoValue
    NoPolicy = NoPolicy
    NoUrl = NoUrl
    AnyHost = AnyHost
    h1 = h1
    h2 = h2
    sub = sub
    lan = lan
    Hosts = {h1, h2, sub, lan}
    Segments = {"", "a", "b"}
    Under <- MCUnder
    InternalHosts = {lan}
SYMMETRY Symmetry
CHECK_DEADLOCK FALSE
INVARIANTS RateLimitHolds SecretsStayPut IsolationHolds HumanGateHolds RelaysAreOwn ApprovalIsInformed
