\* Every way to change a policy, two handlers at a time.
CONSTANTS
    Readers = {r1, r2}
    CacheTtl = 2
    DbTimeout = 1
    MaxVersion = 2
    MaxTime = 4
    Never = Never
    Nothing = Nothing
    NoPolicy = NoPolicy
    NoUrl = NoUrl
    AnyHost = AnyHost
    Hosts = {"api", "other"}
    Segments = {"", "v1", "send", "*"}
    Handlers = {h1, h2}
    Managers = {"m1", "m2"}
    EndUsers = {"e1", "e2"}
    Strangers = {"x1"}
    Proposals = {"p1", "p2", "p3"}
    Changes = {c1}
    Loads <- MCLoads
    ProposalCap = 1
    NoOne = NoOne
SPECIFICATION ChangesSpec
SYMMETRY Interchangeable
CHECK_DEADLOCK FALSE
INVARIANTS PolicyStalenessIsBounded LockHolds MergesAgree ChangesAreEarned
