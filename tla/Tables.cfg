\* Of the approvals: one transaction, for the statements act on one row at a
\* time, and the only one that does not (the cleanup) treats the rows
\* independently; two end-users, so that one can meet a row reserved for the
\* other; two members, so that one can repeat or contradict the other.
\* Of the agent: two requests at once, one rotation or other write; the clock
\* runs past the TTL and the two queries of a request.
CONSTANTS
    Txns = {t1}
    EndUsers = {e1, e2}
    Members = {m1, m2}
    NoOne = NoOne
    PhantomTtl = 2
    Ttls = {1, 3}
    MaxTime = 5
    Keys = {k1, k2}
    FirstKey = k1
    Requests = {r1, r2}
    CacheTtl = 1
    DbTimeout = 1
    MaxVersion = 1
    MaxClock = 4
    Never = Never
    Nothing = Nothing
SPECIFICATION TablesSpec
INVARIANTS AtMostOneClaim CachesAreFresh CurrentKeyIsNotRefused
PROPERTIES DecisionIsFinal EndUserGate ResolverIsKept
SYMMETRY Concurrent
CHECK_DEADLOCK FALSE
