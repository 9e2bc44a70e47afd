\* Two grants, two concurrent requests; a TTL below and one above the cap,
\* a cap of uses that is refused, a single use and no cap.
CONSTANTS
    Grants = {g1, g2}
    Calls = {c1, c2}
    Targets <- MCTargets
    Authored <- MCAuthored
    Ttls = {0, 1, 2}
    Caps = {0, 1, NoCap}
    NoCap = NoCap
    Wild = Wild
    None = None
    MaxTtl = 1
    MaxTime = 2
SPECIFICATION Spec
SYMMETRY Ids
INVARIANTS CapBoundsApprovals WindowIsRespected MintedGrantIsExact
PROPERTY RevocationHolds
CHECK_DEADLOCK FALSE
