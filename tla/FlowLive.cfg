\* Every channel, one person who may act for ever, one instance that may crash.
CONSTANTS
    Txns = {t1}
    Instances = {i1}
    EndUsers = {}
    Members = {m1}
    Managers = {m1}
    NoOne = NoOne
    Channels = {"dashboard", "agent_reflected", "telegram", "matrix"}
    Thresholds = {1}
    Surfaces = {"dashboard", "bot", "passkey"}
    WithWebAuthn = TRUE
    PhantomTtl = 1
    ApprovalTimeout = 1
    PendingTtl = 2
    MaxTime = 3
SPECIFICATION FairSpec
PROPERTY TaskConcludes
PROPERTY PollingEnds
PROPERTY DecidedRowsArePurged
