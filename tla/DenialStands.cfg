\* A request on Telegram that two people decide in the dashboard.
CONSTANTS
    Txns = {t1}
    Instances = {i1}
    EndUsers = {}
    Members = {m1, m2}
    Managers = {m1, m2}
    NoOne = NoOne
    Channels = {"telegram"}
    Thresholds = {1}
    Surfaces = {"dashboard"}
    WithWebAuthn = TRUE
    PhantomTtl = 1
    ApprovalTimeout = 1
    PendingTtl = 2
    MaxTime = 3
SPECIFICATION Spec
PROPERTY DenialStands
