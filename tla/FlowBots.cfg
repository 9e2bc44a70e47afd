\* Telegram and Matrix without WebAuthn: the row is saved after the message is
\* posted, and a button or reaction may reach either instance.
CONSTANTS
    Txns = {t1}
    Instances = {i1, i2}
    EndUsers = {}
    Members = {m1, m2}
    Managers = {m1, m2}
    NoOne = NoOne
    Channels = {"telegram", "matrix"}
    Thresholds = {2}
    Surfaces = {"bot"}
    WithWebAuthn = FALSE
    PhantomTtl = 1
    ApprovalTimeout = 1
    PendingTtl = 2
    MaxTime = 3
SPECIFICATION Spec
INVARIANT ThresholdHolds
INVARIANT NoLostWakeup
SYMMETRY Deployment
