\* Requests of the team and of managed end-users on the default channel, decided in
\* the dashboard, with and without a grant, on either of two instances.
CONSTANTS
    Txns = {t1}
    Instances = {i1, i2}
    EndUsers = {e1}
    Members = {m1, m2}
    Managers = {m1, m2}
    NoOne = NoOne
    Channels = {"agent_reflected"}
    Thresholds = {1}
    Surfaces = {"dashboard", "grant"}
    WithWebAuthn = TRUE
    PhantomTtl = 2
    ApprovalTimeout = 2
    PendingTtl = 3
    MaxTime = 5
SPECIFICATION Spec
INVARIANT DecisionsAreHonoured
INVARIANT NoGrantOnDenial
PROPERTY StoreSpec
SYMMETRY Deployment
