\* Requests of the team and of managed end-users, decided on the passkey
\* page or through the end-user API, beside a Telegram bot that every decision is
\* bridged to; a row may vanish while its task waits.
CONSTANTS
    Txns = {t1}
    Instances = {i1}
    EndUsers = {e1}
    Members = {m1}
    Managers = {m1}
    NoOne = NoOne
    Channels = {"dashboard", "telegram"}
    Thresholds = {1}
    Surfaces = {"passkey", "app"}
    WithWebAuthn = TRUE
    PhantomTtl = 1
    ApprovalTimeout = 2
    PendingTtl = 3
    MaxTime = 4
SPECIFICATION Spec
INVARIANT ForwardNeedsApproval
INVARIANT ReservedForwardNeedsEndUser
