SPECIFICATION Spec
CONSTANTS
    People = {u1, u2}
    u1 = u1
    u2 = u2
    NoOne = NoOne
    Idents = {g1, g2, h1}
    g1 = g1
    g2 = g2
    h1 = h1
    Provider <- MCProvider
    Emails <- MCEmails
    Browsers = {b1, b2}
    Teams = {t1}
    t1 = t1
    b1 = b1
    Parties = {a1, a2}
    a1 = a1
    a2 = a2
    Callers = {c1, c2}
    MaxConfirm = 1
    Loads <- MCLoads
SYMMETRY Symmetry
CHECK_DEADLOCK FALSE
INVARIANTS SocialLoginHolds DeviceLoginHolds ConnectionsHold
PROPERTIES IdentityIsNotRepointed
