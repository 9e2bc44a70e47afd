SPECIFICATION Spec
CONSTANTS
    Users = {u1, u2, u3}
    u1 = u1
    u2 = u2
    u3 = u3
    Teams = {t1, t2}
    Founder = u1
    Other = u2
    t2 = t2
    FirstTeam = t1
    Keys = {k1, k2}
    k1 = k1
    k2 = k2
    Callers = {c1, c2}
    Loads <- MCLoads
    MaxPasswords = 2
    NoTeam = NoTeam
SYMMETRY Symmetry
CHECK_DEADLOCK FALSE
INVARIANTS SessionsAreEarned ResetEndsSessions
PROPERTIES OwnersComeFromOwners
