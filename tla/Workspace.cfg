SPECIFICATION Spec
CONSTANTS
    Managers = {m1}
    Approvers = {v1}
    Names = {n1, n2}
    n1 = n1
    n2 = n2
    EndUserNames = {e1}
    e1 = e1
    Agents = {a1, a2}
    a1 = a1
    a2 = a2
    Apps = {p1}
    p1 = p1
    RoleNames = {r1}
    Customers = {k1, k2}
    Callers = {c1, c2}
    Loads <- MCLoads
    Webauthn = TRUE
    StarterAgents = 2
    StarterCredentials = 2
    Nobody = Nobody
    Absent = Absent
SYMMETRY Symmetry
CHECK_DEADLOCK FALSE
INVARIANTS NamesAreBound ApproversStayInScope CallbacksAreEarned
