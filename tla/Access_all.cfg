CONSTANTS
    Emails = {e1, e2}
    Orgs = {o1, o2}
    Clients = {c1, c2}
    e1 = e1
    e2 = e2
    o1 = o1
    o2 = o2
    c1 = c1
    c2 = c2
    InviteRoles = {"ADMIN"}
    MaxInvites = 2
    None = None
SPECIFICATION Spec
INVARIANT RoleGranted
INVARIANT OrgKeepsAdmin
INVARIANT InviteAdmitsOnce
INVARIANT StaleByRemovalOnly
SYMMETRY Symmetry
CHECK_DEADLOCK FALSE
