SPECIFICATION DirSpec
CONSTANTS
    root = root
    u1 = u1
  u2 = u2
    admin = admin
    everyone = everyone
    g1 = g1
    all = all
    manage = manage
    use = use
    Users = {root, u1, u2}
    Root = root
    GroupNames = {admin, everyone, g1}
    Admin = admin
    Everyone = everyone
    Perms = {all, manage, use}
    All = all
    Manage = manage
    Gone = Gone
    Unset = Unset
    Requesters = {1, 2}
    DirAsks <- MCRivals
    Overlap = TRUE
    MaxRejects = 0
INVARIANTS
    AdminRemains
CHECK_DEADLOCK FALSE
