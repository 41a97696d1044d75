CONSTANTS
    u1 = u1
    u2 = u2
    admin = admin
    user = user
    editor = editor
    star = star
    p1 = p1
    c1 = c1
    c2 = c2
    Nobody = Nobody
    NoRequest = NoRequest
    Users <- MCUsers
    Roles <- MCRoles
    Permissions <- MCPermissions
    Calls <- MCCalls
    FirstAdmin <- u1
    AdminRole <- admin
    UserRole <- user
    Wildcard <- star
    RoleLists <- MCRoleLists
    PermissionLists <- MCPermissionLists
SPECIFICATION Spec
SYMMETRY CallSymmetry
INVARIANTS ProtectedRowsStay ListsMixOnlyInRaces
PROPERTY LastAdministratorFallsToOthers
\* Every call comes to its end.
CHECK_DEADLOCK FALSE
