\* A token of role admin on a route for instructors and admins.
CONSTANTS
    Users = {u1}
    Admins = {a1}
    Requests = {r1}
    TokenRoles <- MCTokenRoles
    Routes <- MCRoutes
    None = None
    BlockTTL = 1
SPECIFICATION Spec
INVARIANTS RefusedRolesWereBlocked
