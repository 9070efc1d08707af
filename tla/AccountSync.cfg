\* Two concurrent admin requests on the keys of one user, no guards.
CONSTANTS
    Users = {u1}
    Admins = {a1, a2}
    Requests = {}
    TokenRoles = {}
    Routes = {}
    None = None
    BlockTTL = 2
SPECIFICATION Spec
INVARIANTS UndisturbedOpAgrees
SYMMETRY AdminSymmetry
