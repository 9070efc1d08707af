\* Two administrators work on the same user at once.
CONSTANTS
    Users = {u1}
    Admins = {a1, a2}
    Requests = {}
    TokenRoles = {}
    Routes = {}
    None = None
    BlockTTL = 2
SPECIFICATION Spec
INVARIANTS SyncedAfterOps
