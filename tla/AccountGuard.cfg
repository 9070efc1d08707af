\* One admin request at a time, beside one guarded request that gets its answer.
CONSTANTS
    Users = {u1}
    Admins = {a1}
    Requests = {r1}
    TokenRoles <- MCTokenRoles
    Routes <- MCRoutes
    None = None
    BlockTTL = 1
SPECIFICATION FairSpec
INVARIANTS TypeOK NoEntryUnderBlock NoRefusalWithoutBlock VerdictFits
PROPERTIES GuardAnswers
