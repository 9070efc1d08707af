\* Two tabs that share the cookies of the auth routes.
SPECIFICATION Spec
CONSTANTS
    Tabs = {t1, t2}
    Tokens = {r1, r2}
    CsrfTokens = {k1, k2, k3}
    None = None
SYMMETRY SessionSymmetry
INVARIANTS
    TypeOK
    LogoutSticks
    SessionUsable
    CsrfAgrees
    AgreedTabPasses
PROPERTIES
    SessionKept
    SettledStays
