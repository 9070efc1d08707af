\* Two tabs fetching CSRF tokens against each other, with one refresh token.
SPECIFICATION Spec
CONSTANTS
    Tabs = {t1, t2}
    Tokens = {r1}
    CsrfTokens = {k1, k2, k3}
    None = None
PROPERTIES
    CsrfConverges
