\* Two readers against two writers on two keys.
CONSTANTS
    Readers = {r1, r2}
    Writers = {w1, w2}
    Keys = {k1, k2}
    CacheTTL = 1
    MaxVersion = 2
    Error = Error
    None = None
SPECIFICATION Spec
INVARIANTS TypeOK TaggedUnlessLost InvalidatedIsGone
PROPERTIES KeepsPromise
SYMMETRY CacheSymmetry
