\* Two readers and one writer on one key, under fairness of the fills and of time.
CONSTANTS
    Readers = {r1, r2}
    Writers = {w1}
    Keys = {k1}
    CacheTTL = 2
    MaxVersion = 2
    Error = Error
    None = None
SPECIFICATION FairSpec
PROPERTIES StaleOnlyAges EventuallyFresh ErrorsFade
