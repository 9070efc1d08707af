\* Start, serving and shutdown with signals at any time.  The process ends.
SPECIFICATION FairSpec
CONSTANT Conns = {c1, c2, c3}
INVARIANTS
    TypeOK
    CacheOutlivesClients
    DoneReleasesAll
PROPERTIES
    RunsOnce
    AcceptsNobodyNew
    ShutdownEnds
CHECK_DEADLOCK FALSE
