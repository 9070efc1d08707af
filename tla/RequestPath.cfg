SPECIFICATION FairSpec
CONSTANTS
    Stages <- Plan
    Optional <- OptionalCalls
    Skips <- Skipping
    Checks <- Checking
    Writes <- WriteCalls
    Untimed <- Untimeds
    Streams <- Streamed
    HangsRefused <- Silenced
    Uncompensated <- WritesThenMore
    Deadline <- DeadlineTicks
    Breaker <- BreakerTicks
    MaxAge = 6
INVARIANTS
    TypeOK
    AcknowledgedWriteIsReported
    GivenUpInTime
    AnswerIsFounded
PROPERTIES
    EveryRequestAnswered
    KeepsPromise
CHECK_DEADLOCK FALSE
