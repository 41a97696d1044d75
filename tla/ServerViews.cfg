CONSTANTS
    c1 = c1
    c2 = c2
    c3 = c3
    host = host
    docker = docker
    Nobody = Nobody
    MaxWorld = 2
    Callers <- MCCallers
    Cells <- MCCells
    Shared <- MCShared
SPECIFICATION FairSpec
INVARIANTS SingleFlight AnswersOutliveNoExpiry
PROPERTIES NewsNeverGoesBack PendingClears EveryCallerAnswered
\* Each caller comes once, so the run ends.
CHECK_DEADLOCK FALSE
