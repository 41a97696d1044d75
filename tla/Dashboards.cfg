CONSTANTS
    m1 = m1
    m2 = m2
    c1 = c1
    c2 = c2
    s1 = s1
    Unknown = Unknown
    Messages <- MCMessages
    Calls <- MCCalls
    Sockets <- MCSockets
SPECIFICATION FairSpec
INVARIANTS CountSettles ReceiversExpire TimersAreCleared
PROPERTY ExpiredSocketsLeave
\* Each call, message and connection comes once, so the run ends.
CHECK_DEADLOCK FALSE
