SPECIFICATION FairSpec
CONSTANTS
    \* RoundCache
    Callers = {c1, c2}
    QueueCount = 2
    Ttl = 1
    WaitLimit = 2
    RoundLimit = 4
    MaxWedges = 2
    \* DashboardServer
    Conns = {n1, n2, n3}
    MaxConnections = 2
    MaxRequests = 1
    \* AuthThrottle
    Keys = {k1, k2, k3}
    Checks = {a, b}
    MaxBuckets = 2
    Burst = 2
    Interval = 2
    MaxTime = 4
    MaxSpends = 5
    \* DashboardSessions
    Handlers = {h1, h2}
    SessionTtl = 2
    MaxSessions = 2
    MaxTokens = 3
    MaxRevision = 2
    LastTime = 2
INVARIANTS
    RoundSafety ServerSafety
PROPERTIES
    AuthSafety SessionSafety RoundProgress ServerProgress
\* A server that has returned takes no further step, and the clocks are bounded.
CHECK_DEADLOCK FALSE
