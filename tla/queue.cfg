SPECIFICATION FairSpec
CONSTANTS
    \* EnqueueDedupe
    Producer = {p1, p2}
    Key = {"a", "b", "c"}
    NoKey = NoKey
    LockId <- Hash
    Batch <- Batches
    Free = Free
    Outsider = Outsider
    MaxOutside = 1
    MaxFaults = 1
    \* CompletionWait
    Waiter = {v1, v2}
    Marked = {}
    Hurried = {v2}
    Unset = Unset
    MaxGlitches = 1
    MaxChanges = 1
    \* NotifyThrottle
    Caller = {c1, c2}
    Window = 2
    MaxTime = 4
    \* RetryBackoff: a ceiling that is no power of two, and twice as many
    \* attempts as doublings.
    MaxDuration = 11
    MaxExponent = 4
    MaxAttempts = 9
    NoCap = NoCap
    Delay <- Delays
    Cap <- Caps
    \* SweeperLeadership
    Sweeper = {s1, s2}
    Healthy = {s1}
    NoSession = NoSession
    SweepBatch = 1
    MaxBacklog = 2
    Arrivals = 2
    MaxFailures = 2
    MaxPasses = 2
INVARIANTS
    EnqueueSafety BackoffSafety
PROPERTIES
    WaitSafety ThrottleSafety LeadershipSafety
    ImplementsAtomicEnqueue
    EnqueuesFinish WaitReturns BacklogIsSwept
\* Producers and waiters come to an end.
CHECK_DEADLOCK FALSE
