SPECIFICATION Spec
CONSTANTS
    \* WorkerRun
    Slot = {s1, s2}
    Timer = {info}
    InfoLoop = info
    Fetcher = fetcher
    Burst = TRUE
    MaxFaults = 2
    \* WorkerIntake: a burst has a budget for one of two rows.
    Row = {r1, r2}
    Processor = {p1, p2}
    NoJob = NoJob
    MaxBurstJobs = 1
    MaxChanges = 1
    Stoppable = TRUE
    \* WorkerHealth
    Component = {notification, dequeue}
    Notification = notification
    Run = run
    Free = free
    Observer = {o1, o2}
    MaxReports = 3
    \* CronSchedule
    w1 = w1
    w2 = w2
    k1 = k1
    k2 = k2
    Worker = {w1, w2}
    CronKey = {k1, k2}
    Deployments <- Rollouts
    Fires <- Times
    Second = 1
    None = None
    Stranger = Stranger
    MaxClock = 3
    MaxMishaps = 1
    MaxEvents = 1
    MaxContended = 1
INVARIANTS
    RunSafety LeaseOutlivesWork
    IntakeSafety NothingStranded
    PublishedOnce HealthIsHonest
PROPERTIES
    DrainIsProved HealthSafety CronSafety
\* A run that has returned takes no further step.
CHECK_DEADLOCK FALSE
