SPECIFICATION FairSpec
CONSTANTS
    \* WorkerRun
    Slot = {s1}
    Timer = {info, sweep}
    InfoLoop = info
    Fetcher = fetcher
    Burst = TRUE
    MaxFaults = 1
    \* WorkerIntake
    Row = {r1}
    Processor = {p1, p2}
    NoJob = NoJob
    MaxBurstJobs = 1
    MaxChanges = 1
    Stoppable = FALSE
    \* WorkerHealth
    Component = {notification, dequeue}
    Notification = notification
    Run = run
    Free = free
    Observer = {o1}
    MaxReports = 3
    \* CronSchedule
    w1 = w1
    w2 = w2
    k1 = k1
    k2 = k2
    Worker = {w1, w2}
    CronKey = {k1}
    Deployments <- OneRollout
    Fires <- Times
    Second = 1
    None = None
    Stranger = Stranger
    MaxClock = 1
    MaxMishaps = 1
    MaxEvents = 1
    MaxContended = 2
PROPERTIES
    RunReturns IntakeProgress HealthProgress DueIsHandled
\* A run that has returned takes no further step.
CHECK_DEADLOCK FALSE
