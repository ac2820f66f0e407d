CONSTANTS
  j1 = j1  j2 = j2  w1 = w1  w2 = w2  c1 = c1  s1 = s1  s2 = s2  k1 = k1
  NoWorker = NoWorker  NoKey = NoKey
  Job = {j1}  Runtime = {w1}  Consumer = {}
  KeyOf <- SharedKey  MaxAttempts <- TwoTries  TimedJob = {}  CronJob = {}
  ResultTtl <- KeptForever  FailedTtl <- Deleted  Blocking = {}
  Timeout = 0  Grace = 1  LeaseTtl = 1  RetryDelay = 0  BounceDelay = 0
  Ceiling = 2  Sweeper = {s1}  BatchSize = 1  Stoppable = {}  MaxUnacked = 0
SPECIFICATION FairSpec
CHECK_DEADLOCK FALSE
PROPERTIES Settles
