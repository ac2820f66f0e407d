CONSTANTS
  j1 = j1  j2 = j2  w1 = w1  w2 = w2  c1 = c1  s1 = s1  s2 = s2  k1 = k1
  NoWorker = NoWorker  NoKey = NoKey
  Job = {j1}  Runtime = {}  Consumer = {c1}
  KeyOf <- Keyless  MaxAttempts <- TwoTries  TimedJob = {}  CronJob = {}
  ResultTtl <- KeptForever  FailedTtl <- Kept  Blocking = {}
  Timeout = 0  Grace = 1  LeaseTtl = 2  RetryDelay = 1  BounceDelay = 0
  Ceiling = 3  Sweeper = {s1}  BatchSize = 1  Stoppable = {}  MaxUnacked = 1
SPECIFICATION Spec
CHECK_DEADLOCK FALSE
INVARIANTS NoForgottenRow
