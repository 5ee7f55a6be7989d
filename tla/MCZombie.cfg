SPECIFICATION WorkerSpec
CONSTANTS
  q1 = q1
  w1 = w1
  w2 = w2
  NoKey = NoKey
  Queues <- MCQueues
  DedupKeys <- MCNoKeys
  Backoffs <- Immediate
  Delays <- MCDelays
  Priorities = {0}
  AttemptLimits = {2}
  StaleAfterMs = 1
  OlderThanMs = 0
  MaxJobs = 1
  MaxTime = 3
  MaxDelay = 1
  MaxLag = 0
  Workers <- TwoWorkers
  Concurrency = 1
  HeartbeatMs = 1
  JobTimeouts = FALSE
  WritesFail = FALSE
  MayStall = {w1}
  MayCrash = {}
  MaxCrashTime = 0
PROPERTIES
  ZombieCannotWrite
