SPECIFICATION WorkerSpec
CONSTANTS
  q1 = q1
  w1 = w1
  w2 = w2
  NoKey = NoKey
  Queues <- MCQueues
  DedupKeys <- MCNoKeys
  Backoffs <- Immediate
  Delays <- MCDelays
  Priorities = {0}
  AttemptLimits = {2}
  StaleAfterMs = 1
  OlderThanMs = 0
  MaxJobs = 2
  MaxTime = 1
  MaxDelay = 1
  MaxLag = 0
  Workers <- OneWorker
  Concurrency = 2
  HeartbeatMs = 1
  JobTimeouts = FALSE
  WritesFail = FALSE
  MayStall = {}
  MayCrash = {}
  MaxCrashTime = 0
INVARIANTS
  LeftoversAborted
