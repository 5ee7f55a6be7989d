SPECIFICATION EndingHandlersSpec
CONSTANTS
  q1 = q1
  w1 = w1
  w2 = w2
  NoKey = NoKey
  Queues <- MCQueues
  DedupKeys <- MCNoKeys
  Backoffs <- Immediate
  Delays <- MCDelays
  Priorities = {0}
  AttemptLimits = {2}
  StaleAfterMs = 1
  OlderThanMs = 9
  MaxJobs = 1
  MaxTime = 2
  MaxDelay = 1
  MaxLag = 0
  Workers <- TwoWorkers
  Concurrency = 1
  HeartbeatMs = 1
  JobTimeouts = FALSE
  WritesFail = FALSE
  MayStall = {}
  MayCrash = {w1}
  MaxCrashTime = 0
PROPERTIES
  EveryJobEnds
