SPECIFICATION FairWorkerSpec
CONSTANTS
  q1 = q1
  w1 = w1
  w2 = w2
  NoKey = NoKey
  Queues <- MCQueues
  DedupKeys <- MCNoKeys
  Backoffs <- Delayed
  Delays <- MCDelays
  Priorities = {0}
  AttemptLimits = {2}
  StaleAfterMs = 1
  OlderThanMs = 9
  MaxJobs = 2
  MaxTime = 1
  MaxDelay = 1
  MaxLag = 0
  Workers <- OneWorker
  Concurrency = 2
  HeartbeatMs = 1
  JobTimeouts = TRUE
  WritesFail = TRUE
  MayStall = {}
  MayCrash = {}
  MaxCrashTime = 0
INVARIANTS
  PermitsConserved
  LeftoversAborted
  StoppedIsQuiet
PROPERTIES
  StopTerminates
  CancelEndsRun
