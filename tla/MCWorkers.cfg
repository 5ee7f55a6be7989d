SPECIFICATION WorkerSpec
CONSTANTS
  q1 = q1
  w1 = w1
  w2 = w2
  NoKey = NoKey
  Queues <- MCQueues
  DedupKeys <- MCNoKeys
  Backoffs <- Immediate
  Delays <- MCDelays
  Priorities = {0}
  AttemptLimits = {2}
  StaleAfterMs = 2
  OlderThanMs = 0
  MaxJobs = 1
  MaxTime = 4
  MaxDelay = 1
  MaxLag = 1
  Workers <- TwoWorkers
  Concurrency = 1
  HeartbeatMs = 1
  JobTimeouts = TRUE
  WritesFail = FALSE
  MayStall = {}
  MayCrash = {w1, w2}
  MaxCrashTime = 4
SYMMETRY WorkerSymmetry
INVARIANTS
  WorkerTypeOK
  LiveRunOwnsRow
  OneRunPerJob
  NoOrphanRow
PROPERTIES
  TruthfulOutcome
