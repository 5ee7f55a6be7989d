SPECIFICATION SchedulerSpec
CONSTANTS
  q1 = q1
  m1 = m1
  m2 = m2
  NoKey = NoKey
  Queues <- MCQueues
  DedupKeys <- MCOccurrences
  Backoffs <- NoRetry
  Delays <- MCDelays
  Priorities = {0}
  AttemptLimits = {1}
  StaleAfterMs = 9
  OlderThanMs = 9
  MaxJobs = 3
  MaxTime = 2
  MaxDelay = 0
  MaxLag = 0
  Loops <- OneLoop
  NumKeys = 1
  Crons = {1, 2}
  SearchMinutes = 2
  MaxCatchUp = 2
  CleanupEveryTicks = 1
  Reregister = TRUE
  MaxClaims = 1
  MayFail = {}
PROPERTIES
  TicksOnlyAdvance
