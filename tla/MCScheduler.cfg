SPECIFICATION FairSchedulerSpec
CONSTANTS
  q1 = q1
  m1 = m1
  m2 = m2
  NoKey = NoKey
  Queues <- MCQueues
  DedupKeys <- MCOccurrences
  Backoffs <- NoRetry
  Delays <- MCDelays
  Priorities = {0}
  AttemptLimits = {1}
  StaleAfterMs = 9
  OlderThanMs = 9
  MaxJobs = 4
  MaxTime = 1
  MaxDelay = 0
  MaxLag = 0
  Loops <- TwoLoops
  NumKeys = 2
  Crons = {0, 1, 2}
  SearchMinutes = 1
  MaxCatchUp = 1
  CleanupEveryTicks = 1
  Reregister = FALSE
  MaxClaims = 1
  MayFail = {m1}
INVARIANTS
  SchedulerTypeOK
  OccurrenceOnce
  NoOccurrenceSkipped
PROPERTIES
  DueIsCaughtUp
