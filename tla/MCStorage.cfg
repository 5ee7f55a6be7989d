SPECIFICATION Spec
CONSTANTS
  q1 = q1
  k1 = k1
  NoKey = NoKey
  Queues <- MCQueues
  DedupKeys <- MCKeys
  Backoffs <- MCBackoffs
  Delays <- MCDelays
  Priorities = {0}
  AttemptLimits = {2}
  StaleAfterMs = 1
  OlderThanMs = 0
  MaxJobs = 2
  MaxTime = 2
  MaxDelay = 1
  MaxLag = 1
INVARIANTS
  TypeOK
  WithinBudget
  ActiveIsReclaimable
  NoCancelInQueue
  PendingIsDue
PROPERTIES
  TerminalIsFinal
  ImplementsLifecycle
