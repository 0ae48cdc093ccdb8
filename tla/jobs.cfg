SPECIFICATION FairSpec
CONSTANTS
  None = None
  j1 = j1
  j2 = j2
  j3 = j3
  key = key
  probe = probe
  replay = replay
  Jobs <- MCJobs
  KeyOf <- MCKeyOf
  TypeOf <- MCTypeOf
  Retryable <- MCRetryable
  Concurrency = 2
  PerType = 1
  MaxStarts = 3
INVARIANTS NonRetryableRunsOnce OneActivePerKey
PROPERTIES JobsSettle
CHECK_DEADLOCK FALSE
