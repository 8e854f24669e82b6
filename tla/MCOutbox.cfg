SPECIFICATION MCSpec
CONSTANTS
  j1 = j1
  j2 = j2
  w1 = w1
  w2 = w2
  Jobs <- MCJobs
  Workers <- MCWorkers
  MaxAttempts = 2
  MaxRenewals = 2
  MaxFaults = 1
  None = None
PROPERTIES KeepsPromise NoNeedlessDuplicate MessagesSettle
CHECK_DEADLOCK FALSE
