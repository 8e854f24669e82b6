SPECIFICATION Spec
CONSTANTS
    Workers = {w1}
    Owners = {o1}
    MaxJobs = 1
    MaxAttempts = 2
    Lease = 2
    GenerationTimeout = 1
    CommitDelay = 1
    Retention = 1
    MaxCrashes = 0
INVARIANTS
    RunsUntilCancelled
