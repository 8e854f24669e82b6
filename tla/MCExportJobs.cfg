SPECIFICATION MCSpec
CONSTANTS
    w1 = w1
    w2 = w2
    Workers <- MCWorkers
    Owners = {o1}
    MaxJobs = 1
    MaxAttempts = 2
    Lease = 2
    GenerationTimeout = 1
    CommitDelay = 3
    Retention = 1
    MaxCrashes = 1
INVARIANTS
    OutcomeByLastClaim
    PromptlyReadyHasArchive
PROPERTIES
    EndedStaysEnded
    EveryJobEnds
    OutcomesAcknowledged
    OrphansRemoved
