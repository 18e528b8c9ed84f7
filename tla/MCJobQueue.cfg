SPECIFICATION FairSpec
CONSTANTS
    j1 = j1
    j2 = j2
    w1 = w1
    w2 = w2
    Jobs <- TwoJobs
    Workers <- TwoWorkers
    MaxRetries = 2
    LeaseTime = 1
    MaxDelay = 1
    BatchSize = 2
    MaxCrashes = 1
INVARIANTS TypeOK LeaseExclusive DeadLetterExhausted RunsPaidByAttempts
PROPERTIES SettledIsFinal SettledByLatestAttempt JobsSettle
