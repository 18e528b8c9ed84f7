CONSTANTS
    e1 = e1
    e2 = e2
    bad = bad
    Rows <- ThreeRows
    Malformed <- OnlyBad
    Corrupt = {}
    Refusals <- ThreeDeployments
    MaxAttempts = 2
    LeaseTime = 1
    MaxDelay = 1
    BatchSize = 2
    MaxFaults = 1
SPECIFICATION FairSpec
INVARIANTS
    TypeOK
    PublishedIsSettled
    DeadLetterJustified
    RepeatsBounded
    DeadLettersBounded
PROPERTIES RowsSettle
