SPECIFICATION FairSpec
CONSTANTS
    m1 = m1
    m2 = m2
    r1 = r1
    r2 = r2
    Messages <- TwoMessages
    WorkerEvents <- OneWorkerEvent
    Relays <- TwoRelays
    MaxRetries = 2
    LeaseTime = 2
    MaxDelay = 1
    BatchSize = 2
    MaxFaults = 2
    MaxRows = 1
INVARIANTS TypeOK PublishedWasDelivered DeadLetterJustified DuplicatesBounded
PROPERTIES PublishedNeverWorkedAgain DeliveredOrDeadLettered
