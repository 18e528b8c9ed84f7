SPECIFICATION Spec
CONSTANTS
    m1 = m1
    m2 = m2
    r1 = r1
    r2 = r2
    Messages <- OneMessage
    WorkerEvents <- NoMessage
    Relays <- TwoRelays
    MaxRetries = 2
    LeaseTime = 2
    MaxDelay = 1
    BatchSize = 1
    MaxFaults = 0
    MaxRows = 1
INVARIANTS LeasePreventsDuplicates
