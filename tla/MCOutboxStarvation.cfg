SPECIFICATION PSpec
CONSTANTS
    m1 = m1
    m2 = m2
    m3 = m3
    r1 = r1
    Messages <- ThreeMessages
    WorkerEvents <- NoMessage
    Relays <- OneRelay
    MaxRetries = 1
    LeaseTime = 2
    MaxDelay = 2
    BatchSize = 1
    MaxFaults = 0
    MaxRows = 1
PROPERTIES DeliveredOrDeadLettered
