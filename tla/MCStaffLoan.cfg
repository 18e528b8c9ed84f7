SPECIFICATION Spec
CONSTANTS
    c1 = c1
    c2 = c2
    w1 = w1
    w2 = w2
    Requests = {c1}
    Workers = {w1, w2}
    Lead = 1
    FirstEnd = 1
    MaxTime = 2
    MaxVersion = 2
    MaxAhead = 0
    MaxFaults = 2
SYMMETRY Interchangeable
INVARIANTS
    TypeOK
    NotificationsBounded
PROPERTIES
    ClosedStaysClosed
