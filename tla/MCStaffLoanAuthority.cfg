SPECIFICATION Spec
CONSTANTS
    c1 = c1
    c2 = c2
    w1 = w1
    w2 = w2
    Requests = {c1, c2}
    Workers = {}
    Lead = 1
    FirstEnd = 0
    MaxTime = 1
    MaxVersion = 2
    MaxAhead = 1
    MaxFaults = 0
SYMMETRY Interchangeable
PROPERTY AuthorityHeldAtCommit
