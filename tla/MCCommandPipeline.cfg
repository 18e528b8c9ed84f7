SPECIFICATION FairSpec
CONSTANTS
    a = a
    b = b
    q1 = q1
    q2 = q2
    Operations = {a, b}
    Requests = {q1, q2}
    LifecycleOps <- Lifecycle
    AuthorityOps <- Authority
    None = None
INVARIANTS
    TypeOK
    AppliedOnce
    NothingOverwritten
    VersionsContiguous
    AnswersDurable
    BroadcastsBounded
PROPERTIES
    WritesWhatWasExpected
    ImplementsLog
    RequestsEnd
