SPECIFICATION FairSpec
CONSTANTS
    Reviewers = {p1}
    Items = {q1}
    Kind <- MemoryOnly
    Shas = {s1}
    Ttl = 3
    StaleSeconds = 2
    MaxPostpones = 1
    Lag = 1
    OperatorLatency = 2
    MaxTime = 3
    MaxInserts = 1
CHECK_DEADLOCK FALSE
PROPERTIES
    DeadClaimReleased
    ExpiredLeaves
