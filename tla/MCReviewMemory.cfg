SPECIFICATION Spec
CONSTANTS
    Reviewers = {p1, p2}
    Items = {q1}
    Kind <- MemoryOnly
    Shas = {s1}
    Ttl = 2
    StaleSeconds = 2
    MaxPostpones = 1
    Lag = 1
    OperatorLatency = 2
    MaxTime = 3
    MaxInserts = 1
SYMMETRY Symmetry
CHECK_DEADLOCK FALSE
INVARIANTS
    CheckpointTruthful
PROPERTIES
    DecisionsStand
    ImplementsContract
