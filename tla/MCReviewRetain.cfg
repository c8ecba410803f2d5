SPECIFICATION Spec
CONSTANTS
    Reviewers = {p1, p2}
    Items = {q1}
    Kind <- RetainOnly
    Shas = {s1, s2}
    Ttl = 2
    StaleSeconds = 1
    MaxPostpones = 0
    Lag = 0
    OperatorLatency = 1
    MaxTime = 2
    MaxInserts = 2
SYMMETRY Symmetry
CHECK_DEADLOCK FALSE
INVARIANTS
    
    ClaimExclusive
    EffectAccountedFor
    AtMostOneCall
PROPERTIES
    DeletionSafe
