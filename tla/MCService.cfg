SPECIFICATION MCSpec
CONSTANTS
    Requests = {p1, p2, p3}
    Maximum = 1
    Lease = 12
    RetryCap = 4
    AcquireDelay = 1
    Scans = {s1, s2}
    Pools = {w1, w2}
    Replicas = {r1, r2, r3}
    Tasks = {t1, t2, t3}
CHECK_DEADLOCK FALSE
INVARIANTS
    RunningWithinMaximum
    SlotsAccountedFor
    StoppedMeansStopped
    ReadyMeansIndexed
    MemoryWindowRespected
    IdentityExclusive
PROPERTIES
    PlaceComesBack
    ReplicasComeUp
