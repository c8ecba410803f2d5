SPECIFICATION Spec
CONSTANTS
    Replicas = {r1, r2}
    Sessions = {s1, s2}
    Buckets = {"short", "long"}
    i = i
    j = j
    Identities = {i, j}
    Charges <- MCCharges
    Window <- MCWindow
    Maximum <- MCMaximum
    IdWindow = 3
    IdMaximum = 1
    SweepEvery = 2
    TxDelay = 1
    MaxTime = 3
SYMMETRY Symmetry
CHECK_DEADLOCK FALSE
INVARIANTS
    LimitsRespected
