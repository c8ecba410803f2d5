SPECIFICATION Spec
CONSTANTS
    Puts = {p1, p2}
    Inputs <- InputsDef
    Before <- BeforeDef
    MaxItem = 3
    MaxPending = 2
    MaxWriter = 1
    MaxBank = 2
    MaxBytes = 4
    MaxEvents = 1
    Ttl = 1
    WrapSlots = 1
    RatePool = 1
    MainPool = 1
    MaxTime = 1
CHECK_DEADLOCK FALSE

    
    
PROPERTIES
    AdmitsWithinLimits
    
    PutsEnd
