SPECIFICATION Spec
CONSTANTS
    None = None
    g1 = g1
    g2 = g2
    ann = ann
    bob = bob
    Generations = {g1, g2}
    Subjects = {ann, bob}
    Members <- Known
    Logins = {t1, t2, t3}
    Exchanges = {e1, e2, e3}
    LoginTtl = 1
    SessionTtl = 1
    MaxLogins = 2
    MaxSessions = 2
    MaxPersonal = 1
    ProviderSlots = 2
    MaxEpoch = 3
SYMMETRY Symmetry
CHECK_DEADLOCK FALSE
INVARIANTS
    LoginUsedOnce
    SessionsCurrent
    CapsRespected
