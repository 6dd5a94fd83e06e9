SPECIFICATION FairSpec
CONSTANTS
    t1 = t1
    t2 = t2
    s1 = s1
    None = None
    Tasks = {t1, t2}
    Sources = {s1}
    MaxReady = 2
PROPERTIES
    Resolves
INVARIANTS
    NoLostWake
    NoWakeUnderLock
