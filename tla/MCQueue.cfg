SPECIFICATION WakesSpec
CONSTANTS
    t1 = t1
    t2 = t2
    t3 = t3
    r1 = r1
    r2 = r2
    Tasks = {t1, t2, t3}
    Capacity = 2
    Unbounded = FALSE
    MaxPushes = 4
    Modes <- AllModes
    Owner = t1
    Resources = {r1, r2}
    Order <- InOrder
    MaxGens = 2
    MaxActions = 1
    MaxChanges = 2
INVARIANTS TypeOK NoLostWakeup Orderly NeverStranded QueuedOnce NoLostRead
PROPERTIES Resolves Attended
