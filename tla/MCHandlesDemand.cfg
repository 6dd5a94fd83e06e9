SPECIFICATION HSpec
CONSTANTS
    p1 = p1
    p2 = p2
    t1 = t1
    w1 = w1
    w2 = w2
    Nobody = Nobody
    NoWaiter = NoWaiter
    Values = {0}
    InitValue = 0
    Procs = {p1, p2, t1}
    Kind <- KindDemand
    Target <- TargetDemand
    Waiters = {w1}
    Rounds = 2
    MaxVersion = 3
    Owner = p1
    MaxHandles = 1
PROPERTIES ClosedBeforeUnwanted
