SPECIFICATION FairSpec
CONSTANTS
    p1 = p1
    t1 = t1
    t2 = t2
    w1 = w1
    w2 = w2
    Nobody = Nobody
    NoWaiter = NoWaiter
    Values = {0, 1}
    InitValue = 0
    Procs = {p1, t1, t2}
    Kind <- KindWatch
    Target <- TargetWatch
    Waiters = {w1, w2}
    Rounds = 2
    MaxVersion = 7
INVARIANTS NoLostWakeup NoSleepWhileReady HoldsProvesParked NoLostClose
PROPERTIES ClosedIsFinal OnlyCloseWakesClosed Delivered
