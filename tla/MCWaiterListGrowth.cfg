SPECIFICATION Spec
CONSTANTS
    Lists = {l1}
    Tasks = {t1, t2, t3}
    Waiters = {w1, w2, w3, w4, w5, w6}
    Nobody = Nobody
    PARKED = 1
    INLINE = 1
    Rounds = 2
    MaxSerial = 1
    MaxEntries = 6
SYMMETRY Sym
INVARIANTS GrowthBounded
