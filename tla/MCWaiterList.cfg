SPECIFICATION Spec
CONSTANTS
    Lists = {l1, l2}
    Tasks = {t1, t2}
    Waiters = {w1, w2, w3}
    Nobody = Nobody
    PARKED = 1
    INLINE = 1
    Rounds = 2
    MaxSerial = 3
    MaxEntries = 2
SYMMETRY Sym
INVARIANTS RecordProvesEntry NoDuplicates
PROPERTIES ImplementsRegistry
