SPECIFICATION Spec
CONSTANTS
    r1 = r1
    r2 = r2
    Readers = {r1, r2}
    FIRST_SEGMENT = 1
    MAX_SEGMENT = 2
    MaxEnd = 3
    MaxSegments = 2
SYMMETRY ReaderSymmetry
INVARIANTS MemorySafe DroppedExactlyOnce WriterFinds
PROPERTIES AnswersTrue
