SPECIFICATION Spec
CONSTANTS
    w1 = w1
    o1 = o1
    o2 = o2
    Wakers = {w1}
    Self = Self
    Owners = {o1, o2}
    None = None
    Shapes <- AllShapes
    MaxSlots = 2
    MaxTasks = 3
INVARIANTS NoLostWake OwedIsMarked SlabConsistent
PROPERTIES LeadRotates
