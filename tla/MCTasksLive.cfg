SPECIFICATION FairSpec
CONSTANTS
    w1 = w1
    o1 = o1
    o2 = o2
    Wakers = {w1}
    Self = Self
    Owners = {o1}
    None = None
    Shapes <- LiveShapes
    MaxSlots = 2
    MaxTasks = 2
PROPERTIES Served
