CONSTANTS
    None = None
    e1 = e1
    r1 = r1
    r2 = r2
    o1 = o1
    o2 = o2
    Ecosystems = {e1}
    Requests = {r1, r2}
    Operations = {o1, o2}
    PositiveTtl = 2
    NegativeTtl = 1
    MaxClock = 3
    MaxMoves = 5
SPECIFICATION Spec
SYMMETRY SlotSymmetry
PROPERTIES
    RemovedKeyEnds
    RefusalHasCause
CHECK_DEADLOCK FALSE
