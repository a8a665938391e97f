CONSTANTS
    None = None
    e1 = e1
    e2 = e2
    m1 = m1
    m2 = m2
    i1 = i1
    i2 = i2
    i3 = i3
    b1 = b1
    b2 = b2
    p1 = p1
    Ecosystems = {e1, e2}
    Macs = {m1, m2}
    Ids = {i1, i2, i3}
    Batches = {b1, b2}
    Edits = {p1}
    KnownVendors = {"acme"}
    MaxMoves = 3
SPECIFICATION Spec
SYMMETRY RowSymmetry
INVARIANT
    DefaultNamesDiffer
PROPERTIES
    VendorIsRight
    EveryDeviceSynced
CHECK_DEADLOCK FALSE
