CONSTANTS
    None = None
    n1 = n1
    n2 = n2
    u1 = u1
    u2 = u2
    e1 = e1
    e2 = e2
    x1 = x1
    g1 = g1
    d1 = d1
    d2 = d2
    a1 = a1
    a2 = a2
    r1 = r1
    t1 = t1
    me = me
    p1 = p1
    p2 = p2
    m1 = m1
    m2 = m2
    MaxMoves = 3
    FewMoves = 2
    Notes = {n1, n2}
    ActionNotes = {n1}
    People = {u1, u2}
    UserRoles = {"USER", "ADMIN"}
    Owned = {e1, e2}
    Lent = x1
    Guests = {g1}
    Devices = {d1, d2}
    FirstDevice = d1
    Apis = {a1, a2}
    Readings = {r1}
    Actions = {t1}
    Limit = 1
    Sender = me
    Recipients = {p1, p2}
    Texts = {m1, m2}
SPECIFICATION Spec
INVARIANTS
    ListsAgree
    DetailsAreTheirs
    BellAgrees
    OneListener
    VerdictsAreRight
    SentAsChosen
SYMMETRY Symmetry
CHECK_DEADLOCK FALSE
