CONSTANTS
    mine = mine
    theirs = theirs
    r1 = r1
    r2 = r2
    Ecosystems = {mine, theirs}
    Owned = {mine}
    Requests = {r1, r2}
    Roles = {"USER", "AUDITOR", "ADMIN"}
    Times = {1, 2}
    MaxMoves = 5
    MaxReadings = 2
SPECIFICATION Spec
SYMMETRY RequestSymmetry
INVARIANTS
    ReadsWereAllowed
    MetricsCoverTheList
    NeverOlder
\* requests and changes are bounded: the run ends when they are used up
CHECK_DEADLOCK FALSE
