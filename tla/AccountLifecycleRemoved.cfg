CONSTANTS
    c1 = c1
    c2 = c2
    c3 = c3
    c4 = c4
    c5 = c5
    None = None
    Calls = {c1, c2, c3, c4}
    MaxInFlight = 2
SPECIFICATION Spec
INVARIANTS
    RemovedStaysOut
\* a finite set of calls: the run ends when all are over
CHECK_DEADLOCK FALSE
