CONSTANTS
    c1 = c1
    c2 = c2
    c3 = c3
    c4 = c4
    c5 = c5
    Calls = {c1, c2, c3}
    Roles = {viewer, editor}
    viewer = viewer
    editor = editor
    MaxInFlight = 2
SPECIFICATION Spec
PROPERTIES
    AnsweredOnce
\* a finite set of calls: the run ends when all are over
CHECK_DEADLOCK FALSE
