CONSTANTS
    a1 = a1
    a2 = a2
    Actions = {a1, a2}
    Keyed = {a1}
    MaxRetries = 3
SPECIFICATION ActionsSpec
INVARIANT
    OneRecord
PROPERTY
    ImplementsTrail
\* each action runs once: the run ends when all are over
CHECK_DEADLOCK FALSE
