CONSTANTS
    r1 = r1
    r2 = r2
    f1 = f1
    q1 = q1
    q2 = q2
    t1 = t1
    t2 = t2
    MaxMoves = 4
    None = None
    Refreshes = {r1, r2}
    Forms = {f1}
    Calls = {r1, r2, f1}
    Requests = {q1, q2}
    Tabs = {t1}
    Roles = {member}
    member = member
    administrator = administrator
    AccessLives = {1}
    RefreshLife = 2
    BlacklistLife = 1
    MaxClock = 1
SPECIFICATION BrowserSpec
PROPERTIES
    RequestsSettle
CHECK_DEADLOCK FALSE
