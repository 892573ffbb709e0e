SPECIFICATION FairSpec
CONSTANTS
    Accounts = {a1, a2}
    GMs = {}
    Sessions = {s1, s2}
    Limits = {1}
    Tolerance = 1
    MaxTime = 1
    ExpireTicks = 2
    None = None
PROPERTIES
    ClosedSessionsGo
