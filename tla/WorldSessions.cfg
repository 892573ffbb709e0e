SPECIFICATION Spec
CONSTANTS
    Accounts = {a1, a2, g1}
    GMs = {g1}
    Sessions = {s1, s2, s3}
    Limits = {0, 1}
    Tolerance = 0
    MaxTime = 0
    ExpireTicks = 1
    None = None
SYMMETRY MCSymmetry
INVARIANTS
    ListsSound
    NoQueueSkipping
    InQueueCleared

    
