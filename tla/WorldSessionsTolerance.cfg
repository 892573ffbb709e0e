SPECIFICATION Spec
CONSTANTS
    Accounts = {a1, a2}
    GMs = {}
    Sessions = {s1, s2, s3}
    Limits = {1}
    Tolerance = 1
    MaxTime = 2
    ExpireTicks = 1
    None = None
SYMMETRY MCSymmetry
INVARIANT
    ToleranceExpires
