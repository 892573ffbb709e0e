SPECIFICATION FairSpec
CONSTANTS
    Ops = {o1, o2}
    Conns = {w1, w2}
    TransSize = 2
    MaxRetry = 1
    MaxLost = 0
    AutoSetup = FALSE
    None = None
PROPERTIES
    
    CloseEnds
