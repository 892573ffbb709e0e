SPECIFICATION Spec
CONSTANTS
    Ops = {o1, o2}
    Conns = {w1, w2}
    TransSize = 2
    MaxRetry = 2
    MaxLost = 2
    AutoSetup = TRUE
    None = None
SYMMETRY MCSymmetry
INVARIANTS
    OneOwner
    OneRetrier
    AtomicTransactions
    CallbackOnce
    ConnectionAlive
