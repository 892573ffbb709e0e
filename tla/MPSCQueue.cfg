SPECIFICATION FairSpec
CONSTANTS
    Producers = {p1, p2, p3}
    Nodes = {n1, n2, n3}
    MaxItems = 2
    Nil = Nil
INVARIANTS
    NoUseAfterFree
PROPERTIES
    FifoSpec
    AllDelivered
