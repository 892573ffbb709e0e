SPECIFICATION Spec
CONSTANTS
    Players = {p1, p2, p3}
    Items = {i1, i2, i3}
    Slots = {t1, t2}
    Nontraded = nt
    Capacity = 2
    MaxMoney = 2
    None = None
SYMMETRY Symmetry
INVARIANTS
    PairsMatch
    AcceptedIsSeen
PROPERTIES
    FairExchange
