SPECIFICATION FairSpec
CONSTANTS
    c1 = c1
    b1 = b1
    i1 = i1
    i2 = i2
    NoMap = NoMap
    Continents = {c1}
    BaseMaps = {b1}
    Instances = {i1, i2}
    TestMaps = {i1}
    Base <- MCBase
    LoopWorkers = {l1, l2}
    OnceWorkers = {o1, o2}
INVARIANTS
    TypeOK
    MapExclusion
    WorldExclusion
    RequestsExist
    PendingCounts
    OnceParallel
PROPERTIES
    CycleSpec
    WaitsEnd
