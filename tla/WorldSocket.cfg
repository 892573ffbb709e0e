SPECIFICATION FairSpec
CONSTANTS
    MaxIn = 2
    MaxOut = 2
    MaxBlocks = 1
INVARIANTS
    
    
    NothingLost
    RefusalDelivered
PROPERTIES
    DataFlows
    ConnectionEnds
