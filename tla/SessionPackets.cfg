SPECIFICATION FairSpec
CONSTANTS
    Kinds = {"safe", "unsafe", "inplace", "logout", "cancel"}
    MaxProcessed = 1
    MaxLogins = 2
    MaxPackets = 2
    MaxTeleports = 2
INVARIANTS
    InOrder
PROPERTIES
    NoStalePacket
    EagerPacketsKept
    
