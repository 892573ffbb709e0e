SPECIFICATION Spec
CONSTANTS
    poor = poor
    rich = rich
    away = away
    Players <- MCPlayers
    Away <- MCAway
    InitialMoney <- MCMoney
    Items = {i1}
    MailIds = {1, 2}
    Capacity = 1
    MaxPrice = 2
    Postage = 1
    Deposit = 1
    CutPercent = 50
    Buyouts = {0, 2}
    MaxSent = 1
    MaxQueue = 1
    PostToOnline = TRUE
    None = None
INVARIANT UpdateQueueSound
