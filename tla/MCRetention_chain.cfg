SPECIFICATION FairSpec
CONSTANTS
    a = a
    b = b
    m = m
    Unknown = Unknown
    Nodes = {a, b, m}
    Reach <- Chain
    Budget <- Tight
    Size <- OneEach
    Dist <- Distances
    MaxAcquire = 2
    MaxHolders = 2
    MaxKnown <- RoomForAll
    MaxLen = 2
    AtStart <- OneButB
    MayPublish <- OncePlus
    MayChoose <- FanOfA
PROPERTY RarestIsKept
PROPERTY EventuallyHeld
