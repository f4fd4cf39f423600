CONSTANTS
    Bits = 2
    OwnIds = {0, 2}
    Addrs = {1, 2, 3}
    Ip <- TheIps
    Exempt = {}
    Claims <- TheClaims
    Named <- TheNamed
    Faulty <- TheFaulty
    Alive <- TheAlive
    NoNode = NoNode
    BucketMax = 2
    K = 1
    GoodPings = 0
    EvictPings = 1
    Queriers = {q1, q2}
    NoToken = NoToken
    MinRotate = 2
    MaxRotate = 4
    PeerExpiry = 3
    MaxPeersReply = 1
    Ips = {"home", "cafe"}
    Lie = "lie"
    Honest = {h1, h2, h3}
    Liars = {l1}
    NoIp = "none"
    Quorum = 2
    RotateAfter = 6
    ForwardedPorts = {1, 2}
    NoPort = 0
    AutoPort = TRUE
    MaxChanges = 1
    Sources = {s1, s2}
    Capacity = 2
    PerToken = 2
    Burst = 3
    Window = 2
    Block = 3
    TrackLimit = 1
    MaxNow = 6
SPECIFICATION Spec
INVARIANT SplitAroundSelf
INVARIANT TokenGrace
INVARIANT TellsWhoAnnounced
INVARIANT LiarsDoNotMoveUs
INVARIANT AtMostRate
INVARIANT QuietIsHeard
PROPERTY GoodNodeStays
PROPERTY TableAnsweringGetsIn
PROPERTY NodeFindableAgain
