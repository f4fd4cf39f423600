\* Four honest nodes, one of them flaky, a crowd of three on one network, a liar.
CONSTANTS
    NoReply = NoReply  Nobody = Nobody
    Ids = {0, 1, 2, 3, 4, 5, 6, 7, 8, 9}
    Addrs = {1, 2, 3, 4, 5, 6, 7, 8, 9, 10}
    Prefix <- CrowdPrefix
    Exempt = {}
    Martian = {10}
    Impossible = {0}
    Contested <- CrowdContested
    Answers <- CrowdAnswers
    Bootstrap <- CrowdBootstrap
    Seeds <- CrowdSeeds
    SlotLimit = 6
    K = 2
    MaxPerPrefix = 2
    MaxPinged = 3
    Inflight = 2
    MaxRounds = 20
    Timeout = 1
    Retransmit = 2
SPECIFICATION Spec
INVARIANT NearestAnnounced
INVARIANT NothingForged
