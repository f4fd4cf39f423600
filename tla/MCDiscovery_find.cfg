CONSTANTS
    Nodes = {"h", "a", "b"}
    Graphs <- TheGraphs
    Natted = {"a"}
    Sends = 2
    CacheSize = 2
    MaxKnownPeers = 2
    NoTask = NoTask
    Restarts = {"b"}
    MaxFaults = 1
    Hosts = {"x", "y"}
    ListenSteps = 2
    MaxMishaps = 2
    Owners = {"n", "m"}
    Others = {"s", "t", "u"}
    Dials <- TheDials
    Limit = 3
    MaxAge = 2
    Internal = 1
    Random = {2, 3}
    Lease = 4
    RetryAfter = 1
    RecheckAfter = 4
    MaxConflicts = 2
    NoPort = NoPort
    NoRequest = NoRequest
SPECIFICATION Spec
INVARIANT Introduced
INVARIANT FloodDisplacesNobody
INVARIANT KeepsForwarding
INVARIANT LeavesNothingBehind
PROPERTY HostDialsWhoServes
PROPERTY NodesHearAgainAndAgain
