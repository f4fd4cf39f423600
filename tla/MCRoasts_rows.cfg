\* One peer, one file and three contents; two edits, two pushing processes, one lost
\* answer, one kill, one pairing and one removal.
CONSTANTS
    Me = me
    Peers = {p1}
    Paths = {f1}
    Contents = {1, 2, 3}
    None = None
    SharedBytes = FALSE
    EditsRace = FALSE
    MaxLog = 3
    me = me  p1 = p1  f1 = f1
    owner = owner  device = device  roast = roast  watch = watch  cli = cli
    NoEdit = NoEdit
    Devices = {owner, device}
    Owner = owner
    Roasts = {roast}
    Posted <- TheRoast
    Edits = {1, 2}
    By <- ByTheDevice
    Of <- OfTheRoast
    Pushers = {watch, cli}
    On <- OnTheDevice
    StagesMeanwhile = FALSE
    MaxLost = 1
    MaxKilled = 1
    MaxPairings = 1
    MaxRemovals = 1
SPECIFICATION RoastsSpec
INVARIANT RowNamesItsEntry
INVARIANT LatestIsShown
INVARIANT TrustIsConsent
INVARIANT NoEditLost
PROPERTY EditsEventuallyApplied
CHECK_DEADLOCK FALSE
