\* Edits at any time and noticed late, a session dropped, a state file lost.
CONSTANTS
    d1 = d1  d2 = d2  d3 = d3  s1 = s1  s2 = s2  NoRecord = NoRecord  NoSession = NoSession
    Devices = {d1, d2}
    Paths = {1}
    Sessions = {s1}
    WatcherIsPrompt = FALSE
    EditsDuringSync = TRUE
    MaxEdits = 3
    MaxStamp = 14
    MaxDrops = 1
    MaxLosses = 1
SPECIFICATION FairSpec
PROPERTY EventuallyMirrored
