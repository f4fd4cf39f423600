\* Edits are noticed at once and made while no session runs; one session at a time.
CONSTANTS
    d1 = d1  d2 = d2  d3 = d3  s1 = s1  s2 = s2  NoRecord = NoRecord  NoSession = NoSession
    Devices = {d1, d2, d3}
    Paths = {1, 2}
    Sessions = {s1}
    WatcherIsPrompt = TRUE
    EditsDuringSync = FALSE
    MaxEdits = 3
    MaxStamp = 6
    MaxDrops = 0
    MaxLosses = 0
SPECIFICATION Spec
PROPERTY NewestWins
