\* One supervisor, one window, no crash; the other parts as in MCDesktop_desktop.cfg.
CONSTANTS
    s1 = s1  w1 = w1  w2 = w2  None = None
    Supervisors = {s1}
    Windows = {w1}
    MaxWait = 2
    MaxNodes = 4
    MaxCrashes = 0
    MaxEdits = 2
    MaxFails = 1
    Slots = {1, 2}
    NoSave = NoSave
    Updaters = {"window", "shell"}
    InWindow = "window"
    MaxVersion = 2
    MaxMishaps = 2
    NoBuild = NoBuild
    Changers = {"alice"}
    Readers = {"bob"}
    UserNames = {"roaster"}
    DefaultName = "default"
    Commands = {1, 2}
    Syncs = {1, 2}
    MaxCommands = 2
    MaxKills = 1
    NoProfile = NoProfile
    Torn = Torn
    NoRow = NoRow
    NoSync = NoSync
SPECIFICATION DesktopSpec
INVARIANT OneNode
CHECK_DEADLOCK FALSE
