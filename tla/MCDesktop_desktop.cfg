\* One supervisor, two windows, two crashes; two changes to the notes; two updaters; two
\* commands that change a profile, two syncs and one kill.
CONSTANTS
    s1 = s1  w1 = w1  w2 = w2  None = None
    Supervisors = {s1}
    Windows = {w1, w2}
    MaxWait = 2
    MaxNodes = 6
    MaxCrashes = 2
    MaxEdits = 2
    MaxFails = 1
    Slots = {1, 2}
    NoSave = NoSave
    Updaters = {"window", "shell"}
    InWindow = "window"
    MaxVersion = 2
    MaxMishaps = 2
    NoBuild = NoBuild
    Changers = {"alice"}
    Readers = {"bob"}
    UserNames = {"roaster"}
    DefaultName = "default"
    Commands = {1, 2}
    Syncs = {1, 2}
    MaxCommands = 2
    MaxKills = 1
    NoProfile = NoProfile
    Torn = Torn
    NoRow = NoRow
    NoSync = NoSync
SPECIFICATION DesktopSpec
INVARIANT NoHiddenNode
PROPERTY YieldsToWindow
PROPERTY ResumesServing
INVARIANT EditsStick
INVARIANT CliRuns
PROPERTY SavedInTime
PROPERTY ProfilesArrive
CHECK_DEADLOCK FALSE
