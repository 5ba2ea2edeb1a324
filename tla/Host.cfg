SPECIFICATION Spec
CONSTANTS
    Versions <- MCVersions
    Current <- MCCurrent
    MaxApplies = 4
    c1 = c1
    c2 = c2
    c3 = c3
    Sessions = {1, 2}
    Contexts = {c1, c2, c3}
    NoContext = NoContext
    Threads = {1, 2}
    Objects = {1, 2, 3}
    Nowhere = 0
    MaxHeld = 3
    Settings = {"locale", "retention", "bytes"}
    Locale = "locale"
    Default <- MCDefault
    Values = {0, 1, 3}
    Width = 4
    NoFile = NoFile
    MaxTurns = 4
    Callers = {1, 2}
    MaxItems = 1
    MaxDepth = 6
    MaxInits = 3
    FirstLength = 3
    BufferSize = 2
    MaxAppends = 1
INVARIANTS Recoverable CheckIsRight CurrentIsAlive UnloadIsSafe SettingsKept ThreadsLeftAsFound OverwrittenWhenDone
CHECK_DEADLOCK FALSE
