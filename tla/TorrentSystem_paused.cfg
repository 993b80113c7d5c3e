CONSTANTS
    h1 = h1
    h2 = h2
    NoRec = NoRec
    NoSess = NoSess
    Ids <- MCIds1
    FileIdx <- MCFileIdx
    VideoFiles <- MCVideoFiles
    MaxRows = 2
    MaxCrashes = 0
    MaxSelects = 1
    MaxRequests = 2
    MaxDiskSpace = 8
    MaxCleanupAttempts = 10
SPECIFICATION Spec
INVARIANT PausedRecordNotRunning
