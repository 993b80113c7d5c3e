CONSTANTS
    h1 = h1
    h2 = h2
    NoRec = NoRec
    NoSess = NoSess
    Ids <- MCIds1
    FileIdx <- MCFileIdx1
    VideoFiles <- MCVideoFiles
    MaxRows = 2
    MaxCrashes = 0
    MaxSelects = 1
    MaxRequests = 1
    MaxDiskSpace = 1
    MaxCleanupAttempts = 10
SPECIFICATION Spec
PROPERTY FinishedDownloadRecorded
PROPERTY CleanupTerminates
PROPERTY SessionsRecorded
PROPERTY StoredProgressConverges
