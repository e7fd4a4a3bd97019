SPECIFICATION FairSpec
CONSTANTS
    Token = {"a", "b", "|"}
    Sep = "|"
    MaxText = 5
    Name <- MCName
    NoFile = NoFile
    Content <- MCContent
    MaxQueue = 2
    MaxRestarts = 1
    MaxEdits = 2
INVARIANTS
    TypeOK
    NoWatcherAfterExit
    ReadOrDropped
PROPERTIES
    UploadKeepsRead
    ExitEnds
CHECK_DEADLOCK FALSE
