SPECIFICATION FairSpec
CONSTANTS
    Char = {"a", "b"}
    Other = {"."}
    Enter = "enter"
    Erase = "erase"
    MaxKeys = 4
INVARIANT TypeOK
PROPERTIES
    ImplementsLineEditor
    OlderKeysHandled
    CleanupEnds
CHECK_DEADLOCK FALSE
