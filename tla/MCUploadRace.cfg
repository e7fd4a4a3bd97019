\* Another program of the user writes the files while an upload works on them.
SPECIFICATION Spec
CONSTANTS
    Token = {"a", "b", "|"}
    Sep = "|"
    MaxText = 5
    Name <- MCName
    NoFile = NoFile
    Content <- MCContent
    MaxQueue = 2
    MaxRestarts = 0
    MaxEdits = 2
PROPERTY UploadKeepsFile
CHECK_DEADLOCK FALSE
