CONSTANTS
  Kind = "client"
  Line <- MCLine
  Empty = ""
  Token = {"exit", "list", "clients"}
  Words <- MCWords
  ExitWord = "exit"
  MaxLines = 2
SPECIFICATION FairSpec
PROPERTY LineIsRead
CHECK_DEADLOCK FALSE
