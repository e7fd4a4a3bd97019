CONSTANTS
  Kind = "server"
  Line <- MCLine
  Empty = ""
  Token = {"exit", "list", "clients"}
  Words <- MCWords
  ExitWord = "exit"
  MaxLines = 3
SPECIFICATION Spec
INVARIANTS
  TypeOK
  LinesInOrder
  CalmWords
PROPERTIES
  NoOverwrite
  ImplementsCommandQueue
CHECK_DEADLOCK FALSE
