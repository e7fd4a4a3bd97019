CONSTANTS
  s1 = s1
  s2 = s2
  Session = {s1, s2}
  Cmd <- MCCmd
  Chunks = 2
  MaxSent = 2
  MaxInbox = 1
  MaxQueue = 2
  MaxRestarts = 1
SYMMETRY Symmetry
SPECIFICATION Spec
INVARIANTS
  TypeOK
  NoForgottenAnswer
  OwnChunksInOrder
  NothingAfterLogout
CHECK_DEADLOCK FALSE
