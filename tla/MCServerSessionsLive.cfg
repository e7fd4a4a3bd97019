CONSTANTS
  c1 = c1
  c2 = c2
  c3 = c3
  u1 = u1
  u2 = u2
  Conn = {c1, c2}
  User = {u1}
  Fd <- TwoFds
  MaxOutcomes <- GarbageMax
  NoConn = NoConn
  NoFd = NoFd
  Malformed = Malformed
  BadName = BadName
  NoLogin = NoLogin
SPECIFICATION FairSpec
PROPERTIES
  EveryRequestAnswered
  StopCompletes
