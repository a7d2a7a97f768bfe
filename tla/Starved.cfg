CONSTANTS
  Users = {u, v}
  Conns = {c1, c2}
  Fds = {5, 6}
  NoFd = NoFd
  Listener = Listener
  NoUser = NoUser
  Junk = Junk
  BalZero = TRUE
  FrameLen = 2
  HdrLen = 1
  ReadMax = 2
  MaxFrames = 1
  MaxEvents = 10
  Relogin = "closed"
  Paced = TRUE
  Creds = {TRUE}
  u = u
  v = v
  c1 = c1
  c2 = c2
  Manual = TRUE
SPECIFICATION FairSpec
PROPERTIES WrittenIsRead
CHECK_DEADLOCK FALSE
