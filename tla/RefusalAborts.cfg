CONSTANTS
  Users = {u, v}
  Conns = {c1, c2}
  Fds = {5, 6}
  NoFd = NoFd
  Listener = Listener
  NoUser = NoUser
  Junk = Junk
  BalZero = TRUE
  FrameLen = 2
  HdrLen = 1
  ReadMax = 4
  MaxFrames = 2
  MaxEvents = 10
  Relogin = "closed"
  Paced = TRUE
  Creds = {TRUE, FALSE}
  u = u
  v = v
  c1 = c1
  c2 = c2
  Manual = TRUE
SPECIFICATION Spec
INVARIANTS RefusalReturnsToInitial
SYMMETRY Symmetric
CHECK_DEADLOCK FALSE
