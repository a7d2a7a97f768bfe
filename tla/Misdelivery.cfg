CONSTANTS
  Users = {u, v}
  Conns = {c1, c2, c3}
  Fds = {5, 6}
  NoFd = NoFd
  Listener = Listener
  NoUser = NoUser
  Junk = Junk
  BalZero = TRUE
  FrameLen = 2
  HdrLen = 1
  ReadMax = 4
  MaxFrames = 2
  MaxEvents = 10
  Relogin = "any"
  Paced = TRUE
  Creds = {TRUE}
  u = u
  v = v
  c1 = c1
  c2 = c2
  c3 = c3
  Manual = TRUE
SPECIFICATION Spec
PROPERTIES DeliveredToAddressee
SYMMETRY Symmetric
CHECK_DEADLOCK FALSE
