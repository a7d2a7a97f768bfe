CONSTANTS
  Users = {u, v}
  Conns = {c1, c2}
  Fds = {5, 6}
  NoFd = NoFd
  Listener = Listener
  NoUser = NoUser
  Junk = Junk
  BalZero = TRUE
  FrameLen = 2
  HdrLen = 1
  ReadMax = 3
  MaxFrames = 3
  MaxEvents = 10
  Relogin = "any"
  Paced = FALSE
  Creds = {TRUE}
  u = u
  v = v
  c1 = c1
  c2 = c2
  Manual = FALSE
SPECIFICATION Spec
INVARIANTS TypeOK  NoStaleEvent SenderAuthentic ForwardedInOrder
SYMMETRY Symmetric
CONSTRAINT FrameBound
CHECK_DEADLOCK FALSE
