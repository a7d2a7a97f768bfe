CONSTANTS
  Users = {u}
  Conns = {c1, c2}
  Fds = {5, 6}
  NoFd = NoFd
  Listener = Listener
  NoUser = NoUser
  Junk = Junk
  BalZero = FALSE
  FrameLen = 2
  HdrLen = 1
  ReadMax = 2
  MaxFrames = 3
  MaxEvents = 10
  Relogin = "any"
  Paced = TRUE
  Creds = {TRUE, FALSE}
  u = u
  c1 = c1
  c2 = c2
  Manual = FALSE
SPECIFICATION FairSpec
INVARIANTS NoDoubleFree
PROPERTIES LoginAnswered LogoutRemovesEntry AcceptedIsRead FrameByFrame
CHECK_DEADLOCK FALSE
CONSTRAINT FrameBoundLive
