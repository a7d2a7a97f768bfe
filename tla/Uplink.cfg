CONSTANTS
  Logins <- MCLogins
  Chats <- MCChats
  Cuts <- MCCuts
  UserLen = 5
  MaxFrames = 3
SPECIFICATION FairSpec
INVARIANTS TypeOK WholeFrames WithinBuffers NothingHeld
PROPERTIES ImplementsFraming FramesHandled
CHECK_DEADLOCK FALSE
