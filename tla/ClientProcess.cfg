CONSTANTS
  Sizes <- MCSizes
  Cuts <- MCCuts
  SockBuf = 1200
  MaxWritten = 3
SPECIFICATION FairSpec
INVARIANTS TypeOK LoggedInTogether PasswordsToServer ShownIsGenuine SurvivesCalm
PROPERTIES ImplementsFraming ReadsEnd
CHECK_DEADLOCK FALSE
