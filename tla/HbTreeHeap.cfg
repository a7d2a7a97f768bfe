CONSTANTS
  Keys = {1, 2}
  Fds = {f5, f6}
  Nodes = {11, 12, 13, 14}
  NULL = NULL
  DriftBound = 3
  BalJunk <- UsedHeap
SPECIFICATION MCSpec
SYMMETRY AnyFd
INVARIANTS TypeOK SearchFinds RemovesFound
PROPERTIES ImplementsDirectory
CHECK_DEADLOCK FALSE
