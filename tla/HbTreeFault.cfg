CONSTANTS
  Keys = {1, 2, 3}
  Fds = {5}
  Nodes = {11, 12, 13}
  NULL = NULL
  DriftBound = 3
  BalJunk <- FreshHeap
SPECIFICATION WaveSpec
INVARIANTS NoFault
CHECK_DEADLOCK FALSE
