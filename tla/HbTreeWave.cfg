CONSTANTS
  Keys = {1, 2, 3, 4, 5, 6}
  Fds = {5}
  Nodes = {11, 12, 13, 14, 15, 16}
  NULL = NULL
  DriftBound = 2
  BalJunk <- FreshHeap
SPECIFICATION WaveSpec
INVARIANTS LinksAgree SearchFinds
PROPERTIES InsertKeepsBalance
CHECK_DEADLOCK FALSE
