SPECIFICATION FairSpec
CONSTANTS
  a = a
  b = b
  c = c
  None = None
  Files = {a, b, c}
  Size <- Sizes
  Small = 2
  Big = 3
  NodeCount = 3
  Asked = {1, 3, 4}
  Skipped = {1, 4}
INVARIANTS InOrder BigBufferFits NodesKept CloseStops
PROPERTIES ImplementsStream CallsReturnUnfailed
CHECK_DEADLOCK FALSE
