SPECIFICATION SongFairSpec
CONSTANTS
  Nodes = {n1, n2, n3, n4}
  NODE_COUNT = 3
  IDLE_QUEUE_SIZE = 10
  Players = {"mp3", "flac"}
  DoublesMax = 1
  Frames = 4
  NoNode = NoNode
INVARIANTS NodesOwned SongLeavesNothing
PROPERTY SongReturns
CHECK_DEADLOCK FALSE
