CONSTANTS
  QueuedMax = 3
  None = None
  Freed = Freed
  RI_MSG_MAX = 2
  Files <- MCFiles
SPECIFICATION Spec
INVARIANTS
  SongsInTree
  NoneDangling
PROPERTIES
  NextIsSuccessor
  KeepsHistory
CHECK_DEADLOCK FALSE
