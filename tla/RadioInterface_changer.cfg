CONSTANTS
  RI_MSG_MAX = 3
  PB_MSG_MAX = 2
  FailsMax = 1
  None = None
  Commands <- MCCommands
SPECIFICATION FairSpec
INVARIANTS
  MsgsKept
  SongsThere
  SilentWithoutCard
  StatusTells
PROPERTIES
  RemovalSeen
CHECK_DEADLOCK FALSE
