SPECIFICATION RxSpec
CONSTANTS
  IBUS_PHYSICAL_RX_MSG_MAX = 2
  IBUS_MAX_MESSAGE_SIZE = 3
  FrameMax = 5
  NoMsg = NoMsg
INVARIANTS RxOnePlace OkMeansWhole
CHECK_DEADLOCK FALSE
