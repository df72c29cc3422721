SPECIFICATION RoomsSpec
CONSTANTS
  Explored = {"browser", "memory", "replies", "scheduler", "evidence"}
  NoValue = NoValue
PROPERTY RoomsProgress
CHECK_DEADLOCK FALSE
