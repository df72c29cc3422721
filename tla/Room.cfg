SPECIFICATION EachSpec
CONSTANTS
  Explored = {"wait", "snapshots", "messages", "places", "sessions", "commands", "reviews", "evidence", "composer", "handoffs", "restores", "reducers", "coverage", "governed_reply"}
  None = None
  Rooms = {r1, r2}
  Room = r1
  Waiters = {w1, w2}
  HistoryLimit = 2
  PageSize = 1
  MaxMessages = 2
  MaxChanges = 3
  MaxEpochs = 2
INVARIANTS
  NoSleepOverNews
  CursorNotAhead
  BrowserShowsTruth
  RoomReachesAgents
PROPERTIES
  RoomStepsSafe
CHECK_DEADLOCK FALSE
