SPECIFICATION EachSpec
CONSTANTS
  Explored = {"governed_reply"}
  None = None
  Rooms = {r1, r2}
  Room = r1
  Waiters = {w1, w2}
  HistoryLimit = 2
  PageSize = 1
  MaxMessages = 2
  MaxChanges = 3
  MaxEpochs = 2
INVARIANT RejectedRepliesStayPlainText
CHECK_DEADLOCK FALSE
