\* One run, two polls a connection, two dropped connections.
CONSTANTS
  Runs = {r1}
  Watched = r1
  PageSize = 7
  Rounds = 2
  MaxDrops = 2
SPECIFICATION StreamSpec
INVARIANTS Consistent HistoryIsComplete
PROPERTIES PageLearnsTheEnd
CHECK_DEADLOCK FALSE
