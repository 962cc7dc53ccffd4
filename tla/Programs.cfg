SPECIFICATION FairSpec
CONSTANTS
  MaxUp = 2
  MaxDown = 3
  Timeouts = TRUE
  Iterations = 5
  Sizes = {0, 1, 3}
  Room = 2
  MaxEdits = 2
  LineSize = 3
  MaxKeys = 7
  BlockCount = 3
  Threads = {"t1", "t2", "t3"}
  MaxAllocs = 6
  Writers = {w1, w2, w3}
  Capacity = 2
  MaxSize = 2
  MaxCount = 2
  MaxEntries = 6
  MaxRotates = 1
  OpenFails = TRUE
INVARIANTS ReplyComplete  KeysInOrder ListsPartition 
PROPERTIES BenchReturns CloseReturnsIfHeard
CHECK_DEADLOCK FALSE
