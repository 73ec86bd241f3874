\* Walks backwards as the schema describes them.
CONSTANTS
  Ids = {1, 2, 3}
  Name <- MCName
  Dirs = {"back"}
  BeforeCursor = "startCursor"
  Orders = {"none"}
  Sizes <- MCSizes
  DefSize = 2
  MaxSize = 3
SPECIFICATION FairSpec
PROPERTY NothingRepeated
CHECK_DEADLOCK FALSE
