\* Walks in the order of the ids, with rows inserted and deleted meanwhile; also
\* backwards, from the last row that came and not from startCursor.
CONSTANTS
  Ids = {1, 2, 3, 4, 5}
  Name <- MCName
  Dirs = {"forw", "back"}
  BeforeCursor = "endCursor"
  Orders = {"none"}
  Sizes <- MCSizes
  DefSize = 2
  MaxSize = 3
SPECIFICATION FairSpec
INVARIANTS TypeOK NothingSkipped
PROPERTIES PagesInOrder NextPageTold WalkEnds
CHECK_DEADLOCK FALSE
