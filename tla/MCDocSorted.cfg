\* Walks of lists that are sorted by name or by creation, newest first.
CONSTANTS
  Ids = {1, 2, 3, 4, 5}
  Name <- MCName
  Dirs = {"forw"}
  BeforeCursor = "endCursor"
  Orders = {"none", "created_at asc", "created_at desc", "name asc", "name desc"}
  Sizes <- MCSizes
  DefSize = 2
  MaxSize = 3
SPECIFICATION FairSpec
INVARIANT EverythingListed
CHECK_DEADLOCK FALSE
