\* Every fault at once, with fair commands and servers.
CONSTANTS
  base = base
  mine = mine
  theirs = theirs
  None = None
  Commits <- AllCommits
  Ancestry <- AllAncestry
  Destinations = {"d1"}
  Url <- UrlOf
  Name <- OneName
  Slots = {1, 2}
  Faults = {"local", "read", "connect", "lost", "refused", "crash", "move", "rewrite"}
SPECIFICATION FairSpec
INVARIANTS
  RetriesAreCounted
PROPERTIES
  BranchMovesForward
  RunsEnd
  CommitsGetPublished
CHECK_DEADLOCK FALSE
