\* Others only add commits.
CONSTANTS
  base = base
  mine = mine
  theirs = theirs
  None = None
  Commits <- AllCommits
  Ancestry <- AllAncestry
  Destinations = {d1, d2}
  Url <- UrlOf
  Name <- OneName
  Slots = {s1, s2}
  Faults = {"lost", "refused", "crash", "move"}
SPECIFICATION Spec
SYMMETRY DestinationsAndSlots
INVARIANTS
  PublishedStaysPublished
CHECK_DEADLOCK FALSE
