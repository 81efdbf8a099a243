\* Locks, foreign commits and crashes, with fair commands.
CONSTANTS
  a = a
  b = b
  out = out
  Files = {a, b}
  Outside = {}
  Versions = {1}
  Absent = 0
  ValidMessages = {"fine"}
  InvalidMessages = {"bad"}
  PlanLists <- FewPlans
  MaxAttempts <- Budgets
  Fallback = TRUE
  Faults = {"stage", "history", "lock", "crash", "read"}
  MaxTouches = 1
SPECIFICATION FairSpec
INVARIANTS
  DelegationsAreBounded
  CommitsHoldTheirPlan
  SuccessMeansCommitted
PROPERTIES
  RunEnds
CHECK_DEADLOCK FALSE
