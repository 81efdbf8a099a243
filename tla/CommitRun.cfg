\* Every shape of answer beside a user who edits and stages.
CONSTANTS
  a = a
  b = b
  out = out
  Files = {a, b, out}
  Outside = {out}
  Versions = {1}
  Absent = 0
  ValidMessages = {"fine"}
  InvalidMessages = {"bad"}
  PlanLists <- AllPlans
  MaxAttempts <- Budgets
  Fallback = TRUE
  Faults = {"edit", "stage", "commit", "lock"}
  MaxTouches = 1
SPECIFICATION Spec
INVARIANTS
  OnlyRaisedErrorsLoseCommits
CHECK_DEADLOCK FALSE
