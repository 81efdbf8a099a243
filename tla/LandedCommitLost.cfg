\* Another Git process holds the index lock.
CONSTANTS
  a = a
  b = b
  out = out
  Files = {a, b}
  Outside = {}
  Versions = {1}
  Absent = 0
  ValidMessages = {"fine"}
  InvalidMessages = {"bad"}
  PlanLists <- KnownPlans
  MaxAttempts <- Budgets
  Fallback = FALSE
  Faults = {"lock"}
  MaxTouches = 0
SPECIFICATION Spec
INVARIANTS
  LandedAreReported
CHECK_DEADLOCK FALSE
