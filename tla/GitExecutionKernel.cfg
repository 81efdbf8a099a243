\* Two invocations and controllers that die, PIDs reused and identities unreadable.
CONSTANTS
  l1 = l1
  l2 = l2
  e1 = e1
  e2 = e2
  None = None
  Launchers <- TwoLaunchers
  Executions <- TwoExecutions
  Faults = {"crash", "unreadable", "reuse", "kill"}
  MaxAttempts = 2
SPECIFICATION Spec
SYMMETRY SymmetryOfTwo
INVARIANTS
  RecoveryNeverOverlaps
  Inductive
PROPERTIES
  CompletionFollowsBoundaryDeath
  StrangersAreNotSignalled
  ImplementsSingleLiveExecution
  ImplementsReconciler
\* Every invocation has ended and every boundary is dead.
CHECK_DEADLOCK FALSE
