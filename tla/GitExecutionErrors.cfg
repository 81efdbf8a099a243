\* Two invocations whose calls fail, whose signals come, whose handshakes
\* stall, and whose dead controllers' numbers are used again.
CONSTANTS
  l1 = l1
  l2 = l2
  e1 = e1
  e2 = e2
  None = None
  Launchers <- TwoLaunchers
  Executions <- TwoExecutions
  Faults = {"cancel", "uncaught", "io", "timeout", "reuse"}
  MaxAttempts = 2
SPECIFICATION Spec
SYMMETRY SymmetryOfTwo
INVARIANTS
  SingleLiveGitExecution
  CompletionIsEarned
\* Every invocation has ended and every boundary is dead.
CHECK_DEADLOCK FALSE
