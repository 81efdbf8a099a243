\* Two invocations with fair event loops and handshakes that may time out, of
\* which the first one may be cancelled, or else both may die.
CONSTANTS
  l1 = l1
  l2 = l2
  e1 = e1
  e2 = e2
  None = None
  Launchers <- TwoLaunchers
  Executions <- TwoExecutions
  Faults = {"crash", "cancel", "timeout"}
  MaxAttempts = 2
SPECIFICATION DisturbedSpec
PROPERTIES
  PendingRequestIsAnswered
  EveryInvocationEnds
  AbandonedControllerEnds
\* Every invocation has ended and every boundary is dead.
CHECK_DEADLOCK FALSE
