\* Every order of coordinator calls by three processes that may die.
CONSTANTS
  l1 = l1
  l2 = l2
  l3 = l3
  e1 = e1
  e2 = e2
  None = None
  Launchers <- MCLaunchers
  Executions <- MCExecutions
  Generations <- MCGenerations
SPECIFICATION Spec
SYMMETRY Symmetry
INVARIANTS
  RowReadable
PROPERTIES
  LiveOwnerKeepsRow
  DescriptorOutlivesOwner
  CompletionMovesForward
\* Once every process has exited nothing is left to call.
CHECK_DEADLOCK FALSE
