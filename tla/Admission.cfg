\* Two launchers, the migration, an old worker that writes twice.
CONSTANTS
  l1 = l1
  l2 = l2
  None = None
  Migrator = Migrator
  Launchers <- TwoLaunchers
  Executions = {}
  Orders = {"order"}
  LockFile = "lock"
  MaxWrites = 2
  Faults = {"crash", "io"}
SPECIFICATION FairSpec
INVARIANTS
  NotOpenedWhileMoving
  ResidueIsAnswered
  PassesFollowExactArchive
PROPERTIES
  NeverSplit
  LaunchersEnd
\* Every launcher has ended and the tree is where it is.
CHECK_DEADLOCK FALSE
