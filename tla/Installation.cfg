\* Three installers that die, fail and lose their PIDs to others.
CONSTANTS
  i1 = i1
  i2 = i2
  i3 = i3
  d1 = d1
  d2 = d2
  None = None
  Foreign = Foreign
  Installers <- ThreeInstallers
  Digests <- TwoDigests
  Faults = {"crash", "io", "reuse"}
SPECIFICATION FairSpec
INVARIANTS
  RecordedHolder
  BuiltStagingStays
PROPERTIES
  RefusedByTheLiving
  ImplementsReleaseStore
  InstallersEnd
\* Every installer has exited.
CHECK_DEADLOCK FALSE
