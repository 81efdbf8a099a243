\* A parent and a submodule, every fault at once, a supervisor with fair events.
CONSTANTS
  outer = outer
  inner = inner
  Repositories <- TwoRepositories
  Depth <- DepthOfTwo
  MaxAttempts = 2
  Faults = {"throw", "io", "crash", "interrupt"}
SPECIFICATION FairSpec
INVARIANTS
  ZeroSpeaksForAll
  OneOrchestrator
  NobodyIsLeftOut
PROPERTIES
  TerminationEnds
  PassEnds
\* A pass that has ended is over.
CHECK_DEADLOCK FALSE
