-------------------------- MODULE MCGitExecution ---------------------------
EXTENDS GitExecutionProperties, TLC

CONSTANTS l1, l2, e1, e2

TwoLaunchers == {l1, l2}
TwoExecutions == {e1, e2}

SymmetryOfTwo == Permutations(TwoLaunchers) \cup Permutations(TwoExecutions)
=============================================================================
