---------------------------- MODULE MCReconciler ----------------------------
(* Three callers, two execution tokens and at most three registrations;    *)
(* callers and execution tokens are interchangeable.                       *)
EXTENDS Reconciler, TLC

CONSTANTS l1, l2, l3, e1, e2

MCLaunchers == {l1, l2, l3}
MCExecutions == {e1, e2}
MCGenerations == 0 .. 3
Symmetry == Permutations(MCLaunchers) \cup Permutations(MCExecutions)
=============================================================================
