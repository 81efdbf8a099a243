----------------------------- MODULE MCCommitRun -----------------------------
EXTENDS CommitRun

CONSTANTS a, b, out

\* The values of queue-retry.ts.
Budgets ==
  [k \in Kinds |-> IF k = "validation" THEN 2 ELSE 1]

One(m, fs) == [message |-> m, files |-> fs]

\* Splits of two files, with messages right and wrong, and misfits, one
\* of which leads out of the repository.
KnownPlans ==
  {<<One("fine", {a}), One("fine", {b})>>,
   <<One("fine", {a, b})>>,
   <<One("fine", {b})>>}
MisfitPlans ==
  {<<One("fine", {a}), One("fine", {a})>>, <<One("fine", {})>>,
   <<One("bad", {a}), One("fine", {b})>>, <<One("bad", {b})>>,
   <<One("fine", {a}), One("fine", {b, out})>>}
AllPlans == KnownPlans \cup MisfitPlans
FewPlans ==
  {<<One("fine", {a}), One("fine", {b})>>, <<One("bad", {b})>>}
=============================================================================
