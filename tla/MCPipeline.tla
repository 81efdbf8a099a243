----------------------------- MODULE MCPipeline -----------------------------
(* An instance for TLC: a repository and one inside it.                    *)
EXTENDS Pipeline

CONSTANTS outer, inner

TwoRepositories == {outer, inner}
DepthOfTwo == [r \in TwoRepositories |-> IF r = outer THEN 1 ELSE 2]
=============================================================================
