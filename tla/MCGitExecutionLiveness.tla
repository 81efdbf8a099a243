----------------------- MODULE MCGitExecutionLiveness -----------------------
EXTENDS MCGitExecution

(* For liveness, which has no symmetry: in a behaviour either launchers    *)
(* die or the first one is cancelled, not both.                            *)
VARIABLE disturbance

Dies(l) == at[l] \notin {"returned", "dead"} /\ at'[l] = "dead"

DisturbedNext ==
  /\ Next /\ UNCHANGED disturbance
  /\ \A l \in Launchers :
       /\ aborted'[l] # aborted[l] => disturbance = "cancel" /\ l = l1
       /\ Dies(l) => disturbance = "crash"

DisturbedSpec ==
  /\ Init /\ disturbance \in {"crash", "cancel"}
  /\ [][DisturbedNext]_<<vars, disturbance>>
  /\ Fairness
=============================================================================
