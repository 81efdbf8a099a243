--------------------------- MODULE CommitRunProofs ---------------------------
(***************************************************************************)
(* Theorems about CommitRun, for any files, plans, budgets and faults.     *)
(***************************************************************************)
EXTENDS CommitRun, TLAPS

InBatch == AtAPlan \cup {"guard", "unstage", "push"}

\* What runs of the publisher know of the answer they execute.
BatchHasPlans ==
  /\ reply.kind = "plan" => reply.plans # <<>>
  /\ place \in InBatch => reply.kind = "plan"

TInv == TypeOK /\ BatchHasPlans

\* A diff is a set of changes of files.
LEMMA DiffsAreDiffs ==
  ASSUME TypeOK, NEW c \in [Files -> Contents]
  PROVE  DiffOf(c) \in Diffs /\ Changed(c) \subseteq Files
<1>1. Changed(c) \subseteq Files BY DEF Changed
<1>2. \A f \in Changed(c) : <<f, head[f], c[f]>> \in Files \X Contents \X Contents
  BY <1>1 DEF TypeOK
<1>. QED BY <1>1, <1>2 DEF DiffOf, Diffs

\* The files of a plan, and of it and those after it.
LEMMA PlansHoldFiles ==
  ASSUME NEW plans \in PlanSequences, NEW i \in DOMAIN plans
  PROVE  /\ plans[i].files \subseteq Files
         /\ PlannedFrom(plans, i) \subseteq Files
<1>1. \A j \in 1..Len(plans) : plans[j].files \subseteq Files
  <2>1. \A j \in 1..Len(plans) : plans[j] \in Plan BY DEF PlanSequences
  <2>. QED BY <2>1 DEF Plan
<1>2. i \in 1..Len(plans) /\ Len(plans) \in Nat BY DEF PlanSequences
<1>3. \A j \in i..Len(plans) : j \in 1..Len(plans) BY <1>2
<1>4. PlannedFrom(plans, i) \subseteq Files BY <1>1, <1>3 DEF PlannedFrom
<1>. QED BY <1>1, <1>2, <1>4

\* Repaired plans are as many plans as were rejected.
LEMMA RepairsArePlans ==
  ASSUME NEW plans \in PlanSequences, plans # <<>>, NEW q \in Repairs(plans)
  PROVE  q \in PlanSequences /\ q # <<>>
<1>1. q \in [1..Len(plans) -> Plan] /\ Len(plans) \in Nat
  BY DEF Repairs, PlanSequences
<1>2. q \in Seq(Plan) BY <1>1
<1>3. Len(q) = Len(plans) BY <1>1, <1>2
<1>4. Len(plans) # 0 BY DEF PlanSequences
<1>. QED BY <1>2, <1>3, <1>4 DEF PlanSequences

\* Counting an attempt leaves counts.
LEMMA CountsCount ==
  ASSUME attempts \in Counts, NEW k \in Kinds
  PROVE  Counted(k) \in Counts
BY DEF Counted, Counts

\* So does giving the validation attempts back.
LEMMA ResetCounts ==
  ASSUME attempts \in Counts
  PROVE  [attempts EXCEPT !["validation"] = 0] \in Counts
BY DEF Counts

\* Only files change.
LEMMA ChangedTyped == \A c : Changed(c) \subseteq Files
BY DEF Changed

\* Staging leaves an index.
LEMMA StagedIsContents ==
  ASSUME TypeOK, NEW paths
  PROVE  Staged(paths) \in [Files -> Contents]
BY DEF TypeOK, Staged

\* A new planning job, and the end of a loop.
LEMMA PlanAgainTypes ==
  ASSUME TypeOK, place # "done", NEW diff \in Diffs, PlanAgain(diff)
  PROVE  /\ place' \in {"inferring", "done"} /\ status' \in Statuses
         /\ attempts' \in Counts /\ fallbackAttempted' \in BOOLEAN
         /\ diffHash' \in Diffs /\ committedShas' \subseteq Shas
         /\ delegations' \in Nat /\ job' \in PlanSequences
         /\ reply' \in {reply, Unanswered}
         /\ reply'.plans \in PlanSequences /\ step' \in Nat
         /\ landed' \subseteq Shas /\ problem' \in Kinds
         /\ pending' \subseteq Files /\ remaining' \in Diffs
<1>1. problem \in Kinds /\ Counted(problem) \in Counts
  BY CountsCount DEF TypeOK
<1>2. <<>> \in PlanSequences BY DEF PlanSequences
<1>3. {} \in Diffs /\ delegations + 1 \in Nat BY DEF Diffs, TypeOK
<1>4. CASE lastPlanHash # HashPlans(FailedPlans)
  <2>1. /\ place' = "inferring" /\ status' = status
        /\ attempts' = Counted(problem)
        /\ fallbackAttempted' = fallbackAttempted /\ diffHash' = diff
        /\ committedShas' = committedShas \cup landed
        /\ delegations' = delegations + 1 /\ job' = <<>>
        /\ reply' = Unanswered
        /\ step' = 1 /\ landed' = {} /\ problem' = "git"
        /\ pending' = {} /\ remaining' = {}
    BY <1>4 DEF PlanAgain, ForgetLocals
  <2>2. /\ status \in Statuses /\ fallbackAttempted \in BOOLEAN
        /\ committedShas \subseteq Shas /\ landed \subseteq Shas
    BY DEF TypeOK
  <2>3. Unanswered.plans = <<>> BY DEF Unanswered
  <2>. QED BY <1>1, <1>2, <1>3, <2>1, <2>2, <2>3 DEF Kinds
<1>5. CASE lastPlanHash = HashPlans(FailedPlans)
  BY <1>1, <1>5 DEF PlanAgain, LoopDetected, End, TypeOK, exchange, locals,
    Statuses
<1>. QED BY <1>4, <1>5

\* Types are preserved, and a batch keeps its plans.
LEMMA TypeStep == TInv /\ [Next]_vars => TInv'
<1>. SUFFICES ASSUME TInv, [Next]_vars PROVE TInv'
  OBVIOUS
<1>. USE DEF TInv, BatchHasPlans, InBatch, AtAPlan, Kinds, Counts, Statuses, Places,
  Go, End, Fail, LoopDetected, Classify, ResetIndex, KeepIndex, KeepRest,
  Repair, Raise, Touch, control, ForgetLocals, InvalidReply, Unanswered
<1>. USE ChangedTyped
<1>1. CASE Staging
  BY <1>1 DEF Staging, TypeOK, repoState, ghosts, exchange, locals, repository, others
<1>2. CASE ValidationFails
  BY <1>2 DEF ValidationFails, TypeOK, repoState, ghosts, exchange, locals, repository, others
<1>3. CASE FirstDelegation
  <2>1. DiffOf(index) \in Diffs BY DiffsAreDiffs DEF TypeOK
  <2>2. {<<f, index[f]>> : f \in Changed(index)} \subseteq Files \X Contents
    BY DEF TypeOK
  <2>. QED BY <1>3, <2>1, <2>2 DEF FirstDelegation, TypeOK, repoState, ghosts, exchange, locals, repository, others
<1>4. CASE Answer
  <2>1. /\ reply'.kind \in {"plan", "fatal", "rejected", "empty"}
        /\ reply'.plans \in PlanSequences
        /\ reply'.kind = "plan" => reply'.plans # <<>>
    <3>1. CASE reply' \in [kind : {"plan"}, plans : PlanLists]
      BY <3>1, PlansAreNotEmpty DEF PlanSequences
    <3>2. CASE job # <<>> /\ reply' \in [kind : {"plan"}, plans : Repairs(job)]
      BY <3>2, RepairsArePlans DEF TypeOK
    <3>3. CASE reply' \in [kind : {"fatal", "rejected", "empty"}, plans : {<<>>}]
      <4>1. <<>> \in PlanSequences BY DEF PlanSequences
      <4>. QED BY <3>3, <4>1
    <3>. QED BY <1>4, <3>1, <3>2, <3>3 DEF Answer, Replies
  <2>. QED BY <1>4, <2>1 DEF Answer, TypeOK, repoState, ghosts, exchange, locals, repository, others
<1>5. CASE FatalReply
  BY <1>5 DEF FatalReply, TypeOK, repoState, ghosts, exchange, locals, repository, others
<1>6. CASE EmptyReply
  BY <1>6 DEF EmptyReply, TypeOK, repoState, ghosts, exchange, locals, repository, others
<1>7. CASE RejectedReply
  BY <1>7 DEF RejectedReply, TypeOK, repoState, ghosts, exchange, locals, repository, others
<1>8. CASE RepairMessages
  <2>1. attempts' \in Counts
    BY <1>8, CountsCount, ResetCounts DEF RepairMessages, TypeOK
  <2>2. <<>> \in PlanSequences BY DEF PlanSequences
  <2>3. delegations' \in Nat BY <1>8 DEF RepairMessages, TypeOK
  <2>. HIDE DEF Counts, Counted
  <2>. QED BY <1>8, <2>1, <2>2, <2>3 DEF RepairMessages, TypeOK, repoState, ghosts, exchange, locals, repository, others
<1>9. CASE Escalate
  <2>1. attempts' \in Counts
    BY <1>9, CountsCount, ResetCounts DEF Escalate, TypeOK
  <2>2. <<>> \in PlanSequences BY DEF PlanSequences
  <2>. QED BY <1>9, <2>1, <2>2 DEF Escalate, TypeOK, repoState, ghosts, exchange, locals, repository, others
<1>10. CASE GiveUpOnMessages
  BY <1>10, CountsCount DEF GiveUpOnMessages, TypeOK, repoState, ghosts, exchange, locals, repository, others
<1>11. CASE Accept
  BY <1>11 DEF Accept, TypeOK, repoState, ghosts, exchange, locals, repository, others
<1>12. CASE Guard
  BY <1>12 DEF Guard, TypeOK, repoState, ghosts, exchange, locals, repository, others
<1>13. CASE Unstage
  <2>1. reply.plans \in Seq(Plan) /\ reply.plans # <<>>
    BY <1>13 DEF Unstage, TypeOK, PlanSequences
  <2>2. 1 \in DOMAIN reply.plans BY <2>1
  <2>. QED BY <1>13, <2>2 DEF Unstage, TypeOK, repoState, ghosts, exchange, locals, repository, others
<1>14. CASE AddPlan
  <2>. QED BY <1>14, StagedIsContents DEF AddPlan, TypeOK, repoState, ghosts, exchange, locals, repository, others
<1>15. CASE CommitPlan
  <2>1. CurrentFiles \subseteq Files
    BY <1>15, PlansHoldFiles DEF CommitPlan, CurrentFiles, TypeOK
  <2>2. history' \in Seq(Commits)
    BY <1>15, <2>1 DEF CommitPlan, Commits, TypeOK
  <2>. QED BY <1>15, <2>2 DEF CommitPlan, TypeOK, repoState, ghosts, exchange, locals, repository, others
<1>16. CASE CommitFails
  BY <1>16 DEF CommitFails, TypeOK, repoState, ghosts, exchange, locals, repository, others
<1>17. CASE RevParse
  <2>1. CurrentFiles \subseteq Files
    BY <1>17, PlansHoldFiles DEF RevParse, CurrentFiles, TypeOK
  <2>2. landed' \subseteq Shas
    BY <1>17, <2>1 DEF RevParse, Shas, TypeOK
  <2>. QED BY <1>17, <2>2 DEF RevParse, TypeOK, repoState, ghosts, exchange, locals, repository, others
<1>18. CASE ResetBetween
  BY <1>18 DEF ResetBetween, TypeOK, repoState, ghosts, exchange, locals, repository, others
<1>19. CASE Cleanup
  BY <1>19 DEF Cleanup, TypeOK, repoState, ghosts, exchange, locals, repository, others
<1>20. CASE Inspect
  <2>1. PlannedFrom(reply.plans, step) \subseteq Files
    BY <1>20, PlansHoldFiles DEF Inspect, TypeOK
  <2>. QED BY <1>20, <2>1 DEF Inspect, TypeOK, repoState, ghosts, exchange, locals, repository, others
<1>21. CASE Push
  BY <1>21 DEF Push, TypeOK, repoState, ghosts, exchange, locals, repository, others
<1>22. CASE ResetForRetry
  BY <1>22 DEF ResetForRetry, TypeOK, repoState, ghosts, exchange, locals, repository, others
<1>23. CASE Reconstruct
  <2>1. DiffOf(index) \in Diffs /\ {} \in Diffs
    BY DiffsAreDiffs DEF TypeOK, Diffs
  <2>2. \A fs \in SUBSET Files :
          {<<f, index[f], work[f]>> : f \in fs} \in Diffs
    BY DEF Diffs, TypeOK
  <2>3. pending \subseteq Files BY DEF TypeOK
  <2>4. remaining' \in Diffs BY <1>23, <2>1, <2>2, <2>3 DEF Reconstruct
  <2>5. place' \in {"requeue", "restage"} BY <1>23 DEF Reconstruct
  <2>. QED BY <1>23, <2>4, <2>5
           DEF Reconstruct, TypeOK, repoState, ghosts, exchange, repository, others
<1>23a. CASE Restage
  <2>1. index' \in [Files -> Contents]
    BY <1>23a, StagedIsContents DEF Restage, TypeOK
  <2>. QED BY <1>23a, <2>1
           DEF Restage, TypeOK, repoState, ghosts, exchange, locals
<1>23b. CASE Capture
  <2>1. DiffOf(index) \in Diffs BY DiffsAreDiffs DEF TypeOK
  <2>2. remaining' \in Diffs BY <1>23b, <2>1 DEF Capture, TypeOK, Diffs
  <2>. QED BY <1>23b, <2>2
           DEF Capture, TypeOK, repoState, ghosts, exchange, repository, others
<1>23c. CASE Restore
  BY <1>23c DEF Restore, TypeOK, repoState, ghosts, exchange, locals
<1>24. CASE Requeue
  <2>1. CASE ~locked /\ ~Unknown(pending)
    <3>1. index' \in [Files -> Contents]
      BY <1>24, <2>1, StagedIsContents DEF Requeue
    <3>. QED BY <1>24, <2>1, <3>1
             DEF Requeue, TypeOK, repoState, ghosts, exchange, locals
  <2>2. CASE locked \/ Unknown(pending)
    <3>1. PlanAgain(remaining) /\ place # "done" /\ remaining \in Diffs
      BY <1>24, <2>2 DEF Requeue, TypeOK
    <3>2. UNCHANGED <<index, stray, head, work, locked, history, touches>>
      BY <1>24, <2>2 DEF Requeue
    <3>. HIDE DEF Counts, Kinds, Statuses
    <3>. QED BY <3>1, <3>2, PlanAgainTypes DEF TypeOK
  <2>. QED BY <2>1, <2>2
<1>24a. CASE Measure
  <2>1. PICK diff \in Diffs : PlanAgain(diff)
    BY <1>24a, DiffsAreDiffs DEF Measure, TypeOK
  <2>2. place # "done" /\ UNCHANGED <<repository, others>>
    BY <1>24a DEF Measure
  <2>. HIDE DEF Counts, Kinds, Statuses
  <2>. QED BY <2>1, <2>2, PlanAgainTypes DEF TypeOK, repository, others
<1>25. CASE Edit
  BY <1>25 DEF Edit, TypeOK, repoState, ghosts, exchange, locals, repository, others
<1>26. CASE StageElsewhere
  BY <1>26 DEF StageElsewhere, TypeOK, repoState, ghosts, exchange, locals, repository, others
<1>27. CASE CommitElsewhere
  <2>1. history' \in Seq(Commits)
    BY <1>27 DEF CommitElsewhere, Commits, TypeOK
  <2>. QED BY <1>27, <2>1 DEF CommitElsewhere, TypeOK, repoState, ghosts, exchange, locals, repository, others
<1>28. CASE Lock
  BY <1>28 DEF Lock, TypeOK, repoState, ghosts, exchange, locals, repository, others
<1>29. CASE Crash
  <2>1. {} \in Diffs BY DEF Diffs
  <2>2. /\ step' = 1 /\ landed' = {} /\ problem' = "git"
        /\ pending' = {} /\ remaining' = {}
        /\ place' \in {"abandoned", "answered"}
        /\ UNCHANGED <<repository, others, repoState, ghosts, exchange>>
    BY <1>29 DEF Crash
  <2>. HIDE DEF Counts
  <2>. QED BY <2>1, <2>2 DEF TypeOK, repoState, ghosts, exchange, repository, others
<1>100. CASE UNCHANGED vars
  BY <1>100 DEF vars, TypeOK, repoState, ghosts, exchange, locals, repository, others, CurrentFiles
<1>. QED BY <1>1, <1>2, <1>3, <1>4, <1>5, <1>6, <1>7, <1>8, <1>9, <1>10, <1>11, <1>12, <1>13, <1>14, <1>15, <1>16, <1>17, <1>18, <1>19, <1>20, <1>21, <1>22, <1>23, <1>23a, <1>23b, <1>23c, <1>24, <1>24a, <1>25, <1>26, <1>27, <1>28, <1>29, <1>100 DEF Next, Run, Validating, Answering, Publishing, Retrying, Environment
-----------------------------------------------------------------------------
(* The inductive invariant.                                                *)

Spent(counts) ==
  counts["validation"] + counts["structural"] + counts["race"] + counts["git"]

BackToPlanning == {"reset", "reconstruct", "restage", "capture", "restore",
                   "requeue", "measure"}

\* Each delegation after the first was paid for, by an attempt or by the
\* fallback and the validation attempts it gave back.
Budget ==
  /\ \A k \in Kinds : attempts[k] <= MaxAttempts[k]
  /\ place \in BackToPlanning => attempts[problem] < MaxAttempts[problem]
  /\ fallbackAttempted => Fallback
  /\ delegations <= 1 + Spent(attempts)
       + (IF fallbackAttempted THEN 1 + MaxAttempts["validation"] ELSE 0)

\* What the index differs in from HEAD while plans are committed.
IndexIsKnown ==
  /\ place \in {"add", "revparse", "between"} => Changed(index) \subseteq stray
  /\ place = "commit" => Changed(index) \subseteq CurrentFiles \cup stray
  /\ CommitsHoldTheirPlan

SuccessIsEarned ==
  /\ place \in {"between", "push"} => landed # {}
  /\ SuccessMeansCommitted

\* Nobody else commits, reads succeed, and the process does not die.
Undisturbed == Faults \cap {"read", "history", "crash"} = {}
Early == {"staging", "reading", "inferring", "answered", "guard", "unstage"}
Found(i, shas) == \E c \in shas : c.sha = i

\* A commit is on its way to the report from the moment it exists, unless the
\* publisher ends with the error that carries none.
NothingIsLost ==
  Undisturbed =>
    /\ place \in Early => landed = {}
    /\ \A i \in DOMAIN history :
         history[i].own =>
           \/ Found(i, committedShas)
           \/ place # "done" /\ Found(i, landed)
           \/ place = "revparse" /\ i = Len(history)
           \/ place = "done" /\ problem = "exec"

IInv == TInv /\ Budget /\ IndexIsKnown /\ SuccessIsEarned /\ NothingIsLost

\* A run begins in the invariant.
LEMMA InitIsSafe == Init => IInv
<1>. SUFFICES ASSUME Init PROVE IInv
  OBVIOUS
<1>1. TypeOK
  <2>1. <<>> \in Seq(Plan) /\ <<>> \in Seq(Commits) /\ 0 \in Nat
    OBVIOUS
  <2>2. attempts \in Counts BY DEF Init, Counts
  <2>. QED BY <2>1, <2>2
           DEF Init, TypeOK, Kinds, Places, Statuses, PlanSequences, Diffs,
               Shas, AtAPlan, Unanswered, Trees
<1>2. BatchHasPlans BY DEF Init, BatchHasPlans, InBatch, AtAPlan, Unanswered
<1>3. Budget
  BY BudgetsAreNumbers DEF Init, Budget, Spent, Kinds, BackToPlanning
<1>4. IndexIsKnown BY DEF Init, IndexIsKnown, CommitsHoldTheirPlan
<1>5. SuccessIsEarned BY DEF Init, SuccessIsEarned, SuccessMeansCommitted
<1>6. NothingIsLost BY DEF Init, NothingIsLost, Early
<1>. QED BY <1>1, <1>2, <1>3, <1>4, <1>5, <1>6 DEF IInv, TInv

\* Counting an attempt that is left spends one and stays within the budget.
LEMMA CountingCounts ==
  ASSUME TypeOK, Budget, NEW k \in Kinds, attempts[k] < MaxAttempts[k]
  PROVE  /\ Counted(k) \in Counts
         /\ Spent(Counted(k)) = Spent(attempts) + 1
         /\ \A j \in Kinds : Counted(k)[j] <= MaxAttempts[j]
<1>1. attempts \in [Kinds -> Nat] BY DEF TypeOK, Counts
<1>2. \A j \in Kinds :
        Counted(k)[j] = IF j = k THEN attempts[j] + 1 ELSE attempts[j]
  BY <1>1 DEF Counted
<1>3. /\ \A j \in {"validation", "structural", "race", "git"} : attempts[j] \in Nat
      /\ k \in {"validation", "structural", "race", "git"}
      /\ \A j \in {"validation", "structural", "race", "git"} :
           Counted(k)[j] = IF j = k THEN attempts[j] + 1 ELSE attempts[j]
  BY <1>1, <1>2 DEF Kinds
<1>4. Spent(Counted(k)) = Spent(attempts) + 1
  BY <1>3 DEF Spent
<1>5. \A j \in Kinds : Counted(k)[j] <= MaxAttempts[j]
  BY <1>1, <1>2, BudgetsAreNumbers DEF Budget
<1>6. Counted(k) \in Counts BY <1>1 DEF Counted, Counts
<1>. QED BY <1>4, <1>5, <1>6

\* What is spent is a number.
LEMMA SpentIsNumber == ASSUME NEW c \in Counts PROVE Spent(c) \in Nat
<1>. c["validation"] \in Nat /\ c["structural"] \in Nat /\ c["race"] \in Nat
       /\ c["git"] \in Nat
  BY DEF Counts, Kinds
<1>. QED BY DEF Spent

\* A new planning job costs an attempt that was left.
LEMMA PlanAgainIsPaid ==
  ASSUME TypeOK, Budget, place \in BackToPlanning, NEW diff, PlanAgain(diff)
  PROVE  Budget'
<1>1. problem \in Kinds /\ attempts[problem] < MaxAttempts[problem]
  BY DEF TypeOK, Budget, BackToPlanning
<1>2. /\ Spent(Counted(problem)) = Spent(attempts) + 1
      /\ \A j \in Kinds : Counted(problem)[j] <= MaxAttempts[j]
  BY <1>1, CountingCounts
<1>3. Spent(attempts) \in Nat BY SpentIsNumber DEF TypeOK
<1>4. MaxAttempts["validation"] \in Nat BY BudgetsAreNumbers DEF Kinds
<1>5. /\ attempts' = Counted(problem) /\ place' \in {"inferring", "done"}
      /\ delegations' \in {delegations, delegations + 1}
      /\ UNCHANGED fallbackAttempted
  BY DEF PlanAgain, LoopDetected, End, exchange
<1>. QED BY <1>2, <1>3, <1>4, <1>5 DEF Budget, BackToPlanning, TypeOK

\* A delegation is paid for by the step that makes it.
LEMMA BudgetStep == TypeOK /\ Budget /\ [Next]_vars => Budget'
<1>. SUFFICES ASSUME TypeOK, Budget, [Next]_vars PROVE Budget'
  OBVIOUS
<1>. USE DEF Budget, BackToPlanning,
  Go, End, Fail, LoopDetected, Classify, ResetIndex, KeepIndex, KeepRest,
  Repair, Raise, Touch, control, ForgetLocals
<1>1. CASE Staging
  BY <1>1 DEF Staging, repoState, ghosts, exchange, locals, repository, others
<1>2. CASE ValidationFails
  BY <1>2 DEF ValidationFails, repoState, ghosts, exchange, locals, repository, others
<1>3. CASE FirstDelegation
  <2>1. Spent(attempts) \in Nat BY SpentIsNumber DEF TypeOK
  <2>2. MaxAttempts["validation"] \in Nat BY BudgetsAreNumbers DEF Kinds
  <2>. QED BY <1>3, <2>1, <2>2
           DEF FirstDelegation, TypeOK, repoState, ghosts, exchange, locals
<1>4. CASE Answer
  BY <1>4 DEF Answer, repoState, ghosts, exchange, locals, repository, others
<1>5. CASE FatalReply
  BY <1>5 DEF FatalReply, repoState, ghosts, exchange, locals, repository, others
<1>6. CASE EmptyReply
  BY <1>6 DEF EmptyReply, repoState, ghosts, exchange, locals, repository, others
<1>7. CASE RejectedReply
  BY <1>7 DEF RejectedReply, repoState, ghosts, exchange, locals, repository, others
<1>8. CASE RepairMessages
  <2>1. attempts["validation"] < MaxAttempts["validation"]
    BY <1>8, BudgetsAreNumbers DEF RepairMessages, Exhausted, TypeOK, Counts, Kinds
  <2>2. /\ Spent(Counted("validation")) = Spent(attempts) + 1
        /\ \A j \in Kinds : Counted("validation")[j] <= MaxAttempts[j]
    BY <2>1, CountingCounts DEF Kinds
  <2>3. Spent(attempts) \in Nat BY SpentIsNumber DEF TypeOK
  <2>4. /\ attempts' = Counted("validation") /\ delegations' = delegations + 1
        /\ ~fallbackAttempted /\ ~fallbackAttempted' /\ place' = "inferring"
    BY <1>8 DEF RepairMessages
  <2>. QED BY <2>2, <2>3, <2>4 DEF TypeOK
<1>9. CASE Escalate
  <2>1. /\ attempts' = [attempts EXCEPT !["validation"] = 0]
        /\ delegations' = delegations + 1 /\ place' = "inferring"
        /\ ~fallbackAttempted /\ fallbackAttempted' = TRUE /\ Fallback
    BY <1>9 DEF Escalate, ShouldUseFallback
  <2>2. attempts \in [Kinds -> Nat] BY DEF TypeOK, Counts
  <2>3. \A k \in Kinds :
          attempts'[k] = IF k = "validation" THEN 0 ELSE attempts[k]
    BY <2>1, <2>2
  <2>4. /\ \A k \in {"validation", "structural", "race", "git"} :
             attempts[k] \in Nat /\ MaxAttempts[k] \in Nat
        /\ attempts["validation"] <= MaxAttempts["validation"]
        /\ attempts'["validation"] = 0
        /\ attempts'["structural"] = attempts["structural"]
        /\ attempts'["race"] = attempts["race"]
        /\ attempts'["git"] = attempts["git"]
    <3>1. \A k \in Kinds : attempts[k] \in Nat /\ MaxAttempts[k] \in Nat
      BY <2>2, BudgetsAreNumbers
    <3>2. attempts["validation"] <= MaxAttempts["validation"] BY DEF Kinds
    <3>. QED BY <2>3, <3>1, <3>2 DEF Kinds
  <2>5. /\ Spent(attempts) \in Nat /\ Spent(attempts') \in Nat
        /\ Spent(attempts) <= Spent(attempts') + MaxAttempts["validation"]
    BY <2>4 DEF Spent
  <2>6. /\ delegations <= 1 + Spent(attempts) /\ delegations \in Nat
        /\ MaxAttempts["validation"] \in Nat
    BY <2>1, <2>4, <2>5 DEF TypeOK
  <2>7. \A k \in Kinds : attempts'[k] <= MaxAttempts[k]
    <3>1. \A k \in Kinds : MaxAttempts[k] \in Nat /\ attempts[k] <= MaxAttempts[k]
      BY BudgetsAreNumbers
    <3>. QED BY <2>3, <3>1
  <2>. QED BY <2>1, <2>5, <2>6, <2>7
<1>10. CASE GiveUpOnMessages
  <2>1. CASE Fail({})
    BY <1>10, <2>1 DEF GiveUpOnMessages
  <2>2. CASE ~Exhausted /\ LoopDetected({}, Counted("validation"))
    <3>1. attempts["validation"] < MaxAttempts["validation"]
      BY <2>2, BudgetsAreNumbers DEF Exhausted, TypeOK, Counts, Kinds
    <3>2. /\ Spent(Counted("validation")) = Spent(attempts) + 1
          /\ \A j \in Kinds : Counted("validation")[j] <= MaxAttempts[j]
      BY <3>1, CountingCounts DEF Kinds
    <3>3. Spent(attempts) \in Nat BY SpentIsNumber DEF TypeOK
    <3>4. MaxAttempts["validation"] \in Nat BY BudgetsAreNumbers DEF Kinds
    <3>5. /\ attempts' = Counted("validation") /\ place' = "done"
          /\ UNCHANGED <<delegations, fallbackAttempted>>
      BY <2>2
    <3>. QED BY <3>2, <3>3, <3>4, <3>5 DEF TypeOK
  <2>. QED BY <1>10, <2>1, <2>2 DEF GiveUpOnMessages
<1>11. CASE Accept
  BY <1>11 DEF Accept, repoState, ghosts, exchange, locals, repository, others
<1>12. CASE Guard
  BY <1>12 DEF Guard, repoState, ghosts, exchange, locals, repository, others
<1>13. CASE Unstage
  BY <1>13 DEF Unstage, repoState, ghosts, exchange, locals, repository, others
<1>14. CASE AddPlan
  BY <1>14 DEF AddPlan, repoState, ghosts, exchange, locals, repository, others
<1>15. CASE CommitPlan
  BY <1>15 DEF CommitPlan, repoState, ghosts, exchange, locals, repository, others
<1>16. CASE CommitFails
  BY <1>16 DEF CommitFails, repoState, ghosts, exchange, locals, repository, others
<1>17. CASE RevParse
  BY <1>17 DEF RevParse, repoState, ghosts, exchange, locals, repository, others
<1>18. CASE ResetBetween
  BY <1>18 DEF ResetBetween, repoState, ghosts, exchange, locals, repository, others
<1>19. CASE Cleanup
  BY <1>19 DEF Cleanup, repoState, ghosts, exchange, locals, repository, others
<1>20. CASE Inspect
  BY <1>20 DEF Inspect, repoState, ghosts, exchange, locals, repository, others
<1>21. CASE Push
  BY <1>21 DEF Push, repoState, ghosts, exchange, locals, repository, others
<1>22. CASE ResetForRetry
  BY <1>22 DEF ResetForRetry, repoState, ghosts, exchange, locals, repository, others
<1>23. CASE Reconstruct
  BY <1>23 DEF Reconstruct, repoState, ghosts, exchange, locals, repository, others
<1>23a. CASE Restage
  BY <1>23a DEF Restage, repoState, ghosts, exchange, locals, repository, others
<1>23b. CASE Capture
  BY <1>23b DEF Capture, repoState, ghosts, exchange, locals, repository, others
<1>23c. CASE Restore
  BY <1>23c DEF Restore, repoState, ghosts, exchange, locals, repository, others
<1>24. CASE Requeue
  <2>1. CASE ~locked /\ ~Unknown(pending)
    BY <1>24, <2>1 DEF Requeue, repoState, ghosts, exchange, locals
  <2>2. CASE locked \/ Unknown(pending)
    BY <1>24, <2>2, PlanAgainIsPaid DEF Requeue
  <2>. QED BY <2>1, <2>2
<1>24a. CASE Measure
  BY <1>24a, PlanAgainIsPaid DEF Measure
<1>25. CASE Edit
  BY <1>25 DEF Edit, repoState, ghosts, exchange, locals, repository, others
<1>26. CASE StageElsewhere
  BY <1>26 DEF StageElsewhere, repoState, ghosts, exchange, locals, repository, others
<1>27. CASE CommitElsewhere
  BY <1>27 DEF CommitElsewhere, repoState, ghosts, exchange, locals, repository, others
<1>28. CASE Lock
  BY <1>28 DEF Lock, repoState, ghosts, exchange, locals, repository, others
<1>29. CASE Crash
  BY <1>29 DEF Crash, repoState, ghosts, exchange, locals, repository, others
<1>100. CASE UNCHANGED vars
  BY <1>100 DEF vars, repoState, ghosts, exchange, locals, repository, others
<1>. QED BY <1>1, <1>2, <1>3, <1>4, <1>5, <1>6, <1>7, <1>8, <1>9, <1>10, <1>11, <1>12, <1>13, <1>14, <1>15, <1>16, <1>17, <1>18, <1>19, <1>20, <1>21, <1>22, <1>23, <1>23a, <1>23b, <1>23c, <1>24, <1>24a, <1>25, <1>26, <1>27, <1>28, <1>29, <1>100 DEF Next, Run, Validating, Answering, Publishing, Retrying, Environment

\* From the reset before a plan to its commit, the index is known.
LEMMA IndexStep == TInv /\ TInv' /\ IndexIsKnown /\ [Next]_vars => IndexIsKnown'
<1>. SUFFICES ASSUME TInv, TInv', IndexIsKnown, [Next]_vars PROVE IndexIsKnown'
  OBVIOUS
<1>. USE DEF IndexIsKnown, CommitsHoldTheirPlan, CurrentFiles, Changed,
  Go, End, Fail, LoopDetected, Classify, ResetIndex, KeepIndex, KeepRest,
  Repair, Raise, Touch, control, ForgetLocals
<1>1. CASE Staging
  BY <1>1 DEF Staging, repoState, ghosts, exchange, locals, repository, others
<1>2. CASE ValidationFails
  BY <1>2 DEF ValidationFails, repoState, ghosts, exchange, locals, repository, others
<1>3. CASE FirstDelegation
  BY <1>3 DEF FirstDelegation, repoState, ghosts, exchange, locals, repository, others
<1>4. CASE Answer
  BY <1>4 DEF Answer, repoState, ghosts, exchange, locals, repository, others
<1>5. CASE FatalReply
  BY <1>5 DEF FatalReply, repoState, ghosts, exchange, locals, repository, others
<1>6. CASE EmptyReply
  BY <1>6 DEF EmptyReply, repoState, ghosts, exchange, locals, repository, others
<1>7. CASE RejectedReply
  BY <1>7 DEF RejectedReply, repoState, ghosts, exchange, locals, repository, others
<1>8. CASE RepairMessages
  BY <1>8 DEF RepairMessages, repoState, ghosts, exchange, locals, repository, others
<1>9. CASE Escalate
  BY <1>9 DEF Escalate, repoState, ghosts, exchange, locals, repository, others
<1>10. CASE GiveUpOnMessages
  BY <1>10 DEF GiveUpOnMessages, repoState, ghosts, exchange, locals, repository, others
<1>11. CASE Accept
  BY <1>11 DEF Accept, repoState, ghosts, exchange, locals, repository, others
<1>12. CASE Guard
  BY <1>12 DEF Guard, repoState, ghosts, exchange, locals, repository, others
<1>13. CASE Unstage
  BY <1>13 DEF Unstage, repoState, ghosts, exchange, locals, repository, others
<1>14. CASE AddPlan
  <2>1. CASE ~locked /\ ~Unknown(CurrentFiles)
    <3>1. \A f \in Files : index'[f] = IF f \in CurrentFiles THEN work[f] ELSE index[f]
      BY <1>14, <2>1 DEF AddPlan, Staged
    <3>2. /\ place' = "commit" /\ place = "add"
          /\ UNCHANGED <<stray, head, history, reply, step>>
      BY <1>14, <2>1 DEF AddPlan, exchange, locals
    <3>. QED BY <3>1, <3>2
  <2>2. CASE locked \/ Unknown(CurrentFiles)
    BY <1>14, <2>2 DEF AddPlan
  <2>. QED BY <2>1, <2>2
<1>15. CASE CommitPlan
  BY <1>15 DEF CommitPlan, repoState, ghosts, exchange, locals, repository, others
<1>16. CASE CommitFails
  BY <1>16 DEF CommitFails, repoState, ghosts, exchange, locals, repository, others
<1>17. CASE RevParse
  BY <1>17 DEF RevParse, repoState, ghosts, exchange, locals, repository, others
<1>18. CASE ResetBetween
  BY <1>18 DEF ResetBetween, repoState, ghosts, exchange, locals, repository, others
<1>19. CASE Cleanup
  BY <1>19 DEF Cleanup, repoState, ghosts, exchange, locals, repository, others
<1>20. CASE Inspect
  BY <1>20 DEF Inspect, repoState, ghosts, exchange, locals, repository, others
<1>21. CASE Push
  BY <1>21 DEF Push, repoState, ghosts, exchange, locals, repository, others
<1>22. CASE ResetForRetry
  BY <1>22 DEF ResetForRetry, repoState, ghosts, exchange, locals, repository, others
<1>23. CASE Reconstruct
  BY <1>23 DEF Reconstruct, repoState, ghosts, exchange, locals, repository, others
<1>23a. CASE Restage
  BY <1>23a DEF Restage, repoState, ghosts, exchange, locals, repository, others
<1>23b. CASE Capture
  BY <1>23b DEF Capture, repoState, ghosts, exchange, locals, repository, others
<1>23c. CASE Restore
  BY <1>23c DEF Restore, repoState, ghosts, exchange, locals, repository, others
<1>24. CASE Requeue
  BY <1>24 DEF Requeue, PlanAgain, repoState, ghosts, exchange, locals, repository, others
<1>24a. CASE Measure
  BY <1>24a DEF Measure, PlanAgain, repoState, ghosts, exchange, locals, repository, others
<1>25. CASE Edit
  BY <1>25 DEF Edit, repoState, ghosts, exchange, locals, repository, others
<1>26. CASE StageElsewhere
  BY <1>26 DEF StageElsewhere, repoState, ghosts, exchange, locals, repository, others
<1>27. CASE CommitElsewhere
  BY <1>27 DEF CommitElsewhere, repoState, ghosts, exchange, locals, repository, others
<1>28. CASE Lock
  BY <1>28 DEF Lock, repoState, ghosts, exchange, locals, repository, others
<1>29. CASE Crash
  BY <1>29 DEF Crash, repoState, ghosts, exchange, locals, repository, others
<1>100. CASE UNCHANGED vars
  BY <1>100 DEF vars, repoState, ghosts, exchange, locals, repository, others
<1>. QED BY <1>1, <1>2, <1>3, <1>4, <1>5, <1>6, <1>7, <1>8, <1>9, <1>10, <1>11, <1>12, <1>13, <1>14, <1>15, <1>16, <1>17, <1>18, <1>19, <1>20, <1>21, <1>22, <1>23, <1>23a, <1>23b, <1>23c, <1>24, <1>24a, <1>25, <1>26, <1>27, <1>28, <1>29, <1>100 DEF Next, Run, Validating, Answering, Publishing, Retrying, Environment

\* Success follows a commit.
LEMMA SuccessStep == SuccessIsEarned /\ [Next]_vars => SuccessIsEarned'
<1>. SUFFICES ASSUME SuccessIsEarned, [Next]_vars PROVE SuccessIsEarned'
  OBVIOUS
<1>. USE DEF SuccessIsEarned, SuccessMeansCommitted,
  Go, End, Fail, LoopDetected, Classify, ResetIndex, KeepIndex, KeepRest,
  Repair, Raise, Touch, control, ForgetLocals
<1>1. CASE Staging
  BY <1>1 DEF Staging, repoState, ghosts, exchange, locals, repository, others
<1>2. CASE ValidationFails
  BY <1>2 DEF ValidationFails, repoState, ghosts, exchange, locals, repository, others
<1>3. CASE FirstDelegation
  BY <1>3 DEF FirstDelegation, repoState, ghosts, exchange, locals, repository, others
<1>4. CASE Answer
  BY <1>4 DEF Answer, repoState, ghosts, exchange, locals, repository, others
<1>5. CASE FatalReply
  BY <1>5 DEF FatalReply, repoState, ghosts, exchange, locals, repository, others
<1>6. CASE EmptyReply
  BY <1>6 DEF EmptyReply, repoState, ghosts, exchange, locals, repository, others
<1>7. CASE RejectedReply
  BY <1>7 DEF RejectedReply, repoState, ghosts, exchange, locals, repository, others
<1>8. CASE RepairMessages
  BY <1>8 DEF RepairMessages, repoState, ghosts, exchange, locals, repository, others
<1>9. CASE Escalate
  BY <1>9 DEF Escalate, repoState, ghosts, exchange, locals, repository, others
<1>10. CASE GiveUpOnMessages
  BY <1>10 DEF GiveUpOnMessages, repoState, ghosts, exchange, locals, repository, others
<1>11. CASE Accept
  BY <1>11 DEF Accept, repoState, ghosts, exchange, locals, repository, others
<1>12. CASE Guard
  BY <1>12 DEF Guard, repoState, ghosts, exchange, locals, repository, others
<1>13. CASE Unstage
  BY <1>13 DEF Unstage, repoState, ghosts, exchange, locals, repository, others
<1>14. CASE AddPlan
  BY <1>14 DEF AddPlan, repoState, ghosts, exchange, locals, repository, others
<1>15. CASE CommitPlan
  BY <1>15 DEF CommitPlan, repoState, ghosts, exchange, locals, repository, others
<1>16. CASE CommitFails
  BY <1>16 DEF CommitFails, repoState, ghosts, exchange, locals, repository, others
<1>17. CASE RevParse
  BY <1>17 DEF RevParse, repoState, ghosts, exchange, locals, repository, others
<1>18. CASE ResetBetween
  BY <1>18 DEF ResetBetween, repoState, ghosts, exchange, locals, repository, others
<1>19. CASE Cleanup
  BY <1>19 DEF Cleanup, repoState, ghosts, exchange, locals, repository, others
<1>20. CASE Inspect
  BY <1>20 DEF Inspect, repoState, ghosts, exchange, locals, repository, others
<1>21. CASE Push
  BY <1>21 DEF Push, repoState, ghosts, exchange, locals, repository, others
<1>22. CASE ResetForRetry
  BY <1>22 DEF ResetForRetry, repoState, ghosts, exchange, locals, repository, others
<1>23. CASE Reconstruct
  BY <1>23 DEF Reconstruct, repoState, ghosts, exchange, locals, repository, others
<1>23a. CASE Restage
  BY <1>23a DEF Restage, repoState, ghosts, exchange, locals, repository, others
<1>23b. CASE Capture
  BY <1>23b DEF Capture, repoState, ghosts, exchange, locals, repository, others
<1>23c. CASE Restore
  BY <1>23c DEF Restore, repoState, ghosts, exchange, locals, repository, others
<1>24. CASE Requeue
  BY <1>24 DEF Requeue, PlanAgain, repoState, ghosts, exchange, locals, repository, others
<1>24a. CASE Measure
  BY <1>24a DEF Measure, PlanAgain, repoState, ghosts, exchange, locals, repository, others
<1>25. CASE Edit
  BY <1>25 DEF Edit, repoState, ghosts, exchange, locals, repository, others
<1>26. CASE StageElsewhere
  BY <1>26 DEF StageElsewhere, repoState, ghosts, exchange, locals, repository, others
<1>27. CASE CommitElsewhere
  BY <1>27 DEF CommitElsewhere, repoState, ghosts, exchange, locals, repository, others
<1>28. CASE Lock
  BY <1>28 DEF Lock, repoState, ghosts, exchange, locals, repository, others
<1>29. CASE Crash
  BY <1>29 DEF Crash, repoState, ghosts, exchange, locals, repository, others
<1>100. CASE UNCHANGED vars
  BY <1>100 DEF vars, repoState, ghosts, exchange, locals, repository, others
<1>. QED BY <1>1, <1>2, <1>3, <1>4, <1>5, <1>6, <1>7, <1>8, <1>9, <1>10, <1>11, <1>12, <1>13, <1>14, <1>15, <1>16, <1>17, <1>18, <1>19, <1>20, <1>21, <1>22, <1>23, <1>23a, <1>23b, <1>23c, <1>24, <1>24a, <1>25, <1>26, <1>27, <1>28, <1>29, <1>100 DEF Next, Run, Validating, Answering, Publishing, Retrying, Environment

\* A commit is recorded by the step after it and merged by the step that ends the batch.
LEMMA ReportStep == TInv /\ NothingIsLost /\ [Next]_vars => NothingIsLost'
<1>. SUFFICES ASSUME TInv, NothingIsLost, [Next]_vars PROVE NothingIsLost'
  OBVIOUS
<1>. USE DEF NothingIsLost, Found, Early, Undisturbed,
  Go, End, Fail, LoopDetected, Classify, ResetIndex, KeepIndex, KeepRest,
  Repair, Raise, Touch, control, ForgetLocals
<1>1. CASE Staging
  BY <1>1 DEF Staging, repoState, ghosts, exchange, locals, repository, others
<1>2. CASE ValidationFails
  BY <1>2 DEF ValidationFails, repoState, ghosts, exchange, locals, repository, others
<1>3. CASE FirstDelegation
  BY <1>3 DEF FirstDelegation, repoState, ghosts, exchange, locals, repository, others
<1>4. CASE Answer
  BY <1>4 DEF Answer, repoState, ghosts, exchange, locals, repository, others
<1>5. CASE FatalReply
  BY <1>5 DEF FatalReply, repoState, ghosts, exchange, locals, repository, others
<1>6. CASE EmptyReply
  BY <1>6 DEF EmptyReply, repoState, ghosts, exchange, locals, repository, others
<1>7. CASE RejectedReply
  BY <1>7 DEF RejectedReply, repoState, ghosts, exchange, locals, repository, others
<1>8. CASE RepairMessages
  <2>1. /\ place = "answered" /\ place' = "inferring"
        /\ UNCHANGED <<locked, history, committedShas, landed>>
    BY <1>8 DEF RepairMessages, InvalidReply, locals, repository
  <2>. QED BY <2>1
<1>9. CASE Escalate
  <2>1. /\ place = "answered" /\ place' = "inferring"
        /\ UNCHANGED <<locked, history, committedShas, landed>>
    BY <1>9 DEF Escalate, InvalidReply, locals, repository
  <2>. QED BY <2>1
<1>10. CASE GiveUpOnMessages
  <2>1. /\ place = "answered" /\ place' = "done"
        /\ UNCHANGED <<locked, history, landed>>
        /\ committedShas' = committedShas
    BY <1>10 DEF GiveUpOnMessages, InvalidReply, locals, repository
  <2>. QED BY <2>1
<1>11. CASE Accept
  BY <1>11 DEF Accept, repoState, ghosts, exchange, locals, repository, others
<1>12. CASE Guard
  BY <1>12 DEF Guard, repoState, ghosts, exchange, locals, repository, others
<1>13. CASE Unstage
  BY <1>13 DEF Unstage, repoState, ghosts, exchange, locals, repository, others
<1>14. CASE AddPlan
  BY <1>14 DEF AddPlan, repoState, ghosts, exchange, locals, repository, others
<1>15. CASE CommitPlan
  BY <1>15 DEF CommitPlan, repoState, ghosts, exchange, locals, repository, others
<1>16. CASE CommitFails
  BY <1>16 DEF CommitFails, repoState, ghosts, exchange, locals, repository, others
<1>17. CASE RevParse
  <2>. SUFFICES ASSUME Undisturbed PROVE NothingIsLost'
    OBVIOUS
  <2>1. "read" \notin Faults OBVIOUS
  <2>2. /\ place = "revparse" /\ place' = "between"
        /\ UNCHANGED <<locked, history, committedShas>>
    BY <1>17, <2>1 DEF RevParse, Go, repository, repoState
  <2>3. landed' = landed \cup {[sha |-> Len(history), files |-> CurrentFiles]}
    BY <1>17, <2>1 DEF RevParse
  <2>. DEFINE c == [sha |-> Len(history), files |-> CurrentFiles]
  <2>4. c \in landed' /\ c.sha = Len(history) /\ landed \subseteq landed'
    BY <2>3
  <2>. QED BY <2>2, <2>4
<1>18. CASE ResetBetween
  BY <1>18 DEF ResetBetween, repoState, ghosts, exchange, locals, repository, others
<1>19. CASE Cleanup
  BY <1>19 DEF Cleanup, repoState, ghosts, exchange, locals, repository, others
<1>20. CASE Inspect
  BY <1>20 DEF Inspect, repoState, ghosts, exchange, locals, repository, others
<1>21. CASE Push
  BY <1>21 DEF Push, repoState, ghosts, exchange, locals, repository, others
<1>22. CASE ResetForRetry
  BY <1>22 DEF ResetForRetry, repoState, ghosts, exchange, locals, repository, others
<1>23. CASE Reconstruct
  BY <1>23 DEF Reconstruct, repoState, ghosts, exchange, locals, repository, others
<1>23a. CASE Restage
  BY <1>23a DEF Restage, repoState, ghosts, exchange, locals, repository, others
<1>23b. CASE Capture
  BY <1>23b DEF Capture, repoState, ghosts, exchange, locals, repository, others
<1>23c. CASE Restore
  BY <1>23c DEF Restore, repoState, ghosts, exchange, locals, repository, others
<1>24. CASE Requeue
  BY <1>24 DEF Requeue, PlanAgain, repoState, ghosts, exchange, locals, repository, others
<1>24a. CASE Measure
  BY <1>24a DEF Measure, PlanAgain, repoState, ghosts, exchange, locals, repository, others
<1>25. CASE Edit
  BY <1>25 DEF Edit, repoState, ghosts, exchange, locals, repository, others
<1>26. CASE StageElsewhere
  BY <1>26 DEF StageElsewhere, repoState, ghosts, exchange, locals, repository, others
<1>27. CASE CommitElsewhere
  BY <1>27 DEF CommitElsewhere, repoState, ghosts, exchange, locals, repository, others
<1>28. CASE Lock
  BY <1>28 DEF Lock, repoState, ghosts, exchange, locals, repository, others
<1>29. CASE Crash
  BY <1>29 DEF Crash, repoState, ghosts, exchange, locals, repository, others
<1>100. CASE UNCHANGED vars
  BY <1>100 DEF vars, repoState, ghosts, exchange, locals, repository, others
<1>. QED BY <1>1, <1>2, <1>3, <1>4, <1>5, <1>6, <1>7, <1>8, <1>9, <1>10, <1>11, <1>12, <1>13, <1>14, <1>15, <1>16, <1>17, <1>18, <1>19, <1>20, <1>21, <1>22, <1>23, <1>23a, <1>23b, <1>23c, <1>24, <1>24a, <1>25, <1>26, <1>27, <1>28, <1>29, <1>100 DEF Next, Run, Validating, Answering, Publishing, Retrying, Environment

\* Every reachable state satisfies the inductive invariant.
THEOREM Invariance == Spec => []IInv
<1>1. Init => IInv BY InitIsSafe
<1>2. IInv /\ [Next]_vars => IInv'
  BY TypeStep, BudgetStep, IndexStep, SuccessStep, ReportStep DEF IInv, TInv
<1>. QED BY <1>1, <1>2, PTL DEF Spec

\* The state is well typed, and a batch is at one of its plans.
THEOREM TypeCorrect == Spec => []TypeOK
<1>1. IInv => TypeOK BY DEF IInv, TInv
<1>. QED BY <1>1, Invariance, PTL

\* Whatever the budgets, and however errors, crashes and other users of the
\* repository mix, the LLM is asked no more often than the budgets allow.
THEOREM WorkIsBounded == Spec => []DelegationsAreBounded
<1>1. IInv => DelegationsAreBounded
  <2>. SUFFICES ASSUME IInv PROVE DelegationsAreBounded
    OBVIOUS
  <2>1. /\ \A k \in {"validation", "structural", "race", "git"} :
             attempts[k] \in Nat /\ MaxAttempts[k] \in Nat
        /\ attempts["validation"] <= MaxAttempts["validation"]
        /\ attempts["structural"] <= MaxAttempts["structural"]
        /\ attempts["race"] <= MaxAttempts["race"]
        /\ attempts["git"] <= MaxAttempts["git"]
    <3>1. /\ attempts \in [Kinds -> Nat]
          /\ \A k \in Kinds : attempts[k] <= MaxAttempts[k]
      BY DEF IInv, TInv, TypeOK, Counts, Budget
    <3>. QED BY <3>1, BudgetsAreNumbers DEF Kinds
  <2>2. delegations \in Nat BY DEF IInv, TInv, TypeOK
  <2>3. delegations <= 1 + Spent(attempts)
          + (IF fallbackAttempted THEN 1 + MaxAttempts["validation"] ELSE 0)
    BY DEF IInv, Budget
  <2>4. fallbackAttempted => Fallback BY DEF IInv, Budget
  <2>. QED BY <2>1, <2>2, <2>3, <2>4 DEF DelegationsAreBounded, Spent
<1>. QED BY <1>1, Invariance, PTL

\* Whatever is staged when, a commit holds its plan's files and what others
\* staged, even if resets fail because the index is locked.
THEOREM PlansAreRespected == Spec => []CommitsHoldTheirPlan
<1>1. IInv => CommitsHoldTheirPlan BY DEF IInv, IndexIsKnown
<1>. QED BY <1>1, Invariance, PTL

\* A repository that succeeded has a commit to show for it.
THEOREM SuccessNeedsACommit == Spec => []SuccessMeansCommitted
<1>1. IInv => SuccessMeansCommitted BY DEF IInv, SuccessIsEarned
<1>. QED BY <1>1, Invariance, PTL

\* If nobody else commits, reads succeed and the process lives, no attempt loses
\* a commit of an earlier one or of its own, whatever the plans name and whoever
\* holds the index lock, unless the publisher ends with GitExecError.
THEOREM NoCommitIsForgotten == Spec => [](Undisturbed => OnlyRaisedErrorsLoseCommits)
<1>1. IInv => (Undisturbed => OnlyRaisedErrorsLoseCommits)
  BY DEF IInv, NothingIsLost, OnlyRaisedErrorsLoseCommits, LandedAreReported, Found
<1>. QED BY <1>1, Invariance, PTL

-----------------------------------------------------------------------------
(* That a repository ends, but for fairness.                               *)

\* Where a run is within one answer of the LLM.
Stage ==
  [staging |-> 21, reading |-> 20, inferring |-> 19, answered |-> 18,
   guard |-> 17, unstage |-> 16, add |-> 15, commit |-> 14, revparse |-> 13,
   between |-> 12, cleanup |-> 11, inspect |-> 10, push |-> 9, reset |-> 8,
   reconstruct |-> 7, restage |-> 6, capture |-> 5, restore |-> 4,
   requeue |-> 3, measure |-> 2, done |-> 0, abandoned |-> 0]

NextPlan ==
  /\ place = "between" /\ place' = "add"
  /\ step' = step + 1 /\ step' <= Len(reply.plans) /\ reply' = reply

\* Everything but the death of the process goes on to a later step, to the next
\* plan of the same answer, or back to the LLM with a new job, and the jobs are
\* bounded (DelegationsAreBounded): no mixture of rejected messages, failing
\* commits, races and resets keeps a repository going in a circle.
RunsOnlyGoOn ==
  [][~Crash /\ place' # place =>
       \/ delegations < delegations'
       \/ delegations' = delegations /\ (Stage[place'] < Stage[place] \/ NextPlan)]_vars

\* The branches after the answer have one to look at, whichever delegation a
\* process that died is resumed from.
AnswerIsThere ==
  place \notin {"staging", "reading", "inferring", "done", "abandoned"}
    => reply.kind # "none"

NotDelegatedYet == place \in {"staging", "reading"} => delegations = 0

\* Every step keeps both.
LEMMA AnswerStep ==
  AnswerIsThere /\ NotDelegatedYet /\ [Next]_vars
    => AnswerIsThere' /\ NotDelegatedYet'
<1>. SUFFICES ASSUME AnswerIsThere, NotDelegatedYet, [Next]_vars
              PROVE  AnswerIsThere' /\ NotDelegatedYet'
  OBVIOUS
<1>. USE DEF AnswerIsThere, NotDelegatedYet, Go, End, Fail, LoopDetected,
       repoState, ghosts, exchange
<1>1. CASE Validating
  BY <1>1 DEF Validating, Staging, ValidationFails, FirstDelegation
<1>2. CASE Answer
  <2>1. reply'.kind # "none" BY <1>2 DEF Answer, Replies
  <2>. QED BY <1>2, <2>1 DEF Answer
<1>3. CASE Answering /\ ~Answer
  BY <1>3 DEF Answering, FatalReply, EmptyReply, RejectedReply, RepairMessages,
    Escalate, GiveUpOnMessages, InvalidReply, Repair, Accept, Classify
<1>4. CASE Guard \/ Unstage \/ AddPlan \/ CommitPlan \/ CommitFails \/ RevParse
  BY <1>4 DEF Guard, Unstage, AddPlan, CommitPlan, CommitFails, RevParse,
    Classify
<1>5. CASE ResetBetween \/ Cleanup \/ Inspect \/ Push
  BY <1>5 DEF ResetBetween, Cleanup, Inspect, Push, Classify, Raise
<1>6. CASE Retrying
  BY <1>6 DEF Retrying, ResetForRetry, Reconstruct, Restage, Capture, Restore,
    Requeue, Measure, PlanAgain
<1>7. CASE Environment \/ UNCHANGED vars
  BY <1>7 DEF Environment, Edit, StageElsewhere, CommitElsewhere, Lock, Crash,
    control, vars, Over
<1>. QED BY <1>1, <1>2, <1>3, <1>4, <1>5, <1>6, <1>7 DEF Next, Run, Publishing

\* One step of a run.
LEMMA RunGoesOn ==
  ASSUME TInv, NotDelegatedYet, Run, place' # place
  PROVE  \/ delegations < delegations'
         \/ /\ delegations' = delegations
            /\ Stage[place'] < Stage[place] \/ NextPlan
<1>. USE DEF Stage, Go, End, Fail, LoopDetected, repoState, ghosts, exchange
<1>1. delegations \in Nat /\ step \in Nat BY DEF TInv, TypeOK
<1>2. CASE Validating
  BY <1>1, <1>2 DEF NotDelegatedYet, Validating, Staging, ValidationFails,
    FirstDelegation
<1>3. CASE RepairMessages \/ Escalate
  BY <1>1, <1>3 DEF RepairMessages, Escalate, Repair
<1>4. CASE Answering /\ ~RepairMessages /\ ~Escalate
  BY <1>4 DEF Answering, Answer, FatalReply, EmptyReply, RejectedReply,
    GiveUpOnMessages, InvalidReply, Accept, Classify
<1>5. CASE Guard \/ Unstage \/ AddPlan \/ CommitPlan \/ CommitFails \/ RevParse
  <2>1. CASE Guard
    <3>1. delegations' = delegations /\ place = "guard"
          /\ place' \in {"unstage", "reset", "done"}
      BY <2>1 DEF Guard, Classify
    <3>. QED BY <1>1, <3>1
  <2>2. CASE Unstage \/ AddPlan \/ CommitPlan \/ CommitFails \/ RevParse
    <3>1. delegations' = delegations
          /\ \/ place = "unstage" /\ place' \in {"add", "done"}
             \/ place = "add" /\ place' \in {"commit", "cleanup"}
             \/ place = "commit" /\ place' \in {"revparse", "cleanup"}
             \/ place = "revparse" /\ place' \in {"between", "cleanup"}
      BY <2>2 DEF Unstage, AddPlan, CommitPlan, CommitFails, RevParse
    <3>. QED BY <1>1, <3>1
  <2>. QED BY <1>5, <2>1, <2>2
<1>6. CASE ResetBetween
  <2>1. place = "between" /\ step \in DOMAIN reply.plans /\ reply.plans \in Seq(Plan)
    BY <1>6 DEF ResetBetween, TInv, TypeOK, AtAPlan, PlanSequences
  <2>2. Len(reply.plans) \in Nat /\ step <= Len(reply.plans) BY <2>1
  <2>3. delegations' = delegations /\ reply' = reply BY <1>6 DEF ResetBetween
  <2>4. CASE step < Len(reply.plans)
    BY <1>1, <1>6, <2>1, <2>2, <2>3, <2>4 DEF ResetBetween, NextPlan
  <2>5. CASE step = Len(reply.plans)
    BY <1>1, <1>6, <2>1, <2>3, <2>5 DEF ResetBetween
  <2>. QED BY <1>1, <2>2, <2>4, <2>5
<1>7. CASE Cleanup \/ Inspect \/ Push
  BY <1>7 DEF Cleanup, Inspect, Push, Classify, Raise
<1>8. CASE Retrying
  BY <1>1, <1>8 DEF Retrying, ResetForRetry, Reconstruct, Restage, Capture, Restore,
    Requeue, Measure, PlanAgain
<1>. QED BY <1>2, <1>3, <1>4, <1>5, <1>6, <1>7, <1>8 DEF Run, Publishing

\* The answer that a resumed or running batch executes exists.
THEOREM AnswerIsThereHolds == Spec => [](AnswerIsThere /\ NotDelegatedYet)
<1>1. Init => AnswerIsThere /\ NotDelegatedYet
  BY DEF Init, AnswerIsThere, NotDelegatedYet
<1>. QED BY <1>1, AnswerStep, PTL DEF Spec

\* A run makes progress with every step it takes.
THEOREM RunsOnlyGoOnHolds == Spec => RunsOnlyGoOn
<1>. DEFINE GoesOn ==
       ~Crash /\ place' # place =>
         \/ delegations < delegations'
         \/ delegations' = delegations /\ (Stage[place'] < Stage[place] \/ NextPlan)
<1>1. TInv /\ NotDelegatedYet /\ [Next]_vars => [GoesOn]_vars
  <2>. SUFFICES ASSUME TInv, NotDelegatedYet, Next, ~Crash, place' # place
                PROVE  \/ delegations < delegations'
                       \/ /\ delegations' = delegations
                          /\ Stage[place'] < Stage[place] \/ NextPlan
    OBVIOUS
  <2>1. Run
    BY DEF Next, Environment, Edit, StageElsewhere, CommitElsewhere, Lock, control
  <2>. QED BY <2>1, RunGoesOn
<1>2. IInv => TInv BY DEF IInv
<1>. QED
  BY <1>1, <1>2, Invariance, AnswerIsThereHolds, PTL DEF Spec, RunsOnlyGoOn
=============================================================================
