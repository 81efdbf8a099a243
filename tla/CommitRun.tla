------------------------------ MODULE CommitRun ------------------------------
(***************************************************************************)
(* One repository of a commit run: validated and staged (step1), planned   *)
(* by the LLM, committed plan by plan and pushed (publisher.ts), planned   *)
(* again after a failure (step2, queue-retry.ts) within a budget per kind  *)
(* of error, while its user edits, stages and commits and while other Git  *)
(* processes hold the index lock.                                          *)
(*                                                                         *)
(* A Git command is one step, but for reads that follow one another.       *)
(* Everything between two of them is part of the step before, because      *)
(* nothing else can see it.  The push is one step with two outcomes; the   *)
(* module Push models it.                                                  *)
(***************************************************************************)
EXTENDS Naturals, Sequences, FiniteSets

CONSTANTS Files,          \* paths the repository has, had, or might be said to have
          Outside,        \* those of them that do not lead into it, as ../x
          Versions, Absent,  \* contents of a path, and no file at all
          ValidMessages, InvalidMessages,  \* as validateCommitMessage decides
          PlanLists,      \* what the LLM may answer
          MaxAttempts,    \* MAX_ATTEMPTS_BY_KIND
          Fallback,       \* a fallback model is configured
          Faults,
          MaxTouches      \* bounds the edits, stagings and commits of others

Kinds == {"validation", "structural", "race", "git"}
FaultKinds == {"edit", "stage", "history", "lock", "commit", "read", "crash"}
Messages == ValidMessages \cup InvalidMessages
Contents == Versions \cup {Absent}
Plan == [message : Messages, files : SUBSET Files]

ASSUME OutsideIsSaid == Outside \subseteq Files
ASSUME MessagesAreValidOrNot == ValidMessages \cap InvalidMessages = {}
ASSUME PlansAreNotEmpty == PlanLists \subseteq Seq(Plan) \ {<<>>}
ASSUME BudgetsAreNumbers == MaxAttempts \in [Kinds -> Nat]
ASSUME FallbackIsBoolean == Fallback \in BOOLEAN
ASSUME FaultsAreKinds == Faults \subseteq FaultKinds
ASSUME TouchesAreBounded == MaxTouches \in Nat

VARIABLES
  head, index, work,  \* contents in HEAD, in the index, in the worktree
  locked,             \* another Git process holds .git/index.lock
  history,            \* the commits made since the run began
  touches,            \* how often others interfered
  stray,              \* paths others staged since the index was last reset
  place, status,
  attempts, fallbackAttempted, lastPlanHash, diffHash,
  committedShas,      \* these five: RepoState, saved with each delegation
  delegations,        \* jobs given to the LLM (not in the code)
  job,                \* the plans to repair, or none: a planning job
  reply,              \* the batch result
  step, landed,       \* publisher: number of the plan, its committedShas
  problem, pending, remaining   \* errKind, pendingFiles, remainingDiff

repository == <<head, index, work, locked, history>>
others == <<touches, stray>>
repoState == <<status, attempts, fallbackAttempted, lastPlanHash, diffHash,
               committedShas>>
ghosts == <<delegations>>
exchange == <<job, reply>>
locals == <<step, landed, problem, pending, remaining>>
vars == <<repository, others, place, repoState, ghosts, exchange, locals>>

Places ==
  {"staging", "reading", "inferring", "answered", "guard", "unstage", "add",
   "commit", "revparse", "between", "cleanup", "inspect", "push", "reset",
   "reconstruct", "restage", "capture", "restore", "requeue", "measure",
   "done", "abandoned"}
Statuses == {"RUNNING", "SUCCESS", "FAILED"}

Changed(contents) == {f \in Files : contents[f] # head[f]}
\* `git diff` of such contents against HEAD; sets stand for hashes of texts.
DiffOf(contents) == {<<f, head[f], contents[f]>> : f \in Changed(contents)}

FilesOf(shas) == UNION {c.files : c \in shas}
PlannedFrom(plans, i) == UNION {plans[j].files : j \in i..Len(plans)}
Duplicates(plans) ==
  \E i, j \in DOMAIN plans : i # j /\ plans[i].files \cap plans[j].files # {}
Wellworded(plans) == \A i \in DOMAIN plans : plans[i].message \in ValidMessages

\* The canonical form is sorted, so the order of the plans does not matter.
HashPlans(plans) ==
  {<<plans[i], Cardinality({j \in DOMAIN plans : plans[j] = plans[i]})>> :
     i \in DOMAIN plans}
NoHash == {<<>>}  \* undefined; not the hash of anything

(* mergeCommitMessageRepairs: only rejected messages may change.           *)
Repairs(plans) ==
  {q \in [DOMAIN plans -> Plan] :
     \A i \in DOMAIN plans :
       /\ q[i].files = plans[i].files
       /\ plans[i].message \in ValidMessages => q[i] = plans[i]}

Replies ==
  [kind : {"plan"}, plans : IF job = <<>> THEN PlanLists ELSE Repairs(job)]
    \cup [kind : {"fatal", "rejected", "empty"}, plans : {<<>>}]

Unanswered == [kind |-> "none", plans |-> <<>>]

Trees == {c \in [Files -> Contents] : \A f \in Outside : c[f] = Absent}

Init ==
  /\ head \in Trees /\ index = head /\ work \in Trees
  /\ locked = FALSE /\ history = <<>> /\ touches = 0 /\ stray = {}
  /\ place = "staging" /\ status = "RUNNING"
  /\ attempts = [k \in Kinds |-> 0] /\ fallbackAttempted = FALSE
  /\ lastPlanHash = NoHash /\ diffHash = {} /\ committedShas = {}
  /\ delegations = 0
  /\ job = <<>> /\ reply = Unanswered
  /\ step = 1 /\ landed = {}
  /\ problem = "git" /\ pending = {} /\ remaining = {}

Go(next) == place' = next /\ UNCHANGED <<repoState, ghosts, exchange>>

(* The phase is over for this repository.                                  *)
End(result, shas, counts) ==
  /\ place' = "done" /\ status' = result
  /\ committedShas' = committedShas \cup shas
  /\ attempts' = counts
  /\ UNCHANGED <<fallbackAttempted, lastPlanHash, diffHash, delegations,
                 exchange>>

Fail(shas) == End("FAILED", shas, attempts)
LoopDetected(shas, counts) == End("FAILED", shas, counts)

\* The publisher's last catch: GitExecError carries no commits.
Raise ==
  /\ Fail({})
  /\ problem' = "exec" /\ UNCHANGED <<step, landed, pending, remaining>>

\* A later phase, or process, starts with none of this one's variables.
ForgetLocals ==
  /\ step' = 1 /\ landed' = {}
  /\ problem' = "git" /\ pending' = {} /\ remaining' = {}

\* reset HEAD
ResetIndex == index' = head /\ stray' = {}
KeepIndex == UNCHANGED <<index, stray>>
KeepRest == UNCHANGED <<head, work, locked, history, touches>>

-----------------------------------------------------------------------------
(* Validation and the first delegation.                                    *)

Staging ==
  /\ place = "staging"
  /\ \/ ~locked /\ index' = work /\ UNCHANGED stray /\ Go("reading")
     \/ locked /\ KeepIndex /\ Fail({})
  /\ KeepRest /\ UNCHANGED locals

(* Tests fail before the staging, or the diff contains a secret.           *)
ValidationFails ==
  /\ place \in {"staging", "reading"}
  /\ Fail({})
  /\ UNCHANGED <<repository, others, locals>>

FirstDelegation ==
  /\ place = "reading"
  /\ \/ /\ DiffOf(index) # {}
        /\ place' = "inferring"
        /\ diffHash' = DiffOf(index)
        /\ delegations' = 1
        /\ UNCHANGED <<status, attempts, fallbackAttempted, lastPlanHash,
                       committedShas, exchange>>
     \/ DiffOf(index) = {} /\ Fail({})
  /\ UNCHANGED <<repository, others, locals>>

-----------------------------------------------------------------------------
(* The batch result, and the branches that touch no Git state.             *)

Answer ==
  /\ place = "inferring"
  /\ reply' \in Replies
  /\ place' = "answered"
  /\ landed' = {}
  /\ UNCHANGED <<repository, others, repoState, ghosts, job, step, problem,
                 pending, remaining>>

FatalReply ==
  /\ place = "answered" /\ reply.kind = "fatal"
  /\ Fail({})
  /\ UNCHANGED <<repository, others, locals>>

(* Mutant: an empty answer is always taken for "nothing left to commit".   *)
EmptyReplySucceeds ==
  /\ place = "answered" /\ reply.kind = "empty"
  /\ End("SUCCESS", {}, attempts)
  /\ UNCHANGED <<repository, others, locals>>

EmptyReply ==
  /\ place = "answered" /\ reply.kind = "empty"
  /\ End(IF committedShas # {} THEN "SUCCESS" ELSE "FAILED", {}, attempts)
  /\ UNCHANGED <<repository, others, locals>>

(* An answer the provider rejected is asked for again, without a reset.    *)
RejectedReply ==
  /\ place = "answered" /\ reply.kind = "rejected"
  /\ \/ /\ attempts["validation"] < MaxAttempts["validation"]
        /\ problem' = "validation" /\ pending' = {}
        /\ UNCHANGED <<step, landed, remaining>>
        /\ Go("reconstruct")
     \/ /\ attempts["validation"] >= MaxAttempts["validation"]
        /\ UNCHANGED locals /\ Fail({})
  /\ UNCHANGED <<repository, others>>

(* The LLM is asked to repair the rejected messages of the same plans.     *)
Repair(counts, fallback) ==
  /\ place' = "inferring"
  /\ attempts' = counts /\ fallbackAttempted' = fallback
  /\ lastPlanHash' = HashPlans(reply.plans)
  /\ job' = reply.plans
  /\ delegations' = delegations + 1
  /\ reply' = Unanswered
  /\ UNCHANGED <<status, diffHash, committedShas>>

Exhausted == attempts["validation"] >= MaxAttempts["validation"]
Looping == lastPlanHash = HashPlans(reply.plans)
Counted(k) == [attempts EXCEPT ![k] = @ + 1]

(* shouldUseFallback                                                       *)
ShouldUseFallback ==
  Fallback /\ (IF Exhausted THEN attempts ELSE MaxAttempts)["validation"] >= 2

InvalidReply == place = "answered" /\ reply.kind = "plan" /\ ~Wellworded(reply.plans)

RepairMessages ==
  /\ InvalidReply
  /\ ~fallbackAttempted /\ ~Exhausted /\ ~Looping
  /\ Repair(Counted("validation"), FALSE)
  /\ UNCHANGED <<repository, others, locals>>

Escalate ==
  /\ InvalidReply
  /\ ~fallbackAttempted /\ (Exhausted \/ Looping) /\ ShouldUseFallback
  /\ Repair([attempts EXCEPT !["validation"] = 0], TRUE)
  /\ UNCHANGED <<repository, others, locals>>

GiveUpOnMessages ==
  /\ InvalidReply
  /\ \/ fallbackAttempted /\ Fail({})
     \/ /\ ~fallbackAttempted /\ (Exhausted \/ Looping) /\ ~ShouldUseFallback
        /\ IF Exhausted THEN Fail({}) ELSE LoopDetected({}, Counted("validation"))
  /\ UNCHANGED <<repository, others, locals>>

-----------------------------------------------------------------------------
(* publisher.ts: one batch of plans.                                       *)

CurrentFiles == reply.plans[step].files
Staged(paths) == [f \in Files |-> IF f \in paths THEN work[f] ELSE index[f]]
\* `git add` refuses all of its paths when it knows nothing of one of them.
Unknown(paths) == \E f \in paths : work[f] = Absent /\ index[f] = Absent

(* The error is retried within its budget, or final.                       *)
Classify(kind, paths, shas) ==
  \/ /\ attempts[kind] < MaxAttempts[kind]
     /\ problem' = kind
     /\ pending' = paths \ FilesOf(committedShas \cup shas)
     /\ landed' = shas
     /\ UNCHANGED <<step, remaining>> /\ Go("reset")
  \/ attempts[kind] >= MaxAttempts[kind] /\ UNCHANGED locals /\ Fail(shas)

Accept ==
  /\ place = "answered" /\ reply.kind = "plan" /\ Wellworded(reply.plans)
  /\ \/ Duplicates(reply.plans) /\ Classify("structural", {}, {})
     \/ ~Duplicates(reply.plans) /\ UNCHANGED locals /\ Go("guard")
  /\ UNCHANGED <<repository, others>>

(* The diff is read and compared, then HEAD is read.                        *)
Guard ==
  /\ place = "guard"
  /\ \/ /\ diffHash = {} \/ DiffOf(index) = diffHash
        /\ UNCHANGED locals /\ Go("unstage")
     \/ /\ diffHash # {} /\ DiffOf(index) # diffHash
        /\ Classify("race", {}, {})
     \/ "read" \in Faults /\ UNCHANGED locals /\ Fail({})
  /\ UNCHANGED <<repository, others>>

(* Mutant: the index is left as it was staged for planning.                *)
UnstageNothing ==
  /\ place = "unstage"
  /\ \/ /\ ~locked /\ KeepIndex
        /\ step' = 1 /\ UNCHANGED <<landed, problem, pending, remaining>>
        /\ Go("add")
     \/ locked /\ KeepIndex /\ UNCHANGED locals /\ Fail({})
  /\ KeepRest

Unstage ==
  /\ place = "unstage"
  /\ \/ /\ ~locked /\ ResetIndex
        /\ step' = 1 /\ UNCHANGED <<landed, problem, pending, remaining>>
        /\ Go("add")
     \/ locked /\ KeepIndex /\ UNCHANGED locals /\ Fail({})
  /\ KeepRest

AddPlan ==
  /\ place = "add"
  /\ \/ /\ ~locked /\ ~Unknown(CurrentFiles)
        /\ index' = Staged(CurrentFiles) /\ UNCHANGED stray /\ Go("commit")
     \/ (locked \/ Unknown(CurrentFiles)) /\ KeepIndex /\ Go("cleanup")
  /\ KeepRest /\ UNCHANGED locals

CommitPlan ==
  /\ place = "commit"
  /\ ~locked /\ Changed(index) # {}
  /\ head' = index
  /\ history' = Append(history, [own |-> TRUE, plan |-> CurrentFiles,
                                 changed |-> Changed(index), stray |-> stray])
  /\ stray' = {}
  /\ Go("revparse")
  /\ UNCHANGED <<index, work, locked, touches, locals>>

CommitFails ==
  /\ place = "commit"
  /\ locked \/ Changed(index) = {} \/ "commit" \in Faults
  /\ Go("cleanup")
  /\ UNCHANGED <<repository, others, locals>>

(* A commit whose SHA cannot be read is treated as one that failed.        *)
RevParse ==
  /\ place = "revparse"
  /\ \/ /\ landed' = landed \cup {[sha |-> Len(history), files |-> CurrentFiles]}
        /\ Go("between")
     \/ "read" \in Faults /\ UNCHANGED landed /\ Go("cleanup")
  /\ UNCHANGED <<repository, others, step, problem, pending, remaining>>

(* The reset between two commits is best effort.                           *)
ResetBetween ==
  /\ place = "between"
  /\ IF locked THEN KeepIndex ELSE ResetIndex
  /\ \/ /\ step < Len(reply.plans)
        /\ step' = step + 1 /\ Go("add")
     \/ /\ step = Len(reply.plans)
        /\ UNCHANGED step /\ Go("push")
  /\ KeepRest /\ UNCHANGED <<landed, problem, pending, remaining>>

(* Mutant: waits for the lock.                                             *)
CleanupWaits ==
  /\ place = "cleanup"
  /\ ~locked /\ ResetIndex /\ Go("inspect")
  /\ KeepRest /\ UNCHANGED locals

Cleanup ==
  /\ place = "cleanup"
  /\ \/ ~locked /\ ResetIndex /\ UNCHANGED locals /\ Go("inspect")
     \/ locked /\ KeepIndex /\ Raise
  /\ KeepRest

Untouched(f) == head[f] = index[f] /\ index[f] = work[f]
Missing(f) == Untouched(f) /\ work[f] = Absent

Misfit == \/ \E f \in CurrentFiles : Missing(f)
          \/ \A f \in CurrentFiles : Untouched(f)
Uninspectable == CurrentFiles \cap Outside # {}

(* Mutant: a failed commit loses the commits before it.                    *)
InspectForgets ==
  /\ place = "inspect"
  /\ LET rest == PlannedFrom(reply.plans, step) IN
     \/ /\ ~Uninspectable /\ Misfit
        /\ Classify("structural", IF landed = {} THEN {} ELSE rest, {})
     \/ /\ ~Uninspectable /\ ~Misfit
        /\ Classify("git", rest, {})
     \/ (Uninspectable \/ "read" \in Faults) /\ Raise
  /\ UNCHANGED <<repository, others>>

(* `git status` and `git ls-files` refuse a path outside the repository.   *)
Inspect ==
  /\ place = "inspect"
  /\ LET rest == PlannedFrom(reply.plans, step) IN
     \/ /\ ~Uninspectable /\ Misfit
        /\ Classify("structural", IF landed = {} THEN {} ELSE rest, landed)
     \/ /\ ~Uninspectable /\ ~Misfit
        /\ Classify("git", rest, landed)
     \/ (Uninspectable \/ "read" \in Faults) /\ Raise
  /\ UNCHANGED <<repository, others>>

Push ==
  /\ place = "push"
  /\ End("SUCCESS", landed, attempts) \/ Fail(landed)
  /\ UNCHANGED <<repository, others, locals>>

-----------------------------------------------------------------------------
(* The next attempt.                                                       *)

ResetForRetry ==
  /\ place = "reset"
  /\ IF locked THEN KeepIndex ELSE ResetIndex
  /\ Go("reconstruct")
  /\ KeepRest /\ UNCHANGED locals

(* One `git diff` per pending file, or one of the index.  What cannot be   *)
(* read counts as nothing.                                                 *)
Reconstruct ==
  /\ place = "reconstruct"
  /\ LET edited == {f \in pending : index[f] \notin {Absent, work[f]}} IN
     \/ /\ pending = {}
        /\ \/ remaining' = DiffOf(index)
           \/ "read" \in Faults /\ remaining' = {}
        /\ Go("requeue")
     \/ /\ pending # {}
        /\ \E seen \in SUBSET edited :
             /\ seen = edited \/ "read" \in Faults
             /\ remaining' = {<<f, index[f], work[f]>> : f \in seen}
             /\ Go(IF seen = pending THEN "requeue" ELSE "restage")
  /\ UNCHANGED <<repository, others, step, landed, problem, pending>>

SafeToRestage == pending \ {change[1] : change \in remaining}

Restage ==
  /\ place = "restage"
  /\ \/ /\ ~locked /\ ~Unknown(SafeToRestage)
        /\ index' = Staged(SafeToRestage) /\ UNCHANGED stray /\ Go("capture")
     \/ (locked \/ Unknown(SafeToRestage)) /\ KeepIndex /\ Go("requeue")
  /\ KeepRest /\ UNCHANGED locals

(* If the staged diff cannot be read, what was staged stays.               *)
Capture ==
  /\ place = "capture"
  /\ \/ remaining' = DiffOf(index) \cup remaining /\ Go("restore")
     \/ "read" \in Faults /\ UNCHANGED remaining /\ Go("requeue")
  /\ UNCHANGED <<repository, others, step, landed, problem, pending>>

Restore ==
  /\ place = "restore"
  /\ IF locked THEN KeepIndex ELSE ResetIndex
  /\ Go("requeue")
  /\ KeepRest /\ UNCHANGED locals

FailedPlans == IF problem = "validation" THEN <<>> ELSE reply.plans

(* Mutant: the retry is not counted.                                       *)
PlanAgainUncounted(diff) ==
  /\ place' = "inferring" /\ attempts' = attempts
  /\ lastPlanHash' = HashPlans(FailedPlans)
  /\ diffHash' = diff
  /\ committedShas' = committedShas \cup landed
  /\ job' = <<>> /\ delegations' = delegations + 1
  /\ ForgetLocals /\ reply' = Unanswered
  /\ UNCHANGED <<status, fallbackAttempted>>

(* The end of queueRetry: a new planning job for the diff, or a loop.      *)
PlanAgain(diff) ==
  \/ /\ lastPlanHash # HashPlans(FailedPlans)
     /\ place' = "inferring" /\ attempts' = Counted(problem)
     /\ lastPlanHash' = HashPlans(FailedPlans)
     /\ diffHash' = diff
     /\ committedShas' = committedShas \cup landed
     /\ job' = <<>> /\ delegations' = delegations + 1
     /\ ForgetLocals /\ reply' = Unanswered
     /\ UNCHANGED <<status, fallbackAttempted>>
  \/ /\ lastPlanHash = HashPlans(FailedPlans)
     /\ UNCHANGED locals
     /\ LoopDetected(landed, Counted(problem))

(* queueRetry stages what is pending, or everything, and reads the diff.   *)
Requeue ==
  /\ place = "requeue"
  /\ \/ /\ ~locked /\ ~Unknown(pending)
        /\ index' = Staged(IF pending = {} THEN Files ELSE pending)
        /\ UNCHANGED <<stray, locals>> /\ Go("measure")
     \/ (locked \/ Unknown(pending)) /\ KeepIndex /\ PlanAgain(remaining)
  /\ KeepRest

Measure ==
  /\ place = "measure"
  /\ \/ PlanAgain(DiffOf(index))
     \/ "read" \in Faults /\ PlanAgain(remaining)
  /\ UNCHANGED <<repository, others>>

-----------------------------------------------------------------------------
(* Everyone else.                                                          *)

Over == place \in {"done", "abandoned"}
control == <<place, repoState, ghosts, exchange, locals>>
Touch == ~Over /\ touches < MaxTouches /\ touches' = touches + 1

Edit ==
  /\ "edit" \in Faults /\ Touch
  /\ \E f \in Files \ Outside : \E v \in Contents \ {work[f]} :
       work' = [work EXCEPT ![f] = v]
  /\ UNCHANGED <<head, index, locked, history, stray, control>>

StageElsewhere ==
  /\ "stage" \in Faults /\ Touch /\ ~locked
  /\ \E f \in Files :
       /\ index[f] # work[f]
       /\ index' = [index EXCEPT ![f] = work[f]]
       /\ stray' = stray \cup {f}
  /\ UNCHANGED <<head, work, locked, history, control>>

CommitElsewhere ==
  /\ "history" \in Faults /\ Touch /\ ~locked
  /\ Changed(index) # {}
  /\ head' = index /\ stray' = {}
  /\ history' = Append(history, [own |-> FALSE, plan |-> {},
                                 changed |-> Changed(index), stray |-> {}])
  /\ UNCHANGED <<index, work, locked, control>>

(* Another Git process takes the index lock, or gives it back.             *)
Lock ==
  /\ "lock" \in Faults /\ ~Over
  /\ locked' = ~locked
  /\ UNCHANGED <<head, index, work, history, others, control>>

(* The process dies.  Turnlock may resume a delegation from its results.   *)
Crash ==
  /\ "crash" \in Faults /\ ~Over
  /\ \/ place' = "abandoned"
     \/ /\ place \notin {"staging", "reading", "inferring"}
        /\ place' = "answered"
  /\ ForgetLocals
  /\ UNCHANGED <<repository, others, repoState, ghosts, exchange>>

Validating == Staging \/ ValidationFails \/ FirstDelegation
Answering ==
  \/ Answer \/ FatalReply \/ EmptyReply \/ RejectedReply \/ RepairMessages
  \/ Escalate \/ GiveUpOnMessages \/ Accept
Publishing ==
  \/ Guard \/ Unstage \/ AddPlan \/ CommitPlan \/ CommitFails \/ RevParse
  \/ ResetBetween \/ Cleanup \/ Inspect \/ Push
Retrying ==
  ResetForRetry \/ Reconstruct \/ Restage \/ Capture \/ Restore \/ Requeue \/ Measure
Run == Validating \/ Answering \/ Publishing \/ Retrying
Environment == Edit \/ StageElsewhere \/ CommitElsewhere \/ Lock \/ Crash

Next == Run \/ Environment
Spec == Init /\ [][Next]_vars
FairSpec == Spec /\ WF_vars(Run)

-----------------------------------------------------------------------------
(* Properties.                                                             *)

Counts == [Kinds -> Nat]
PlanSequences == Seq(Plan)
Commits == [own : BOOLEAN, plan : SUBSET Files, changed : SUBSET Files,
            stray : SUBSET Files]
Shas == [sha : Nat, files : SUBSET Files]
Diffs == SUBSET (Files \X Contents \X Contents)

AtAPlan == {"add", "commit", "revparse", "between", "cleanup", "inspect"}

\* Every variable has its type, and a batch is at one of its plans.
TypeOK ==
  /\ head \in [Files -> Contents] /\ index \in [Files -> Contents]
  /\ work \in [Files -> Contents]
  /\ locked \in BOOLEAN /\ history \in Seq(Commits)
  /\ touches \in Nat /\ stray \subseteq Files
  /\ place \in Places /\ status \in Statuses
  /\ attempts \in Counts /\ fallbackAttempted \in BOOLEAN
  /\ diffHash \in Diffs /\ committedShas \subseteq Shas
  /\ delegations \in Nat /\ job \in PlanSequences
  /\ reply.kind \in {"none", "plan", "fatal", "rejected", "empty"}
  /\ reply.plans \in PlanSequences
  /\ step \in Nat /\ landed \subseteq Shas
  /\ place \in AtAPlan => step \in DOMAIN reply.plans
  /\ problem \in Kinds \/ (problem = "exec" /\ place = "done")
  /\ pending \subseteq Files /\ remaining \in Diffs

\* The budgets bound the work: a repository is planned once, retried at most
\* MaxAttempts times for each kind of error, and with a fallback model at most
\* once more and then through a fresh validation budget, whatever mixture of
\* errors and crashes the attempts meet (step2-commit-push.ts,
\* validation-retry-handler.ts).
DelegationsAreBounded ==
  delegations <=
    1 + MaxAttempts["validation"] + MaxAttempts["structural"]
      + MaxAttempts["race"] + MaxAttempts["git"]
      + (IF Fallback THEN 1 + MaxAttempts["validation"] ELSE 0)

\* A commit holds nothing but the files of its plan and what others staged
\* after the index was last reset: nothing staged for planning, for an earlier
\* plan or for a retry leaks into it, even if resets fail (publisher.ts).
CommitsHoldTheirPlan ==
  \A i \in DOMAIN history :
    history[i].own => history[i].changed \subseteq history[i].plan \cup history[i].stray

\* A repository that is over accounts for every commit the run made in it,
\* however many attempts made them and however the last one ended (README.md:139).
LandedAreReported ==
  place = "done" =>
    \A i \in DOMAIN history :
      history[i].own => \E c \in committedShas : c.sha = i

\* What remains true: only a run that ended with GitExecError, because the index
\* was locked during the cleanup or a planned path could not be inspected,
\* leaves commits out (mergeCommittedShas and the contexts of the errors).
OnlyRaisedErrorsLoseCommits == problem # "exec" => LandedAreReported

\* Success is never reported for a repository in which nothing was committed
\* (classifyError, handleLlmJobFailure).
SuccessMeansCommitted == status = "SUCCESS" => committedShas # {}

\* Every repository ends, however others interfere, unless the process keeps
\* dying.
RunEnds == <>[][~Crash]_vars => <>Over
=============================================================================
