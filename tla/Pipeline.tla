------------------------------ MODULE Pipeline ------------------------------
(***************************************************************************)
(* One pass below the execution controller, over several repositories:     *)
(* node-supervisor joins an orchestrator and the LLM bridge by a pipe; the *)
(* bridge runs the jobs of each delegation and then resumes the            *)
(* orchestrator from the state that the delegation saved, batch after      *)
(* batch, as a process of its own.  What one commit job does to its        *)
(* repository is CommitRun, what a push does is Push: here they are        *)
(* outcomes.  The question is what the single exit code of the pass says   *)
(* about all repositories and all processes.                               *)
(***************************************************************************)
EXTENDS Integers, FiniteSets

CONSTANTS
  Repositories,   \* what lies under the search paths
  Depth,          \* how deep in the file system each of them is
  MaxAttempts,    \* retries of a repository: the sum of its budgets
  Faults          \* "throw", "io", "crash", "interrupt"

ASSUME DepthAssumption == Depth \in [Repositories -> Nat]
ASSUME MaxAttemptsAssumption == MaxAttempts \in Nat
ASSUME FaultsAssumption == Faults \subseteq {"throw", "io", "crash", "interrupt"}

Settled == {"SUCCESS", "FAILED"}
Stages == {"producer", "bridge"}
Processes == Stages \cup {"resumed"}

VARIABLES
  change,      \* why discovery took a repository, or "none"
  status,      \* RepoState.status, or "none" before the validation
  attempts,    \* retries queued, of RepoState.attempts
  todo,        \* what the loop of a phase has before it
  jobs,        \* checkpointJobs and validRepos, later retryJobs
  place,       \* where the orchestrator is
  delegated,   \* the last orchestrator printed a DELEGATE block
  batch,       \* the manifest on disk
  results,     \* the result files of that batch
  bridge,      \* where the bridge is
  proc,        \* how each process is or how it ended
  seen,        \* the stages the supervisor has seen exit
  ended,       \* and whether it has read the producer's output to its end
  doomed,      \* SIGTERM is on its way
  terminating, \* terminationStarted
  interrupted, \* receivedSignal
  ioError,     \* a stream of the supervisor failed
  outcome,     \* how the supervisor ended
  committed,   \* repositories with commits of this pass
  published    \* repositories this pass pushed

phases == <<change, status, attempts, todo, jobs, place, delegated, committed,
            published>>
inference == <<batch, results, bridge>>
observed == <<seen, ended>>
supervisor == <<observed, doomed, terminating, interrupted, ioError, outcome>>
vars == <<phases, inference, proc, supervisor>>

TypeOK ==
  /\ change \in [Repositories -> {"none", "own", "submodule", "ahead"}]
  /\ status \in [Repositories -> {"none", "PENDING", "RUNNING"} \cup Settled]
  /\ attempts \in [Repositories -> 0 .. MaxAttempts]
  /\ todo \subseteq Repositories /\ jobs \subseteq Repositories
  /\ place \in {"discover", "validate", "handle", "done", "failed"}
  /\ delegated \in BOOLEAN
  /\ batch \subseteq Repositories
  /\ results \in [Repositories -> {"none", "success", "error"}]
  /\ bridge \in {"reading", "jobs", "resuming"}
  /\ proc \in [Processes -> {"unborn", "running", "zero", "failed", "killed"}]
  /\ seen \subseteq Stages /\ ended \in BOOLEAN
  /\ doomed \subseteq Processes
  /\ terminating \in BOOLEAN /\ interrupted \in BOOLEAN /\ ioError \in BOOLEAN
  /\ outcome \in {"none", "zero", "nonzero", "signal"}
  /\ committed \subseteq Repositories /\ published \subseteq Repositories

(* supervisePipeline has started both stages.                              *)
Init ==
  /\ change = [r \in Repositories |-> "none"]
  /\ status = [r \in Repositories |-> "none"]
  /\ attempts = [r \in Repositories |-> 0]
  /\ todo = {} /\ jobs = {} /\ place = "discover" /\ delegated = FALSE
  /\ batch = {} /\ results = [r \in Repositories |-> "none"]
  /\ bridge = "reading"
  /\ proc = [p \in Processes |-> IF p = "resumed" THEN "unborn" ELSE "running"]
  /\ seen = {} /\ ended = FALSE
  /\ doomed = {} /\ terminating = FALSE /\ interrupted = FALSE
  /\ ioError = FALSE /\ outcome = "none"
  /\ committed = {} /\ published = {}

Running(p) == proc[p] = "running"
Ends(p, how) == proc' = [proc EXCEPT ![p] = how]
Found == {r \in Repositories : change[r] # "none"}
Deepest(S) == {r \in S : \A q \in S : Depth[q] =< Depth[r]}

-----------------------------------------------------------------------------
(* The orchestrator: the producer until it ends, then the resumed one.     *)

Orchestrator == IF proc["resumed"] = "unborn" THEN "producer" ELSE "resumed"

(* Only one orchestrator works on what the last delegation saved.          *)
Working(where) == Running(Orchestrator) /\ place = where

Settle(r, s) == status' = [status EXCEPT ![r] = s]

(* What a phase throws outside of its try blocks ends it for all: that one *)
(* remote cannot be read or one branch diverged, during discovery, or that *)
(* the telemetry between two repositories cannot be written.               *)
PhaseThrows ==
  /\ "throw" \in Faults
  /\ \E w \in {"discover", "validate", "handle"} : Working(w)
  /\ place' = "failed"
  /\ UNCHANGED <<change, status, attempts, todo, jobs, delegated, committed,
                 published, inference, proc, supervisor>>

(* runDiscovery.  A repository may be dirty through a submodule alone; one *)
(* that is clean is taken if its branch is ahead.                          *)
Discover ==
  /\ Working("discover")
  /\ \E c \in [Repositories -> {"none", "own", "submodule", "ahead"}] :
       /\ change' = c
       /\ todo' = {r \in Repositories : c[r] # "none"}
       /\ place' = IF todo' = {} THEN "done" ELSE "validate"
  /\ UNCHANGED <<status, attempts, jobs, delegated, committed, published,
                 inference, proc, supervisor>>

(* Submodules before their parents.  Tests, staging and scan may fail; and *)
(* what is dirty through a submodule alone has nothing to stage.           *)
Validate(r) ==
  /\ Working("validate") /\ r \in Deepest(todo)
  /\ todo' = todo \ {r}
  /\ \/ change[r] = "ahead" /\ Settle(r, "RUNNING") /\ jobs' = jobs \cup {r}
     \/ change[r] = "own" /\ Settle(r, "PENDING") /\ jobs' = jobs \cup {r}
     \/ change[r] # "ahead" /\ Settle(r, "FAILED") /\ UNCHANGED jobs
  /\ UNCHANGED <<change, attempts, place, delegated, committed, published,
                 inference, proc, supervisor>>

(* printReport and io.fail or io.done: the same count at the end of both.  *)
Finalize ==
  /\ place' = IF \E r \in Found : status[r] = "FAILED" THEN "failed" ELSE "done"
  /\ UNCHANGED <<status, batch, results, jobs, delegated>>

(* io.delegateBatch saves state and manifest, then prints the block.       *)
Delegate ==
  /\ status' = [r \in Repositories |->
                  IF status[r] = "PENDING" THEN "RUNNING" ELSE status[r]]
  /\ batch' = jobs /\ jobs' = {}
  /\ results' = [r \in Repositories |-> "none"]
  /\ delegated' = TRUE /\ place' = "done"

(* The end of either phase, once its loop is through.                      *)
LeavePhase ==
  /\ Working("validate") \/ Working("handle")
  /\ todo = {}
  /\ \/ jobs # {} /\ Delegate
     \/ jobs = {} /\ Finalize
  /\ UNCHANGED <<change, attempts, todo, committed, published, bridge, proc,
                 supervisor>>

(* Jobs come back in the order of the manifest: checkpoints first.         *)
NextJobs ==
  LET checkpoints == {r \in todo : change[r] = "ahead"}
  IN  Deepest(IF checkpoints # {} THEN checkpoints ELSE todo)

MayCommit(r) ==
  committed' \in
    {committed, IF results[r] = "success" THEN committed \cup {r} ELSE committed}

MayPublish(r) ==
  published' \in
    {published, IF results[r] = "success" /\ (change[r] = "ahead" \/ r \in committed')
                THEN published \cup {r} ELSE published}

(* handlePushOnlyCheckpointResult.  What fails may have been pushed.       *)
HandleCheckpoint(r) ==
  /\ change[r] = "ahead"
  /\ \/ /\ results[r] = "success"
        /\ Settle(r, "SUCCESS") /\ published' = published \cup {r}
     \/ Settle(r, "FAILED") /\ MayPublish(r)
  /\ UNCHANGED <<attempts, jobs, committed>>

(* Everything committed and pushed; an error may still leave either done.  *)
Publish(r) ==
  /\ results[r] = "success"
  /\ Settle(r, "SUCCESS")
  /\ committed' = committed \cup {r} /\ published' = published \cup {r}
  /\ UNCHANGED <<attempts, jobs>>

(* An answer without a plan, after partial commits, counts as success.     *)
AcceptEmpty(r) ==
  /\ r \in committed
  /\ Settle(r, "SUCCESS")
  /\ UNCHANGED <<attempts, jobs, committed, published>>

(* Mutant: a retry that is counted but not put on the list.                *)
RetryForgotten(r) ==
  /\ attempts[r] < MaxAttempts
  /\ attempts' = [attempts EXCEPT ![r] = @ + 1]
  /\ MayCommit(r)
  /\ UNCHANGED <<status, jobs, published>>

(* queueRetry, for any of the budgets: the status stays RUNNING.           *)
Retry(r) ==
  /\ attempts[r] < MaxAttempts
  /\ attempts' = [attempts EXCEPT ![r] = @ + 1]
  /\ jobs' = jobs \cup {r}
  /\ MayCommit(r)
  /\ UNCHANGED <<status, published>>

GiveUp(r) ==
  /\ Settle(r, "FAILED")
  /\ MayCommit(r) /\ MayPublish(r)
  /\ UNCHANGED <<attempts, jobs>>

(* One iteration of runCommitAndPushPhase.                                 *)
Handle(r) ==
  /\ Working("handle") /\ r \in NextJobs
  /\ todo' = todo \ {r}
  /\ \/ HandleCheckpoint(r)
     \/ /\ change[r] = "own"
        /\ Publish(r) \/ AcceptEmpty(r) \/ Retry(r) \/ GiveUp(r)
  /\ UNCHANGED <<change, place, delegated, inference, proc, supervisor>>

(* process.exit(0) or process.exit(1) after runOrchestrator.               *)
OrchestratorExits ==
  /\ \/ Working("done") /\ Ends(Orchestrator, "zero")
     \/ Working("failed") /\ Ends(Orchestrator, "failed")
  /\ UNCHANGED <<phases, inference, supervisor>>

-----------------------------------------------------------------------------
(* The LLM bridge.                                                         *)

BridgeAt(where) == Running("bridge") /\ bridge = where

BridgeExits(how) == Ends("bridge", how) /\ UNCHANGED <<batch, results, bridge>>

(* Mutant: the delegation is handled when its block has been read, not at  *)
(* the end of the stream.                                                  *)
ReadEagerly ==
  /\ BridgeAt("reading")
  /\ \/ delegated /\ bridge' = "jobs" /\ UNCHANGED <<batch, results, proc>>
     \/ ended /\ ~delegated /\ BridgeExits("zero")
  /\ UNCHANGED <<phases, supervisor>>

(* readline closes when the supervisor has passed the end of the producer's*)
(* output on, whichever way it ended.  A manifest that is missing or not   *)
(* authorized ends the bridge.                                             *)
ReadBlock ==
  /\ BridgeAt("reading") /\ ended
  /\ \/ delegated /\ bridge' = "jobs" /\ UNCHANGED <<batch, results, proc>>
     \/ delegated /\ "io" \in Faults /\ BridgeExits("failed")
     \/ ~delegated /\ BridgeExits("zero")
  /\ UNCHANGED <<phases, supervisor>>

(* Jobs run in parallel.  A checkpoint is acknowledged without a question; *)
(* an error is a result too, unless it cannot be written either.           *)
Answer(r) ==
  /\ BridgeAt("jobs") /\ r \in batch /\ results[r] = "none"
  /\ \/ /\ results' = [results EXCEPT ![r] = "success"]
        /\ UNCHANGED <<batch, bridge, proc>>
     \/ /\ change[r] = "own" \/ "io" \in Faults
        /\ results' = [results EXCEPT ![r] = "error"]
        /\ UNCHANGED <<batch, bridge, proc>>
     \/ "io" \in Faults /\ BridgeExits("failed")
  /\ UNCHANGED <<phases, supervisor>>

(* executeResumeCommand: spawnSync starts the orchestrator, which consumes *)
(* the results, or does not start it.                                      *)
Resume ==
  /\ BridgeAt("jobs") /\ \A r \in batch : results[r] # "none"
  /\ \/ /\ Ends("resumed", "running")
        /\ bridge' = "resuming" /\ place' = "handle" /\ delegated' = FALSE
        /\ todo' = batch /\ batch' = {}
        /\ UNCHANGED results
     \/ "io" \in Faults /\ BridgeExits("failed") /\ UNCHANGED <<place, delegated, todo>>
  /\ UNCHANGED <<change, status, attempts, jobs, committed, published, supervisor>>

(* Mutant: the promise of a failed orchestrator is never rejected.         *)
CollectSuccess ==
  /\ BridgeAt("resuming") /\ ~Running("resumed")
  /\ \/ /\ proc["resumed"] = "zero" /\ delegated
        /\ bridge' = "jobs" /\ UNCHANGED <<batch, results, proc>>
     \/ proc["resumed"] = "zero" /\ ~delegated /\ BridgeExits("zero")
  /\ UNCHANGED <<phases, supervisor>>

(* Its output is another delegation, or the report.                        *)
Collect ==
  /\ BridgeAt("resuming") /\ ~Running("resumed")
  /\ \/ /\ proc["resumed"] = "zero" /\ delegated
        /\ bridge' = "jobs" /\ UNCHANGED <<batch, results, proc>>
     \/ proc["resumed"] = "zero" /\ ~delegated /\ BridgeExits("zero")
     \/ proc["resumed"] # "zero" /\ BridgeExits("failed")
  /\ UNCHANGED <<phases, supervisor>>

-----------------------------------------------------------------------------
(* node-supervisor.                                                        *)

IsRunning(p) == p \notin seen

(* terminateChildren                                                       *)
Terminate ==
  /\ terminating' = TRUE
  /\ doomed' = IF terminating THEN doomed
               ELSE doomed \cup {p \in Stages : IsRunning(p)}

(* The output of a producer ends with it: what it starts has pipes of its  *)
(* own.  Its end, its exit and that of the consumer are seen in any order. *)
OutputEnds ==
  /\ ~Running("producer") /\ ~ended
  /\ ended' = TRUE
  /\ UNCHANGED <<phases, inference, proc, seen, doomed, terminating, interrupted,
                 ioError, outcome>>

ProducerLeft ==
  /\ ~Running("producer") /\ IsRunning("producer")
  /\ seen' = seen \cup {"producer"}
  /\ UNCHANGED <<phases, inference, proc, ended, doomed, terminating, interrupted,
                 ioError, outcome>>

(* The consumer's exit, unlike the producer's, may be one too early.       *)
ConsumerLeft ==
  /\ ~Running("bridge") /\ IsRunning("bridge")
  /\ seen' = seen \cup {"bridge"}
  /\ \/ IsRunning("producer") /\ ~ended /\ Terminate
     \/ /\ ~IsRunning("producer") \/ ended
        /\ UNCHANGED <<doomed, terminating>>
  /\ UNCHANGED <<phases, inference, proc, ended, interrupted, ioError, outcome>>

(* Mutant: SIGTERM is sent once more.                                      *)
TerminateTwice ==
  /\ terminating
  /\ \E p \in Stages : Running(p) /\ doomed' = doomed \cup {p}
  /\ UNCHANGED <<phases, inference, proc, observed, terminating, interrupted,
                 ioError, outcome>>

(* Five seconds later.                                                     *)
ForceKill ==
  /\ terminating
  /\ \E p \in Stages : Running(p) /\ Ends(p, "killed")
  /\ UNCHANGED <<phases, inference, supervisor>>

(* Mutant: only the consumer's result decides.                             *)
ResolveByConsumer ==
  IF proc["bridge"] = "zero" /\ ~ioError THEN "zero" ELSE "nonzero"

(* resolvePipelineExitCode                                                 *)
Resolve ==
  IF (\A p \in Stages : proc[p] = "zero") /\ ~ioError THEN "zero" ELSE "nonzero"

(* runSignalAwarePipeline: both stages have closed, which is to say exited *)
(* with their output read; after a signal the supervisor ends by it.       *)
Finish ==
  /\ outcome = "none" /\ seen = Stages /\ ended
  /\ outcome' = IF interrupted THEN "signal" ELSE Resolve
  /\ UNCHANGED <<phases, inference, proc, observed, doomed, terminating,
                 interrupted, ioError>>

-----------------------------------------------------------------------------
(* What happens to processes.                                              *)

(* SIGTERM ends each of them: none has a handler.                          *)
SignalArrives(p) ==
  /\ p \in doomed /\ Running(p)
  /\ Ends(p, "killed")
  /\ UNCHANGED <<phases, inference, supervisor>>

(* A stage does not start, or dies at any time.                            *)
Crash(p) ==
  /\ "crash" \in Faults /\ Running(p)
  /\ Ends(p, "killed")
  /\ UNCHANGED <<phases, inference, supervisor>>

SpawnFails(p) ==
  /\ "io" \in Faults /\ p \in Stages /\ Running(p)
  /\ place = "discover" /\ bridge = "reading"
  /\ Ends(p, "failed") /\ seen' = seen \cup {p}
  /\ Terminate
  /\ UNCHANGED <<phases, inference, ended, interrupted, ioError, outcome>>

(* recordIoError, but for a broken pipe.                                   *)
StreamFails ==
  /\ "io" \in Faults /\ outcome = "none"
  /\ ioError' = TRUE
  /\ Terminate
  /\ UNCHANGED <<phases, inference, proc, observed, interrupted, outcome>>

(* The controller signals its group: everybody gets it who is born.        *)
Interrupt ==
  /\ "interrupt" \in Faults /\ outcome = "none"
  /\ interrupted' = TRUE /\ terminating' = TRUE
  /\ doomed' = doomed \cup {p \in Processes : Running(p)}
  /\ UNCHANGED <<phases, inference, proc, observed, ioError, outcome>>

-----------------------------------------------------------------------------
OrchestratorStep ==
  \/ PhaseThrows \/ Discover \/ LeavePhase \/ OrchestratorExits
  \/ \E r \in Repositories : Validate(r) \/ Handle(r)

BridgeStep == ReadBlock \/ Resume \/ Collect \/ \E r \in Repositories : Answer(r)

SupervisorStep ==
  OutputEnds \/ ProducerLeft \/ ConsumerLeft \/ ForceKill \/ Finish

Trouble ==
  \/ StreamFails \/ Interrupt
  \/ \E p \in Processes : SignalArrives(p) \/ Crash(p) \/ SpawnFails(p)

Next == OrchestratorStep \/ BridgeStep \/ SupervisorStep \/ Trouble

Spec == Init /\ [][Next]_vars

(* Timers and child events of the supervisor happen.  Tests, Git and the   *)
(* LLM owe nothing: the stages may hang.                                   *)
Fairness ==
  /\ WF_vars(OutputEnds) /\ WF_vars(ProducerLeft) /\ WF_vars(ConsumerLeft)
  /\ WF_vars(ForceKill) /\ WF_vars(Finish)

FairSpec == Spec /\ Fairness

-----------------------------------------------------------------------------
(* An exit code of zero speaks for every repository and every process,     *)
(* whatever died, failed or was signalled on the way: the last phase came  *)
(* to its end, all that was found succeeded, with commits or a push of     *)
(* this pass on record, and nothing is left that could still run Git.      *)
ZeroSpeaksForAll ==
  outcome = "zero" =>
    /\ place = "done" /\ ~delegated /\ ~interrupted
    /\ \A r \in Found : status[r] = "SUCCESS" /\ r \in committed \cup published
    /\ \A p \in Processes : ~Running(p)

(* "R26 invariant: only safe if Turnlock guarantees single-instance         *)
(* execution": two orchestrators never work on the state of one run.       *)
OneOrchestrator == ~(Running("producer") /\ Running("resumed"))

(* Until something throws, a repository that has no outcome yet is in one  *)
(* list and in one only, through all cycles: before the loop, among the    *)
(* jobs of the next batch, or in the batch that the bridge has.            *)
NobodyIsLeftOut ==
  place # "failed" =>
    \A r \in Repositories :
      /\ r \in todo => r \notin jobs \cup batch
      /\ r \in jobs => r \notin batch
      /\ r \in todo \cup jobs \cup batch <=>
           r \in Found /\ status[r] \notin Settled

(* What a repository was reported as in one cycle stays for the next ones, *)
(* and nothing more is committed or pushed for it.                         *)
OutcomesStay ==
  [][\A r \in Repositories :
       status[r] \in Settled =>
         /\ status'[r] = status[r]
         /\ r \in committed' <=> r \in committed
         /\ r \in published' <=> r \in published]_vars

(* Once it terminates, the supervisor ends, even if no stage reacts.       *)
TerminationEnds == terminating ~> outcome # "none"

(* If what the stages run comes to an end, so does the pass.               *)
PassEnds ==
  WF_vars(OrchestratorStep) /\ WF_vars(BridgeStep) => <>(outcome # "none")
=============================================================================
