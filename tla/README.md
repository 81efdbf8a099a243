# Formal model of git-commits-push

git-commits-push commits and pushes a set of local repositories with the help
of an LLM. Any number of terminals, hooks and agents start it at any time; it
promises that at most one of them touches repositories at once, that every
start leads to a scan made after it, and that neither a crash, a reused process
number nor a lost message breaks the two. What it pushes must never cost a
remote branch a commit, and what it commits must be what was planned, within a
bounded number of attempts; its exit code must speak for every repository, and
an installation that is interrupted must leave a program that works. This
directory holds TLA+ modules for the part of the program that keeps those
promises, the TLC runs that check them
on small instances, and TLAPS proofs for every size.

Paths below are relative to the repository; `reconciliation/` stands for
`src/modules/reconciliation/`.

## The system

    caller -> launcher (public-launcher.ts) ----- SQLite ----- other launchers
                 | spawn, IPC, group signals      reconciler.sqlite (one row)
              execution-controller.ts  [leader of a process group]
                 | spawn
              node-supervisor.ts
                 | spawn
              Turnlock orchestrator -> phases -> LLM bridge -> git, tests

| component | state it keeps | operations | what makes it correct |
|---|---|---|---|
| Reconciler row (`reconciler.ts`, `active-execution-state.ts`, `reconciler-state.ts`) | three generations, owner token, active-execution descriptor, in one SQLite row | admission, finish, release, heartbeat; register, authorize, clear an execution | the row is always readable; a living owner is not displaced; a descriptor outlives its owner; completion moves forward |
| Public launcher and pass loop (`public-launcher.ts`, `owned-reconciliation-loop.ts`, `supervisor-pass.ts`) | its place in the code, the generation it runs, the child it prepared, a cancellation flag | admission, recovery, preparation, pass, termination, cancellation, release, exit | one pipeline at a time; no pass beside a predecessor's; success only for a pass that earned it; requests are not dropped; every invocation ends |
| Execution controller (`execution-controller.ts`, `execution-boundary-process.ts`) | token, supervisor handle, termination flag, two timers, IPC channel | PREPARE, START, disconnect, signal, supervisor close, quiescence poll, forced kill | inert before START; whole group ends; never outlives the launcher; identity anchor of the group |
| Public admission gates (`state-cutover-lock.ts`, `legacy-queue-state.ts`, `legacy-state-cutover.ts`, `scripts/state-migration.mjs`) | lock directory, place of the state tree, files of the retired queue | acquire, look for unmigrated state, inspect, register, release, archive; migrate, validate, roll back | no launcher inside a tree that moves; one tree; what is archived was inspected and has a durable request |
| Supervisor pipeline (`node-supervisor.ts`, `runtime-launch.ts`) | children, termination and interrupt flags | start and join the stages, forward signals, force-kill, resolve the exit code | zero only for a pass that ended for everybody; it ends even if a stage hangs |
| Orchestration (`turnlock-orchestrator.ts`, `src/phases/`, `src/config/state-schema.ts`, `discovery.ts`) | serialized state: status, attempts and jobs of every repository | discovery, validation, batch delegation, commit and push, finalization | a repository without an outcome is in exactly one list |
| Commit jobs (`src/modules/core/`) | per-job attempt counts, fallback model, feedback | classify, retry, fall back, finalize | bounded retries; a budget is not shared by mistake |
| Publisher and push (`src/modules/git/`) | index, HEAD, remote branch, endpoint | stage, commit, clean up, restage, push, push-only checkpoint | a commit holds its plan and no leftovers; what landed is accounted for; a push never overwrites; an ambiguous answer is resolved by reading the remote |
| LLM bridge (`turnlock-to-llm-bridge.ts`, `batch-manifest.ts`) | batch manifest, result files | read a delegation, run jobs, write results, resume | it resumes when the previous orchestrator has ended and every result exists |
| Installer (`src/modules/installation/`) | SQLite install lock, owner record, staging and release directories, current and public links | lock, record, collect, build, publish, verify, switch, confirm, release | a living installer's staging stays; the link names whole releases only; a dead installer stops nobody |
| `packages/node-runtime`, `packages/trust` | child process of the build script; token file | run with time and output limits; issue and verify | not modelled, see below |
| Telemetry, reports, preflights | none that decisions read | write, classify | best effort |

Interactions: launchers meet only in the SQLite row (one `BEGIN IMMEDIATE`
transaction per call) and in the kernel (group probes and signals). A launcher
and its controller talk over one IPC channel; the end of the channel is itself
a message. Everything below the controller is seen by the launcher only as
"some process of the group exists". Below it, processes wait for one another
through pipes, exit codes and the files of a run: the bridge for the end of the
orchestrator's output, the resumed orchestrator for the result files. Launchers,
the migration, an operator and workers of a retired release meet in the state
directory; installers meet in the data directory.

Hard behaviours: liveness is sampled before the transaction that uses it; a
descriptor and the process it describes can never change in one step; the group
is probed and its leader identified by two system calls; a controller
terminates its own group while a recovering launcher does the same; launchers
and controllers die anywhere; timers, messages and end-of-file race; directories
and files are looked at in one call and moved in another; a run is continued by
another process than the one that started it. The list
with source lines is `hazards` in `PROJECT.json`.

## Modules

| module | models |
|---|---|
| `Identities` | owner and execution tokens, and NULL |
| `ReconcilerRow` | the row and its transactions; `RowReadable` is what `readReconcilerState` accepts |
| `Reconciler` | the coordinator as a library: any process calls any transaction in any order and may die |
| `ExecutionBoundary` | controller, supervisor, descendants and the kernel, per execution |
| `GitExecution` | launchers on top of both: one step per await or transaction |
| `SingleLiveExecution` | the abstract promise: scans happen one at a time, after the requests they answer, and are reported once they end |
| `Push` | publication of a branch: the push after a commit run, the checkpointed push of a branch that is ahead, the Git server, other clones and the user |
| `CommitRun` | one repository of a run: validation, planning by the LLM, the batch of commits, retries and fallback, beside a user and other Git processes |
| `Admission` | launchers from the cutover lock to the first pass, on top of `ReconcilerRow`, beside the migration, an operator and old workers |
| `Pipeline` | one pass below the controller over several repositories: supervisor, producer, LLM bridge, resumed orchestrators, phases |
| `Installation` | installers of the standalone program that run beside one another and die anywhere |
| `ReleaseStore` | the abstract promise: releases are immutable, and the current link moves to whole ones |
| `GitExecutionProperties` | properties, inductive invariant and the two refinement mappings |
| `ReconcilerRowProofs`, `ReconcilerProofs`, `GitExecutionProofs`, `PushProofs`, `CommitRunProofs`, `InstallationProofs`, `AdmissionProofs`, `PipelineProofs` | theorems |
| `MCReconciler`, `MCGitExecution`, `MCGitExecutionLiveness`, `MCPush`, `MCCommitRun`, `MCInstallation`, `MCAdmission`, `MCPipeline` | finite instances |

Some definitions are preceded by a mutant: the same operation with a plausible
bug, used by no specification. `PROJECT.json` names the property each mutant
breaks, which shows that the property can fail.

### How state and actions correspond to the code

*Row.* `requested`, `completed`, `running`, `owner` and the `exec*` variables
are columns. Columns that only describe a process (pid, boot epoch, start
identity, caller, session, heartbeat) are written and erased together with the
token that stands for them. NULL is `None`, or `NoGeneration` for a generation.
A fence that throws or returns false rolls back: the `Row...` operator is
disabled, and `GitExecution` has the action that takes the error path
(`NotRegistered`, `NotAuthorized`, `ClearFails`, `DoNotFinish`, the second
disjunct of `Release`).

*Launcher.* `at` is the await or transaction a launcher has reached:
`start, observed` (`registerReconciliationRequest`), `admitted`
(`public-launcher.ts:183-303`), `probe, identify, await`
(`terminateExecutionBoundary`; `task` is its caller, `stage` the signal it is
at), `closing` (`await closePromise`; an interrupted `start`, which is the `task`
"interrupt", then probes the group, see `GroupRemains`), `clear`, `provision` (`prepareRuntime`),
`prepare, handshake` (`prepareSupervisorPass`), `prepared, registered,
authorized, running` (`runOnePass`), `finish`, `release`, `returned`, and
`coalesced` or `dead`. The catch blocks of `runOnePass` and
`prepareSupervisorPass` are `TerminationThrows`, `ClearFails`, `NotRegistered`,
`NotAuthorized` and `HandshakeFails`. A START that cannot be sent is
`StartUndeliverable` or, if the error comes after the message was queued,
`StartLost`. A launcher that returned still lives while
a child does, because the entrypoint only sets `process.exitCode`.

*Controller.* `ctl` is `unborn, spawned, ready, armed` (START is in the pipe),
`started, gone`; `phase` is `calm, signalled` (SIGTERM not yet handled),
`terminating` (`terminationStarted`), `killed`; `link` is the IPC channel seen
by the controller; `outcome` is what the launcher will read as the result.
`sup` and `desc` are the supervisor and all other descendants; one flag is
enough for the latter because the code only ever asks whether any exists.

*Kernel.* A SIGKILL to a group stops all members at once, and each is reaped in
its own time. A number is reused only when neither a process nor a group has it
(`stranger`). Process death and reaping are otherwise one step. Verifying the
leader and sending the signal (`signalVerifiedGroup`) is one step: between those
two adjacent system calls no number is recycled. That is the assumption under
which `StrangersAreNotSignalled` holds, and the code makes it too.

*Push.* A run is at the Git command `place` names: `source`, `preflight`,
`publish`, `sent`, `recover`, `settle` (the two recovery reads of
`publishWithFrozenEndpoint`), `postflight`, `track` for `executePush`;
`captured, checkpointed, validated, revalidated` for `push-only.ts`, which then
joins at `publish`. Commits are the nodes of any ancestry order; a destination
is a remote with a branch, has a push URL (`Url`) and a name (`Name`: remote and
ref), and the code compares them one at a time: the URL when it validates a
checkpoint, the name before it publishes (`push-only.ts:210-268`), so a URL that
changes in between goes unnoticed, and the push goes to the frozen one. `git push` is the one
command that is not atomic: the client compares the advertised branch with the
lease, the server compares and swaps, the answer arrives or not, and a request
nobody waits for is still decided (`flight`). A message is only classified as
permanent or not (`classifyTransient`). `repeats` counts what the code does not
count itself. Between the commands the user commits, moves HEAD, dirties the
worktree and changes the destination, and other clones push, rewrite and delete.
A crash in a checkpointed run either resumes it from the snapshot or abandons it.

*Commit run.* `place` is the Git command or the delegation the run is at:
`staging, reading` (`processRepoValidationAndDiff`), `inferring` (the batch is
with the LLM bridge), `answered` (`runCommitAndPushPhase` has the result),
`guard, unstage, add, commit, revparse, between, push` and, after an error,
`cleanup, inspect` (`executeMultiCommitAndPush`), `reset`
(`resetIndexForRetry`), `reconstruct, restage, capture, restore`
(`reconstructRemainingDiff`), `requeue, measure` (`queueRetry`), `done` and
`abandoned`. Decisions between two commands belong to the step before them.
`head`, `index` and `work` map each path to a content or to `Absent`; a diff is
the set of paths with their two contents, and that set stands for its hash, as
the multiset of plans does for the hash of plans. `attempts`, `fallbackAttempted`,
`lastPlanHash`, `diffHash` and `committedShas` are the fields of `RepoState`,
saved with each delegation; `step`, `landed`, `problem`, `pending` and
`remaining` are locals, lost in a crash. A commit's SHA is its position in
`history`, so `rev-parse` after somebody else's commit returns the wrong one, as
in the code. `stray` (what others staged since the last reset) and
`delegations` only serve properties. The LLM answers with any of
`PlanLists`; asked for a repair, with any messages in place of the rejected ones;
or its job fails in one of the three ways that the code tells apart. The push is
one step here; its protocol is `Push`. Paths in `Outside` lead out of the
repository: `git add` refuses them, and the inspection of a failed plan throws on
them. The fault "read" lets any reading command fail, each where the code calls
it: the guard's diff, `rev-parse` after a commit, the inspection, and the diffs
of a retry. `Raise` is the publisher's last catch, whose error has no commits; it
leaves `problem` at "exec".

*Admission.* `at` is where a launcher is: `start`, `locked`, `inspect`, `open`,
`register`, `registered` under the cutover lock (`public-launcher.ts:85-183`);
`unlocked`; as the owner `clean` or `archive` (`prepareFirstExecution`), `pass`,
`passing`; `done`, `refused`, `failed`, `dead`. `cutover` is who created the lock
directory, which the code itself does not know: `rmdir` asks for no owner.
`source` and `target` are the state tree at its retired and its current place;
`migration` is the place of `scripts/state-migration.mjs`, with its rename, its
validation and its way back. `queue` gives each file the number of the write it
holds, which stands for inode, size, times and contents; `torn` files do not
parse and `beating` says that `running.lock` is at most 40 seconds old.
Transactions are those of `ReconcilerRow`; the passes between archiving and
release are `GitExecution`'s matter and one step here. `moved`, `unanswered` and
`answering` only serve properties.

*Pipeline.* `proc` is how the producer, the bridge and the resumed orchestrator
are or ended. A resumed orchestrator is a new process for each batch, and the
name `resumed` stands for the last one; `spawnSync` lets there be no two.
`place` is the phase (`discover, validate, handle, done, failed`) of whichever
orchestrator works; `todo` is what its loop has before it, `jobs` the list of
the next batch, `batch` the manifest, `results` the files of the bridge.
`status` and `attempts` are fields of `RepoState`, with `attempts` the retries of
all budgets together. A commit job's effects are `committed` and `published`;
how it comes to them is `CommitRun` and `Push`, whose outcomes are the
disjuncts of `Handle`. `PhaseThrows` is what the phases call outside of every
`try`: `captureTrackedPushSnapshot` during discovery, the telemetry between two
repositories. `seen` and `ended` are what the supervisor has seen of the stages:
which have exited, and whether the producer's output was read to its end. Each
comes later than what it is about, and in any order (`OutputEnds`,
`ProducerLeft`, `ConsumerLeft`): a consumer that exits first, in the
supervisor's view, makes it terminate the producer. `doomed` are processes SIGTERM is on its way to; `terminating`,
`interrupted`, `ioError` are the supervisor's flags and `outcome` its end.

*Installation.* `at` names the awaits of `standalone-installer.ts` and those
system calls of `install-lock.ts` between which a death matters: `start`,
`clean, archive, candidate, link, unlink, commit` (acquisition), `collect`
(staging directories of the dead), `building, publish, rename, verify, discard,
activate, inspect, switch, confirm, cleanup`, `release`, `leaving`, `refused`,
`gone`. `holder` is the exclusive SQLite transaction, which ends with its
process; `record` and `candidates` are files, which do not. `orphans` are dead
installers whose `pnpm` still writes into their staging directory. An installer
that cannot read its own start identity after `BEGIN EXCLUSIVE` keeps the
transaction until it exits (`install-lock.ts:245-249`). A release is
named by its digest and is `whole` or `damaged`: edited by the user, before.
`ReleaseStore` is refined with `whole`, `broken` and `active` read off
`releases` and `current`.

*Over-approximations.* A cancellation may arrive between two synchronous
statements; an aborted launcher may exit without waiting for its child even
when it was aborted by a failed heartbeat. Both only add behaviours.

*Executions.* Every generation prepares at most one controller and every
invocation registers one generation, so there are never more executions than
invocations.

## Runs

| run | instance and faults | shows |
|---|---|---|
| `Reconciler` | 3 callers, 2 executions, 3 registrations, symmetric | every order of coordinator calls keeps the row readable, never displaces a living owner, never loses a descriptor, completes in order |
| `GitExecutionErrors` | 2 launchers; cancellation, uncaught errors, failing calls, stalled handshakes, PID reuse | the error paths keep one live pipeline and earned completion |
| `GitExecutionKernel` | 2 launchers; crashes, killed controllers, unreadable identities, PID reuse | the inductive invariant (types, what owners know, recorded execution), exclusive recovery, the two action properties, both refinements |
| `GitExecutionLiveness` | 2 launchers, no symmetry; crashes of both or a cancellation of the first, handshakes that time out; fair, but for pipelines | requests are answered and invocations end unless a pipeline hangs; a cancelled invocation ends even then; controllers do not outlive launchers |
| `Push` | 3 commits, 1 destination, 2 late requests; every fault; fair | forward moves only; at most one repetition, and counted; runs end; what is ahead gets published once faults, users and other clones stop, however runs end |
| `PushStays` | 3 commits, 2 destinations, 2 late requests, symmetric; the user moves, others only add | a reported publication is on the branch and stays |
| `CommitRun` | 2 files and one outside of the repository, 8 shapes of answer, fallback; a user who edits or stages once; index locks; commits that fail | every commit of the run is accounted for at the end, through every mixture of retries, unless the publisher raised its `GitExecError` |
| `CommitRunFaults` | 2 files, 2 answers, fallback; index locks, one staging or commit by others, failing reads, crashes; fair | the budgets bound the delegations; nothing left over gets into a commit even if resets fail; success needs a commit; a repository ends |
| `Installation` | 3 installers, 2 digests; crashes, failing calls, reused PIDs; any store to begin with; fair | lock and record agree while they matter; a living installer's staging stays; a refusal has a living cause; every installer ends; `ReleaseStore` is implemented |
| `Admission` | 2 launchers, 1 order and `running.lock`, 2 writes of an old worker, a migration that repeats, an operator; crashes, failing calls; fair launchers | no launcher inside a moving tree, no second tree, archived orders have a request until a later pass succeeds, exactly what was inspected is archived, launchers end |
| `Pipeline` | a repository and one inside it, 2 retries; throws, failing streams and starts, crashes, signals; fair supervisor | exit code zero speaks for all; one orchestrator at a time; nobody is left out between two batches; a terminating supervisor ends, and a pass whose stages end does too |
| `LandedCommitLost` | an expected violation | see findings |

Type invariants are not in this table: that of `GitExecution` is part of
`Inductive`, and every module's is a theorem (`TypeCorrect`).

Bounds. `Launchers` and `Executions` bound a run; there is no state constraint
in `GitExecution`, whose counters are bounded by the number of launchers. Two
launchers give every pairwise race and one change of owner; what a third adds,
an owner that dies while it recovers another's boundary, is covered by the
theorems, which hold for any number. Faults are not counted: each may happen at
every step where it can. `MaxAttempts` is 2 instead of 8: with two launchers more
retries only repeat the same sample. `Generations` bounds `Reconciler`. `Push`
has no counter: runs follow one another for ever. Two `Slots` let a request of an
earlier attempt, or run, compete with the current one; a third would only be
another late one. The commits are a chain of two with one beside the second,
which gives ahead, behind, diverged and equal. `CommitRun` has the code's own
budgets (2, 1, 1, 1); each delegation uses one up, so histories are finite and
the bound of nine delegations is reached. `MaxTouches` counts what others do;
locks and crashes are not counted. Two files, one content and `Absent` give
edited, new and deleted paths, plans that split, cover, omit, repeat or name
nothing, and a rejected message alone or beside a good one; the third path exists
only in plans. One touch by others is enough to meet each command of each
attempt, because it may come anywhere; the theorems allow any number. In
`GitExecutionLiveness` a behaviour has either deaths or one cancelled launcher
(`MCGitExecutionLiveness`), which keeps it finite enough without symmetry: both
together are in the safety runs. Deadlock is not
checked because every invocation, installer and pass ends. Two writes of an old
worker let an order be seen and then be replaced; three installers let one die,
one recover and one be refused. The files of a queue differ only in being
`running.lock` or not. Two repositories give a parent with a submodule, a
commit job beside a checkpoint and one that is retried while the other settles;
the jobs of more do not meet, since the phases handle one at a time. Symmetry is used only where no liveness is
checked.

Fairness. In `GitExecution`, weak fairness of each launcher's and each
controller's steps: they are Node event loops whose timers all fire. Weak
fairness of the reaping of killed processes: the kernel's. Nothing is assumed of
a pipeline: the test cascade (`pre-commit-validators.ts:151-169`), Git
(`git-exec.ts:71-91`) and a resumed orchestrator
(`turnlock-to-llm-bridge.ts:137`) run without a time limit. So
`EveryInvocationEnds` and `PendingRequestIsAnswered` have the escape that the code
has: a launcher that is not cancelled and whose pipeline hangs `Waits` for it for
ever, and the requests of others with it. Nor is anything assumed of other
descendants, who may ignore SIGTERM for ever.

`Admission` is fair to launchers only: the migration may stay anywhere, old
workers may write or not, an operator need not come. `Installation` assumes that
the calls of an installer return and that `pnpm` ends. `Pipeline` assumes the
supervisor's timer and child events, and nothing of the stages: `TerminationEnds`
holds although they may hang for ever, and `PassEnds` is conditional on the
steps of orchestrator and bridge.

`Push` assumes that each command of a run and each server's decision happens,
and, for `CommitsGetPublished` only, that a clean branch is visited again: the
program is started from hooks and by hand. That property is conditional on a
moment after which no fault, user or other clone acts. The moment is a variable
(`calm`), because a run that meets trouble and one that fails by a decision of its
own may end in the same state: what the runs do after it is not assumed, so a run
that kept failing without a cause, as when a comparison went wrong each time,
would break the property.

`CommitRun` assumes that each command of the run ends and that the LLM answers or
its job fails: delegations have a limit of ten minutes (`perDelegationMs`), and a
lock makes a command fail, never wait. Nothing is assumed of others. `RunEnds` is
conditional on crashes ending, because a resumed phase starts its batch again.

`PendingRequestIsAnswered` has two more escapes that the code really has: the
owner gives the row up (`release`), or dies while the row names it and the next
invocation recovers. Without a next invocation nothing happens, by design.

## Findings

*A landed commit is forgotten* (`LandedCommitLost`). `README.md:139-141` promises
a report of the commits that landed and a retry of the rest. If the cleanup after
a failed commit cannot reset the index because another process holds its lock,
`publisher.ts:162` raises an error without the commits of the batch: the
repository fails, its record lists none of them and nothing is retried.
`OnlyRaisedErrorsLoseCommits` is what remains true.

More divergences were met while modelling. They follow from the modules, but
have no run of their own:

- A landed commit is forgotten in two more ways. A plan may name a path outside
  the repository; after it failed, the inspection of its files throws
  (`commit-plan-file-state.ts:29,48`) and the catch at `publisher.ts:228-237` raises
  the same error without the commits of the batch, with no other process
  involved. And if `rev-parse` fails after a commit (`publisher.ts:153-157`), the
  commit is treated as failed and is on no record.
- The anchor can leave early. `specs/reconciliation.md:153` says that the
  controller remains the identity anchor when node-supervisor dies. Both
  termination timers are unref'd (`execution-controller.ts:146,151`). If the
  launcher has died, so that the channel is closed, and the supervisor closes
  while another descendant ignores SIGTERM, nothing keeps the controller's event
  loop: it exits before the forced kill. The next owner finds a live group with a
  dead leader, which is ambiguous; recovery then fails closed at every start
  until the descendant ends.
- A newer request can be dropped. `specs/reconciliation.md:211-213` says that a
  newer requested generation retains the owner after a failed pass. After the
  controller's close `supervisor-pass.ts:258` probes the group once. If the
  forced SIGKILL ended the group, its leader may be reaped before another member,
  and the probe throws; the cleanup then succeeds, but the launcher releases the
  row with the newer request pending.
- A second start can be refused. `README.md:306-308` says that an invocation
  coalesces into the owner's. A launcher that arrives while another one is between
  taking and releasing the cutover lock (`public-launcher.ts:85-183`) finds the
  directory (`state-cutover-lock.ts:22`) and ends with exit code 2, without a
  request.
- A parent does not see its submodule's commit. `discovery.ts:94-95` orders
  submodules first so that "the parent diff will then include the updated SHA",
  but all diffs are read in the first phase, before any commit. A parent that is
  dirty through its submodule alone has nothing staged and fails with "No changes
  found after staging" (`pre-commit-validators.ts:209-223`), so the pass fails
  while the submodule's commit lands; the next pass commits the parent. When the
  submodule's job is retried, its parent commits first.
- A race is not validated again. `README.md:135-137` says that a repository whose
  staged diff changed "is re-validated from scratch". The code stages the worktree
  again (`queue-retry.ts:250`) and asks for a new plan; neither tests nor the
  secret scan see the new contents.
- Success without a push. `README.md:143` says that a push follows once all
  commits succeeded. If the second plan of a batch has nothing to commit and the
  LLM then answers, as the hint in `error-classifier.ts:100` tells it, with an
  empty list, `llm-job-failure-handler.ts:36` reports success; the commit of the
  first plan waits until a later run finds the branch ahead.
- A plan is not compared with the staged files, which `README.md:119-122` lists
  among the validations. Only messages are validated (`Wellworded`), and a plan
  that omits a staged file is carried out.
- A commit can hold more than its plan. By `README.md:132-137` each commit has
  the specified files and the staged diff is checked before each. The check is
  made once per batch (`publisher.ts:93`), before the index is reset; what a user
  stages after that goes into the next commit. `CommitsHoldTheirPlan` is what
  remains true.
- A race nobody caused. `README.md:160` lets a race start from a changed staged
  diff. When a plan names an unknown path after a commit landed, staging the
  pending files fails as a whole (`queue-retry.ts:244`), the hash of a diff that
  is not in the index is saved, and the next attempt's guard spends the race
  budget, or fails the repository.

## Proofs

All theorems hold for any sets of launchers, executions, installers, files and
repositories, any set of faults, and any number of attempts. Assumptions: NULL is
not a token (`NoneIsNoToken`), nor a state (`NoneIsNoState`), faults are among
the modelled ones, `MaxAttempts` is a natural (positive in `GitExecution`),
`Generations` are naturals, names of different things differ (`NamesDiffer`,
`InstallerNames`, `ReleaseNames`), depths are naturals.

*Row.* `RowReadablePreserved`: each transaction maps readable rows to readable
rows, provided a new owner did not register the execution it inherits. That
proviso is what makes `RowReadable` not inductive by itself.

*Reconciler.* `IInv` adds two facts: a sample that still equals the row and
found the owner dead speaks of a process that is dead (`StaleSamplesAreSafe`),
and an execution whose recorder is not the owner was left by a dead process
(`ExecutionsOfOthersAreOrphans`), which supplies the proviso. From it follow
`RowStaysReadable`, `LivingOwnerKeepsRow`, `DescriptorSurvives` and
`CompletionIsMonotone`.

*Boundary* (in `GitExecutionProofs`). `OneWay`: whatever a controller, the kernel or a signal does, a
boundary cannot become Git-capable without a delivered START, an ended one
cannot revive, and its outcome is fixed. This is the rely condition of launchers.

*GitExecution.* `Inductive` joins `Knowledge`, `Records` and `Passes`. `Knowledge` says
what an owner knows at each place
(`OwnerKnows`), that whatever may run Git is recorded with its start authorized
(`CapableIsRecorded`), that sampled deaths are final, that strangers appear only
after death and that a completed generation has a successful, dead pass. The
core is the pair `OwnerKnows`/`CapableIsRecorded`: a launcher clears the record
only when it has seen the boundary dead; a dead boundary stays dead (`OneWay`);
so when the record is empty nothing can run Git, and a new one may be prepared.
The step proof has a lemma per group of actions that disturb the same conjuncts:
plain steps, steps into, inside and out of termination, transactions, admission,
and steps of boundaries, for which `KnowledgeSurvives` shows that what one
launcher knows survives the steps of others. The other theorems are
consequences: `GitRunsOnce`, `RecoveryIsExclusive`, `OwnershipIsExclusive`,
`CompletionsAreEarned`, `CompletionWaitsForDeath`, `SignalsReachTheirGroup`.

`Records` is `RowReadable` with what makes it inductive here:
`NewcomersRegisteredNothing` (the owner column and the recorder of an execution
meet again only in a launcher that registered it, the proviso of
`RowReadablePreserved`), `RecordIsOfItsPass` (the recorded generation is that of
the recorded boundary) and `BoundaryHistory` (no supervisor before START, no
success without one). It holds of every reachable row, `RowStaysReadableForAll`.

`Passes` is what bounds the work. `OwnerIsInStep`: a launcher in the owner's code
finds in the row the generation it works for and the execution it has to start or
to clear. With what it knows, that meets the guard of every transaction it gets
to (`FencesLetOwnersPassHolds`): the error paths of the fences are there for calls
that fail. `PassesFollowRequests`: no execution was prepared for a
generation that is yet to run, which is inductive because an admission and a
finished pass only ever move to a newer number, and which makes each prepared
execution the first of its generation (`GenerationsRunOnceHolds`).
`RequestsAreInvocations`: the requested generation counts the launchers admitted
so far. Hence there are at most as many executions as admitted launchers
(`PassesStayBounded`, by an injection of executions into request numbers): the
loop of `runCoalescedReconciliation` cannot go on for ever.
`LaunchersOnlyGoOnHolds` is the rest of the safety half of `EveryInvocationEnds`: a
rank (`Left`) that every change of a launcher's place, purpose or signal makes
smaller, but for a pass for a newer request and a counted repetition of the
admission.

*The refinements of GitExecution.* `GitRunsAsPromised`: `StartIsBegin` maps the
delivery of START to the begin of a scan, and needs `CapableIsRecorded` to show
that no other is alive and `RecordIsOfItsPass` to show that it was asked for;
`ExitsAreEnds` maps the last exit of a boundary to the end of its scan;
`FinishIsComplete` maps the successful transaction of the owner to the
completion, and needs what the owner knows of its pass (`OwnerKnows`); everything else is silent
(`OtherEventsAreSilent`, `LaunchersKeepScans`) or a new request.
`LaunchersAreCallers`: sampling, admission, the owner's transactions and the end
of a launcher are `Reconciler` actions, and all other steps leave its variables
alone (`RowMoves`). What `Reconciler` promises of its callers therefore holds of
launchers too; it is proved of them directly in `LiveLaunchersKeepTheRow`,
`LaunchersInheritRecords` and `LaunchersReportInOrder`.

*Push.* `PushProofs`' `IInv` says that from the fast-forward check to the last
read a run holds a forward pair (which makes a resumed checkpoint safe), that
every request on its way is forward (which makes a late one safe, because the
server compares before it swaps), and where a run can have repeated something.
`NoCommitIsDropped` and `RepetitionsAreCounted` follow; `PublicationIsKept`
adds transitivity of ancestry. They hold for every commit graph.
`RunsOnlyGoOnHolds` ranks a run by its place and the repetition it has left, and
every command lowers the rank, the safety half of `RunsEnd`; `ServersAreAskedHolds`
says that a run which waits has asked and that late answers belong to nobody,
without which the wait could not end. What the proofs
rest on outside the program is the server's compare-and-swap and an ancestry
that is a reflexive and transitive relation.

*CommitRun.* `IInv` joins five parts. `TInv` adds to the types that a batch has
plans while one is carried out. `Budget` says that each delegation was paid
for by an attempt or, once the fallback is used, by the attempts it gave back: it
makes the bound inductive, and gives `WorkIsBounded` for any budgets; TLC shows
that the code's bound of nine is reached. `IndexIsKnown` says that from the
unstaging to the commit the index differs from HEAD by files of the current plan
and by what others staged, whether the resets between commits worked or not, and
gives `PlansAreRespected`. `SuccessIsEarned` says where commits are known to be on
record, and gives `SuccessNeedsACommit`. `NothingIsLost` says where the record of
each commit is at every place (in `landed` until the next delegation saves it),
and gives `NoCommitIsForgotten`: without failing reads, crashes and commits of
others, the cases the findings and crash recovery are about,
`OnlyRaisedErrorsLoseCommits` holds for any plans, edits, stagings, index locks
and failing commits. Its proviso, a run that ended with the publisher's
`GitExecError`, is what the first finding is about. `RunsOnlyGoOnHolds` orders
delegations, plans and steps lexicographically; with `WorkIsBounded` it is the
safety half of `RunEnds`. `AnswerIsThereHolds` says that a resumed run finds an
answer to go on with.

*Admission.* `IInv` joins the types with four parts. `LockInv`: whoever is at a
place under the lock, launcher or migration, created the lock directory that
exists, which holds because an operator removes one only when nobody is there.
`TreeInv`: launchers past the opening have a current tree and no migration
is moving it; this is inductive only because both look at the tree again after
they have the lock. `OwnerInv`: a launcher at an owner's place owns the row, and
orders without an answer have a request that is not completed. `MovedInv`: what
a launcher moved is what it had inspected. From it follow
`NotOpenedWhileMovingHolds`, `ResidueIsAnsweredHolds`,
`PassesFollowExactArchiveHolds` and `NeverSplitHolds`. `LaunchersOnlyGoOnHolds` ranks the
places and bounds the files to archive, the safety half of `LaunchersEnd`.
`MovedAtRestHolds`: between the migration's check of the database and the move or
its rollback nobody writes to it, because only launchers with a tree do
(`RowRestsWhileMoving`). `OwnersAreAloneHolds`: archiving and passing are
exclusive.

*Pipeline.* `IInv` joins the types with `ListsInv` (in each phase, which lists may
hold what; `NobodyIsLeftOut`), `ProcessInv` (a chain: the bridge waits for the
producer's end, the resumed orchestrator for the bridge's, and zero passes up
only from one to the next), `OutcomeInv` (success has commits or a push on
record; the supervisor ends after both stages) and `SeenInv` (what the supervisor
has seen has happened). `ZeroIsTrue` needs them all:
zero of the supervisor is zero of both stages, zero of the bridge is zero of the
last orchestrator, which printed no delegation and therefore ended in `done`,
with empty lists, so nobody was left out and nobody failed.
`RepositoriesOnlyGoOnHolds` ranks a repository by its list and the attempts it has
left: it is put back on a list at most once per attempt, so cycles are bounded,
the safety half of `PassEnds`.

*Installation.* `IInv` joins the types with `LockInv` (who is past the start and
alive holds the transaction), `RecordInv` (what record and candidates may
be at each step of the acquisition), `RecordedHolder`,
`BuiltStagingStays` and `ReleaseInv` (what is about to be activated is whole and
has the digest that was built). `ImplementsReleaseStoreHolds` is the refinement:
each step publishes, activates a whole release, or leaves the store alone.
`InstallersOnlyGoOnHolds` gives each place a `Distance` from the end that every
change of place shortens; `NobodyIsInTheWayHolds` says that the calls with a
condition find it met; `TheDeadHoldNothing` that a dead installer keeps nobody
from the transaction. What `InstallersEnd` adds is that enabled steps are taken.

Only model-checked: liveness, which needs fairness and ENABLED, and the prover
handles neither; where a bound or a rank is behind it, that part is proved, as
said above. Every invariant, action property and refinement of a run is also
a theorem.

## Not modelled

Schema checks, WAL setup and file modes; malformed IPC messages, which only a
foreign sender produces; the test barriers; telemetry. An unreadable start
identity is modelled for safety but left out of the liveness runs: if the
handshake fails and the following termination throws (`supervisor-pass.ts:287`),
the inert controller and its launcher keep each other alive, so "every
invocation ends" is false there; no document promises it.

In `CommitRun`: one repository, because repositories share nothing but the batch,
which `Pipeline` has; messages are right or wrong
(`validateCommitMessage`); patterns, renames, ignored paths and submodules; the
texts of feedback; the bridge's second question after a malformed answer, which
only decides which answer arrives; `network` attempts, which are counted by the
push and never limit anything here; a run without remotes or with `autoPush` off.
The secret scan and the tests are one nondeterministic outcome.

In `Push`: resolving the destination from Git's configuration is one step; a
run without remotes or with `autoPush` off does nothing and is left out; the
three commands that record an upstream are one, because an upstream resolves
only after the last. A branch that is ahead without an upstream is not
published by later runs; `tests/unit/push-only.test.ts:123` states that on purpose, so
`CommitsGetPublished` speaks of tracked branches.

In `Admission`: launchers with `ORDER_STATE_DIR`, which skip the gates; releases
that recreate the retired tree after the migration; a worker that is suspended
for more than 40 seconds, looks stale and wakes up beside a pass; the closure
ledger and `historical-turnlock-state.ts`, which only read and refuse; a
directory listing that changes while it is read; writes through a descriptor
opened before the rename. The operator removes a lock only when nobody
uses it, as `docs/reconciliation-migration.md:107-118` says.

In `Pipeline`: the death of the supervisor itself, after which its children
belong to `GitExecution`'s boundary; Turnlock, an external library, whose
`io.fail` is taken to end in a nonzero exit code; a parent whose `git submodule
foreach git add -A` restages a submodule, which is one more reason for a retry;
worktrees; `autoPush` off.

In `Installation`: power loss and what `fsync` is for; a lock database removed by
hand; several data directories; malformed records; leftovers that nothing reads
(`current.next-*` links, an orphaned `pnpm`'s directory until the next
installer); a reused PID with a readable identity, which the code tells apart.

Not modelled at all, and why:

- `packages/node-runtime`: `run-process.ts` is only run by the build
  script (`scripts/build-node.mjs`); the program takes one function of the
  package, which sends a signal.
- `packages/trust`: one process signs and verifies a string; what makes it correct
  is cryptography, not an order of steps.
- `historical-turnlock-state.ts` and the report of `reconciler-preflight.ts`:
  sequential readers for an operator. The condition under which a migrated tree
  is kept is `Ready` in `Admission`.
- Telemetry and reports, which nothing reads; that writing them can throw is in
  `Pipeline`.

## Plan

Done, each with its proofs: `GitExecution` and what it rests on, `Push`,
`CommitRun`, `Admission`, `Pipeline`, `Installation`. Open, in order of
importance:

1. The precedence rules of `push-destination.ts` as operators checked against
   Git's own.
2. The admission of `GitExecution` replaced by that of `Admission`, so that the
   gates and the recovery of a boundary meet in one module.
3. `RunProcess`: time and output limits of the build script's children, with
   their races.
