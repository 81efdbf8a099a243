---------------------------- MODULE GitExecution ----------------------------
(***************************************************************************)
(* Public launchers that share one reconciler row and own the execution    *)
(* boundaries they prepare: admission, recovery of a predecessor's         *)
(* boundary, the pass loop, cancellation and release.  A launcher is       *)
(* single threaded: between two of its awaits it is interrupted only by    *)
(* the transactions of other launchers, so each await and each transaction *)
(* is a step.  Every launcher is one invocation and registers once.        *)
(***************************************************************************)
EXTENDS ReconcilerRow, ExecutionBoundary

CONSTANT MaxAttempts  \* optimistic admission attempts before failing closed

ASSUME MaxAttemptsIsPositive == MaxAttempts \in Nat \ {0}

VARIABLES
  at,         \* where a launcher is in its code
  gen,        \* the generation it registered or is running
  target,     \* the execution it is working on
  task,       \* why it terminates or clears that execution
  stage,      \* which signal terminateExecutionBoundary is at
  groupSeen,  \* the group probe taken before the leader's identity is read
  aborted,    \* its cancellation signal
  tries,      \* admission attempts already lost to a changed owner
  seenRow, seenAlive,  \* its admission sample
  spawner,    \* the launcher that is the parent of a controller
  passGen     \* the generation a controller was prepared for

admission == <<tries, seenRow, seenAlive>>
origin    == <<spawner, passGen>>
launcher  == <<at, gen, target, task, stage, groupSeen, aborted>>
vars      == <<row, boundary, launcher, admission, origin>>

AdmissionView ==
  <<owner, running, execToken, execGeneration, execOwner, execState>>

NoView == <<None, NoGeneration, None, NoGeneration, None, None>>

Views ==
  (Launchers \cup {None}) \X Nat \X (Executions \cup {None}) \X Nat
    \X (Launchers \cup {None}) \X (ExecStates \cup {None})

Terminating == {"probe", "identify", "await"}

OwnerPlaces ==
  Terminating \cup {"admitted", "closing", "clear", "provision", "prepare",
   "handshake", "prepared", "registered", "authorized", "running", "finish",
   "release"}

Places ==
  OwnerPlaces \cup {"start", "observed", "coalesced", "returned", "dead"}

Tasks == {"none", "recover", "abandon", "discard", "withdraw", "cancel",
          "interrupt", "cleanup", "pass"}

(* A coalesced launcher owns nothing and is about to exit.                 *)
Alive(l) == at[l] # "dead"

TypeOK ==
  /\ RowTypeOK
  /\ BoundaryTypeOK
  /\ at \in [Launchers -> Places]
  /\ gen \in [Launchers -> Nat]
  /\ target \in [Launchers -> Executions \cup {None}]
  /\ task \in [Launchers -> Tasks]
  /\ stage \in [Launchers -> {"initial", "TERM", "KILL"}]
  /\ groupSeen \in [Launchers -> BOOLEAN]
  /\ aborted \in [Launchers -> BOOLEAN]
  /\ tries \in [Launchers -> Nat]
  /\ seenRow \in [Launchers -> Views]
  /\ seenAlive \in [Launchers -> BOOLEAN]
  /\ spawner \in [Executions -> Launchers \cup {None}]
  /\ passGen \in [Executions -> Nat]

Init ==
  /\ RowInit
  /\ BoundaryInit
  /\ at = [l \in Launchers |-> "start"]
  /\ gen = [l \in Launchers |-> NoGeneration]
  /\ target = [l \in Launchers |-> None]
  /\ task = [l \in Launchers |-> "none"]
  /\ stage = [l \in Launchers |-> "initial"]
  /\ groupSeen = [l \in Launchers |-> FALSE]
  /\ aborted = [l \in Launchers |-> FALSE]
  /\ tries = [l \in Launchers |-> 0]
  /\ seenRow = [l \in Launchers |-> NoView]
  /\ seenAlive = [l \in Launchers |-> FALSE]
  /\ spawner = [e \in Executions |-> None]
  /\ passGen = [e \in Executions |-> NoGeneration]

Goto(l, place) == at' = [at EXCEPT ![l] = place]

Children(l) == {e \in Executions : spawner[e] = l}

-----------------------------------------------------------------------------
(* Admission: registerReconciliationRequest.                               *)

(* Mutant: an owner whose start identity cannot be read counts as dead.    *)
ObserveUnreadableAsDead(l) ==
  /\ at[l] = "start"
  /\ Goto(l, "observed")
  /\ seenRow' = [seenRow EXCEPT ![l] = AdmissionView]
  /\ \E verdict \in BOOLEAN :
       /\ verdict => owner # None
       /\ owner # None /\ Alive(owner) /\ ~verdict => "unreadable" \in Faults
       /\ seenAlive' = [seenAlive EXCEPT ![l] = verdict]
  /\ UNCHANGED <<row, boundary, gen, target, task, stage, groupSeen, aborted,
                 tries, origin>>

(* The row and the owner's liveness are read outside the transaction.  A   *)
(* dead owner's PID may be reused by a process whose identity cannot be    *)
(* read, and then counts as alive.                                         *)
Observe(l) ==
  /\ at[l] = "start"
  /\ Goto(l, "observed")
  /\ seenRow' = [seenRow EXCEPT ![l] = AdmissionView]
  /\ \E verdict \in BOOLEAN :
       /\ owner = None => ~verdict
       /\ owner # None /\ Alive(owner) => verdict
       /\ owner # None /\ ~Alive(owner) /\ verdict => "unreadable" \in Faults
       /\ seenAlive' = [seenAlive EXCEPT ![l] = verdict]
  /\ UNCHANGED <<row, boundary, gen, target, task, stage, groupSeen, aborted,
                 tries, origin>>

UnchangedOwner(l) == seenRow[l][1] = owner         \* mutant

Unchanged(l) == seenRow[l] = AdmissionView

(* The sample is a local of one attempt.                                   *)
ForgetSample(l) ==
  /\ seenRow' = [seenRow EXCEPT ![l] = NoView]
  /\ seenAlive' = [seenAlive EXCEPT ![l] = FALSE]

(* Another launcher changed the owner in between: try again, up to the     *)
(* bound, then fail closed.                                                *)
LoseRace(l) ==
  /\ at[l] = "observed" /\ ~Unchanged(l)
  /\ tries' = [tries EXCEPT ![l] = @ + 1]
  /\ ForgetSample(l)
  /\ Goto(l, IF tries[l] + 1 < MaxAttempts THEN "start" ELSE "returned")
  /\ UNCHANGED <<row, boundary, gen, target, task, stage, groupSeen, aborted,
                 origin>>

Coalesce(l) ==
  /\ at[l] = "observed" /\ Unchanged(l) /\ seenAlive[l]
  /\ RowCoalesce
  /\ gen' = [gen EXCEPT ![l] = requested + 1]
  /\ ForgetSample(l)
  /\ Goto(l, "coalesced")
  /\ UNCHANGED <<boundary, target, task, stage, groupSeen, aborted,
                 tries, origin>>

TakeOver(l) ==
  /\ at[l] = "observed" /\ Unchanged(l) /\ ~seenAlive[l]
  /\ RowTakeOver(l)
  /\ gen' = [gen EXCEPT ![l] = requested + 1]
  /\ ForgetSample(l)
  /\ Goto(l, "admitted")
  /\ UNCHANGED <<boundary, target, task, stage, groupSeen, aborted,
                 tries, origin>>

AdmissionFails(l) ==
  /\ "io" \in Faults /\ at[l] \in {"start", "observed"}
  /\ Goto(l, "returned")
  /\ UNCHANGED <<row, boundary, gen, target, task, stage, groupSeen, aborted,
                 admission, origin>>

-----------------------------------------------------------------------------
(* terminateExecutionBoundary as a subroutine: classify; SIGTERM; wait;    *)
(* classify again; SIGKILL; wait.  A classification takes two looks at the *)
(* kernel, first at the group and then at its leader.                      *)

Terminate(l, e, why) ==
  /\ Goto(l, "probe")
  /\ target' = [target EXCEPT ![l] = e]
  /\ task' = [task EXCEPT ![l] = why]
  /\ stage' = [stage EXCEPT ![l] = "initial"]

(* The boundary was found dead, or its group was seen to be absent.        *)
BoundaryEnded(l) ==
  /\ Goto(l, IF task[l] = "recover" THEN "clear" ELSE "closing")
  /\ UNCHANGED <<boundary, target, task, stage>>

(* It threw: a failed withdrawal or cancellation falls into the catch      *)
(* block of runOnePass, which tries once more; a failed cleanup hangs up   *)
(* the channel and keeps the durable record.                               *)
TerminationThrows(l) ==
  \/ /\ task[l] \in {"recover", "abandon"}
     /\ Goto(l, "release")
     /\ UNCHANGED <<boundary, target, task, stage>>
  \/ /\ task[l] \in {"withdraw", "cancel", "interrupt"}
     /\ Terminate(l, target[l],
                  IF task[l] = "withdraw" THEN "discard" ELSE "cleanup")
     /\ UNCHANGED boundary
  \/ /\ task[l] \in {"discard", "cleanup"}
     /\ Goto(l, "release")
     /\ HangUp({target[l]})
     /\ UNCHANGED <<target, task, stage>>

ProbeGroup(l) ==
  /\ at[l] = "probe"
  /\ groupSeen' = [groupSeen EXCEPT ![l] = GroupExists(target[l])]
  /\ Goto(l, "identify")
  /\ UNCHANGED <<row, boundary, gen, target, task, stage, aborted,
                 admission, origin>>

(* Mutant: a dead leader is taken for a dead group.                        *)
FindLeaderDead(l) ==
  /\ at[l] = "identify" /\ ~LeaderAlive(target[l])
  /\ BoundaryEnded(l)
  /\ UNCHANGED <<row, gen, groupSeen, aborted, admission, origin>>

(* The leader is gone, or its number belongs to a stranger by now.         *)
FindDead(l) ==
  /\ at[l] = "identify" /\ ~groupSeen[l] /\ ~LeaderAlive(target[l])
  /\ BoundaryEnded(l)
  /\ UNCHANGED <<row, gen, groupSeen, aborted, admission, origin>>

FindAmbiguous(l) ==
  /\ at[l] = "identify"
  /\ \/ groupSeen[l] /\ ~LeaderAlive(target[l])
     \/ /\ "unreadable" \in Faults
        /\ LeaderAlive(target[l]) \/ stranger[target[l]]
  /\ TerminationThrows(l)
  /\ UNCHANGED <<row, gen, groupSeen, aborted, admission, origin>>

(* Mutant: the group is signalled whoever leads it.                        *)
FindGroup(l) ==
  /\ at[l] = "identify" /\ groupSeen[l]
  /\ \/ /\ stage[l] = "initial"
        /\ stage' = [stage EXCEPT ![l] = "TERM"]
        /\ Goto(l, "probe")
        /\ UNCHANGED boundary
     \/ /\ stage[l] # "initial"
        /\ SignalGroup(target[l], stage[l])
        /\ Goto(l, "await")
        /\ UNCHANGED stage
  /\ UNCHANGED <<row, gen, target, task, groupSeen, aborted, admission, origin>>

(* The exact leader lives: the first classification is followed by a       *)
(* second one, and that by SIGTERM; the third one by SIGKILL.              *)
FindExact(l) ==
  /\ at[l] = "identify" /\ groupSeen[l] /\ LeaderAlive(target[l])
  /\ \/ /\ stage[l] = "initial"
        /\ stage' = [stage EXCEPT ![l] = "TERM"]
        /\ Goto(l, "probe")
        /\ UNCHANGED boundary
     \/ /\ stage[l] # "initial"
        /\ SignalGroup(target[l], stage[l])
        /\ Goto(l, "await")
        /\ UNCHANGED stage
  /\ UNCHANGED <<row, gen, target, task, groupSeen, aborted, admission, origin>>

GroupAbsent(l) ==
  /\ at[l] = "await" /\ ~GroupExists(target[l])
  /\ BoundaryEnded(l)
  /\ UNCHANGED <<row, gen, groupSeen, aborted, admission, origin>>

(* Mutant: a group that was sent SIGKILL is taken for dead.                *)
GraceExpiresTrustingKill(l) ==
  /\ at[l] = "await" /\ GroupExists(target[l])
  /\ \/ /\ stage[l] = "TERM"
        /\ stage' = [stage EXCEPT ![l] = "KILL"]
        /\ Goto(l, "probe")
        /\ UNCHANGED <<boundary, target, task>>
     \/ /\ stage[l] = "KILL"
        /\ BoundaryEnded(l)
  /\ UNCHANGED <<row, gen, groupSeen, aborted, admission, origin>>

(* The grace period, or the confirmation period, ends with the group alive. *)
GraceExpires(l) ==
  /\ at[l] = "await" /\ GroupExists(target[l])
  /\ \/ /\ stage[l] = "TERM"
        /\ stage' = [stage EXCEPT ![l] = "KILL"]
        /\ Goto(l, "probe")
        /\ UNCHANGED <<boundary, target, task>>
     \/ /\ stage[l] = "KILL"
        /\ TerminationThrows(l)
  /\ UNCHANGED <<row, gen, groupSeen, aborted, admission, origin>>

(* await closePromise after a termination that succeeded; an interrupted   *)
(* start() then probes the group once more.                                *)
BoundaryCloses(l) ==
  /\ at[l] = "closing" /\ ctl[target[l]] = "gone"
  /\ task[l] = "interrupt" => ~GroupExists(target[l])
  /\ Goto(l, IF task[l] \in {"cancel", "interrupt", "cleanup"} THEN "clear"
             ELSE "release")
  /\ UNCHANGED <<row, boundary, gen, target, task, stage, groupSeen, aborted,
                 admission, origin>>

GroupRemains(l) ==
  /\ at[l] = "closing" /\ ctl[target[l]] = "gone"
  /\ task[l] = "interrupt" /\ GroupExists(target[l])
  /\ Terminate(l, target[l], "cleanup")
  /\ UNCHANGED <<row, boundary, gen, groupSeen, aborted, admission, origin>>

-----------------------------------------------------------------------------
(* Recovery and the pass loop: runOwnedReconciliation and runOnePass.      *)

(* Nothing happens before the preserved execution is resolved.             *)
BeginRecovery(l) ==
  /\ at[l] = "admitted" /\ execToken # None
  /\ Terminate(l, execToken, "recover")
  /\ UNCHANGED <<row, boundary, gen, groupSeen, aborted, admission, origin>>

NothingToRecover(l) ==
  /\ at[l] = "admitted" /\ execToken = None
  /\ Goto(l, IF aborted[l] THEN "release" ELSE "provision")
  /\ UNCHANGED <<row, boundary, gen, target, task, stage, groupSeen, aborted,
                 admission, origin>>

(* An interrupt seen before recovery starts, or legacy queue artifacts     *)
(* that cannot be removed: the row is released as it is.                   *)
GiveUpAdmitted(l) ==
  /\ at[l] = "admitted"
  /\ aborted[l] \/ "io" \in Faults
  /\ Goto(l, "release")
  /\ UNCHANGED <<row, boundary, gen, target, task, stage, groupSeen, aborted,
                 admission, origin>>

Clear(l) ==
  /\ at[l] = "clear"
  /\ RowClear(l, target[l])
  /\ Goto(l, IF task[l] = "pass" THEN "finish"
             ELSE IF task[l] = "recover" /\ ~aborted[l] THEN "provision"
             ELSE "release")
  /\ UNCHANGED <<boundary, gen, target, task, stage, groupSeen, aborted,
                 admission, origin>>

(* The transaction throws, or its fence refuses.                           *)
ClearFails(l) ==
  /\ at[l] = "clear"
  /\ "io" \in Faults \/ ~ClearAllowed(l, target[l])
  /\ \/ /\ task[l] = "recover"
        /\ Goto(l, "release")
        /\ UNCHANGED <<boundary, target, task, stage>>
     \/ /\ task[l] \in {"pass", "cancel", "interrupt"}
        /\ Terminate(l, target[l], "cleanup")
        /\ UNCHANGED boundary
     \/ /\ task[l] = "cleanup"
        /\ Goto(l, "release")
        /\ HangUp({target[l]})
        /\ UNCHANGED <<target, task, stage>>
  /\ UNCHANGED <<row, gen, groupSeen, aborted, admission, origin>>

(* prepareRuntime, which the development launcher runs before its first    *)
(* pass and the installed one does not have.                               *)
Provision(l) ==
  /\ at[l] = "provision"
  /\ Goto(l, IF aborted[l] THEN "release" ELSE "prepare")
  /\ UNCHANGED <<row, boundary, gen, target, task, stage, groupSeen, aborted,
                 admission, origin>>

(* A preparation that fails ends the generation without a pass, and runs   *)
(* again for a newer one.                                                  *)
ProvisioningFails(l) ==
  /\ "io" \in Faults /\ at[l] = "provision" /\ ~aborted[l]
  /\ RowFinish(l, gen[l], FALSE)
  /\ gen' = [gen EXCEPT ![l] = IF requested > @ THEN requested ELSE @]
  /\ Goto(l, IF requested > gen[l] THEN "provision" ELSE "returned")
  /\ UNCHANGED <<boundary, target, task, stage, groupSeen, aborted,
                 admission, origin>>

(* spawn, and PREPARE in the pipe, under a token nobody used before.       *)
Spawn(l) ==
  /\ at[l] = "prepare"
  /\ \E e \in Executions :
       /\ SpawnInert(e)
       /\ target' = [target EXCEPT ![l] = e]
       /\ spawner' = [spawner EXCEPT ![e] = l]
       /\ passGen' = [passGen EXCEPT ![e] = gen[l]]
  /\ Goto(l, "handshake")
  /\ UNCHANGED <<row, gen, task, stage, groupSeen, aborted, admission>>

SpawnFails(l) ==
  /\ "io" \in Faults /\ at[l] = "prepare"
  /\ Goto(l, "release")
  /\ UNCHANGED <<row, boundary, gen, target, task, stage, groupSeen, aborted,
                 admission, origin>>

(* READY names the exact child and its identity checks out.                *)
ReceiveReady(l) ==
  /\ at[l] = "handshake" /\ ctl[target[l]] = "ready"
  /\ Goto(l, "prepared")
  /\ UNCHANGED <<row, boundary, gen, target, task, stage, groupSeen, aborted,
                 admission, origin>>

(* No valid READY: the child closed, timed out or cannot be identified.    *)
(* Its whole boundary is terminated if its identity can be read, it alone  *)
(* is killed if not.                                                       *)
HandshakeFails(l) ==
  /\ at[l] = "handshake"
  /\ \/ /\ LeaderAlive(target[l])
        /\ Faults \cap {"timeout", "unreadable"} # {}
        /\ Terminate(l, target[l], "abandon")
        /\ UNCHANGED boundary
     \/ /\ LeaderAlive(target[l]) /\ "unreadable" \in Faults
        /\ KillInert(target[l])
        /\ Goto(l, "release")
        /\ UNCHANGED <<target, task, stage>>
     \/ /\ ~LeaderAlive(target[l])
        /\ Goto(l, "release")
        /\ UNCHANGED <<boundary, target, task, stage>>
  /\ UNCHANGED <<row, gen, groupSeen, aborted, admission, origin>>

Register(l) ==
  /\ at[l] = "prepared" /\ ~aborted[l]
  /\ RowRegister(l, gen[l], target[l])
  /\ Goto(l, "registered")
  /\ UNCHANGED <<boundary, gen, target, task, stage, groupSeen, aborted,
                 admission, origin>>

(* Cancelled before registration, or registration throws: the prepared     *)
(* boundary is terminated and there is nothing durable to clear.           *)
NotRegistered(l) ==
  /\ at[l] = "prepared"
  /\ \/ aborted[l] /\ Terminate(l, target[l], "withdraw")
     \/ /\ ~aborted[l]
        /\ "io" \in Faults \/ ~RegisterAllowed(l, gen[l])
        /\ Terminate(l, target[l], "discard")
  /\ UNCHANGED <<row, boundary, gen, groupSeen, aborted, admission, origin>>

Authorize(l) ==
  /\ at[l] = "registered" /\ ~aborted[l]
  /\ RowAuthorize(l, target[l])
  /\ Goto(l, "authorized")
  /\ UNCHANGED <<boundary, gen, target, task, stage, groupSeen, aborted,
                 admission, origin>>

NotAuthorized(l) ==
  /\ at[l] = "registered"
  /\ \/ aborted[l] /\ Terminate(l, target[l], "cancel")
     \/ /\ ~aborted[l]
        /\ "io" \in Faults \/ ~AuthorizeAllowed(l, target[l])
        /\ Terminate(l, target[l], "cleanup")
  /\ UNCHANGED <<row, boundary, gen, groupSeen, aborted, admission, origin>>

SendStart(l) ==
  /\ at[l] = "authorized"
  /\ DeliverStart(target[l])
  /\ Goto(l, "running")
  /\ UNCHANGED <<row, gen, target, task, stage, groupSeen, aborted,
                 admission, origin>>

(* To a controller that is gone the send throws, or START is lost in the   *)
(* pipe and the launcher waits for a close that has happened.              *)
StartUndeliverable(l) ==
  /\ at[l] = "authorized" /\ ~LeaderAlive(target[l])
  /\ Terminate(l, target[l], "cleanup")
  /\ UNCHANGED <<row, boundary, gen, groupSeen, aborted, admission, origin>>

StartLost(l) ==
  /\ at[l] = "authorized" /\ ~LeaderAlive(target[l])
  /\ Goto(l, "running")
  /\ UNCHANGED <<row, boundary, gen, target, task, stage, groupSeen, aborted,
                 admission, origin>>

(* Mutant: the close of the controller stands for the end of its group.    *)
ObserveCloseOnly(l) ==
  /\ at[l] = "running" /\ ctl[target[l]] = "gone"
  /\ Goto(l, "clear")
  /\ task' = [task EXCEPT ![l] = "pass"]
  /\ UNCHANGED <<row, boundary, gen, target, stage, groupSeen, aborted,
                 admission, origin>>

(* The controller closed first in the race with cancellation: the whole    *)
(* group has to be absent before the record may be cleared.                *)
ObserveClose(l) ==
  /\ at[l] = "running" /\ ctl[target[l]] = "gone"
  /\ \/ /\ ~GroupExists(target[l])
        /\ Goto(l, "clear")
        /\ task' = [task EXCEPT ![l] = "pass"]
        /\ UNCHANGED <<target, stage>>
     \/ /\ GroupExists(target[l])
        /\ Terminate(l, target[l], "cleanup")
  /\ UNCHANGED <<row, boundary, gen, groupSeen, aborted, admission, origin>>

AbortRunning(l) ==
  /\ at[l] = "running" /\ aborted[l]
  /\ Terminate(l, target[l], "interrupt")
  /\ UNCHANGED <<row, boundary, gen, groupSeen, aborted, admission, origin>>

(* Mutant: the owner stops even if a newer request came during its pass.   *)
FinishAndStop(l) ==
  /\ at[l] = "finish" /\ ~aborted[l]
  /\ FinishAllowed(l, gen[l])
  /\ completed' = IF outcome[target[l]] = "success" THEN gen[l] ELSE completed
  /\ running' = NoGeneration /\ owner' = None
  /\ Goto(l, "returned")
  /\ UNCHANGED <<requested, execColumns, boundary, gen, target, task, stage,
                 groupSeen, aborted, admission, origin>>

(* A newer request keeps the owner for one more pass; otherwise it stops.  *)
Finish(l) ==
  /\ at[l] = "finish" /\ ~aborted[l]
  /\ RowFinish(l, gen[l], outcome[target[l]] = "success")
  /\ gen' = [gen EXCEPT ![l] = IF requested > @ THEN requested ELSE @]
  /\ Goto(l, IF requested > gen[l] THEN "prepare" ELSE "returned")
  /\ UNCHANGED <<boundary, target, task, stage, groupSeen, aborted,
                 admission, origin>>

(* Interrupted, or the finishing transaction throws or refuses.            *)
DoNotFinish(l) ==
  /\ at[l] \in {"provision", "finish"}
  /\ \/ aborted[l] /\ at[l] = "finish"
     \/ "io" \in Faults \/ ~FinishAllowed(l, gen[l])
  /\ Goto(l, "release")
  /\ UNCHANGED <<row, boundary, gen, target, task, stage, groupSeen, aborted,
                 admission, origin>>

-----------------------------------------------------------------------------
(* The end of an invocation.                                               *)

(* releaseOwnershipBestEffort: a refusal or an error leaves the row alone. *)
Release(l) ==
  /\ at[l] = "release"
  /\ \/ RowRelease(l)
     \/ (~ReleaseAllowed(l) \/ "io" \in Faults) /\ UNCHANGED row
  /\ Goto(l, "returned")
  /\ UNCHANGED <<boundary, gen, target, task, stage, groupSeen, aborted,
                 admission, origin>>

(* The entrypoint only sets process.exitCode, so the process lives as long *)
(* as a child controller does; an interrupted launcher kills itself.       *)
ProcessExits(l) ==
  /\ at[l] = "returned"
  /\ aborted[l] \/ \A e \in Children(l) : ~LeaderAlive(e)
  /\ Goto(l, "dead")
  /\ HangUp(Children(l))
  /\ UNCHANGED <<row, gen, target, task, stage, groupSeen, aborted,
                 admission, origin>>

Cancel(l) ==
  /\ "cancel" \in Faults
  /\ at[l] \in OwnerPlaces \cup {"start", "observed"} /\ ~aborted[l]
  /\ aborted' = [aborted EXCEPT ![l] = TRUE]
  /\ UNCHANGED <<row, boundary, at, gen, target, task, stage, groupSeen,
                 admission, origin>>

Crash(l) ==
  /\ "crash" \in Faults
  /\ at[l] \notin {"dead", "coalesced"}
  /\ Goto(l, "dead")
  /\ HangUp(Children(l))
  /\ UNCHANGED <<row, gen, target, task, stage, groupSeen, aborted,
                 admission, origin>>

(* crashWithoutFalseIdle: release what may be released, then process.exit, *)
(* which waits for no child.                                               *)
Uncaught(l) ==
  /\ "uncaught" \in Faults
  /\ at[l] \in OwnerPlaces
  /\ Goto(l, "release")
  /\ aborted' = [aborted EXCEPT ![l] = TRUE]
  /\ UNCHANGED <<row, boundary, gen, target, task, stage, groupSeen,
                 admission, origin>>

-----------------------------------------------------------------------------

LauncherStep(l) ==
  \/ Observe(l) \/ LoseRace(l) \/ Coalesce(l) \/ TakeOver(l)
  \/ AdmissionFails(l)
  \/ ProbeGroup(l) \/ FindDead(l) \/ FindAmbiguous(l) \/ FindExact(l)
  \/ GroupAbsent(l) \/ GraceExpires(l) \/ BoundaryCloses(l) \/ GroupRemains(l)
  \/ BeginRecovery(l) \/ NothingToRecover(l) \/ GiveUpAdmitted(l)
  \/ Clear(l) \/ ClearFails(l) \/ Provision(l) \/ ProvisioningFails(l)
  \/ Spawn(l) \/ SpawnFails(l) \/ ReceiveReady(l) \/ HandshakeFails(l)
  \/ Register(l) \/ NotRegistered(l) \/ Authorize(l) \/ NotAuthorized(l)
  \/ SendStart(l) \/ StartUndeliverable(l) \/ StartLost(l)
  \/ ObserveClose(l) \/ AbortRunning(l) \/ Finish(l) \/ DoNotFinish(l)
  \/ Release(l) \/ ProcessExits(l)

LauncherFault(l) == Cancel(l) \/ Crash(l) \/ Uncaught(l)

Outside(action) == action /\ UNCHANGED <<row, launcher, admission, origin>>

BoundaryStep(e) == Outside(ControllerStep(e)) \/ Outside(WorldStep(e))

Next ==
  \/ \E l \in Launchers : LauncherStep(l) \/ LauncherFault(l)
  \/ \E e \in Executions : BoundaryStep(e)

Spec == Init /\ [][Next]_vars

(* Event loops that are alive turn, so every timer fires in the end, and   *)
(* the kernel reaps what it killed.  Nothing is assumed of a pipeline, as  *)
(* its tests, Git commands and resumed orchestrators run without a time    *)
(* limit, nor of its descendants: they may ignore SIGTERM for ever.        *)
Fairness ==
  /\ \A l \in Launchers : WF_vars(LauncherStep(l))
  /\ \A e \in Executions :
       /\ WF_vars(Outside(ControllerStep(e)))
       /\ WF_vars(Outside(Reap(e)))
=============================================================================
