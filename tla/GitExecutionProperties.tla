----------------------- MODULE GitExecutionProperties -----------------------
(* What GitExecution promises, beyond the types of its variables.          *)
EXTENDS GitExecution, FiniteSets

-----------------------------------------------------------------------------
(* Safety.                                                                 *)

(* SINGLE_LIVE_GIT_EXECUTION, EXEC-INV-1: at most one execution boundary   *)
(* with a live supervisor or descendant exists, whoever owns the row.      *)
SingleLiveGitExecution ==
  \A e, f \in Executions : GitCapable(e) /\ GitCapable(f) => e = f

(* EXEC-INV-2 and EXEC-INV-3: whatever runs Git, or is about to, is the    *)
(* execution the row records, with its start authorized; no death, lost    *)
(* message or owner change makes the record disappear before it.           *)
CapableIsRecorded ==
  \A e \in Executions :
    MayRunGit(e) => execToken = e /\ execState = "START_AUTHORIZED"

(* EXEC-INV-4: a launcher that has passed recovery works with no foreign   *)
(* boundary alive: only the execution it prepared itself may run Git.      *)
PastRecovery(l) ==
  at[l] \in {"provision", "prepare", "handshake", "prepared", "registered",
             "authorized", "running", "finish"}

RecoveryNeverOverlaps ==
  \A l \in Launchers, e \in Executions :
    PastRecovery(l) /\ MayRunGit(e) => spawner[e] = l /\ at[l] = "running"

(* EXEC-INV-10: a launcher between admission and release is the owner the  *)
(* row names, so two launchers never recover or run passes at once.        *)
OwnerIsSingle ==
  \A l \in Launchers : at[l] \in OwnerPlaces => owner = l

(* Success reported for a generation stands for a pass that was prepared   *)
(* for that very generation, whose pipeline exited with zero and whose     *)
(* complete group is dead.                                                 *)
CompletionIsEarned ==
  completed > 0 =>
    \E e \in Executions :
      passGen[e] = completed /\ Dead(e) /\ outcome[e] = "success"

-----------------------------------------------------------------------------
(* Why the safety properties hold: what each place in the owner's code     *)
(* knows of the row and of the boundary it works on.                       *)

WithTarget ==
  Terminating \cup {"closing", "clear", "handshake", "prepared", "registered",
                    "authorized", "running", "finish"}

OwnPass(l) ==
  \/ at[l] \in {"handshake", "prepared", "registered", "authorized", "running",
                "finish"}
  \/ at[l] = "clear" /\ task[l] = "pass"

OwnerKnows(l) ==
  at[l] \in OwnerPlaces =>
    /\ owner = l
    /\ at[l] \in WithTarget =>
         target[l] \in Executions /\ ctl[target[l]] # "unborn"
    /\ at[l] \in {"closing", "clear", "finish"} => Dead(target[l])
    /\ at[l] = "identify" /\ ~groupSeen[l] => Dead(target[l])
    /\ at[l] \in {"provision", "prepare", "handshake", "prepared", "finish"} =>
         execToken = None
    /\ at[l] \in {"registered", "authorized", "running"} =>
         execToken = target[l]
    /\ at[l] = "authorized" => execState = "START_AUTHORIZED"
    /\ at[l] \in {"handshake", "prepared", "registered", "authorized"} =>
         ~MayRunGit(target[l])
    /\ OwnPass(l) =>
         spawner[target[l]] = l /\ passGen[target[l]] = gen[l]

(* What an admission sampled and found dead is dead for good.              *)
SampledDeathIsFinal ==
  \A l \in Launchers :
    seenRow[l][1] # None /\ ~seenAlive[l] => at[seenRow[l][1]] = "dead"

RecordedWasSpawned == execToken # None => ctl[execToken] # "unborn"

(* Every conjunct is needed to carry another one over some step of an      *)
(* owner, an admission or a controller.                                    *)
Knowledge ==
  /\ TypeOK
  /\ \A l \in Launchers : OwnerKnows(l)
  /\ CapableIsRecorded
  /\ RecordedWasSpawned
  /\ SampledDeathIsFinal
  /\ StrangersFollowDeath
  /\ CompletionIsEarned

(* A launcher that has yet to be admitted left no execution in the row.    *)
NewcomersRegisteredNothing ==
  \A l \in Launchers : at[l] \in {"start", "observed"} => execOwner # l

(* The generation in the row is the one the recorded pass was prepared for.*)
RecordIsOfItsPass == execToken # None => passGen[execToken] = execGeneration

(* A supervisor comes only from a delivered START, descendants only from a *)
(* supervisor, and success only from one that exited.                      *)
BoundaryHistory ==
  \A e \in Executions :
    /\ ctl[e] \in {"unborn", "spawned", "ready", "armed"} => sup[e] = "none"
    /\ desc[e] => sup[e] # "none"
    /\ outcome[e] = "success" => sup[e] \in {"exited", "closed"}

(* What the refinements rest on beside what owners know.                   *)
Records ==
  /\ RowReadable
  /\ NewcomersRegisteredNothing
  /\ RecordIsOfItsPass
  /\ BoundaryHistory

(* The place of an owner before it has prepared a pass for its generation. *)
BeforePass(l) ==
  \/ at[l] \in {"admitted", "provision", "prepare"}
  \/ at[l] \in Terminating \cup {"clear"} /\ task[l] = "recover"

(* The row an owner sees is the one its code expects there: the generation *)
(* it works for, and the execution it has yet to start or to clear.        *)
OwnerIsInStep(l) ==
  at[l] \in OwnerPlaces =>
    /\ running = gen[l]
    /\ at[l] = "registered" => execOwner = l /\ execState = "REGISTERED"
    /\ at[l] \in Terminating => task[l] \notin {"none", "pass"}
    /\ at[l] = "closing" => task[l] \notin {"none", "pass", "recover"}
    /\ at[l] = "clear" =>
         task[l] \in {"recover", "pass", "cancel", "interrupt", "cleanup"}
    /\ \/ at[l] = "clear"
       \/ /\ at[l] \in Terminating \cup {"closing"}
          /\ task[l] \in {"recover", "cancel", "interrupt", "cleanup"}
       => execToken = target[l]

Born == {e \in Executions : ctl[e] # "unborn"}

(* No execution was prepared for a generation that is yet to run.          *)
PassesFollowRequests ==
  /\ \A e \in Born :
       /\ passGen[e] \in 1 .. requested
       /\ owner # None => passGen[e] <= running
  /\ \A l \in Launchers :
       BeforePass(l) => \A e \in Born : passGen[e] < running

(* No generation is scanned twice, whoever dies between its request and    *)
(* its completion.                                                         *)
GenerationsRunOnce ==
  \A e, f \in Born : passGen[e] = passGen[f] => e = f

(* Every invocation asks once: a launcher whose generation is known.       *)
Admitted == {l \in Launchers : gen[l] # NoGeneration}

RequestsAreInvocations ==
  /\ IsFiniteSet(Admitted) /\ requested = Cardinality(Admitted)
  /\ \A l \in Launchers : at[l] \in {"start", "observed"} => l \notin Admitted

(* What bounds the passes, beside what owners know.                        *)
Passes ==
  /\ \A l \in Launchers : OwnerIsInStep(l)
  /\ PassesFollowRequests
  /\ GenerationsRunOnce
  /\ RequestsAreInvocations

(* However requests, deaths and retries interleave, there are at most as   *)
(* many passes as invocations that were admitted.                          *)
PassesAreBounded ==
  IsFiniteSet(Born) /\ Cardinality(Born) <= Cardinality(Admitted)

(* The fences of the transactions, whose refusal the code turns into a     *)
(* failed pass, refuse nobody who gets to them.                            *)
FencesLetOwnersPass ==
  \A l \in Launchers :
    /\ at[l] = "prepared" => RegisterAllowed(l, gen[l])
    /\ at[l] = "registered" => AuthorizeAllowed(l, target[l])
    /\ at[l] = "clear" => ClearAllowed(l, target[l])
    /\ at[l] \in {"provision", "finish"} => FinishAllowed(l, gen[l])

(* The inductive invariant.                                                *)
Inductive == Knowledge /\ Records /\ Passes

-----------------------------------------------------------------------------
(* Action properties.                                                      *)

(* EXEC-INV-6 and EXEC-INV-11: completion moves only while no boundary can *)
(* touch a repository.                                                     *)
CompletionFollowsBoundaryDeath ==
  [][completed' # completed => \A e \in Executions : ~MayRunGit(e)]_vars

(* EXEC-INV-9: a group signal is never sent to a number that the kernel    *)
(* has handed to a stranger.                                               *)
StrangersAreNotSignalled ==
  [][\A l \in Launchers :
       at[l] = "identify" /\ at'[l] = "await" => ~stranger[target[l]]]_vars

(* How far a launcher is from its end: at each place, in a termination by  *)
(* what it is for and how far it got, and after it by what follows.        *)
PlaceRank ==
  [start |-> 60, observed |-> 59, admitted |-> 58, provision |-> 46,
   prepare |-> 45, handshake |-> 44, prepared |-> 43, registered |-> 42,
   authorized |-> 41, running |-> 40, finish |-> 3, release |-> 2,
   coalesced |-> 1, returned |-> 1, dead |-> 0]

TerminationRank ==
  [recover |-> 48, abandon |-> 24, withdraw |-> 24, cancel |-> 24,
   interrupt |-> 24, discard |-> 6, cleanup |-> 6]
StageRank == [initial |-> 6, TERM |-> 3, KILL |-> 0]
LookRank  == [probe |-> 2, identify |-> 1, await |-> 0]

ClosingRank ==
  [abandon |-> 16, withdraw |-> 16, cancel |-> 16, interrupt |-> 16,
   discard |-> 5, cleanup |-> 5]
ClearRank ==
  [recover |-> 47, pass |-> 23, cancel |-> 15, interrupt |-> 15, cleanup |-> 4]

Left(l) ==
  IF at[l] \in Terminating
  THEN TerminationRank[task[l]] + StageRank[stage[l]] + LookRank[at[l]]
  ELSE IF at[l] = "closing" THEN ClosingRank[task[l]]
  ELSE IF at[l] = "clear" THEN ClearRank[task[l]]
  ELSE PlaceRank[at[l]]

(* The two loops of the code: another pass for a newer request, and another*)
(* attempt at the admission.                                               *)
PassesAgain(l) ==
  /\ at[l] \in {"provision", "finish"}
  /\ gen[l] < gen'[l] /\ gen'[l] = requested
TriesAgain(l) ==
  /\ at[l] = "observed" /\ at'[l] = "start"
  /\ tries[l] < tries'[l] /\ tries'[l] < MaxAttempts

GoesOn(l) ==
  \/ UNCHANGED <<at[l], task[l], stage[l]>>
  \/ Left(l)' < Left(l)
  \/ PassesAgain(l) \/ TriesAgain(l)

(* Whatever fails, is cancelled or dies, nobody goes in a circle: not from *)
(* a termination that throws to the one its catch block tries, nor from a  *)
(* failed clear to a cleanup and back.                                     *)
LaunchersOnlyGoOn == [][\A l \in Launchers : GoesOn(l)]_vars

-----------------------------------------------------------------------------
(* Refinement.                                                             *)

Scans(S) == {<<e, passGen[e]>> : e \in S}

Capable == {e \in Executions : GitCapable(e)}

Ended == {e \in Executions : sup[e] # "none" /\ ~GitCapable(e)}

Promise ==
  INSTANCE SingleLiveExecution WITH
    live <- Scans(Capable), spent <- Scans(Ended),
    asked <- requested, done <- completed

(* Launchers, controllers and every fault together behave like scans that  *)
(* happen one at a time and after the requests they answer.                *)
ImplementsSingleLiveExecution == Promise!Spec

Coordinator ==
  INSTANCE Reconciler WITH
    Generations <- Nat, alive <- [l \in Launchers |-> Alive(l)]

(* Launchers use the coordinator only through its transactions, so what    *)
(* holds of every caller of the Reconciler holds of them.                  *)
ImplementsReconciler == Coordinator!Spec

-----------------------------------------------------------------------------
(* Liveness.                                                               *)

(* The pass for a generation, or for a newer one, ran to the end of its    *)
(* pipeline, or the preparation before the first pass failed for it.       *)
Answered(g) ==
  \/ \E e \in Executions : passGen[e] >= g /\ sup[e] \in {"exited", "closed"}
  \/ \E l \in Launchers : at[l] = "returned" /\ gen[l] >= g

OwnerGaveUp ==
  \/ \E l \in Launchers : at[l] = "release"
  \/ owner # None /\ at[owner] = "dead"

(* A launcher waits for a pipeline that has neither ended nor been asked   *)
(* to, and nothing in the code bounds how long.                            *)
Waits(l) ==
  at[l] = "running" /\ ~aborted[l] /\ sup[target[l]] = "live"

OwnerWaits == owner # None /\ Waits(owner)

(* A request that races with the end of a pass is never dropped: a request *)
(* newer than the running generation gets its rescan, unless the owner     *)
(* gives the row up without finishing, dies while the row names it, or has *)
(* a pipeline that hangs.                                                  *)
PendingRequestIsAnswered ==
  \A g \in 1 .. Cardinality(Launchers) :
    owner # None /\ running < g /\ g <= requested
      ~> Answered(g) \/ OwnerGaveUp \/ []OwnerWaits

(* Every invocation ends, unless its own pipeline hangs and nobody cancels *)
(* it: no handshake, termination, recovery or close is waited for for ever,*)
(* and whoever was cancelled needs no help from the pipeline.              *)
EveryInvocationEnds ==
  \A l \in Launchers :
    <>(at[l] \in {"coalesced", "dead"} \/ []Waits(l))

(* A controller whose launcher is dead does not outlive it for ever.       *)
AbandonedControllerEnds ==
  \A e \in Executions :
    (\E l \in Launchers : spawner[e] = l /\ at[l] = "dead") ~> ctl[e] = "gone"
=============================================================================
