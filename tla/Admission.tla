------------------------------ MODULE Admission ------------------------------
(***************************************************************************)
(* The way into reconciliation with the default state directory.  A        *)
(* launcher takes the cutover lock, looks for state that was not migrated  *)
(* and for files of the retired queue, opens the database, registers its   *)
(* request, gives the lock back, and as the owner archives exactly the     *)
(* files it had inspected before its first pass.  Beside the launchers the *)
(* operator's migration moves the state tree, old workers write their      *)
(* queue files, and everybody may die at any step.                         *)
(*                                                                         *)
(* The state tree holds the queue files and the database, whose row and    *)
(* transactions are those of ReconcilerRow; a pass is one step that ends.  *)
(***************************************************************************)
EXTENDS ReconcilerRow

CONSTANTS
  Orders,      \* names of queue files
  LockFile,    \* running.lock
  Migrator,    \* the migration command, run again and again
  MaxWrites,   \* bounds the writes of old workers
  Faults

Files == Orders \cup {LockFile}

ASSUME NamesDiffer == LockFile \notin Orders /\ Migrator \notin Launchers \cup {None}
ASSUME WritesAreCounted == MaxWrites \in Nat
ASSUME FaultsAreKinds == Faults \subseteq {"crash", "io"}

VARIABLES
  at,          \* where a launcher is
  migration,   \* where the migration is
  cutover,     \* who created the lock directory that exists
  source, target,  \* whether the tree is at its retired, its current place
  queue,       \* the write each queue file holds; 0 if there is no file
  torn,        \* the files whose contents do not parse
  beating,     \* running.lock is at most 40 s old
  writes,
  inspected,   \* what a launcher saw in the queue before it registered
  todo,        \* the files it saw there again and has yet to archive
  moved,       \* the writes it moved out of the queue
  unanswered,  \* orders moved out of the queue since the last pass began
  answering    \* those moved out before the pass that is running

launcher == <<at, inspected, todo>>
tree     == <<source, target>>
residue  == <<queue, torn, beating, writes>>
archived == <<moved, unanswered, answering>>
vars     == <<row, launcher, migration, cutover, tree, residue, archived>>

Ended == {"done", "refused", "failed", "dead"}
LockPlaces == {"locked", "inspect", "open", "register", "registered"}
OwnerPlaces == {"clean", "archive", "pass", "passing"}
OpenPlaces == {"register", "registered", "unlocked"} \cup OwnerPlaces
Places == {"start"} \cup LockPlaces \cup OpenPlaces \cup Ended

Moving == {"validate", "rollback", "retry"}
MigrationPlaces == {"idle", "look", "check", "move", "leave"} \cup Moving

Write == 0 .. MaxWrites
NoFiles == [f \in Files |-> 0]

TypeOK ==
  /\ RowTypeOK
  /\ at \in [Launchers -> Places]
  /\ migration \in MigrationPlaces
  /\ cutover \in Launchers \cup {Migrator, None}
  /\ source \in BOOLEAN /\ target \in BOOLEAN
  /\ queue \in [Files -> Write] /\ torn \subseteq Files
  /\ beating \in BOOLEAN /\ writes \in Write
  /\ inspected \in [Launchers -> [Files -> Write]]
  /\ todo \in [Launchers -> SUBSET Files]
  /\ moved \in [Launchers -> SUBSET (Files \X Write)]
  /\ unanswered \subseteq Orders \X Write
  /\ answering \subseteq Orders \X Write

(* Nothing runs; the tree may be new, old, moved or, by hand, doubled, and *)
(* an earlier owner may have left a request unanswered.                    *)
Init ==
  /\ requested \in {0, 1} /\ completed = 0
  /\ running = NoGeneration /\ owner = None
  /\ execToken = None /\ execGeneration = NoGeneration
  /\ execOwner = None /\ execState = None
  /\ at = [l \in Launchers |-> "start"]
  /\ migration = "idle" /\ cutover = None
  /\ source \in BOOLEAN /\ target \in BOOLEAN
  /\ source \/ target \/ requested = 0
  /\ queue = NoFiles /\ torn = {} /\ beating = FALSE /\ writes = 0
  /\ inspected = [l \in Launchers |-> NoFiles]
  /\ todo = [l \in Launchers |-> {}]
  /\ moved = [l \in Launchers |-> {}]
  /\ unanswered = {} /\ answering = {}

Alive(l) == at[l] \notin Ended
Goto(l, place) == at' = [at EXCEPT ![l] = place]

-----------------------------------------------------------------------------
(* runPublicLauncher up to the registration, under the lock.               *)

(* Mutant: mkdir with `recursive` does not fail on a directory that exists.*)
TakeLockRecursive(l) ==
  /\ at[l] = "start"
  /\ cutover' = l
  /\ Goto(l, "locked")
  /\ UNCHANGED <<row, inspected, todo, migration, tree, residue, archived>>

(* Mutant: waits until the directory is gone.                              *)
TakeLockWaiting(l) ==
  /\ at[l] = "start" /\ cutover = None
  /\ cutover' = l
  /\ Goto(l, "locked")
  /\ UNCHANGED <<row, inspected, todo, migration, tree, residue, archived>>

TakeLock(l) ==
  /\ at[l] = "start"
  /\ \/ cutover = None /\ cutover' = l /\ Goto(l, "locked")
     \/ cutover # None /\ UNCHANGED cutover /\ Goto(l, "refused")
  /\ UNCHANGED <<row, inspected, todo, migration, tree, residue, archived>>

(* Every refusal under the lock gives the lock back: rmdir asks for no owner.*)
LeaveLock == cutover' = None

(* Mutant: state at the retired place is not looked for.                   *)
SkipMigrationCheck(l) ==
  /\ at[l] = "locked"
  /\ UNCHANGED cutover /\ Goto(l, "inspect")
  /\ UNCHANGED <<row, inspected, todo, migration, tree, residue, archived>>

AssertMigrated(l) ==
  /\ at[l] = "locked"
  /\ \/ source /\ LeaveLock /\ Goto(l, "refused")
     \/ ~source /\ UNCHANGED cutover /\ Goto(l, "inspect")
  /\ UNCHANGED <<row, inspected, todo, migration, tree, residue, archived>>

Listing == IF target THEN queue ELSE NoFiles
LockIsLive == Listing[LockFile] # 0 /\ LockFile \notin torn /\ beating
LockIsMalformed == Listing[LockFile] # 0 /\ LockFile \in torn
Unreadable == \E f \in Orders : Listing[f] # 0 /\ f \in torn

(* Mutant: the residue is archived as soon as it is seen.                   *)
InspectAndArchive(l) ==
  /\ at[l] = "inspect" /\ ~Unreadable /\ ~LockIsLive /\ ~LockIsMalformed
  /\ unanswered' = unanswered \cup {<<g, Listing[g]>> : g \in {h \in Orders : Listing[h] # 0}}
  /\ queue' = NoFiles
  /\ Goto(l, "open")
  /\ UNCHANGED <<row, inspected, todo, migration, cutover, tree, torn, beating,
                 writes, moved, answering>>

InspectQueue(l) ==
  /\ at[l] = "inspect"
  /\ \/ /\ Unreadable \/ LockIsLive \/ LockIsMalformed
        /\ LeaveLock /\ Goto(l, "refused")
        /\ UNCHANGED inspected
     \/ /\ ~Unreadable /\ ~LockIsLive /\ ~LockIsMalformed
        /\ inspected' = [inspected EXCEPT ![l] = Listing]
        /\ UNCHANGED cutover /\ Goto(l, "open")
  /\ UNCHANGED <<row, todo, migration, tree, residue, archived>>

OpenDatabase(l) ==
  /\ at[l] = "open"
  /\ target' = TRUE
  /\ Goto(l, "register")
  /\ UNCHANGED <<row, inspected, todo, migration, cutover, source, residue, archived>>

(* The directory cannot be created: the exception leaves the lock behind.  *)
(* A database that does not open or a missing start identity gives it back.*)
OpenFails(l) ==
  /\ "io" \in Faults
  /\ at[l] \in {"open", "register"}
  /\ \/ at[l] = "open" /\ UNCHANGED <<cutover, target>> /\ Goto(l, "failed")
     \/ target' = TRUE /\ LeaveLock /\ Goto(l, "refused")
  /\ UNCHANGED <<row, inspected, todo, migration, source, residue, archived>>

(* registerReconciliationRequest, decided by the liveness of the owner.    *)
RegisterRequest(l) ==
  /\ at[l] = "register"
  /\ \/ owner # None /\ Alive(owner) /\ RowCoalesce
     \/ (owner # None => ~Alive(owner)) /\ RowTakeOver(l)
  /\ Goto(l, "registered")
  /\ UNCHANGED <<inspected, todo, migration, cutover, tree, residue, archived>>

ReleaseLock(l) ==
  /\ at[l] = "registered"
  /\ LeaveLock
  /\ Goto(l, "unlocked")
  /\ UNCHANGED <<row, inspected, todo, migration, tree, residue, archived>>

-----------------------------------------------------------------------------
(* The owner's part.                                                       *)

(* releaseOwnershipBestEffort; the database refuses it to a coalesced one. *)
GiveUp(l) ==
  \/ owner = l /\ RowRelease(l)
  \/ owner # l /\ UNCHANGED row

(* A signal that came since the registration ends the launcher; a request  *)
(* that coalesced is done.                                                 *)
Proceed(l) ==
  /\ at[l] = "unlocked"
  /\ \/ GiveUp(l) /\ Goto(l, "failed")
     \/ owner # l /\ Goto(l, "done") /\ UNCHANGED row
     \/ owner = l /\ Goto(l, "clean") /\ UNCHANGED row
  /\ UNCHANGED <<inspected, todo, migration, cutover, tree, residue, archived>>

Present == {f \in Files : queue[f] # 0}

(* deleteLegacyQueueArtifacts: what vanished is fine, what is new is not.   *)
Revalidate(l) ==
  /\ at[l] = "clean"
  /\ \/ /\ Unreadable \/ \E f \in Present : queue[f] # inspected[l][f]
        /\ GiveUp(l) /\ Goto(l, "refused")
        /\ UNCHANGED todo
     \/ /\ ~Unreadable /\ \A f \in Present : queue[f] = inspected[l][f]
        /\ todo' = [todo EXCEPT ![l] = Present]
        /\ Goto(l, "archive")
        /\ UNCHANGED row
  /\ UNCHANGED <<inspected, migration, cutover, tree, residue, archived>>

(* Orders first, running.lock last.                                        *)
Turn(l, f) == f \in todo[l] /\ (f = LockFile => todo[l] = {f})

(* What the rename moves is gone from the queue, whatever it was.          *)
MoveOut(l, f) ==
  /\ queue[f] # 0
  /\ queue' = [queue EXCEPT ![f] = 0]
  /\ todo' = [todo EXCEPT ![l] = @ \ {f}]
  /\ moved' = [moved EXCEPT ![l] = @ \cup {<<f, queue[f]>>}]
  /\ unanswered' = unanswered \cup {<<g, queue[g]>> : g \in {f} \cap Orders}
  /\ UNCHANGED <<inspected, migration, cutover, tree, torn, beating, writes,
                 answering>>

(* Mutant: the moved file is not compared with the inspected one.          *)
ArchiveUnverified(l) ==
  /\ at[l] = "archive"
  /\ \E f \in Files : Turn(l, f) /\ MoveOut(l, f)
  /\ UNCHANGED <<row, at>>

(* archiveExactArtifact: the rename, after which the launcher may die or   *)
(* fail to read what it moved, and the comparison.                         *)
ArchiveFile(l) ==
  /\ at[l] = "archive"
  /\ \E f \in Files :
       /\ Turn(l, f)
       /\ MoveOut(l, f)
       /\ \/ queue[f] = inspected[l][f] /\ UNCHANGED <<row, at>>
          \/ /\ queue[f] # inspected[l][f] \/ "io" \in Faults
             /\ GiveUp(l) /\ Goto(l, "refused")
          \/ "crash" \in Faults /\ Goto(l, "dead") /\ UNCHANGED row

(* Somebody took the file away since it was seen, or the rename fails.     *)
ArchiveFails(l) ==
  /\ at[l] = "archive"
  /\ \E f \in Files : Turn(l, f) /\ (queue[f] = 0 \/ "io" \in Faults)
  /\ GiveUp(l) /\ Goto(l, "refused")
  /\ UNCHANGED <<inspected, todo, migration, cutover, tree, residue, archived>>

InspectAgain(l) ==
  /\ at[l] = "archive" /\ todo[l] = {}
  /\ \/ Present # {} /\ GiveUp(l) /\ Goto(l, "refused")
     \/ Present = {} /\ Goto(l, "pass") /\ UNCHANGED row
  /\ UNCHANGED <<inspected, todo, migration, cutover, tree, residue, archived>>

(* A pass scans every repository: it answers what was archived before it.  *)
StartPass(l) ==
  /\ at[l] = "pass"
  /\ answering' = answering \cup unanswered
  /\ unanswered' = {}
  /\ Goto(l, "passing")
  /\ UNCHANGED <<row, inspected, todo, migration, cutover, tree, residue, moved>>

EndPass(l) ==
  /\ at[l] = "passing"
  /\ \E success \in BOOLEAN :
       /\ RowFinish(l, running, success)
       /\ answering' = IF success THEN {} ELSE answering
  /\ Goto(l, IF owner' = l THEN "pass" ELSE "done")
  /\ UNCHANGED <<inspected, todo, migration, cutover, tree, residue, moved,
                 unanswered>>

CancelPass(l) ==
  /\ at[l] = "passing"
  /\ RowRelease(l)
  /\ Goto(l, "failed")
  /\ UNCHANGED <<inspected, todo, migration, cutover, tree, residue, archived>>

Die(l) ==
  /\ "crash" \in Faults /\ Alive(l)
  /\ Goto(l, "dead")
  /\ UNCHANGED <<row, inspected, todo, migration, cutover, tree, residue, archived>>

-----------------------------------------------------------------------------
(* migrateApplicationState.                                                *)

Move(place) ==
  /\ migration' = place
  /\ UNCHANGED <<row, launcher, residue, archived>>

MigrationStarts ==
  /\ migration = "idle" /\ cutover = None
  /\ cutover' = Migrator
  /\ Move("look")
  /\ UNCHANGED tree

MigrationLooks ==
  /\ migration = "look"
  /\ Move(IF source /\ ~target THEN "check" ELSE "leave")
  /\ UNCHANGED <<cutover, tree>>

Idle == owner = None /\ requested = completed

(* The database is at rest and its log can be folded in.                   *)
MigrationChecks ==
  /\ migration = "check"
  /\ \/ Idle /\ Move("move")
     \/ (~Idle \/ "io" \in Faults) /\ Move("leave")
  /\ UNCHANGED <<cutover, tree>>

MigrationMoves ==
  /\ migration = "move"
  /\ \/ source' = FALSE /\ target' = TRUE /\ Move("validate")
     \/ "io" \in Faults /\ UNCHANGED tree /\ Move("leave")
  /\ UNCHANGED cutover

(* inspectReconciliationPreflightState finds no blocker.                   *)
Ready == Idle /\ Present = {}

MigrationValidates ==
  /\ migration = "validate"
  /\ \/ Ready /\ Move("leave")
     \/ (~Ready \/ "io" \in Faults) /\ Move("rollback")
  /\ UNCHANGED <<cutover, tree>>

(* The rollback is tried once more on the way out.                         *)
MigrationRollsBack ==
  /\ migration \in {"rollback", "retry"}
  /\ \/ source' = TRUE /\ target' = FALSE /\ Move("leave")
     \/ /\ "io" \in Faults
        /\ UNCHANGED tree
        /\ Move(IF migration = "rollback" THEN "retry" ELSE "leave")
  /\ UNCHANGED cutover

MigrationLeaves ==
  /\ migration = "leave"
  /\ LeaveLock
  /\ Move("idle")
  /\ UNCHANGED tree

MigrationDies ==
  /\ "crash" \in Faults /\ migration # "idle"
  /\ Move("idle")
  /\ UNCHANGED <<cutover, tree>>

-----------------------------------------------------------------------------
(* Old workers, the clock, and the operator.                               *)

OldWorkerWrites ==
  /\ source \/ target
  /\ writes < MaxWrites
  /\ writes' = writes + 1
  /\ \E f \in Files :
       /\ queue' = [queue EXCEPT ![f] = writes + 1]
       /\ beating' = (beating \/ f = LockFile)
       /\ torn' \in {torn \cup {f}, torn \ {f}}
  /\ UNCHANGED <<row, launcher, migration, cutover, tree, archived>>

OldWorkerRemoves ==
  /\ \E f \in Present : queue' = [queue EXCEPT ![f] = 0]
  /\ UNCHANGED <<row, launcher, migration, cutover, tree, torn, beating, writes,
                 archived>>

LockAges ==
  /\ beating
  /\ beating' = FALSE
  /\ UNCHANGED <<row, launcher, migration, cutover, tree, queue, torn, writes,
                 archived>>

(* Only after proving that no migration or launcher process is active.     *)
OperatorRemovesLock ==
  /\ cutover # None
  /\ migration = "idle" /\ \A l \in Launchers : at[l] \in Ended \cup {"start"}
  /\ cutover' = None
  /\ UNCHANGED <<row, launcher, migration, tree, residue, archived>>

-----------------------------------------------------------------------------
LauncherStep(l) ==
  \/ TakeLock(l) \/ AssertMigrated(l) \/ InspectQueue(l) \/ OpenDatabase(l)
  \/ RegisterRequest(l) \/ ReleaseLock(l) \/ Proceed(l) \/ Revalidate(l)
  \/ ArchiveFile(l) \/ ArchiveFails(l) \/ InspectAgain(l)
  \/ StartPass(l) \/ EndPass(l)

MigrationStep ==
  \/ MigrationStarts \/ MigrationLooks \/ MigrationChecks \/ MigrationMoves
  \/ MigrationValidates \/ MigrationRollsBack \/ MigrationLeaves

Trouble(l) == OpenFails(l) \/ CancelPass(l) \/ Die(l)

World == OldWorkerWrites \/ OldWorkerRemoves \/ LockAges \/ OperatorRemovesLock

Next ==
  \/ \E l \in Launchers : LauncherStep(l) \/ Trouble(l)
  \/ MigrationStep \/ MigrationDies \/ World

Spec == Init /\ [][Next]_vars

(* Launchers do not wait for one another; a pass ends (GitExecution).      *)
Fairness == \A l \in Launchers : WF_vars(LauncherStep(l))

FairSpec == Spec /\ Fairness

-----------------------------------------------------------------------------
(* "A migrated database cannot be opened while validation or rollback is   *)
(* still possible": through deaths, failures and a lock that is removed by *)
(* hand, no launcher has a database that a rollback would take away.       *)
NotOpenedWhileMoving ==
  migration \in Moving => \A l \in Launchers : at[l] \notin OpenPlaces

(* No launcher ever creates a second tree beside the one that waits to be  *)
(* migrated: requests and history would then be split between the two.     *)
NeverSplit == [][source' /\ target' => source /\ target]_vars

(* An order leaves the queue only for a request that is durable: until a   *)
(* pass that began later succeeds, the row asks for one, whoever dies, is  *)
(* cancelled, or finds that it moved a file it had not seen.               *)
ResidueIsAnswered ==
  unanswered \cup answering # {} => requested > completed

(* A launcher whose archiving raced with an old worker never goes on to a  *)
(* pass: what it moved is exactly what it had seen before it registered.   *)
PassesFollowExactArchive ==
  \A l \in Launchers :
    at[l] \in {"pass", "passing"} =>
      \A m \in moved[l] : m[2] = inspected[l][m[1]]

(* No launcher waits for another one, for the migration or for a lock that *)
(* was left behind.                                                        *)
LaunchersEnd == \A l \in Launchers : <>~Alive(l)
=============================================================================
