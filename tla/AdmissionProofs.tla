--------------------------- MODULE AdmissionProofs ---------------------------
(***************************************************************************)
(* The invariants of Admission for any number of launchers, queue files    *)
(* and writes of old workers.                                              *)
(***************************************************************************)
EXTENDS Admission, TLAPS

(* Who is between mkdir and rmdir made the directory that exists.          *)
LockInv ==
  /\ \A l \in Launchers : at[l] \in LockPlaces => cutover = l
  /\ migration # "idle" => cutover = Migrator

(* Where the tree is, as far as somebody relies on it.                     *)
TreeInv ==
  /\ \A l \in Launchers :
       /\ at[l] \in OpenPlaces => target
       /\ at[l] \in {"inspect", "open", "register"} => ~source
  /\ migration \in {"check", "move"} => ~target
  /\ NotOpenedWhileMoving

(* Only the recorded owner cleans and passes, and what it has moved so far *)
(* is what it had inspected.                                               *)
OwnerInv ==
  /\ completed <= requested
  /\ owner # None => completed < running /\ running <= requested
  /\ \A l \in Launchers :
       /\ at[l] \in OwnerPlaces => owner = l
       /\ at[l] = "passing" => unanswered = {}
  /\ ResidueIsAnswered

MovedInv ==
  \A l \in Launchers :
    /\ at[l] \in {"start", "unlocked", "clean"} \cup LockPlaces => moved[l] = {}
    /\ at[l] \in {"archive", "pass", "passing"} =>
         \A m \in moved[l] : m[2] = inspected[l][m[1]]

IInv == TypeOK /\ LockInv /\ TreeInv /\ OwnerInv /\ MovedInv

USE NoneIsNoToken, NamesDiffer, WritesAreCounted

(* The two halves of the type invariant beside the row.                    *)
ControlOK ==
  /\ at \in [Launchers -> Places]
  /\ migration \in MigrationPlaces
  /\ cutover \in Launchers \cup {Migrator, None}
  /\ source \in BOOLEAN /\ target \in BOOLEAN
  /\ beating \in BOOLEAN /\ writes \in Write

ResidueOK ==
  /\ queue \in [Files -> Write] /\ torn \subseteq Files
  /\ inspected \in [Launchers -> [Files -> Write]]
  /\ todo \in [Launchers -> SUBSET Files]
  /\ moved \in [Launchers -> SUBSET (Files \X Write)]
  /\ unanswered \subseteq Orders \X Write
  /\ answering \subseteq Orders \X Write

LEMMA InitIInv == Init => IInv
<1> SUFFICES ASSUME Init PROVE IInv
  OBVIOUS
<1> USE DEF Init
<1>1. TypeOK
  <2>1. RowTypeOK
    BY DEF RowTypeOK, NoGeneration
  <2>2. 0 \in Write
    BY DEF Write
  <2>3. NoFiles \in [Files -> Write]
    BY <2>2 DEF NoFiles
  <2>4. at \in [Launchers -> Places] /\ migration \in MigrationPlaces
    BY DEF Places, MigrationPlaces
  <2>5. inspected \in [Launchers -> [Files -> Write]]
    BY <2>3
  <2> QED
    BY <2>1, <2>2, <2>3, <2>4, <2>5 DEF TypeOK
<1>2. LockInv /\ TreeInv
  BY DEF LockInv, TreeInv, NotOpenedWhileMoving, LockPlaces, OpenPlaces,
    OwnerPlaces, Moving
<1>3. OwnerInv /\ MovedInv
  BY DEF OwnerInv, MovedInv, ResidueIsAnswered, OwnerPlaces
<1> QED
  BY <1>1, <1>2, <1>3 DEF IInv

(* What the four transactions of a launcher do to the columns of the row.  *)
LEMMA RowStep ==
  ASSUME RowTypeOK, completed <= requested,
         owner # None => completed < running /\ running <= requested,
         NEW l \in Launchers, NEW success \in BOOLEAN,
         \/ RowCoalesce
         \/ RowTakeOver(l) \/ RowRelease(l)
         \/ RowFinish(l, running, success)
         \/ UNCHANGED row
  PROVE  /\ RowTypeOK'
         /\ completed' <= requested'
         /\ owner' # None => completed' < running' /\ running' <= requested'
<1> USE DEF RowTypeOK, NoGeneration, ownerColumns, execColumns, row
<1>1. CASE RowCoalesce
  BY <1>1 DEF RowCoalesce
<1>2. CASE RowTakeOver(l)
  BY <1>2 DEF RowTakeOver
<1>3. CASE RowRelease(l)
  BY <1>3 DEF RowRelease
<1>4. CASE RowFinish(l, running, success)
  BY <1>4 DEF RowFinish, FinishAllowed
<1>5. CASE UNCHANGED row
  BY <1>5
<1> QED
  BY <1>1, <1>2, <1>3, <1>4, <1>5

LEMMA NextTypeOK == IInv /\ [Next]_vars => TypeOK'
<1> SUFFICES ASSUME IInv, [Next]_vars PROVE TypeOK'
  OBVIOUS
<1>1. RowTypeOK'
  <2>1. ASSUME NEW l \in Launchers, LauncherStep(l) \/ Trouble(l)
        PROVE  \/ RowCoalesce
               \/ RowTakeOver(l) \/ RowRelease(l)
               \/ \E success \in BOOLEAN : RowFinish(l, running, success)
               \/ UNCHANGED row
    <3>1. CASE \/ TakeLock(l) \/ AssertMigrated(l) \/ InspectQueue(l)
               \/ OpenDatabase(l) \/ RegisterRequest(l) \/ ReleaseLock(l)
               \/ OpenFails(l)
      BY <3>1 DEF TakeLock, AssertMigrated, InspectQueue, OpenDatabase,
        RegisterRequest, ReleaseLock, OpenFails
    <3>2. CASE \/ Proceed(l) \/ Revalidate(l) \/ ArchiveFile(l)
               \/ ArchiveFails(l) \/ InspectAgain(l)
      BY <3>2 DEF Proceed, Revalidate, ArchiveFile, ArchiveFails, InspectAgain,
        GiveUp
    <3>3. CASE StartPass(l) \/ EndPass(l) \/ CancelPass(l) \/ Die(l)
      BY <3>3 DEF StartPass, EndPass, CancelPass, Die
    <3> QED
      BY <2>1, <3>1, <3>2, <3>3 DEF LauncherStep, Trouble
  <2>2. CASE MigrationStep \/ MigrationDies \/ World \/ UNCHANGED vars
    <3>1. UNCHANGED row
      BY <2>2 DEF MigrationStep, MigrationDies, World, vars, MigrationStarts,
        MigrationLooks, MigrationChecks, MigrationMoves, MigrationValidates,
        MigrationRollsBack, MigrationLeaves, Move, OldWorkerWrites,
        OldWorkerRemoves, LockAges, OperatorRemovesLock
    <3> QED
      BY <3>1 DEF IInv, TypeOK, RowTypeOK, row
  <2> QED
    BY <2>1, <2>2, RowStep DEF Next, IInv, TypeOK, OwnerInv
<1>2. ControlOK'
  <2> USE DEF IInv, TypeOK, ControlOK, Goto, launcher, tree, residue, archived,
          LeaveLock, Places, LockPlaces, OpenPlaces, OwnerPlaces, Ended
  <2>1. ASSUME NEW l \in Launchers, LauncherStep(l) \/ Trouble(l)
        PROVE  ControlOK'
    <3>1. CASE \/ TakeLock(l) \/ AssertMigrated(l) \/ InspectQueue(l)
               \/ OpenDatabase(l) \/ RegisterRequest(l) \/ ReleaseLock(l)
               \/ OpenFails(l)
      BY <3>1 DEF TakeLock, AssertMigrated, InspectQueue, OpenDatabase,
        RegisterRequest, ReleaseLock, OpenFails
    <3>2. CASE \/ Proceed(l) \/ Revalidate(l) \/ ArchiveFile(l)
               \/ ArchiveFails(l) \/ InspectAgain(l)
      BY <3>2 DEF Proceed, Revalidate, ArchiveFile, ArchiveFails, InspectAgain,
        MoveOut
    <3>3. CASE StartPass(l) \/ EndPass(l) \/ CancelPass(l) \/ Die(l)
      BY <3>3 DEF StartPass, EndPass, CancelPass, Die
    <3> QED
      BY <2>1, <3>1, <3>2, <3>3 DEF LauncherStep, Trouble
  <2>2. CASE MigrationStep \/ MigrationDies
    BY <2>2 DEF MigrationStep, MigrationDies, MigrationStarts, MigrationLooks,
      MigrationChecks, MigrationMoves, MigrationValidates, MigrationRollsBack,
      MigrationLeaves, Move, MigrationPlaces, Moving
  <2>3. CASE World
    <3>1. CASE OldWorkerWrites
      <4>1. writes' \in Write
        BY <3>1 DEF OldWorkerWrites, Write
      <4>2. beating' \in BOOLEAN
        BY <3>1 DEF OldWorkerWrites
      <4> QED
        BY <3>1, <4>1, <4>2 DEF OldWorkerWrites
    <3>2. CASE OldWorkerRemoves
      BY <3>2 DEF OldWorkerRemoves
    <3>3. CASE LockAges
      BY <3>3 DEF LockAges
    <3>4. CASE OperatorRemovesLock
      BY <3>4 DEF OperatorRemovesLock
    <3> QED
      BY <2>3, <3>1, <3>2, <3>3, <3>4 DEF World
  <2>4. CASE UNCHANGED vars
    BY <2>4 DEF vars
  <2> QED
    BY <2>1, <2>2, <2>3, <2>4 DEF Next
<1>3. ResidueOK'
  <2> USE DEF IInv, TypeOK, ResidueOK, launcher, residue, archived, Files, Write
  <2>1. ASSUME NEW l \in Launchers, LauncherStep(l) \/ Trouble(l)
        PROVE  ResidueOK'
    <3>1. CASE InspectQueue(l)
      BY <3>1 DEF InspectQueue, Listing, NoFiles
    <3>2. CASE Revalidate(l)
      BY <3>2 DEF Revalidate, Present
    <3>3. CASE ArchiveFile(l)
      <4> PICK f \in Files : MoveOut(l, f)
        BY <3>3 DEF ArchiveFile
      <4> QED
        BY DEF MoveOut
    <3>4. CASE StartPass(l) \/ EndPass(l)
      BY <3>4 DEF StartPass, EndPass
    <3>5. CASE \/ TakeLock(l) \/ AssertMigrated(l) \/ OpenDatabase(l)
               \/ RegisterRequest(l) \/ ReleaseLock(l) \/ OpenFails(l)
               \/ Proceed(l) \/ ArchiveFails(l) \/ InspectAgain(l)
               \/ CancelPass(l) \/ Die(l)
      BY <3>5 DEF TakeLock, AssertMigrated, OpenDatabase, RegisterRequest,
        ReleaseLock, OpenFails, Proceed, ArchiveFails, InspectAgain, CancelPass,
        Die
    <3> QED
      BY <2>1, <3>1, <3>2, <3>3, <3>4, <3>5 DEF LauncherStep, Trouble
  <2>2. CASE MigrationStep \/ MigrationDies
    BY <2>2 DEF MigrationStep, MigrationDies, MigrationStarts, MigrationLooks,
      MigrationChecks, MigrationMoves, MigrationValidates, MigrationRollsBack,
      MigrationLeaves, Move
  <2>3. CASE World
    <3>1. CASE OldWorkerWrites
      <4>1. writes + 1 \in Write
        BY <3>1 DEF OldWorkerWrites
      <4> HIDE DEF Write
      <4> PICK f \in Files : /\ queue' = [queue EXCEPT ![f] = writes + 1]
                             /\ torn' \in {torn \cup {f}, torn \ {f}}
        BY <3>1 DEF OldWorkerWrites
      <4>2. queue' \in [Files -> Write] /\ torn' \subseteq Files
        BY <4>1
      <4> QED
        BY <3>1, <4>2 DEF OldWorkerWrites
    <3>2. CASE OldWorkerRemoves
      BY <3>2 DEF OldWorkerRemoves, Present
    <3>3. CASE LockAges \/ OperatorRemovesLock
      BY <3>3 DEF LockAges, OperatorRemovesLock
    <3> QED
      BY <2>3, <3>1, <3>2, <3>3 DEF World
  <2>4. CASE UNCHANGED vars
    BY <2>4 DEF vars
  <2> QED
    BY <2>1, <2>2, <2>3, <2>4 DEF Next
<1> QED
  BY <1>1, <1>2, <1>3 DEF TypeOK, ControlOK, ResidueOK

(* The lock, and the tree that it protects.                                *)
LEMMA NextTree == IInv /\ [Next]_vars => LockInv' /\ TreeInv'
<1> SUFFICES ASSUME IInv, [Next]_vars PROVE LockInv' /\ TreeInv'
  OBVIOUS
<1> USE DEF IInv, TypeOK, LockInv, TreeInv, NotOpenedWhileMoving, LockPlaces,
        OpenPlaces, OwnerPlaces, Ended, Moving, Places, MigrationPlaces, tree
<1>1. ASSUME NEW l \in Launchers, LauncherStep(l) \/ Trouble(l)
      PROVE  LockInv' /\ TreeInv'
  <2> USE DEF Goto, LeaveLock
  <2>1. CASE TakeLock(l)
    BY <2>1 DEF TakeLock
  <2>2. CASE AssertMigrated(l)
    BY <2>2 DEF AssertMigrated
  <2>3. CASE InspectQueue(l)
    BY <2>3 DEF InspectQueue
  <2>4. CASE OpenDatabase(l)
    BY <2>4 DEF OpenDatabase
  <2>5. CASE OpenFails(l)
    BY <2>5 DEF OpenFails
  <2>6. CASE RegisterRequest(l)
    BY <2>6 DEF RegisterRequest
  <2>7. CASE ReleaseLock(l)
    BY <2>7 DEF ReleaseLock
  <2>8. CASE \/ Proceed(l) \/ Revalidate(l) \/ ArchiveFile(l) \/ ArchiveFails(l)
             \/ InspectAgain(l) \/ StartPass(l) \/ EndPass(l) \/ CancelPass(l)
    <3>1. /\ UNCHANGED <<migration, cutover, source, target>>
          /\ \E p \in OwnerPlaces \cup Ended :
               /\ at[l] \in OwnerPlaces \cup {"unlocked"}
               /\ at' = [at EXCEPT ![l] = p]
      BY <2>8 DEF Proceed, Revalidate, ArchiveFile, ArchiveFails, InspectAgain,
        StartPass, EndPass, CancelPass, MoveOut
    <3> QED
      BY <3>1
  <2>9. CASE Die(l)
    BY <2>9 DEF Die
  <2> QED
    BY <1>1, <2>1, <2>2, <2>3, <2>4, <2>5, <2>6, <2>7, <2>8, <2>9
    DEF LauncherStep, Trouble
<1>2. CASE MigrationStep \/ MigrationDies
  <2> USE DEF Move, launcher
  <2>1. CASE MigrationStarts
    BY <2>1 DEF MigrationStarts
  <2>2. CASE MigrationLooks
    BY <2>2 DEF MigrationLooks
  <2>3. CASE MigrationChecks
    BY <2>3 DEF MigrationChecks
  <2>4. CASE MigrationMoves
    BY <2>4 DEF MigrationMoves
  <2>5. CASE MigrationValidates
    BY <2>5 DEF MigrationValidates
  <2>6. CASE MigrationRollsBack
    BY <2>6 DEF MigrationRollsBack
  <2>7. CASE MigrationLeaves
    BY <2>7 DEF MigrationLeaves
  <2>8. CASE MigrationDies
    BY <2>8 DEF MigrationDies
  <2> QED
    BY <1>2, <2>1, <2>2, <2>3, <2>4, <2>5, <2>6, <2>7, <2>8 DEF MigrationStep
<1>3. CASE World
  BY <1>3 DEF World, OldWorkerWrites, OldWorkerRemoves, LockAges,
    OperatorRemovesLock, launcher
<1>4. CASE UNCHANGED vars
  BY <1>4 DEF vars, launcher
<1> QED
  BY <1>1, <1>2, <1>3, <1>4 DEF Next

(* The row's owner, its durable requests, and the residue they answer.      *)
LEMMA NextOwner == IInv /\ [Next]_vars => OwnerInv'
<1> SUFFICES ASSUME IInv, [Next]_vars PROVE OwnerInv'
  OBVIOUS
<1> USE DEF IInv, TypeOK, OwnerInv, ResidueIsAnswered, OwnerPlaces, Ended,
        LockPlaces, OpenPlaces
<1>1. ASSUME NEW l \in Launchers, LauncherStep(l) \/ Trouble(l)
      PROVE  OwnerInv'
  <2> USE DEF Goto
  <2>1. CASE \/ TakeLock(l) \/ AssertMigrated(l) \/ InspectQueue(l)
             \/ OpenDatabase(l) \/ OpenFails(l) \/ ReleaseLock(l) \/ Die(l)
    <3>1. /\ UNCHANGED <<row, unanswered, answering>>
          /\ \E p \in Places \ OwnerPlaces : at' = [at EXCEPT ![l] = p]
      BY <2>1 DEF TakeLock, AssertMigrated, InspectQueue, OpenDatabase,
        OpenFails, ReleaseLock, Die, archived, Places
    <3> QED
      BY <3>1 DEF row
  <2>2. CASE RegisterRequest(l)
    <3>1. CASE RowCoalesce
      BY <2>2, <3>1 DEF RegisterRequest, RowCoalesce, RowTypeOK, archived,
        ownerColumns
    <3>2. CASE RowTakeOver(l) /\ (owner # None => ~Alive(owner))
      BY <2>2, <3>2 DEF RegisterRequest, RowTakeOver, RowTypeOK, archived, Alive
    <3> QED
      BY <2>2, <3>1, <3>2 DEF RegisterRequest
  <2>3. CASE Proceed(l) \/ Revalidate(l) \/ ArchiveFails(l) \/ InspectAgain(l)
    <3>1. /\ UNCHANGED <<unanswered, answering>>
          /\ \/ /\ UNCHANGED row
                /\ \E p \in OwnerPlaces \ {"passing"} :
                     owner = l /\ at' = [at EXCEPT ![l] = p]
             \/ /\ UNCHANGED row \/ RowRelease(l)
                /\ \E p \in Ended : at' = [at EXCEPT ![l] = p]
      BY <2>3 DEF Proceed, Revalidate, ArchiveFails, InspectAgain, GiveUp,
        archived
    <3>2. ASSUME NEW p \in OwnerPlaces \ {"passing"},
                 owner = l, UNCHANGED row, at' = [at EXCEPT ![l] = p]
          PROVE  OwnerInv'
      BY <3>1, <3>2 DEF row
    <3>3. ASSUME NEW p \in Ended, at' = [at EXCEPT ![l] = p],
                 UNCHANGED row \/ RowRelease(l)
          PROVE  OwnerInv'
      <4>1. CASE UNCHANGED row
        BY <3>1, <3>3, <4>1 DEF row
      <4>2. CASE RowRelease(l)
        BY <3>1, <3>3, <4>2 DEF RowRelease, ReleaseAllowed, execColumns
      <4> QED
        BY <3>3, <4>1, <4>2
    <3> QED
      BY <3>1, <3>2, <3>3
  <2>4. CASE ArchiveFile(l)
    <3>1. owner = l /\ \A k \in Launchers : at[k] = "passing" => k = l
      BY <2>4 DEF ArchiveFile
    <3>2. /\ UNCHANGED answering
          /\ \/ UNCHANGED <<row, at>>
             \/ /\ UNCHANGED row \/ RowRelease(l)
                /\ \E p \in Ended : at' = [at EXCEPT ![l] = p]
      BY <2>4, <3>1 DEF ArchiveFile, MoveOut, GiveUp
    <3>3. owner # None /\ at[l] = "archive"
      BY <2>4, <3>1 DEF ArchiveFile
    <3>4. requested > completed
      BY <3>3 DEF RowTypeOK
    <3>5. CASE UNCHANGED <<row, at>>
      BY <3>1, <3>3, <3>4, <3>5 DEF row
    <3>6. ASSUME NEW p \in Ended, UNCHANGED row \/ RowRelease(l),
                 at' = [at EXCEPT ![l] = p]
          PROVE  OwnerInv'
      <4>1. CASE UNCHANGED row
        BY <3>1, <3>4, <3>6, <4>1 DEF row
      <4>2. CASE RowRelease(l)
        BY <3>1, <3>4, <3>6, <4>2 DEF RowRelease, execColumns
      <4> QED
        BY <3>6, <4>1, <4>2
    <3> QED
      BY <3>2, <3>5, <3>6
  <2>5. CASE StartPass(l)
    BY <2>5 DEF StartPass, row
  <2>6. CASE EndPass(l)
    <3>1. owner = l /\ unanswered = {} /\ UNCHANGED unanswered
      BY <2>6 DEF EndPass
    <3> PICK success \in BOOLEAN :
               /\ RowFinish(l, running, success)
               /\ answering' = IF success THEN {} ELSE answering
      BY <2>6 DEF EndPass
    <3>2. at' = [at EXCEPT ![l] = IF owner' = l THEN "pass" ELSE "done"]
      BY <2>6 DEF EndPass
    <3>3. /\ requested' = requested
          /\ owner' \in {l, None}
          /\ completed' = IF success THEN running ELSE completed
          /\ owner' # None => running' = requested /\ requested > running
      BY <3>1 DEF RowFinish, FinishAllowed, RowTypeOK
    <3>4. answering' # {} => requested' > completed'
      BY <3>3
    <3> QED
      BY <3>1, <3>2, <3>3, <3>4 DEF RowTypeOK
  <2>7. CASE CancelPass(l)
    BY <2>7 DEF CancelPass, RowRelease, ReleaseAllowed, execColumns,
      NoGeneration, archived
  <2> QED
    BY <1>1, <2>1, <2>2, <2>3, <2>4, <2>5, <2>6, <2>7 DEF LauncherStep, Trouble
<1>2. CASE MigrationStep \/ MigrationDies \/ World \/ UNCHANGED vars
  <2>1. UNCHANGED <<row, at, unanswered, answering>>
    BY <1>2 DEF MigrationStep, MigrationDies, World, vars, MigrationStarts,
      MigrationLooks, MigrationChecks, MigrationMoves, MigrationValidates,
      MigrationRollsBack, MigrationLeaves, Move, OldWorkerWrites,
      OldWorkerRemoves, LockAges, OperatorRemovesLock, launcher, archived
  <2> QED
    BY <2>1 DEF row
<1> QED
  BY <1>1, <1>2 DEF Next

(* A launcher keeps what it inspected from then on, and only adds to what   *)
(* it moved while it stays with the archive.                               *)
LEMMA NextMoved == IInv /\ [Next]_vars => MovedInv'
<1> SUFFICES ASSUME IInv, [Next]_vars PROVE MovedInv'
  OBVIOUS
<1> USE DEF IInv, TypeOK, MovedInv, LockPlaces, Ended
<1>1. ASSUME NEW l \in Launchers, LauncherStep(l) \/ Trouble(l)
      PROVE  MovedInv'
  <2> USE DEF Goto
  <2>1. CASE \/ TakeLock(l) \/ AssertMigrated(l) \/ OpenDatabase(l)
             \/ OpenFails(l) \/ RegisterRequest(l) \/ ReleaseLock(l)
    BY <2>1 DEF TakeLock, AssertMigrated, OpenDatabase, OpenFails,
      RegisterRequest, ReleaseLock, archived
  <2>2. CASE InspectQueue(l)
    BY <2>2 DEF InspectQueue, archived
  <2>3. CASE \/ Proceed(l) \/ Revalidate(l) \/ ArchiveFails(l)
             \/ InspectAgain(l) \/ CancelPass(l) \/ Die(l)
    BY <2>3 DEF Proceed, Revalidate, ArchiveFails, InspectAgain, CancelPass, Die,
      archived
  <2>4. CASE ArchiveFile(l)
    <3> PICK f \in Files :
          /\ MoveOut(l, f)
          /\ \/ queue[f] = inspected[l][f] /\ UNCHANGED at
             \/ \E p \in Ended : at' = [at EXCEPT ![l] = p]
      BY <2>4 DEF ArchiveFile
    <3>1. /\ UNCHANGED inspected
          /\ moved' = [moved EXCEPT ![l] = @ \cup {<<f, queue[f]>>}]
          /\ at[l] = "archive"
      BY <2>4 DEF ArchiveFile, MoveOut
    <3> QED
      BY <3>1
  <2>5. CASE StartPass(l) \/ EndPass(l)
    BY <2>5 DEF StartPass, EndPass
  <2> QED
    BY <1>1, <2>1, <2>2, <2>3, <2>4, <2>5 DEF LauncherStep, Trouble
<1>2. CASE MigrationStep \/ MigrationDies \/ World \/ UNCHANGED vars
  <2>1. UNCHANGED <<at, inspected, moved>>
    BY <1>2 DEF MigrationStep, MigrationDies, World, vars, MigrationStarts,
      MigrationLooks, MigrationChecks, MigrationMoves, MigrationValidates,
      MigrationRollsBack, MigrationLeaves, Move, OldWorkerWrites,
      OldWorkerRemoves, LockAges, OperatorRemovesLock, launcher, archived
  <2> QED
    BY <2>1
<1> QED
  BY <1>1, <1>2 DEF Next

(* The invariant that the theorems below are read off from.                *)
THEOREM IInvHolds == Spec => []IInv
<1>1. IInv /\ [Next]_vars => IInv'
  BY NextTypeOK, NextTree, NextOwner, NextMoved DEF IInv
<1> QED
  BY InitIInv, <1>1, PTL DEF Spec

(* The row, the places and the files stay within their types.              *)
THEOREM TypeCorrect == Spec => []TypeOK
<1>1. IInv => TypeOK
  BY DEF IInv
<1> QED
  BY IInvHolds, <1>1, PTL

(* While a migration may still take the tree back, nobody has opened it.   *)
THEOREM NotOpenedWhileMovingHolds == Spec => []NotOpenedWhileMoving
<1>1. IInv => NotOpenedWhileMoving
  BY DEF IInv, TreeInv
<1> QED
  BY IInvHolds, <1>1, PTL

(* An archived order has a request in the row until a pass answers it.     *)
THEOREM ResidueIsAnsweredHolds == Spec => []ResidueIsAnswered
<1>1. IInv => ResidueIsAnswered
  BY DEF IInv, OwnerInv
<1> QED
  BY IInvHolds, <1>1, PTL

(* No pass follows the archive of a file nobody had inspected.             *)
THEOREM PassesFollowExactArchiveHolds == Spec => []PassesFollowExactArchive
<1>1. IInv => PassesFollowExactArchive
  BY DEF IInv, MovedInv, PassesFollowExactArchive
<1> QED
  BY IInvHolds, <1>1, PTL

(* No step creates a second tree.                                          *)
THEOREM NeverSplitHolds == Spec => NeverSplit
<1>1. IInv /\ [Next]_vars => [source' /\ target' => source /\ target]_vars
  <2> SUFFICES ASSUME IInv, [Next]_vars, source', target' PROVE source /\ target
    OBVIOUS
  <2> USE DEF IInv, TypeOK, TreeInv, OpenPlaces
  <2>1. ASSUME NEW l \in Launchers, LauncherStep(l) \/ Trouble(l)
        PROVE  source /\ target
    BY <2>1 DEF LauncherStep, Trouble, tree, TakeLock, AssertMigrated,
      InspectQueue, OpenDatabase, OpenFails, RegisterRequest, ReleaseLock,
      Proceed, Revalidate, ArchiveFile, MoveOut, ArchiveFails, InspectAgain,
      StartPass, EndPass, CancelPass, Die
  <2>2. CASE MigrationStep \/ MigrationDies
    BY <2>2 DEF MigrationStep, MigrationDies, MigrationStarts, MigrationLooks,
      MigrationChecks, MigrationMoves, MigrationValidates, MigrationRollsBack,
      MigrationLeaves, tree
  <2>3. CASE World \/ UNCHANGED vars
    BY <2>3 DEF World, OldWorkerWrites, OldWorkerRemoves, LockAges,
      OperatorRemovesLock, tree, vars
  <2> QED
    BY <2>1, <2>2, <2>3 DEF Next
<1> QED
  BY IInvHolds, <1>1, PTL DEF Spec, NeverSplit

-----------------------------------------------------------------------------
(* That a launcher ends, but for fairness.                                 *)

(* How far each place is from the end.                                     *)
Stage ==
  [start |-> 11, locked |-> 10, inspect |-> 9, open |-> 8, register |-> 7,
   registered |-> 6, unlocked |-> 5, clean |-> 4, archive |-> 3, pass |-> 2,
   passing |-> 1, done |-> 0, refused |-> 0, failed |-> 0, dead |-> 0]

(* The next pass of a launcher is for a request that came during its last. *)
NextPass(l) ==
  /\ at[l] = "passing" /\ at'[l] = "pass"
  /\ running < running' /\ running' = requested

(* Whoever locks, migrates, writes to the queue or dies meanwhile, a       *)
(* launcher comes nearer to its end with everything it does: it never      *)
(* returns to a check it has passed, nor to a file that it has archived,   *)
(* and passes again only for requests newer than its last pass.            *)
LaunchersOnlyGoOn ==
  [][\A l \in Launchers :
       /\ at'[l] # at[l] => Stage[at'[l]] < Stage[at[l]] \/ NextPass(l)
       /\ at[l] = "archive" => todo'[l] \subseteq todo[l]]_vars

(* What a launcher does to itself; the others' places and lists stay.      *)
LEMMA LauncherGoesOn ==
  ASSUME IInv, NEW l \in Launchers, LauncherStep(l) \/ Trouble(l)
  PROVE  /\ at'[l] # at[l] => Stage[at'[l]] < Stage[at[l]] \/ NextPass(l)
         /\ at[l] = "archive" => todo'[l] \subseteq todo[l]
         /\ \A k \in Launchers \ {l} : at'[k] = at[k] /\ todo'[k] = todo[k]
<1>1. /\ at \in [Launchers -> Places] /\ todo \in [Launchers -> SUBSET Files]
      /\ running \in Nat /\ requested \in Nat
  BY DEF IInv, TypeOK, RowTypeOK, NoGeneration
<1> USE <1>1 DEF Stage, Goto
<1>2. CASE TakeLock(l) \/ AssertMigrated(l) \/ InspectQueue(l) \/ OpenDatabase(l)
  BY <1>2 DEF TakeLock, AssertMigrated, InspectQueue, OpenDatabase
<1>3. CASE OpenFails(l) \/ RegisterRequest(l) \/ ReleaseLock(l) \/ Proceed(l)
  BY <1>3 DEF OpenFails, RegisterRequest, ReleaseLock, Proceed
<1>4. CASE Revalidate(l) \/ ArchiveFails(l) \/ InspectAgain(l)
  BY <1>4 DEF Revalidate, ArchiveFails, InspectAgain
<1>5. CASE ArchiveFile(l)
  BY <1>5 DEF ArchiveFile, MoveOut
<1>6. CASE StartPass(l) \/ CancelPass(l)
  BY <1>6 DEF StartPass, CancelPass
<1>7. CASE EndPass(l)
  <2>1. owner' = l => running' = requested /\ running < running'
    BY <1>7, NoneIsNoToken DEF EndPass, RowFinish
  <2> QED
    BY <1>7, <2>1 DEF EndPass, NextPass
<1>8. CASE Die(l)
  BY <1>8 DEF Die, Alive, Ended, Places, LockPlaces, OpenPlaces, OwnerPlaces
<1> QED
  BY <1>2, <1>3, <1>4, <1>5, <1>6, <1>7, <1>8 DEF LauncherStep, Trouble

(* A launcher takes a bounded number of steps for each request it answers. *)
THEOREM LaunchersOnlyGoOnHolds == Spec => LaunchersOnlyGoOn
<1> DEFINE GoOn ==
      \A l \in Launchers :
        /\ at'[l] # at[l] => Stage[at'[l]] < Stage[at[l]] \/ NextPass(l)
        /\ at[l] = "archive" => todo'[l] \subseteq todo[l]
<1>1. IInv /\ [Next]_vars => [GoOn]_vars
  <2> SUFFICES ASSUME IInv, Next PROVE GoOn
    OBVIOUS
  <2>1. CASE \E l \in Launchers : LauncherStep(l) \/ Trouble(l)
    BY <2>1, LauncherGoesOn
  <2>2. CASE UNCHANGED launcher
    BY <2>2 DEF launcher
  <2> QED
    BY <2>1, <2>2 DEF Next, MigrationStep, MigrationStarts, MigrationLooks,
      MigrationChecks, MigrationMoves, MigrationValidates, MigrationRollsBack,
      MigrationLeaves, Move, MigrationDies, World, OldWorkerWrites,
      OldWorkerRemoves, LockAges, OperatorRemovesLock
<1> QED
  BY <1>1, IInvHolds, PTL DEF Spec, LaunchersOnlyGoOn

(* Whoever archives queue files or passes is the only one to do so.        *)
OwnersAreAlone ==
  \A k, l \in Launchers :
    at[k] \in OwnerPlaces /\ at[l] \in OwnerPlaces => k = l

(* From the check of the database to the end of a rollback nobody owns it  *)
(* and no request is open: the database that is moved, or taken back, is   *)
(* the one that was checked, although the check and the move are two steps *)
(* and launchers may start, die and lose their lock between them.          *)
MovedAtRest == migration \in {"move"} \cup Moving => Idle

(* Only launchers that have opened the database write to it, and none has  *)
(* while the tree is checked, moved or taken back.                         *)
LEMMA RowRestsWhileMoving ==
  ASSUME IInv, Next, migration \in {"check", "move"} \cup Moving
  PROVE  UNCHANGED row
<1>1. \A l \in Launchers : at[l] \notin OpenPlaces
  BY DEF IInv, TreeInv, NotOpenedWhileMoving
<1>2. ASSUME NEW l \in Launchers, LauncherStep(l) \/ Trouble(l) PROVE UNCHANGED row
  <2>1. at[l] \notin {"register", "registered", "unlocked", "clean", "archive",
                     "pass", "passing"}
    BY <1>1 DEF OpenPlaces, OwnerPlaces
  <2> QED
    BY <1>2, <2>1 DEF LauncherStep, Trouble, TakeLock, AssertMigrated, InspectQueue,
      OpenDatabase, RegisterRequest, ReleaseLock, Proceed, Revalidate, ArchiveFile,
      ArchiveFails, InspectAgain, StartPass, EndPass, OpenFails, CancelPass, Die
<1>3. CASE MigrationStep \/ MigrationDies
  BY <1>3 DEF MigrationStep, MigrationStarts, MigrationLooks, MigrationChecks,
    MigrationMoves, MigrationValidates, MigrationRollsBack, MigrationLeaves,
    MigrationDies, Move
<1>4. CASE World
  BY <1>4 DEF World, OldWorkerWrites, OldWorkerRemoves, LockAges, OperatorRemovesLock
<1> QED
  BY <1>2, <1>3, <1>4 DEF Next

(* The order in which the migration takes its steps.                       *)
LEMMA MigrationOrder ==
  ASSUME Next, migration' \in {"move"} \cup Moving
  PROVE  \/ migration = "check" /\ Idle
         \/ migration \in {"move"} \cup Moving
<1>1. CASE MigrationStep \/ MigrationDies
  BY <1>1 DEF MigrationStep, MigrationStarts, MigrationLooks, MigrationChecks,
    MigrationMoves, MigrationValidates, MigrationRollsBack, MigrationLeaves,
    MigrationDies, Move, Moving
<1>2. CASE World
  BY <1>2 DEF World, OldWorkerWrites, OldWorkerRemoves, LockAges, OperatorRemovesLock
<1>3. ASSUME NEW l \in Launchers, LauncherStep(l) \/ Trouble(l)
      PROVE  migration' = migration
  BY <1>3 DEF LauncherStep, Trouble, TakeLock, AssertMigrated, InspectQueue,
    OpenDatabase, RegisterRequest, ReleaseLock, Proceed, Revalidate, ArchiveFile, MoveOut,
    ArchiveFails, InspectAgain, StartPass, EndPass, OpenFails, CancelPass, Die
<1> QED
  BY <1>1, <1>2, <1>3 DEF Next

(* The database is at rest for as long as the migration relies on it.      *)
THEOREM MovedAtRestHolds == Spec => []MovedAtRest
<1>1. Init => MovedAtRest
  BY DEF Init, MovedAtRest, Moving
<1>2. IInv /\ MovedAtRest /\ [Next]_vars => MovedAtRest'
  <2> SUFFICES ASSUME IInv, MovedAtRest, [Next]_vars PROVE MovedAtRest'
    OBVIOUS
  <2>1. CASE UNCHANGED vars
    BY <2>1 DEF MovedAtRest, Idle, vars, row
  <2>2. ASSUME Next, migration' \in {"move"} \cup Moving PROVE Idle'
    <3>1. Idle /\ migration \in {"check", "move"} \cup Moving
      BY <2>2, MigrationOrder DEF MovedAtRest
    <3>2. UNCHANGED row
      BY <2>2, <3>1, RowRestsWhileMoving
    <3> QED
      BY <3>1, <3>2 DEF Idle, row
  <2> QED
    BY <2>1, <2>2 DEF MovedAtRest
<1> QED
  BY <1>1, <1>2, IInvHolds, PTL DEF Spec

(* Archiving and passing are exclusive.                                    *)
THEOREM OwnersAreAloneHolds == Spec => []OwnersAreAlone
<1>1. IInv => OwnersAreAlone
  BY DEF IInv, OwnerInv, OwnersAreAlone
<1> QED
  BY <1>1, IInvHolds, PTL
=============================================================================
