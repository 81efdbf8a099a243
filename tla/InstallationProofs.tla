------------------------- MODULE InstallationProofs -------------------------
(***************************************************************************)
(* The invariants of Installation for any number of installers and         *)
(* releases, and that it implements ReleaseStore.                          *)
(***************************************************************************)
EXTENDS Installation, Naturals, TLAPS

Locked == Recorded \cup {"clean", "archive", "candidate", "link", "unlink",
                         "commit"}
Named  == {"publish", "rename", "verify", "discard", "activate", "inspect",
           "switch", "confirm"}

(* Who is between BEGIN and the end of the transaction holds it; a holder  *)
(* that is not is about to exit.                                           *)
LockInv ==
  \A i \in Installers :
    /\ at[i] \in Locked => holder = i
    /\ holder = i => at[i] \in Locked \cup {"leaving"}

(* What the record and the candidates may be at each step of the lock.     *)
RecordInv ==
  \A i \in Installers :
    /\ record = i => at[i] \in Recorded \cup {"unlink", "leaving", "gone"}
    /\ at[i] \in {"archive", "candidate"} => candidates = {}
    /\ at[i] \in {"candidate", "link"} => record = None
    /\ at[i] = "unlink" => record = i
    /\ at[i] \in {"link", "unlink"} => candidates \subseteq {i}

(* What is built has a name, and a release is whole before it is chosen.   *)
ReleaseInv ==
  /\ orphans \cap {i \in Installers : Alive(i)} = {}
  /\ current \in Digests => releases[current] # "absent"
  /\ \A i \in Installers :
       /\ at[i] \in Named => built[i] \in Digests
       /\ at[i] \in {"discard", "activate", "inspect", "switch"}
            => releases[built[i]] = "whole"

IInv ==
  /\ TypeOK /\ LockInv /\ RecordInv /\ RecordedHolder
  /\ BuiltStagingStays /\ ReleaseInv

USE InstallerNames, ReleaseNames

LEMMA InitIInv == Init => IInv
<1> SUFFICES ASSUME Init PROVE IInv
  OBVIOUS
<1>1. TypeOK
  BY DEF Init, TypeOK, Places, Recorded, Building
<1>2. LockInv /\ RecordInv /\ RecordedHolder /\ BuiltStagingStays
  BY DEF Init, LockInv, RecordInv, RecordedHolder, BuiltStagingStays, Locked,
    Recorded, Building
<1>3. ReleaseInv
  BY DEF Init, ReleaseInv, Named
<1> QED
  BY <1>1, <1>2, <1>3 DEF IInv

(* Type correctness is inductive by itself but for the name of a build.    *)
LEMMA NextTypeOK == IInv /\ [Next]_vars => TypeOK'
<1> SUFFICES ASSUME IInv, [Next]_vars PROVE TypeOK'
  OBVIOUS
<1> USE DEF IInv, TypeOK, Places, Recorded, Building, process, lock, world, files
<1>1. ASSUME NEW i \in Installers, LockStep(i) PROVE TypeOK'
  BY <1>1 DEF LockStep, Begin, RemoveCandidates, ArchiveRecord, WriteCandidate,
    LinkRecord, UnlinkCandidate, UnlinkRecord, EndTransaction, Exit, Leave, Goto
<1>2. ASSUME NEW i \in Installers, InstallStep(i) PROVE TypeOK'
  <2> USE DEF Goto
  <2>1. CASE \/ \E j \in Installers : RemoveStaleStaging(i, j)
             \/ StartBuild(i) \/ FinishBuild(i) \/ LookForRelease(i)
    BY <2>1 DEF RemoveStaleStaging, StartBuild, FinishBuild, LookForRelease
  <2>2. CASE RenameStaging(i) \/ VerifyRelease(i) \/ DiscardStaging(i)
    BY <2>2 DEF RenameStaging, VerifyRelease, DiscardStaging
  <2>3. CASE EnsurePublic(i) \/ InspectCurrent(i) \/ ConfirmActive(i) \/ Cleanup(i)
    BY <2>3 DEF EnsurePublic, InspectCurrent, ConfirmActive, Cleanup
  <2>4. CASE SwitchCurrent(i)
    BY <2>4 DEF SwitchCurrent, ReleaseInv, Named
  <2> QED
    BY <1>2, <2>1, <2>2, <2>3, <2>4 DEF InstallStep
<1>3. ASSUME NEW i \in Installers, Trouble(i) PROVE TypeOK'
  BY <1>3 DEF Trouble, AcquireFails, OperationFails, ReleaseFails, Crash, Leave,
    OrphanWrites, OrphanEnds, ReusePid, Goto
<1>4. CASE UNCHANGED vars
  BY <1>4 DEF vars
<1> QED
  BY <1>1, <1>2, <1>3, <1>4 DEF Next

(* The lock and the record: only one installer is ever past BEGIN.         *)
LEMMA NextLock ==
  IInv /\ [Next]_vars => LockInv' /\ RecordInv' /\ RecordedHolder'
<1> SUFFICES ASSUME IInv, [Next]_vars
             PROVE  LockInv' /\ RecordInv' /\ RecordedHolder'
  OBVIOUS
<1> USE DEF IInv, TypeOK, LockInv, RecordInv, RecordedHolder, Locked, Recorded,
        Building, Places, process, lock
<1>1. ASSUME NEW i \in Installers, LockStep(i)
      PROVE  LockInv' /\ RecordInv' /\ RecordedHolder'
  <2> USE DEF Goto
  <2>1. CASE Begin(i)
    BY <2>1 DEF Begin
  <2>2. CASE RemoveCandidates(i)
    BY <2>2 DEF RemoveCandidates
  <2>3. CASE ArchiveRecord(i)
    BY <2>3 DEF ArchiveRecord
  <2>4. CASE WriteCandidate(i)
    BY <2>4 DEF WriteCandidate
  <2>5. CASE LinkRecord(i)
    BY <2>5 DEF LinkRecord
  <2>6. CASE UnlinkCandidate(i)
    BY <2>6 DEF UnlinkCandidate
  <2>7. CASE UnlinkRecord(i)
    BY <2>7 DEF UnlinkRecord
  <2>8. CASE EndTransaction(i)
    BY <2>8 DEF EndTransaction
  <2>9. CASE Exit(i)
    BY <2>9 DEF Exit, Leave
  <2> QED
    BY <1>1, <2>1, <2>2, <2>3, <2>4, <2>5, <2>6, <2>7, <2>8, <2>9 DEF LockStep
<1>2. ASSUME NEW i \in Installers, InstallStep(i)
      PROVE  LockInv' /\ RecordInv' /\ RecordedHolder'
  <2>1. /\ UNCHANGED <<holder, record, candidates>>
        /\ \E p \in Recorded :
             at[i] \in Recorded /\ at' = [at EXCEPT ![i] = p]
    BY <1>2 DEF InstallStep, RemoveStaleStaging, StartBuild, FinishBuild,
      LookForRelease, RenameStaging, VerifyRelease, DiscardStaging,
      EnsurePublic, InspectCurrent, SwitchCurrent, ConfirmActive, Cleanup, Goto
  <2> QED
    BY <2>1
<1>3. ASSUME NEW i \in Installers, Trouble(i)
      PROVE  LockInv' /\ RecordInv' /\ RecordedHolder'
  <2> USE DEF Goto
  <2>1. CASE AcquireFails(i)
    BY <2>1 DEF AcquireFails
  <2>2. CASE OperationFails(i) \/ ReleaseFails(i)
    BY <2>2 DEF OperationFails, ReleaseFails
  <2>3. CASE Crash(i)
    BY <2>3 DEF Crash, Leave
  <2>4. CASE OrphanWrites(i) \/ OrphanEnds(i) \/ ReusePid(i)
    BY <2>4 DEF OrphanWrites, OrphanEnds, ReusePid
  <2> QED
    BY <1>3, <2>1, <2>2, <2>3, <2>4 DEF Trouble
<1>4. CASE UNCHANGED vars
  BY <1>4 DEF vars
<1> QED
  BY <1>1, <1>2, <1>3, <1>4 DEF Next

(* What an installer built stays, and what it chose is whole.              *)
LEMMA NextFiles == IInv /\ [Next]_vars => BuiltStagingStays' /\ ReleaseInv'
<1> SUFFICES ASSUME IInv, [Next]_vars
             PROVE  BuiltStagingStays' /\ ReleaseInv'
  OBVIOUS
<1> USE DEF IInv, TypeOK, BuiltStagingStays, ReleaseInv, Named, Alive, Places,
        Recorded, Building, process, files
<1>1. ASSUME NEW i \in Installers, LockStep(i)
      PROVE  BuiltStagingStays' /\ ReleaseInv'
  BY <1>1 DEF LockStep, Begin, RemoveCandidates, ArchiveRecord, WriteCandidate,
    LinkRecord, UnlinkCandidate, UnlinkRecord, EndTransaction, Exit, Leave, Goto,
    world
<1>2. ASSUME NEW i \in Installers, InstallStep(i)
      PROVE  BuiltStagingStays' /\ ReleaseInv'
  <2> USE DEF Goto, world
  <2>1. CASE \E j \in Installers : RemoveStaleStaging(i, j)
    BY <2>1 DEF RemoveStaleStaging, RecordedHolder
  <2>2. CASE StartBuild(i) \/ FinishBuild(i)
    BY <2>2 DEF StartBuild, FinishBuild
  <2>3. CASE LookForRelease(i) \/ VerifyRelease(i) \/ DiscardStaging(i)
    BY <2>3 DEF LookForRelease, VerifyRelease, DiscardStaging
  <2>4. CASE RenameStaging(i)
    BY <2>4 DEF RenameStaging
  <2>5. CASE EnsurePublic(i) \/ InspectCurrent(i) \/ ConfirmActive(i) \/ Cleanup(i)
    BY <2>5 DEF EnsurePublic, InspectCurrent, ConfirmActive, Cleanup
  <2>6. CASE SwitchCurrent(i)
    BY <2>6 DEF SwitchCurrent
  <2> QED
    BY <1>2, <2>1, <2>2, <2>3, <2>4, <2>5, <2>6 DEF InstallStep
<1>3. ASSUME NEW i \in Installers, Trouble(i)
      PROVE  BuiltStagingStays' /\ ReleaseInv'
  <2> USE DEF Goto, world
  <2>1. CASE AcquireFails(i) \/ OperationFails(i) \/ ReleaseFails(i)
    BY <2>1 DEF AcquireFails, OperationFails, ReleaseFails
  <2>2. CASE Crash(i)
    BY <2>2 DEF Crash, Leave
  <2>3. CASE OrphanWrites(i) \/ OrphanEnds(i) \/ ReusePid(i)
    BY <2>3 DEF OrphanWrites, OrphanEnds, ReusePid
  <2> QED
    BY <1>3, <2>1, <2>2, <2>3 DEF Trouble
<1>4. CASE UNCHANGED vars
  BY <1>4 DEF vars, world
<1> QED
  BY <1>1, <1>2, <1>3, <1>4 DEF Next

(* The inductive invariant: who holds the lock, what the record may name   *)
(* and what was chosen, at every step of every installer.                  *)
THEOREM IInvHolds == Spec => []IInv
<1>1. IInv /\ [Next]_vars => IInv'
  BY NextTypeOK, NextLock, NextFiles DEF IInv
<1> QED
  BY <1>1, InitIInv, PTL DEF Spec

(* Every variable keeps its type.                                          *)
THEOREM TypeCorrect == Spec => []TypeOK
<1>1. IInv => TypeOK
  BY DEF IInv
<1> QED
  BY <1>1, IInvHolds, PTL

(* Only the recorded holder of the lock is ever past the acquisition.      *)
THEOREM RecordedHolderHolds == Spec => []RecordedHolder
<1>1. IInv => RecordedHolder
  BY DEF IInv
<1> QED
  BY <1>1, IInvHolds, PTL

(* Nobody collects the directory in which a living installer built.        *)
THEOREM BuiltStagingStaysHolds == Spec => []BuiltStagingStays
<1>1. IInv => BuiltStagingStays
  BY DEF IInv
<1> QED
  BY <1>1, IInvHolds, PTL

(* A dead installer turns nobody away.                                     *)
THEOREM RefusedByTheLivingHolds == Spec => RefusedByTheLiving
<1> DEFINE Justified ==
      \A i \in Installers :
        at'[i] = "refused" /\ at[i] # "refused" =>
          \E j \in Installers \ {i} : Alive(j) \/ (record = j /\ j \in reused)
<1>1. IInv /\ [Next]_vars => [Justified]_vars
  <2> SUFFICES ASSUME IInv, Next, NEW i \in Installers,
                      at'[i] = "refused", at[i] # "refused"
               PROVE  \E j \in Installers \ {i} :
                        Alive(j) \/ (record = j /\ j \in reused)
    OBVIOUS
  <2> USE DEF IInv, TypeOK, Places, Goto
  <2>1. Begin(i) \/ ArchiveRecord(i)
    <3>1. PICK k \in Installers : LockStep(k) \/ InstallStep(k) \/ Trouble(k)
      BY DEF Next
    <3>2. CASE LockStep(k)
      BY <3>2 DEF LockStep, Begin, RemoveCandidates, ArchiveRecord,
        WriteCandidate, LinkRecord, UnlinkCandidate, UnlinkRecord,
        EndTransaction, Exit, Leave
    <3>3. CASE InstallStep(k)
      BY <3>3 DEF InstallStep, RemoveStaleStaging, StartBuild, FinishBuild,
        LookForRelease, RenameStaging, VerifyRelease, DiscardStaging,
        EnsurePublic, InspectCurrent, SwitchCurrent, ConfirmActive, Cleanup,
        process
    <3>4. CASE Trouble(k)
      BY <3>4 DEF Trouble, AcquireFails, OperationFails, ReleaseFails, Crash,
        Leave, OrphanWrites, OrphanEnds, ReusePid, process
    <3> QED
      BY <3>1, <3>2, <3>3, <3>4
  <2>2. CASE Begin(i)
    <3>1. /\ at[i] = "start"
          /\ holder \in Installers
      BY <2>2 DEF Begin
    <3>2. Alive(holder) /\ holder # i
      BY <3>1 DEF LockInv, Locked, Recorded, Building, Alive
    <3> QED
      BY <3>1, <3>2
  <2>3. CASE ArchiveRecord(i)
    <3>1. at[i] = "archive" /\ RecordIsLive
      BY <2>3 DEF ArchiveRecord
    <3>2. record \in Installers \ {i}
      BY <3>1 DEF RecordInv, RecordIsLive, Recorded, Building
    <3> QED
      BY <3>1, <3>2 DEF RecordIsLive, OwnerIsLive
  <2> QED
    BY <2>1, <2>2, <2>3
<1> QED
  BY <1>1, IInvHolds, PTL DEF Spec, RefusedByTheLiving

(* Every step publishes a release, activates a whole one, or changes       *)
(* nothing that a run of the program can see.                              *)
THEOREM ImplementsReleaseStoreHolds == Spec => ImplementsReleaseStore
<1>1. Init => Store!StoreInit
  BY DEF Init, Store!StoreInit
<1>2. IInv /\ [Next]_vars => [Store!StoreNext]_(Store!store)
  <2> SUFFICES ASSUME IInv, [Next]_vars
               PROVE  [Store!StoreNext]_(Store!store)
    OBVIOUS
  <2> USE DEF IInv, TypeOK
  <2>1. CASE UNCHANGED <<releases, current>>
    BY <2>1 DEF Store!store
  <2>2. ASSUME NEW i \in Installers, RenameStaging(i)
        PROVE  Store!StoreNext
    <3>1. /\ built[i] \in Digests /\ releases[built[i]] = "absent"
          /\ releases' = [releases EXCEPT ![built[i]] = "whole"]
          /\ current' = current
      BY <2>2 DEF RenameStaging, BuiltStagingStays, ReleaseInv, Named
    <3>2. {d \in Digests : releases'[d] = "whole"}
            = {d \in Digests : releases[d] = "whole"} \cup {built[i]}
      BY <3>1
    <3>3. {d \in Digests : releases'[d] = "damaged"}
            = {d \in Digests : releases[d] = "damaged"}
      BY <3>1
    <3> QED
      BY <3>1, <3>2, <3>3 DEF Store!StoreNext, Store!Publish
  <2>3. ASSUME NEW i \in Installers, SwitchCurrent(i)
        PROVE  Store!StoreNext
    <3>1. /\ built[i] \in Digests /\ releases[built[i]] = "whole"
          /\ current' = built[i] /\ releases' = releases
      BY <2>3 DEF SwitchCurrent, ReleaseInv, Named
    <3> QED
      BY <3>1 DEF Store!StoreNext, Store!Activate
  <2>4. \/ UNCHANGED <<releases, current>>
        \/ \E i \in Installers : RenameStaging(i) \/ SwitchCurrent(i)
    BY DEF Next, LockStep, InstallStep, Trouble, vars, files, Begin,
      RemoveCandidates, ArchiveRecord, WriteCandidate, LinkRecord,
      UnlinkCandidate, UnlinkRecord, EndTransaction, Exit, Leave,
      RemoveStaleStaging, StartBuild, FinishBuild, LookForRelease,
      VerifyRelease, DiscardStaging, EnsurePublic, InspectCurrent,
      ConfirmActive, Cleanup, AcquireFails, OperationFails, ReleaseFails,
      Crash, OrphanWrites, OrphanEnds, ReusePid
  <2> QED
    BY <2>1, <2>2, <2>3, <2>4
<1> QED
  BY <1>1, <1>2, IInvHolds, PTL DEF Spec, ImplementsReleaseStore, Store!StoreSpec

-----------------------------------------------------------------------------
(* What InstallersEnd rests on beside fairness: whoever lives can go on,   *)
(* and going on leads to the end.                                          *)

(* How far a place is from the end of the process at most. *)
Distance ==
  [start |-> 19, clean |-> 18, archive |-> 17, candidate |-> 16, link |-> 15,
   unlink |-> 14, collect |-> 13, building |-> 12, publish |-> 11,
   rename |-> 10, verify |-> 10, discard |-> 9, activate |-> 8, inspect |-> 7,
   switch |-> 6, confirm |-> 5, cleanup |-> 4, release |-> 3, commit |-> 2,
   refused |-> 1, leaving |-> 1, gone |-> 0]

(* No failure sends an installer back: every change of place, a death and  *)
(* a failing call included, brings the end nearer.                         *)
InstallersOnlyGoOn ==
  [][\A i \in Installers :
       at'[i] # at[i] => Distance[at'[i]] < Distance[at[i]]]_vars

(* No call of an installer finds what another one left in its way: neither *)
(* a record where it links its own or removes it, nor a release under the  *)
(* name it renames to, nor an absent or foreign tree where it built.       *)
NobodyIsInTheWay ==
  \A i \in Installers :
    /\ at[i] = "link" => record = None
    /\ at[i] = "building" => staging[i] = "partial"
    /\ at[i] = "rename" => releases[built[i]] = "absent" /\ staging[i] = "built"
    /\ at[i] = "release" => record = i

(* The part of it that IInv does not have. *)
WorkIsUndisturbed ==
  \A i \in Installers :
    /\ at[i] = "building" => staging[i] = "partial"
    /\ at[i] = "rename" => releases[built[i]] = "absent"

(* Who works on the store holds the lock, so nobody else does; a pnpm      *)
(* without a parent writes to the directory of the dead.                   *)
LEMMA NextUndisturbed ==
  IInv /\ WorkIsUndisturbed /\ [Next]_vars => WorkIsUndisturbed'
<1> SUFFICES ASSUME IInv, WorkIsUndisturbed, [Next]_vars
             PROVE  WorkIsUndisturbed'
  OBVIOUS
<1> USE DEF IInv, TypeOK, WorkIsUndisturbed, Places, Recorded, Building, process,
        files
<1>1. ASSUME NEW i \in Installers, LockStep(i) PROVE WorkIsUndisturbed'
  BY <1>1 DEF LockStep, Begin, RemoveCandidates, ArchiveRecord, WriteCandidate,
    LinkRecord, UnlinkCandidate, UnlinkRecord, EndTransaction, Exit, Leave, Goto
<1>2. ASSUME NEW i \in Installers, InstallStep(i) PROVE WorkIsUndisturbed'
  <2> USE DEF Goto, RecordedHolder, ReleaseInv, Named
  <2>1. CASE \E j \in Installers : RemoveStaleStaging(i, j)
    BY <2>1 DEF RemoveStaleStaging
  <2>2. CASE StartBuild(i)
    BY <2>2 DEF StartBuild
  <2>3. CASE FinishBuild(i)
    BY <2>3 DEF FinishBuild
  <2>4. CASE LookForRelease(i) \/ VerifyRelease(i) \/ DiscardStaging(i)
    BY <2>4 DEF LookForRelease, VerifyRelease, DiscardStaging
  <2>5. CASE RenameStaging(i)
    BY <2>5 DEF RenameStaging
  <2>6. CASE EnsurePublic(i) \/ InspectCurrent(i) \/ SwitchCurrent(i)
             \/ ConfirmActive(i) \/ Cleanup(i)
    BY <2>6 DEF EnsurePublic, InspectCurrent, SwitchCurrent, ConfirmActive,
      Cleanup
  <2> QED
    BY <1>2, <2>1, <2>2, <2>3, <2>4, <2>5, <2>6 DEF InstallStep
<1>3. ASSUME NEW i \in Installers, Trouble(i) PROVE WorkIsUndisturbed'
  <2> USE DEF Goto
  <2>1. CASE AcquireFails(i) \/ OperationFails(i) \/ ReleaseFails(i)
    BY <2>1 DEF AcquireFails, OperationFails, ReleaseFails
  <2>2. CASE Crash(i)
    BY <2>2 DEF Crash, Leave, Alive
  <2>3. CASE OrphanWrites(i) \/ OrphanEnds(i) \/ ReusePid(i)
    BY <2>3 DEF OrphanWrites, OrphanEnds, ReusePid, ReleaseInv, Alive
  <2> QED
    BY <1>3, <2>1, <2>2, <2>3 DEF Trouble
<1>4. CASE UNCHANGED vars
  BY <1>4 DEF vars
<1> QED
  BY <1>1, <1>2, <1>3, <1>4 DEF Next

(* The guards of an installer's calls hold whenever it reaches them.       *)
THEOREM NobodyIsInTheWayHolds == Spec => []NobodyIsInTheWay
<1>1. Init => WorkIsUndisturbed
  BY DEF Init, WorkIsUndisturbed
<1>2. IInv /\ WorkIsUndisturbed => NobodyIsInTheWay
  BY DEF IInv, WorkIsUndisturbed, NobodyIsInTheWay, RecordInv, RecordedHolder,
    BuiltStagingStays, Recorded, Building
<1> QED
  BY <1>1, <1>2, NextUndisturbed, IInvHolds, PTL DEF Spec

(* An installation changes its place at most 19 times, whatever fails.     *)
THEOREM InstallersOnlyGoOnHolds == Spec => InstallersOnlyGoOn
<1> DEFINE Nearer ==
      \A i \in Installers :
        at'[i] # at[i] => Distance[at'[i]] < Distance[at[i]]
<1>1. TypeOK /\ [Next]_vars => [Nearer]_vars
  <2> SUFFICES ASSUME TypeOK, Next, NEW k \in Installers, at'[k] # at[k]
               PROVE  Distance[at'[k]] < Distance[at[k]]
    OBVIOUS
  <2>1. PICK i \in Installers : LockStep(i) \/ InstallStep(i) \/ Trouble(i)
    BY DEF Next
  <2> USE DEF TypeOK, Goto, Distance, process
  <2>2. CASE LockStep(i)
    BY <2>2 DEF LockStep, Begin, RemoveCandidates, ArchiveRecord, WriteCandidate,
      LinkRecord, UnlinkCandidate, UnlinkRecord, EndTransaction, Exit, Leave
  <2>3. CASE InstallStep(i)
    <3>1. CASE \/ \E j \in Installers : RemoveStaleStaging(i, j)
               \/ StartBuild(i) \/ FinishBuild(i) \/ LookForRelease(i)
               \/ RenameStaging(i)
      BY <3>1 DEF RemoveStaleStaging, StartBuild, FinishBuild, LookForRelease,
        RenameStaging
    <3>2. CASE VerifyRelease(i) \/ DiscardStaging(i) \/ EnsurePublic(i)
      BY <3>2 DEF VerifyRelease, DiscardStaging, EnsurePublic
    <3>3. CASE InspectCurrent(i) \/ SwitchCurrent(i) \/ ConfirmActive(i)
               \/ Cleanup(i)
      BY <3>3 DEF InspectCurrent, SwitchCurrent, ConfirmActive, Cleanup
    <3> QED
      BY <2>3, <3>1, <3>2, <3>3 DEF InstallStep
  <2>4. CASE Trouble(i)
    <3>1. CASE AcquireFails(i) \/ ReleaseFails(i)
      BY <3>1 DEF AcquireFails, ReleaseFails
    <3>2. CASE OperationFails(i)
      BY <3>2 DEF OperationFails, Building
    <3>3. CASE Crash(i)
      BY <3>3 DEF Crash, Leave, Alive, Places, Recorded, Building
    <3>4. CASE OrphanWrites(i) \/ OrphanEnds(i) \/ ReusePid(i)
      BY <3>4 DEF OrphanWrites, OrphanEnds, ReusePid
    <3> QED
      BY <2>4, <3>1, <3>2, <3>3, <3>4 DEF Trouble
  <2> QED
    BY <2>1, <2>2, <2>3, <2>4
<1> QED
  BY <1>1, TypeCorrect, PTL DEF Spec, InstallersOnlyGoOn

(* What a process held is free after it, however it ended.                 *)
THEOREM TheDeadHoldNothing ==
  Spec => [](\A i \in Installers : ~Alive(i) => holder # i)
<1>1. IInv => \A i \in Installers : ~Alive(i) => holder # i
  BY DEF IInv, LockInv, Locked, Recorded, Building, Alive
<1> QED
  BY <1>1, IInvHolds, PTL
=============================================================================
