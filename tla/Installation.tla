---------------------------- MODULE Installation ----------------------------
(***************************************************************************)
(* Installers of the standalone program that run beside one another and    *)
(* die at any step.  Each process installs once: it takes the SQLite lock, *)
(* records itself as its owner, removes the staging directories of dead    *)
(* installers, builds a release in a staging directory of its own, renames *)
(* it to the name its contents give, and switches the current link.  The   *)
(* steps are the awaits of standalone-installer.ts and those system calls  *)
(* of install-lock.ts between which a death or another installer matters.  *)
(***************************************************************************)
CONSTANTS Installers,
          Digests,     \* the contents a build may have; they name the release
          None,
          Foreign,     \* a current link that names no release
          Faults

ASSUME InstallerNames == None \notin Installers
ASSUME ReleaseNames == None \notin Digests /\ Foreign \notin Digests \cup {None}
ASSUME FaultsAreKinds == Faults \subseteq {"crash", "io", "reuse"}

VARIABLES
  at,            \* where an installer is
  built,         \* the digest of the tree it built
  holder,        \* who has the exclusive SQLite transaction
  record,        \* whom the durable owner record names
  candidates,    \* whose candidate of a record exists
  staging,       \* the staging directory of each installer
  orphans,       \* the installers whose pnpm outlived them
  reused,        \* the dead installers whose PID belongs to a process whose
                 \* start identity cannot be read
  releases, current, public,  \* the store, the current and the public link
  nextLinks      \* whose temporary link exists

process == <<at, built>>
lock    == <<holder, record, candidates>>
world   == <<orphans, reused>>
files   == <<staging, releases, current, public, nextLinks>>
vars    == <<process, lock, world, files>>

Building == {"building", "publish", "rename", "verify", "discard", "activate",
             "inspect", "switch", "confirm", "cleanup"}
Recorded == Building \cup {"collect", "release"}
Places == Recorded \cup {"start", "clean", "archive", "candidate", "link",
                         "unlink", "commit", "refused", "leaving", "gone"}

TypeOK ==
  /\ at \in [Installers -> Places]
  /\ built \in [Installers -> Digests \cup {None}]
  /\ holder \in Installers \cup {None}
  /\ record \in Installers \cup {None}
  /\ candidates \subseteq Installers
  /\ staging \in [Installers -> {"absent", "partial", "built"}]
  /\ orphans \subseteq Installers
  /\ reused \subseteq Installers
  /\ releases \in [Digests -> {"absent", "whole", "damaged"}]
  /\ current \in Digests \cup {None, Foreign}
  /\ public \in {"absent", "managed", "foreign"}
  /\ nextLinks \subseteq Installers

(* What earlier installations and the user may have left: releases the     *)
(* user edited, links the program did not make.                            *)
Init ==
  /\ at = [i \in Installers |-> "start"]
  /\ built = [i \in Installers |-> None]
  /\ holder = None /\ record = None /\ candidates = {}
  /\ staging = [i \in Installers |-> "absent"]
  /\ orphans = {} /\ reused = {}
  /\ releases \in [Digests -> {"absent", "whole", "damaged"}]
  /\ current \in {d \in Digests : releases[d] # "absent"} \cup {None, Foreign}
  /\ public \in {"absent", "managed", "foreign"}
  /\ nextLinks = {}

Alive(i) == at[i] # "gone"
Goto(i, place) == at' = [at EXCEPT ![i] = place]

-----------------------------------------------------------------------------
(* acquireInstallLock.                                                     *)

(* Mutant: a transaction that is not exclusive takes no lock.              *)
BeginDeferred(i) ==
  /\ at[i] = "start"
  /\ holder' = i
  /\ Goto(i, "clean")
  /\ UNCHANGED <<built, record, candidates, world, files>>

(* BEGIN EXCLUSIVE does not wait for the transaction of another process.   *)
Begin(i) ==
  /\ at[i] = "start"
  /\ \/ /\ holder = None
        /\ holder' = i
        /\ Goto(i, "clean")
     \/ /\ holder # None
        /\ Goto(i, "refused")
        /\ UNCHANGED holder
  /\ UNCHANGED <<built, record, candidates, world, files>>

RemoveCandidates(i) ==
  /\ at[i] = "clean"
  /\ candidates' = {}
  /\ Goto(i, "archive")
  /\ UNCHANGED <<built, holder, record, world, files>>

(* The PID lives and its start identity is the recorded one or unreadable. *)
OwnerIsLive(i) == Alive(i) \/ i \in reused

RecordExists == record # None  \* mutant: the record is the lock

RecordIsLive == record # None /\ OwnerIsLive(record)

(* Mutant: waits for a live owner to go.                                   *)
ArchiveWhenGone(i) ==
  /\ at[i] = "archive" /\ ~RecordIsLive
  /\ record' = None
  /\ Goto(i, "candidate")
  /\ UNCHANGED <<built, holder, candidates, world, files>>

(* The record of a dead installer is renamed away; a live one keeps its    *)
(* record, and the transaction is rolled back.                             *)
ArchiveRecord(i) ==
  /\ at[i] = "archive"
  /\ \/ /\ RecordIsLive
        /\ holder' = None
        /\ Goto(i, "refused")
        /\ UNCHANGED record
     \/ /\ ~RecordIsLive
        /\ record' = None
        /\ Goto(i, "candidate")
        /\ UNCHANGED holder
  /\ UNCHANGED <<built, candidates, world, files>>

WriteCandidate(i) ==
  /\ at[i] = "candidate"
  /\ candidates' = candidates \cup {i}
  /\ Goto(i, "link")
  /\ UNCHANGED <<built, holder, record, world, files>>

(* link(2) never replaces a record.                                        *)
LinkRecord(i) ==
  /\ at[i] = "link" /\ record = None
  /\ record' = i
  /\ Goto(i, "unlink")
  /\ UNCHANGED <<built, holder, candidates, world, files>>

UnlinkCandidate(i) ==
  /\ at[i] = "unlink"
  /\ candidates' = candidates \ {i}
  /\ Goto(i, "collect")
  /\ UNCHANGED <<built, holder, record, world, files>>

(* A call of the acquisition fails: the transaction is rolled back, but a  *)
(* record that was linked stays, and a candidate may.  If it is the start  *)
(* identity that cannot be read, after BEGIN, nothing is rolled back: the  *)
(* transaction lasts as long as the process.                               *)
AcquireFails(i) ==
  /\ "io" \in Faults
  /\ at[i] \in {"start", "clean", "archive", "candidate", "link", "unlink"}
  /\ \/ holder' = IF holder = i THEN None ELSE holder
     \/ at[i] = "clean" /\ UNCHANGED holder
  /\ \/ UNCHANGED candidates
     \/ at[i] = "candidate" /\ candidates' = candidates \cup {i}
     \/ at[i] = "link" /\ candidates' = candidates \ {i}
  /\ Goto(i, "leaving")
  /\ UNCHANGED <<built, record, world, files>>

-----------------------------------------------------------------------------
(* installStandalone under the lock.                                       *)

(* Mutant: leftovers are collected before the lock is held.                *)
RemoveStagingUnlocked(i, j) ==
  /\ at[i] \in {"start", "collect"} /\ staging[j] # "absent"
  /\ staging' = [staging EXCEPT ![j] = "absent"]
  /\ UNCHANGED <<process, lock, world, releases, current, public, nextLinks>>

RemoveStaleStaging(i, j) ==
  /\ at[i] = "collect" /\ staging[j] # "absent"
  /\ staging' = [staging EXCEPT ![j] = "absent"]
  /\ UNCHANGED <<process, lock, world, releases, current, public, nextLinks>>

(* All that was listed is removed; a pnpm without a parent may have added   *)
(* its directory again.                                                    *)
StartBuild(i) ==
  /\ at[i] = "collect"
  /\ \A j \in Installers \ orphans : staging[j] = "absent"
  /\ staging' = [staging EXCEPT ![i] = "partial"]
  /\ Goto(i, "building")
  /\ UNCHANGED <<built, lock, world, releases, current, public, nextLinks>>

(* pnpm deploys, its metadata is removed, the tree is validated, digested. *)
FinishBuild(i) ==
  /\ at[i] = "building" /\ staging[i] = "partial"
  /\ staging' = [staging EXCEPT ![i] = "built"]
  /\ \E d \in Digests : built' = [built EXCEPT ![i] = d]
  /\ Goto(i, "publish")
  /\ UNCHANGED <<lock, world, releases, current, public, nextLinks>>

LookForRelease(i) ==
  /\ at[i] = "publish"
  /\ Goto(i, IF releases[built[i]] = "absent" THEN "rename" ELSE "verify")
  /\ UNCHANGED <<built, lock, world, files>>

RenameStaging(i) ==
  /\ at[i] = "rename" /\ releases[built[i]] = "absent" /\ staging[i] # "absent"
  /\ releases' = [releases EXCEPT
                    ![built[i]] = IF staging[i] = "built" THEN "whole" ELSE "damaged"]
  /\ staging' = [staging EXCEPT ![i] = "absent"]
  /\ Goto(i, "activate")
  /\ UNCHANGED <<built, lock, world, current, public, nextLinks>>

(* Mutant: the name of a release is trusted.                               *)
TrustRelease(i) ==
  /\ at[i] = "verify"
  /\ Goto(i, "discard")
  /\ UNCHANGED <<built, lock, world, files>>

VerifyRelease(i) ==
  /\ at[i] = "verify"
  /\ Goto(i, IF releases[built[i]] = "whole" THEN "discard" ELSE "cleanup")
  /\ UNCHANGED <<built, lock, world, files>>

DiscardStaging(i) ==
  /\ at[i] = "discard"
  /\ staging' = [staging EXCEPT ![i] = "absent"]
  /\ Goto(i, "activate")
  /\ UNCHANGED <<built, lock, world, releases, current, public, nextLinks>>

(* A public path that is neither absent nor the managed link is kept.      *)
EnsurePublic(i) ==
  /\ at[i] = "activate"
  /\ public' = IF public = "absent" THEN "managed" ELSE public
  /\ Goto(i, IF public = "foreign" THEN "cleanup" ELSE "inspect")
  /\ UNCHANGED <<built, lock, world, staging, releases, current, nextLinks>>

InspectCurrent(i) ==
  /\ at[i] = "inspect"
  /\ \/ /\ current = Foreign
        /\ Goto(i, "cleanup")
        /\ UNCHANGED nextLinks
     \/ /\ current # Foreign
        /\ nextLinks' = nextLinks \cup {i}
        /\ Goto(i, "switch")
  /\ UNCHANGED <<built, lock, world, staging, releases, current, public>>

SwitchCurrent(i) ==
  /\ at[i] = "switch"
  /\ current' = built[i]
  /\ nextLinks' = nextLinks \ {i}
  /\ Goto(i, "confirm")
  /\ UNCHANGED <<built, lock, world, staging, releases, public>>

ConfirmActive(i) ==
  /\ at[i] = "confirm"
  /\ Goto(i, IF public = "managed" /\ current = built[i]
             THEN "release" ELSE "cleanup")
  /\ UNCHANGED <<built, lock, world, files>>

(* Any call fails, and the build does when its tree is not valid.  The     *)
(* temporary link is removed on the way.                                   *)
OperationFails(i) ==
  /\ \/ at[i] = "building"
     \/ "io" \in Faults /\ at[i] \in (Building \ {"cleanup"}) \cup {"collect"}
  /\ nextLinks' = nextLinks \ {i}
  /\ Goto(i, "cleanup")
  /\ UNCHANGED <<built, lock, world, staging, releases, current, public>>

(* A directory that cannot be removed is reported and left.                *)
Cleanup(i) ==
  /\ at[i] = "cleanup"
  /\ \/ staging' = [staging EXCEPT ![i] = "absent"]
     \/ "io" \in Faults /\ UNCHANGED staging
  /\ Goto(i, "release")
  /\ UNCHANGED <<built, lock, world, releases, current, public, nextLinks>>

-----------------------------------------------------------------------------
(* releaseInstallLock, the end of the process, and its death.              *)

UnlinkRecord(i) ==
  /\ at[i] = "release" /\ record = i
  /\ record' = None
  /\ Goto(i, "commit")
  /\ UNCHANGED <<built, holder, candidates, world, files>>

(* The record is not readable or not ours: the transaction stays open      *)
(* until the process exits.                                                *)
ReleaseFails(i) ==
  /\ at[i] = "release" /\ ("io" \in Faults \/ record # i)
  /\ Goto(i, "leaving")
  /\ UNCHANGED <<built, lock, world, files>>

(* A COMMIT that fails is followed by a close, which ends it too.          *)
EndTransaction(i) ==
  /\ at[i] = "commit"
  /\ holder' = IF holder = i THEN None ELSE holder
  /\ Goto(i, "leaving")
  /\ UNCHANGED <<built, record, candidates, world, files>>

(* What a process held is gone with it; its PID is free.                   *)
Leave(i) ==
  /\ holder' = IF holder = i THEN None ELSE holder
  /\ built' = [built EXCEPT ![i] = None]
  /\ Goto(i, "gone")

Exit(i) ==
  /\ at[i] \in {"refused", "leaving"}
  /\ Leave(i)
  /\ UNCHANGED <<record, candidates, world, files>>

(* The kernel ends the transaction; a pnpm that is running goes on.        *)
Crash(i) ==
  /\ "crash" \in Faults /\ Alive(i)
  /\ Leave(i)
  /\ \/ at[i] = "building" /\ orphans' = orphans \cup {i}
     \/ UNCHANGED orphans
  /\ UNCHANGED <<record, candidates, reused, files>>

OrphanWrites(i) ==
  /\ i \in orphans
  /\ staging' = [staging EXCEPT ![i] = "partial"]
  /\ UNCHANGED <<process, lock, world, releases, current, public, nextLinks>>

OrphanEnds(i) ==
  /\ i \in orphans
  /\ orphans' = orphans \ {i}
  /\ UNCHANGED <<process, lock, reused, files>>

(* It matters while a record names the dead installer.                     *)
ReusePid(i) ==
  /\ "reuse" \in Faults /\ ~Alive(i) /\ record = i /\ i \notin reused
  /\ reused' = reused \cup {i}
  /\ UNCHANGED <<process, lock, orphans, files>>

-----------------------------------------------------------------------------
LockStep(i) ==
  \/ Begin(i) \/ RemoveCandidates(i) \/ ArchiveRecord(i) \/ WriteCandidate(i)
  \/ LinkRecord(i) \/ UnlinkCandidate(i)
  \/ UnlinkRecord(i) \/ EndTransaction(i) \/ Exit(i)

InstallStep(i) ==
  \/ \E j \in Installers : RemoveStaleStaging(i, j)
  \/ StartBuild(i) \/ FinishBuild(i) \/ LookForRelease(i) \/ RenameStaging(i)
  \/ VerifyRelease(i) \/ DiscardStaging(i) \/ EnsurePublic(i)
  \/ InspectCurrent(i) \/ SwitchCurrent(i) \/ ConfirmActive(i) \/ Cleanup(i)

Trouble(i) ==
  \/ AcquireFails(i) \/ OperationFails(i) \/ ReleaseFails(i) \/ Crash(i)
  \/ OrphanWrites(i) \/ OrphanEnds(i) \/ ReusePid(i)

Next == \E i \in Installers : LockStep(i) \/ InstallStep(i) \/ Trouble(i)

Spec == Init /\ [][Next]_vars

(* Every call of an installer returns, and every pnpm ends.                *)
Fairness ==
  \A i \in Installers :
    WF_vars(LockStep(i) \/ InstallStep(i)) /\ WF_vars(OrphanEnds(i))

FairSpec == Spec /\ Fairness

-----------------------------------------------------------------------------
(* From the record to the release the SQLite transaction and the durable   *)
(* record name the same installer, whoever dies or fails, and no candidate *)
(* of a record is left: the release never finds the record of another      *)
(* installer, and no two installers ever change the store.                 *)
RecordedHolder ==
  \A i \in Installers :
    at[i] \in Recorded => holder = i /\ record = i /\ candidates = {}

(* While an installer builds and activates, what it built stays where it   *)
(* is: the installer that collects leftovers never takes the directory of  *)
(* one that is alive, and a pnpm without a parent never writes to one.     *)
BuiltStagingStays ==
  \A i \in Installers :
    at[i] \in {"publish", "rename", "verify", "discard"} => staging[i] = "built"

(* An installer is turned away only while another one lives, or while a    *)
(* process that cannot be told from a dead owner has its PID: a crash      *)
(* leaves nothing that has to be removed by hand.                          *)
RefusedByTheLiving ==
  [][\A i \in Installers :
       at'[i] = "refused" /\ at[i] # "refused" =>
         \E j \in Installers \ {i} : Alive(j) \/ (record = j /\ j \in reused)]_vars

Store == INSTANCE ReleaseStore WITH
  NoRelease <- None,
  whole  <- {d \in Digests : releases[d] = "whole"},
  broken <- {d \in Digests : releases[d] = "damaged"},
  active <- IF current \in Digests THEN current ELSE None

(* Published releases never change or disappear, and the current link only *)
(* ever moves to one that is whole, through every death and failure.       *)
ImplementsReleaseStore == Store!StoreSpec

(* Every installer ends, and what it held is free afterwards.              *)
InstallersEnd == \A i \in Installers : <>[](~Alive(i) /\ holder # i)
=============================================================================
