-------------------------- MODULE GitExecutionProofs --------------------------
(***************************************************************************)
(* What TLAPS proves of the boundary protocol for every set of launchers   *)
(* and executions, every number of passes and every set of faults          *)
(* (GitExecution).  The invariant is Inductive.  Its first part, Knowledge,*)
(* rests on this: only the owner the row names works with boundaries, so   *)
(* that what the owner knows is disturbed by nobody but itself, and a      *)
(* boundary only ever moves towards its death unless its owner delivers    *)
(* START.  Its second part, Records, says what a row still shows of passes *)
(* that are over; the two refinements at the end need it.  Its third part, *)
(* Passes, says that an owner is in step with the row it works on, and that*)
(* each generation is scanned at most once.                                *)
(***************************************************************************)
EXTENDS GitExecutionProperties, ReconcilerRowProofs, FiniteSetTheorems

-----------------------------------------------------------------------------
(* What no step of a controller or of the kernel can do to a boundary:     *)
(* revive it, make it Git-capable without a delivered START, or change the *)
(* result of a boundary that has ended.                                    *)

(* The one-way facts about a boundary that launchers rely on between two   *)
(* of their own steps.                                                     *)
OneWay ==
  \A e \in Executions :
    /\ MayRunGit(e)' => MayRunGit(e)
    /\ ctl'[e] # "unborn" <=> ctl[e] # "unborn"
    /\ Dead(e) => Dead(e)' /\ outcome'[e] = outcome[e]

(* A step that leaves the boundaries alone is one-way. *)
LEMMA StutterIsOneWay ==
  ASSUME UNCHANGED boundary
  PROVE  OneWay /\ (BoundaryTypeOK => BoundaryTypeOK')
         /\ (StrangersFollowDeath => StrangersFollowDeath')
BY DEF boundary, OneWay, BoundaryTypeOK, StrangersFollowDeath, MayRunGit,
  GitCapable, Dead

(* So is every callback of a controller: none revives a group. *)
LEMMA ControllerStepIsOneWay ==
  ASSUME BoundaryTypeOK, StrangersFollowDeath, NEW e \in Executions,
  ControllerStep(e)
  PROVE  OneWay /\ BoundaryTypeOK' /\ StrangersFollowDeath'
<1> USE DEF BoundaryTypeOK, OneWay, StrangersFollowDeath, MayRunGit,
  GitCapable, Dead, LoopTurns, LeaderAlive,
      Terminated
<1>1. CASE HandlePrepare(e)
  BY <1>1 DEF HandlePrepare
<1>2. CASE StartSupervisor(e)
  BY <1>2 DEF StartSupervisor
<1>3. CASE RefuseStart(e) \/ DisconnectInert(e)
  BY <1>3 DEF RefuseStart, DisconnectInert, Leave
<1>4. CASE DisconnectStarted(e)
  BY <1>4 DEF DisconnectStarted
<1>5. CASE HandleSignal(e) \/ ForceKill(e)
  BY <1>5 DEF HandleSignal, ForceKill
<1>6. CASE SupervisorClosed(e)
  BY <1>6 DEF SupervisorClosed
<1>7. CASE Quiesce(e) \/ LoopDrains(e)
  BY <1>7 DEF Quiesce, LoopDrains, Leave
<1> HIDE DEF BoundaryTypeOK, OneWay, StrangersFollowDeath
<1> QED
  BY <1>1, <1>2, <1>3, <1>4, <1>5, <1>6, <1>7 DEF ControllerStep

(* So is every event of the kernel and of the pipeline. *)
LEMMA WorldStepIsOneWay ==
  ASSUME BoundaryTypeOK, StrangersFollowDeath, NEW e \in Executions,
  WorldStep(e)
  PROVE  OneWay /\ BoundaryTypeOK' /\ StrangersFollowDeath'
<1> USE DEF BoundaryTypeOK, OneWay, StrangersFollowDeath, MayRunGit,
  GitCapable, Dead, LoopTurns, LeaderAlive,
      Terminated
<1>1. CASE Fork(e)
  BY <1>1 DEF Fork
<1>2. CASE SupervisorExits(e)
  BY <1>2 DEF SupervisorExits
<1>3. CASE DescendantsExit(e)
  BY <1>3 DEF DescendantsExit
<1>4. CASE KilledLeaderDies(e) \/ KillLeader(e)
  BY <1>4 DEF KilledLeaderDies, KillLeader, Leave
<1>5. CASE SignalLeader(e)
  BY <1>5 DEF SignalLeader
<1>6. CASE ReusePid(e) \/ StrangerExits(e)
  <2>1. /\ UNCHANGED <<ctl, link, phase, sup, desc, outcome>>
        /\ \/ stranger' = [stranger EXCEPT ![e] = FALSE]
           \/ Dead(e) /\ stranger' = [stranger EXCEPT ![e] = TRUE]
    BY <1>6 DEF ReusePid, StrangerExits
  <2>2. OneWay
    BY <2>1
  <2>3. BoundaryTypeOK'
    BY <2>1
  <2>4. StrangersFollowDeath'
    BY <2>1
  <2> QED
    BY <2>2, <2>3, <2>4
<1> HIDE DEF BoundaryTypeOK, OneWay, StrangersFollowDeath
<1> QED
  BY <1>1, <1>2, <1>3, <1>4, <1>5, <1>6 DEF WorldStep

(* A launcher's hang-up and its signals leave that true as well.           *)
LEMMA HangUpIsOneWay ==
  ASSUME BoundaryTypeOK, StrangersFollowDeath, NEW S, HangUp(S)
  PROVE  OneWay /\ BoundaryTypeOK' /\ StrangersFollowDeath'
BY DEF HangUp, BoundaryTypeOK, OneWay, StrangersFollowDeath, MayRunGit,
   GitCapable, Dead

(* So is a group signal. *)
LEMMA SignalIsOneWay ==
  ASSUME BoundaryTypeOK, StrangersFollowDeath, NEW e \in Executions,
         NEW signal \in {"TERM", "KILL"},
         SignalGroup(e, signal) \/ (LeaderAlive(e) /\ KillInert(e))
  PROVE  OneWay /\ BoundaryTypeOK' /\ StrangersFollowDeath'
BY DEF SignalGroup, KillInert, BoundaryTypeOK, OneWay, StrangersFollowDeath,
   MayRunGit, GitCapable, Dead, LeaderAlive, Terminated

-----------------------------------------------------------------------------
(* Launchers.                                                              *)

(* A step of launcher l leaves the locals of every other launcher alone.   *)
SameLocals(k) ==
  /\ at'[k] = at[k] /\ gen'[k] = gen[k] /\ target'[k] = target[k]
  /\ task'[k] = task[k] /\ stage'[k] = stage[k] /\ groupSeen'[k] = groupSeen[k]

LocalTo(l) == \A k \in Launchers \ {l} : SameLocals(k)

DeathIsFinal == \A k \in Launchers : at[k] = "dead" => at'[k] = "dead"

-----------------------------------------------------------------------------
(* Frames.                                                                 *)

(* What a launcher knows survives whatever leaves the row, its locals and  *)
(* the origin of boundaries alone and only moves boundaries forward.       *)
LEMMA KnowledgeSurvives ==
  ASSUME NEW k \in Launchers, OwnerKnows(k), SameLocals(k),
         UNCHANGED <<row, origin>>, OneWay
  PROVE  OwnerKnows(k)'
BY DEF OwnerKnows, SameLocals, OneWay, OwnPass, OwnerPlaces, WithTarget,
   Terminating, row, origin

(* Two launchers never both stand in the owner's code.                     *)
LEMMA OwnerIsAlone ==
  ASSUME Knowledge, NEW k \in Launchers, NEW l \in Launchers,
         at[k] \in OwnerPlaces, at[l] \in OwnerPlaces
  PROVE  k = l
BY DEF Knowledge, OwnerKnows

(* The conjuncts of the invariant about the row and the boundaries.        *)
LEMMA QuietStep ==
  ASSUME Knowledge, UNCHANGED <<row, origin>>, OneWay
  PROVE  CapableIsRecorded' /\ RecordedWasSpawned' /\ CompletionIsEarned'
<1> USE DEF Knowledge, OneWay, row, origin
<1>1. CapableIsRecorded'
  BY DEF CapableIsRecorded
<1>2. RecordedWasSpawned'
  BY DEF RecordedWasSpawned, TypeOK, RowTypeOK
<1>3. CompletionIsEarned'
  BY DEF CompletionIsEarned
<1> QED
  BY <1>1, <1>2, <1>3

(* A sampled death stays true over any step in which nobody is revived
   and no sample is taken. *)
LEMMA SamplesSurvive ==
  ASSUME TypeOK, SampledDeathIsFinal, DeathIsFinal, UNCHANGED <<seenRow,
  seenAlive>>
  PROVE  SampledDeathIsFinal'
BY DEF SampledDeathIsFinal, DeathIsFinal, TypeOK, Views

(* A launcher's step that changes neither row nor origins: it remains to   *)
(* show what this launcher itself knows and has sampled afterwards.        *)
LEMMA QuietLocalStep ==
  ASSUME Knowledge, NEW l \in Launchers, UNCHANGED <<row, origin>>,
         OneWay, StrangersFollowDeath', LocalTo(l), TypeOK', OwnerKnows(l)',
         SampledDeathIsFinal'
  PROVE  Knowledge'
<1>1. \A k \in Launchers : OwnerKnows(k)'
  <2> TAKE k \in Launchers
  <2>1. CASE k = l
    BY <2>1
  <2>2. CASE k # l
    BY <2>2, KnowledgeSurvives DEF Knowledge, LocalTo
  <2> QED
    BY <2>1, <2>2
<1>2. CapableIsRecorded' /\ RecordedWasSpawned' /\ CompletionIsEarned'
  BY QuietStep
<1> QED
  BY <1>1, <1>2 DEF Knowledge

(* A step of an owner that changes neither row nor boundaries keeps the
   invariant if it keeps what the owner knows. *)
LEMMA QuietOwnerStep ==
  ASSUME Knowledge, NEW l \in Launchers, at[l] # "dead",
         UNCHANGED <<row, origin, admission>>,
         OneWay, StrangersFollowDeath', LocalTo(l), TypeOK', OwnerKnows(l)'
  PROVE  Knowledge'
<1>1. DeathIsFinal
  BY DEF LocalTo, SameLocals, DeathIsFinal
<1>2. SampledDeathIsFinal'
  BY <1>1, SamplesSurvive DEF Knowledge, admission
<1> QED
  BY <1>2, QuietLocalStep

-----------------------------------------------------------------------------
(* The steps of an owner that change neither row nor boundaries. *)
LEMMA PlainSteps ==
  ASSUME Knowledge, NEW l \in Launchers,
         \/ AdmissionFails(l) \/ ProbeGroup(l) \/ BoundaryCloses(l)
         \/ NothingToRecover(l) \/ GiveUpAdmitted(l) \/ Provision(l)
         \/ SpawnFails(l) \/ ReceiveReady(l) \/ StartLost(l) \/ DoNotFinish(l)
         \/ Cancel(l) \/ Uncaught(l)
  PROVE  Knowledge'
<1> USE DEF AdmissionFails, ProbeGroup, BoundaryCloses, NothingToRecover,
      GiveUpAdmitted, Provision, SpawnFails, ReceiveReady, StartLost,
      DoNotFinish, Cancel, Uncaught, Goto
<1>1. UNCHANGED <<row, boundary, origin, admission>> /\ at[l] # "dead"
  BY DEF OwnerPlaces, Terminating
<1>2. OneWay /\ StrangersFollowDeath'
  BY <1>1, StutterIsOneWay DEF Knowledge
<1>3. LocalTo(l)
  BY DEF LocalTo, SameLocals, Knowledge, TypeOK
<1>4. TypeOK'
  <2>1. RowTypeOK' /\ BoundaryTypeOK'
    BY <1>1, StutterIsOneWay DEF Knowledge, TypeOK, RowTypeOK, row
  <2>2. at' \in [Launchers -> Places]
    BY DEF Knowledge, TypeOK, Places, OwnerPlaces, Terminating
  <2>3. groupSeen' \in [Launchers -> BOOLEAN] /\ aborted' \in [Launchers -> BOOLEAN]
    <3>1. GroupExists(target[l]) \in BOOLEAN
      BY DEF GroupExists
    <3>2. /\ \/ groupSeen' = groupSeen
             \/ groupSeen' = [groupSeen EXCEPT ![l] = GroupExists(target[l])]
          /\ aborted' = aborted \/ aborted' = [aborted EXCEPT ![l] = TRUE]
      OBVIOUS
    <3> HIDE DEF AdmissionFails, ProbeGroup, BoundaryCloses, NothingToRecover,
          GiveUpAdmitted, Provision, SpawnFails, ReceiveReady, StartLost,
          DoNotFinish, Cancel, Uncaught
    <3> QED
      BY <3>1, <3>2 DEF Knowledge, TypeOK
  <2> QED
    BY <1>1, <2>1, <2>2, <2>3 DEF Knowledge, TypeOK, admission, origin
<1>5. OwnerKnows(l)'
  <2> HIDE DEF AdmissionFails, ProbeGroup, BoundaryCloses, NothingToRecover,
        GiveUpAdmitted, Provision, SpawnFails, ReceiveReady, StartLost,
        DoNotFinish, Cancel, Uncaught
  <2>1. /\ at \in [Launchers -> Places]
        /\ groupSeen \in [Launchers -> BOOLEAN]
        /\ OwnerKnows(l)
    BY DEF Knowledge, TypeOK
  <2>2. CASE ProbeGroup(l)
    <3>1. /\ at[l] = "probe" /\ at'[l] = "identify"
          /\ groupSeen'[l] = GroupExists(target[l])
          /\ UNCHANGED <<gen, target, task>>
      BY <2>1, <2>2 DEF ProbeGroup
    <3>2. /\ owner = l /\ target[l] \in Executions
          /\ ctl[target[l]] # "unborn"
      BY <2>1, <3>1 DEF OwnerKnows, OwnerPlaces, WithTarget, Terminating
    <3>3. ~groupSeen'[l] => Dead(target[l])'
      BY <1>1, <3>1, <3>2 DEF GroupExists, LeaderAlive, GitCapable, Dead,
        boundary
    <3> QED
      BY <1>1, <3>1, <3>2, <3>3 DEF OwnerKnows, OwnPass, row, boundary
  <2>3. CASE BoundaryCloses(l)
    <3>1. /\ at[l] = "closing" /\ at'[l] \in {"clear", "release"}
          /\ at'[l] = "clear" => task[l] # "pass"
          /\ UNCHANGED <<gen, target, task>>
      BY <2>1, <2>3 DEF BoundaryCloses
    <3> QED
      BY <1>1, <2>1, <3>1 DEF OwnerKnows, OwnPass, OwnerPlaces, WithTarget,
        Terminating, Dead, GitCapable, row, boundary
  <2>4. CASE NothingToRecover(l) \/ Provision(l)
    <3>1. /\ at[l] \in {"admitted", "provision"}
          /\ at'[l] \in {"provision", "prepare", "release"}
          /\ at[l] = "admitted" => execToken = None
      BY <2>1, <2>4 DEF NothingToRecover, Provision
    <3> QED
      BY <1>1, <2>1, <3>1 DEF OwnerKnows, OwnPass, OwnerPlaces, WithTarget,
        Terminating, row
  <2>5. CASE ReceiveReady(l)
    <3>1. /\ at[l] = "handshake" /\ at'[l] = "prepared"
          /\ UNCHANGED <<gen, target, task>>
      BY <2>1, <2>5 DEF ReceiveReady
    <3> QED
      BY <1>1, <2>1, <3>1 DEF OwnerKnows, OwnPass, OwnerPlaces, WithTarget,
        Terminating, MayRunGit, GitCapable, row, boundary, origin
  <2>5a. CASE StartLost(l)
    <3>1. /\ at[l] = "authorized" /\ at'[l] = "running"
          /\ UNCHANGED <<gen, target, task>>
      BY <2>1, <2>5a DEF StartLost
    <3> QED
      BY <1>1, <2>1, <3>1 DEF OwnerKnows, OwnPass, OwnerPlaces, WithTarget,
        Terminating, boundary, row, origin
  <2>6. CASE Cancel(l)
    <3>1. UNCHANGED <<at, gen, target, task, stage, groupSeen>>
      BY <2>6 DEF Cancel
    <3> QED
      BY <1>1, <1>2, <2>1, <3>1, KnowledgeSurvives DEF SameLocals
  <2>7. CASE \/ AdmissionFails(l) \/ GiveUpAdmitted(l) \/ SpawnFails(l)
             \/ DoNotFinish(l) \/ Uncaught(l)
    <3>1. /\ at'[l] \in {"release", "returned"}
          /\ at'[l] = "release" => at[l] \in OwnerPlaces
      BY <2>1, <2>7 DEF AdmissionFails, GiveUpAdmitted, SpawnFails,
        DoNotFinish, Uncaught, OwnerPlaces
    <3> QED
      BY <1>1, <2>1, <3>1 DEF OwnerKnows, OwnPass, OwnerPlaces, WithTarget,
        Terminating, row
  <2> QED
    BY <2>2, <2>3, <2>4, <2>5, <2>5a, <2>6, <2>7
<1> QED
  BY <1>1, <1>2, <1>3, <1>4, <1>5, QuietOwnerStep

-----------------------------------------------------------------------------
(* The steps that turn to the termination of the target.                   *)

(* The steps that enter terminateExecutionBoundary. *)
LEMMA StepsIntoTermination ==
  ASSUME Knowledge, NEW l \in Launchers,
         \/ BeginRecovery(l) \/ NotRegistered(l) \/ NotAuthorized(l)
         \/ StartUndeliverable(l) \/ ObserveClose(l) \/ AbortRunning(l)
         \/ GroupRemains(l)
  PROVE  Knowledge'
<1> USE DEF BeginRecovery, NotRegistered, NotAuthorized, StartUndeliverable,
      ObserveClose, AbortRunning, GroupRemains, Goto, Terminate
<1>1. UNCHANGED <<row, boundary, origin, admission>> /\ at[l] # "dead"
  OBVIOUS
<1>2. OneWay /\ StrangersFollowDeath'
  BY <1>1, StutterIsOneWay DEF Knowledge
<1>3. LocalTo(l)
  BY DEF LocalTo, SameLocals, Knowledge, TypeOK
<1>4. TypeOK'
  <2>1. RowTypeOK' /\ BoundaryTypeOK'
    BY <1>1, StutterIsOneWay DEF Knowledge, TypeOK, RowTypeOK, row
  <2>2. at' \in [Launchers -> Places] /\ task' \in [Launchers -> Tasks]
    BY DEF Knowledge, TypeOK, Places, OwnerPlaces, Terminating, Tasks
  <2>3. /\ target' \in [Launchers -> Executions \cup {None}]
        /\ stage' \in [Launchers -> {"initial", "TERM", "KILL"}]
    BY DEF Knowledge, TypeOK, RowTypeOK
  <2> QED
    BY <1>1, <2>1, <2>2, <2>3 DEF Knowledge, TypeOK, admission, origin
<1>5. OwnerKnows(l)'
  <2> USE <1>1 DEF Knowledge, OwnerKnows, OwnPass, row, boundary, origin,
    TypeOK,
        OwnerPlaces, WithTarget, Terminating, Dead, MayRunGit, GitCapable,
        GroupExists, LeaderAlive
  <2>1. CASE BeginRecovery(l)
    BY <2>1 DEF RecordedWasSpawned, RowTypeOK
  <2>2. CASE ObserveClose(l)
    BY <2>2
  <2>3. CASE \/ NotRegistered(l) \/ NotAuthorized(l) \/ StartUndeliverable(l)
             \/ AbortRunning(l) \/ GroupRemains(l)
    BY <2>3
  <2> QED
    BY <2>1, <2>2, <2>3
<1> QED
  BY <1>1, <1>2, <1>3, <1>4, <1>5, QuietOwnerStep

-----------------------------------------------------------------------------
(* The termination of a boundary, and the other steps that signal it or    *)
(* hang up on it.                                                          *)

(* The four ways in which these steps touch a boundary.                    *)
LEMMA TouchIsOneWay ==
  ASSUME Knowledge, NEW e \in Executions, NEW S, NEW signal \in {"TERM",
  "KILL"},
         \/ UNCHANGED boundary \/ HangUp(S) \/ SignalGroup(e, signal)
         \/ LeaderAlive(e) /\ KillInert(e)
  PROVE  OneWay /\ BoundaryTypeOK' /\ StrangersFollowDeath'
BY StutterIsOneWay, HangUpIsOneWay, SignalIsOneWay DEF Knowledge, TypeOK

(* The steps inside it. *)
LEMMA StepsOfTermination ==
  ASSUME Knowledge, NEW l \in Launchers,
         \/ FindDead(l) \/ FindAmbiguous(l) \/ FindExact(l) \/ GroupAbsent(l)
         \/ GraceExpires(l) \/ ClearFails(l) \/ HandshakeFails(l)
  PROVE  Knowledge'
<1> USE DEF FindDead, FindAmbiguous, FindExact, GroupAbsent, GraceExpires,
      ClearFails, HandshakeFails, BoundaryEnded, TerminationThrows, Goto,
      Terminate
<1>1. UNCHANGED <<row, origin, admission, gen, groupSeen, aborted>>
  OBVIOUS
<1>2. at[l] \in {"identify", "await", "clear", "handshake"}
  OBVIOUS
<1>3. target[l] \in Executions /\ ctl[target[l]] # "unborn"
  BY <1>2 DEF Knowledge, OwnerKnows, OwnerPlaces, WithTarget, Terminating
<1>4. OneWay /\ BoundaryTypeOK' /\ StrangersFollowDeath'
  <2>1. \/ UNCHANGED boundary \/ HangUp({target[l]})
        \/ \E signal \in {"TERM", "KILL"} : SignalGroup(target[l], signal)
        \/ LeaderAlive(target[l]) /\ KillInert(target[l])
    BY DEF Knowledge, TypeOK
  <2> QED
    BY <1>3, <2>1, TouchIsOneWay
<1>5. LocalTo(l)
  BY DEF LocalTo, SameLocals, Knowledge, TypeOK
<1>6. TypeOK'
  <2>1. RowTypeOK'
    BY <1>1 DEF Knowledge, TypeOK, RowTypeOK, row
  <2>2. at' \in [Launchers -> Places] /\ task' \in [Launchers -> Tasks]
    BY DEF Knowledge, TypeOK, Places, OwnerPlaces, Terminating, Tasks
  <2>3. /\ target' \in [Launchers -> Executions \cup {None}]
        /\ stage' \in [Launchers -> {"initial", "TERM", "KILL"}]
    BY DEF Knowledge, TypeOK
  <2> QED
    BY <1>1, <1>4, <2>1, <2>2, <2>3 DEF Knowledge, TypeOK, admission, origin
<1>7. OwnerKnows(l)'
  <2>1. owner' = l
    BY <1>1, <1>2 DEF Knowledge, OwnerKnows, OwnerPlaces, Terminating, row
  <2>2. target'[l] = target[l] /\ ctl'[target[l]] # "unborn"
    BY <1>3, <1>4 DEF Knowledge, TypeOK, OneWay
  <2>3. at'[l] \in {"probe", "await", "release"} \/ at'[l] \in {"clear", "closing"}
    BY DEF Knowledge, TypeOK
  <2>4. CASE at'[l] \in {"probe", "await", "release"}
    BY <1>3, <2>1, <2>2, <2>4 DEF OwnerKnows, OwnPass, WithTarget
  <2>5. CASE at'[l] \in {"clear", "closing"}
    <3>1. Dead(target[l])
      BY <1>3, <2>5 DEF Knowledge, OwnerKnows, OwnerPlaces, Terminating,
        TypeOK, GroupExists,
         LeaderAlive, GitCapable, Dead
    <3>2. at'[l] = "clear" => task'[l] # "pass"
      BY <2>5 DEF Knowledge, TypeOK
    <3> QED
      BY <1>3, <1>4, <2>1, <2>2, <2>5, <3>1, <3>2 DEF OwnerKnows, OwnPass,
        WithTarget, OneWay
  <2> QED
    BY <2>3, <2>4, <2>5
<1> QED
  BY <1>1, <1>2, <1>4, <1>5, <1>6, <1>7, QuietOwnerStep

(* The steps that leave it with the boundary proven dead. *)
LEMMA StepsOfDeath ==
  ASSUME Knowledge, NEW l \in Launchers, ProcessExits(l) \/ Crash(l)
  PROVE  Knowledge'
<1> USE DEF ProcessExits, Crash, Goto
<1>1. /\ UNCHANGED <<row, origin, admission, gen, target, task, stage, groupSeen, aborted>>
      /\ at[l] # "dead" /\ HangUp(Children(l))
  OBVIOUS
<1>2. OneWay /\ BoundaryTypeOK' /\ StrangersFollowDeath'
  BY <1>1, HangUpIsOneWay DEF Knowledge, TypeOK
<1>3. LocalTo(l)
  BY DEF LocalTo, SameLocals, Knowledge, TypeOK
<1>4. TypeOK'
  <2>1. RowTypeOK'
    BY <1>1 DEF Knowledge, TypeOK, RowTypeOK, row
  <2>2. at' \in [Launchers -> Places]
    BY DEF Knowledge, TypeOK, Places
  <2> QED
    BY <1>1, <1>2, <2>1, <2>2 DEF Knowledge, TypeOK, admission, origin
<1>5. OwnerKnows(l)'
  BY DEF OwnerKnows, OwnerPlaces, Terminating, Knowledge, TypeOK
<1> QED
  BY <1>1, <1>2, <1>3, <1>4, <1>5, QuietOwnerStep

-----------------------------------------------------------------------------
(* The owner's transactions and its deliveries.                            *)

(* Nobody else stands in the owner's code, so a step of the owner need not *)
(* care for what other launchers know.                                     *)
LEMMA OwnerStep ==
  ASSUME Knowledge, NEW l \in Launchers, at[l] \in OwnerPlaces,
         UNCHANGED admission, LocalTo(l), TypeOK', OwnerKnows(l)',
         CapableIsRecorded', RecordedWasSpawned', StrangersFollowDeath',
         CompletionIsEarned'
  PROVE  Knowledge'
<1>1. \A k \in Launchers : OwnerKnows(k)'
  <2> TAKE k \in Launchers
  <2>1. CASE k = l
    BY <2>1
  <2>2. CASE k # l
    BY <2>2, OwnerIsAlone DEF LocalTo, SameLocals, OwnerKnows, OwnerPlaces,
      Terminating
  <2> QED
    BY <2>1, <2>2
<1>2. SampledDeathIsFinal'
  BY DEF Knowledge, SampledDeathIsFinal, LocalTo, SameLocals, admission,
    TypeOK,
     Views, OwnerPlaces, Terminating
<1> QED
  BY <1>1, <1>2 DEF Knowledge

(* The fenced transactions are those of the row, with arguments of the     *)
(* right types.                                                            *)
LEMMA OwnersTransact ==
  ASSUME Knowledge, NEW l \in Launchers,
         \/ Clear(l) \/ Register(l) \/ Authorize(l) \/ Finish(l) \/ Release(l)
         \/ ProvisioningFails(l)
  PROVE  OwnerTransaction(l) \/ UNCHANGED row
<1>1. gen[l] \in Nat
  BY DEF Knowledge, TypeOK
<1>2. CASE Clear(l) \/ Register(l) \/ Authorize(l)
  <2>1. target[l] \in Executions
    BY <1>2 DEF Clear, Register, Authorize, Knowledge, OwnerKnows, OwnerPlaces,
      WithTarget
  <2> QED
    BY <1>1, <1>2, <2>1 DEF Clear, Register, Authorize, OwnerTransaction
<1>3. CASE Finish(l)
  <2>1. (outcome[target[l]] = "success") \in BOOLEAN
    OBVIOUS
  <2> QED
    BY <1>1, <1>3, <2>1 DEF Finish, OwnerTransaction
<1>4. CASE Release(l)
  BY <1>4 DEF Release, OwnerTransaction
<1>5. CASE ProvisioningFails(l)
  BY <1>1, <1>5 DEF ProvisioningFails, OwnerTransaction
<1> QED
  BY <1>2, <1>3, <1>4, <1>5

(* The transactions and messages of an owner, one case per action. *)
LEMMA OwnerTransactions ==
  ASSUME Knowledge, NEW l \in Launchers,
         \/ Clear(l) \/ Register(l) \/ Authorize(l) \/ Finish(l) \/ Release(l)
         \/ ProvisioningFails(l)
  PROVE  Knowledge'
<1> USE DEF Clear, Register, Authorize, Finish, Release, Goto
<1>1. UNCHANGED <<boundary, target, task, stage, groupSeen, aborted,
  admission, origin>>
  BY DEF ProvisioningFails
<1>2. /\ at[l] \in {"clear", "prepared", "registered", "finish", "release", "provision"}
      /\ at[l] \in OwnerPlaces
  BY DEF OwnerPlaces, ProvisioningFails
<1>3. owner = l
  BY <1>2 DEF Knowledge, OwnerKnows
<1>4. StrangersFollowDeath' /\ BoundaryTypeOK'
  BY <1>1, StutterIsOneWay DEF Knowledge, TypeOK
<1>5. LocalTo(l)
  BY <1>1 DEF LocalTo, SameLocals, Knowledge, TypeOK, ProvisioningFails
<1>6. at[l] \notin {"release", "provision"} =>
        target[l] \in Executions /\ ctl[target[l]] # "unborn"
  BY <1>2 DEF Knowledge, OwnerKnows, WithTarget
<1>7. TypeOK'
  <2>1. requested \in Nat /\ gen[l] \in Nat
    BY DEF Knowledge, TypeOK, RowTypeOK
  <2>2. OwnerTransaction(l) \/ UNCHANGED row
    BY OwnersTransact
  <2>3. RowTypeOK'
    BY <2>2, RowTypePreserved DEF Knowledge, TypeOK, RowTypeOK, row
  <2>4. at' \in [Launchers -> Places] /\ gen' \in [Launchers -> Nat]
    <3>1. at \in [Launchers -> Places] /\ gen \in [Launchers -> Nat]
      BY DEF Knowledge, TypeOK
    <3>2. CASE ProvisioningFails(l)
      BY <2>1, <3>1, <3>2 DEF ProvisioningFails, Places, OwnerPlaces
    <3>3. CASE ~ProvisioningFails(l)
      BY <2>1, <3>1, <3>3 DEF Places, OwnerPlaces
    <3> QED
      BY <3>2, <3>3
  <2> QED
    BY <1>1, <1>4, <2>3, <2>4 DEF Knowledge, TypeOK, admission, origin
<1>8. CASE Clear(l)
  <2>1. Dead(target[l])
    BY <1>8 DEF Knowledge, OwnerKnows, OwnerPlaces
  <2>2. /\ execToken = target[l] /\ execToken' = None /\ owner' = l
        /\ completed' = completed
    BY <1>3, <1>8 DEF RowClear, ClearAllowed, ownerColumns
  <2>3. CapableIsRecorded'
    BY <1>1, <2>1, <2>2 DEF Knowledge, CapableIsRecorded, MayRunGit,
      GitCapable, Dead, boundary
  <2>4. RecordedWasSpawned'
    BY <2>2 DEF RecordedWasSpawned
  <2>5. CompletionIsEarned'
    BY <1>1, <2>2 DEF Knowledge, CompletionIsEarned, Dead, GitCapable,
      boundary, origin
  <2>6. OwnerKnows(l)'
    BY <1>1, <1>6, <1>8, <2>1, <2>2 DEF Knowledge, TypeOK, OwnerKnows,
      OwnPass, WithTarget,
       Terminating, OwnerPlaces, Dead, GitCapable, boundary, origin
  <2> QED
    BY <1>1, <1>2, <1>4, <1>5, <1>7, <2>3, <2>4, <2>5, <2>6, OwnerStep
<1>9. CASE Register(l)
  <2>1. /\ execToken = None /\ execToken' = target[l] /\ owner' = owner
        /\ completed' = completed /\ execState' = "REGISTERED"
    BY <1>9 DEF RowRegister, RegisterAllowed, ownerColumns
  <2>2. ~MayRunGit(target[l]) /\ spawner[target[l]] = l /\ passGen[target[l]] = gen[l]
    BY <1>9 DEF Knowledge, OwnerKnows, OwnerPlaces, OwnPass
  <2>3. CapableIsRecorded'
    BY <1>1, <1>6, <1>9, <2>1, NoneIsNoToken
       DEF Knowledge, CapableIsRecorded, MayRunGit, GitCapable, boundary
  <2>4. RecordedWasSpawned'
    BY <1>1, <1>6, <1>9, <2>1 DEF RecordedWasSpawned, boundary
  <2>5. CompletionIsEarned'
    BY <1>1, <2>1 DEF Knowledge, CompletionIsEarned, Dead, GitCapable,
      boundary, origin
  <2>6. OwnerKnows(l)'
    BY <1>1, <1>3, <1>6, <1>9, <2>1, <2>2 DEF Knowledge, TypeOK, OwnerKnows,
      OwnPass,
       WithTarget, Terminating, MayRunGit, GitCapable, boundary, origin
  <2> QED
    BY <1>1, <1>2, <1>4, <1>5, <1>7, <2>3, <2>4, <2>5, <2>6, OwnerStep
<1>10. CASE Authorize(l)
  <2>1. /\ execToken = target[l] /\ execToken' = execToken /\ owner' = owner
        /\ completed' = completed /\ execState' = "START_AUTHORIZED"
    BY <1>10 DEF RowAuthorize, AuthorizeAllowed, ownerColumns
  <2>2. ~MayRunGit(target[l]) /\ spawner[target[l]] = l /\ passGen[target[l]] = gen[l]
    BY <1>10 DEF Knowledge, OwnerKnows, OwnerPlaces, OwnPass
  <2>3. CapableIsRecorded'
    BY <1>1, <2>1 DEF Knowledge, CapableIsRecorded, MayRunGit, GitCapable,
      boundary
  <2>4. RecordedWasSpawned'
    BY <1>1, <2>1 DEF Knowledge, RecordedWasSpawned, boundary
  <2>5. CompletionIsEarned'
    BY <1>1, <2>1 DEF Knowledge, CompletionIsEarned, Dead, GitCapable,
      boundary, origin
  <2>6. OwnerKnows(l)'
    BY <1>1, <1>3, <1>6, <1>10, <2>1, <2>2 DEF Knowledge, TypeOK, OwnerKnows,
      OwnPass,
       WithTarget, Terminating, MayRunGit, GitCapable, boundary, origin
  <2> QED
    BY <1>1, <1>2, <1>4, <1>5, <1>7, <2>3, <2>4, <2>5, <2>6, OwnerStep
<1>11. CASE Finish(l)
  <2>1. /\ execToken = None /\ execToken' = None /\ requested' = requested
        /\ completed' = IF outcome[target[l]] = "success" THEN gen[l] ELSE completed
        /\ requested > gen[l] => owner' = owner
    BY <1>11 DEF RowFinish, FinishAllowed, execColumns, Knowledge, TypeOK,
      RowTypeOK
  <2>2. Dead(target[l]) /\ passGen[target[l]] = gen[l]
    BY <1>11 DEF Knowledge, OwnerKnows, OwnerPlaces, OwnPass
  <2>3. CapableIsRecorded'
    BY <1>1, <2>1, NoneIsNoToken DEF Knowledge, CapableIsRecorded, MayRunGit,
      GitCapable, boundary
  <2>4. RecordedWasSpawned'
    BY <2>1 DEF RecordedWasSpawned
  <2>5. CompletionIsEarned'
    BY <1>1, <1>6, <1>11, <2>1, <2>2 DEF Knowledge, CompletionIsEarned, Dead,
      GitCapable, boundary, origin
  <2>6. OwnerKnows(l)'
    BY <1>1, <1>3, <1>11, <2>1 DEF Knowledge, TypeOK, OwnerKnows, OwnPass,
       OwnerPlaces, WithTarget, Terminating
  <2> QED
    BY <1>1, <1>2, <1>4, <1>5, <1>7, <2>3, <2>4, <2>5, <2>6, OwnerStep
<1>12. CASE Release(l)
  <2>1. UNCHANGED <<requested, completed, execColumns>>
    BY <1>12 DEF RowRelease, row, execColumns
  <2>2. CapableIsRecorded'
    BY <1>1, <2>1 DEF Knowledge, CapableIsRecorded, MayRunGit, GitCapable,
      boundary, execColumns
  <2>3. RecordedWasSpawned'
    BY <1>1, <2>1 DEF Knowledge, RecordedWasSpawned, boundary, execColumns
  <2>4. CompletionIsEarned'
    BY <1>1, <2>1 DEF Knowledge, CompletionIsEarned, Dead, GitCapable,
      boundary, origin
  <2>5. OwnerKnows(l)'
    BY <1>12 DEF Knowledge, TypeOK, OwnerKnows, OwnerPlaces, Terminating
  <2> QED
    BY <1>1, <1>2, <1>4, <1>5, <1>7, <2>2, <2>3, <2>4, <2>5, OwnerStep
<1>13. CASE ProvisioningFails(l)
  <2>1. /\ execToken = None /\ execToken' = None /\ requested' = requested
        /\ completed' = completed
        /\ requested > gen[l] => owner' = owner
    BY <1>13 DEF ProvisioningFails, RowFinish, FinishAllowed, execColumns,
      Knowledge, TypeOK, RowTypeOK
  <2>2. CapableIsRecorded'
    BY <1>1, <2>1, NoneIsNoToken DEF Knowledge, CapableIsRecorded, MayRunGit,
       GitCapable, boundary
  <2>3. RecordedWasSpawned'
    BY <2>1 DEF RecordedWasSpawned
  <2>4. CompletionIsEarned'
    BY <1>1, <2>1 DEF Knowledge, CompletionIsEarned, Dead, GitCapable,
      boundary, origin
  <2>5. OwnerKnows(l)'
    BY <1>1, <1>3, <1>13, <2>1 DEF ProvisioningFails, Knowledge, TypeOK,
       OwnerKnows, OwnPass, OwnerPlaces, WithTarget, Terminating
  <2> QED
    BY <1>1, <1>2, <1>4, <1>5, <1>7, <2>2, <2>3, <2>4, <2>5, OwnerStep
<1> QED
  BY <1>8, <1>9, <1>10, <1>11, <1>12, <1>13

(* A fresh controller and the delivery of START are the only steps that    *)
(* move a boundary towards Git.                                            *)
LEMMA OwnerDeliveries ==
  ASSUME Knowledge, NEW l \in Launchers, Spawn(l) \/ SendStart(l)
  PROVE  Knowledge'
<1> USE DEF Goto
<1>1. CASE Spawn(l)
  <2>1. PICK e \in Executions :
          /\ ctl[e] = "unborn" /\ ctl' = [ctl EXCEPT ![e] = "spawned"]
          /\ UNCHANGED <<link, phase, sup, desc, outcome, stranger>>
          /\ target' = [target EXCEPT ![l] = e]
          /\ spawner' = [spawner EXCEPT ![e] = l]
          /\ passGen' = [passGen EXCEPT ![e] = gen[l]]
    BY <1>1 DEF Spawn, SpawnInert
  <2>2. /\ UNCHANGED <<row, gen, task, stage, groupSeen, aborted, admission>>
        /\ at[l] = "prepare" /\ at' = [at EXCEPT ![l] = "handshake"]
        /\ at[l] \in OwnerPlaces /\ owner = l /\ execToken = None
    BY <1>1 DEF Spawn, OwnerPlaces, Knowledge, OwnerKnows
  <2>3. \A f \in Executions : /\ MayRunGit(f)' => MayRunGit(f)
                              /\ Dead(f) => Dead(f)' /\ f # e
    BY <2>1 DEF Knowledge, TypeOK, BoundaryTypeOK, MayRunGit, GitCapable, Dead
  <2>4. TypeOK'
    BY <2>1, <2>2 DEF Knowledge, TypeOK, BoundaryTypeOK, RowTypeOK, row,
      admission, Places, OwnerPlaces
  <2>5. LocalTo(l)
    BY <2>1, <2>2 DEF LocalTo, SameLocals, Knowledge, TypeOK
  <2>6. CapableIsRecorded' /\ RecordedWasSpawned'
    BY <2>1, <2>2, <2>3 DEF Knowledge, CapableIsRecorded, RecordedWasSpawned,
      row
  <2>7. StrangersFollowDeath'
    BY <2>1, <2>3 DEF Knowledge, StrangersFollowDeath
  <2>8. CompletionIsEarned'
    BY <2>1, <2>2, <2>3 DEF Knowledge, CompletionIsEarned, row, TypeOK
  <2>9. OwnerKnows(l)'
    BY <2>1, <2>2, <2>3, NoneIsNoToken DEF Knowledge, CapableIsRecorded,
      TypeOK, BoundaryTypeOK,
       OwnerKnows, OwnPass, WithTarget, Terminating, row
  <2> QED
    BY <2>2, <2>4, <2>5, <2>6, <2>7, <2>8, <2>9, OwnerStep
<1>2. CASE SendStart(l)
  <2>1. /\ at[l] = "authorized" /\ at' = [at EXCEPT ![l] = "running"]
        /\ ctl[target[l]] = "ready" /\ ctl' = [ctl EXCEPT ![target[l]] = "armed"]
        /\ UNCHANGED <<link, phase, sup, desc, outcome, stranger>>
        /\ UNCHANGED <<row, gen, target, task, stage, groupSeen, aborted, admission, origin>>
    BY <1>2 DEF SendStart, DeliverStart
  <2>2. /\ at[l] \in OwnerPlaces /\ owner = l /\ target[l] \in Executions
        /\ execToken = target[l] /\ execState = "START_AUTHORIZED"
        /\ spawner[target[l]] = l /\ passGen[target[l]] = gen[l]
    BY <2>1 DEF OwnerPlaces, Knowledge, OwnerKnows, WithTarget, OwnPass
  <2>3. \A f \in Executions : /\ MayRunGit(f)' => MayRunGit(f) \/ f = target[l]
                              /\ Dead(f) => Dead(f)'
    BY <2>1, <2>2 DEF Knowledge, TypeOK, BoundaryTypeOK, MayRunGit,
      GitCapable, Dead
  <2>4. TypeOK'
    BY <2>1, <2>2 DEF Knowledge, TypeOK, BoundaryTypeOK, RowTypeOK, row,
      admission,
       origin, Places, OwnerPlaces
  <2>5. LocalTo(l)
    BY <2>1 DEF LocalTo, SameLocals, Knowledge, TypeOK
  <2>6. CapableIsRecorded'
    BY <2>1, <2>2, <2>3 DEF Knowledge, CapableIsRecorded, row
  <2>7. RecordedWasSpawned'
    BY <2>1, <2>2 DEF RecordedWasSpawned, row, Knowledge, TypeOK,
      BoundaryTypeOK
  <2>8. StrangersFollowDeath'
    BY <2>1, <2>3 DEF Knowledge, StrangersFollowDeath
  <2>9. CompletionIsEarned'
    BY <2>1, <2>3 DEF Knowledge, CompletionIsEarned, row, origin
  <2>10. OwnerKnows(l)'
    BY <2>1, <2>2 DEF Knowledge, TypeOK, BoundaryTypeOK, OwnerKnows, OwnPass,
      WithTarget,
       Terminating, row, origin
  <2> QED
    BY <2>1, <2>2, <2>4, <2>5, <2>6, <2>7, <2>8, <2>9, <2>10, OwnerStep
<1> QED
  BY <1>1, <1>2

-----------------------------------------------------------------------------
(* Admission.                                                              *)

(* A sample that equals the row names the row's owner. *)
LEMMA SampledOwner ==
  ASSUME TypeOK, NEW l \in Launchers
  PROVE  /\ AdmissionView \in Views /\ NoView \in Views
         /\ AdmissionView[1] = owner /\ NoView[1] = None
         /\ seenRow[l] \in Views /\ seenRow[l][1] \in Launchers \cup {None}
BY DEF TypeOK, RowTypeOK, AdmissionView, NoView, Views, NoGeneration

(* Taking, losing and giving up an admission sample. *)
LEMMA SamplingSteps ==
  ASSUME Knowledge, NEW l \in Launchers, Observe(l) \/ LoseRace(l)
  PROVE  Knowledge'
<1> USE DEF Observe, LoseRace, ForgetSample, Goto
<1>1. UNCHANGED <<row, boundary, gen, target, task, stage, groupSeen, aborted,
  origin>>
  OBVIOUS
<1>2. OneWay /\ StrangersFollowDeath' /\ BoundaryTypeOK'
  BY <1>1, StutterIsOneWay DEF Knowledge, TypeOK
<1>3. LocalTo(l)
  BY <1>1 DEF LocalTo, SameLocals, Knowledge, TypeOK
<1>4. TypeOK'
  <2>1. RowTypeOK'
    BY <1>1 DEF Knowledge, TypeOK, RowTypeOK, row
  <2>2. at' \in [Launchers -> Places] /\ tries' \in [Launchers -> Nat]
    BY DEF Knowledge, TypeOK, Places
  <2>3. seenRow' \in [Launchers -> Views] /\ seenAlive' \in [Launchers -> BOOLEAN]
    <3>1. seenRow \in [Launchers -> Views] /\ AdmissionView \in Views /\ NoView \in Views
      BY SampledOwner DEF Knowledge, TypeOK
    <3>2. CASE Observe(l)
      BY <3>1, <3>2 DEF Knowledge, TypeOK
    <3>3. CASE LoseRace(l)
      BY <3>1, <3>3 DEF Knowledge, TypeOK
    <3> QED
      BY <3>2, <3>3
  <2> QED
    BY <1>1, <1>2, <2>1, <2>2, <2>3 DEF Knowledge, TypeOK, origin
<1>5. OwnerKnows(l)'
  BY DEF Knowledge, TypeOK, OwnerKnows, OwnerPlaces, Terminating
<1>6. SampledDeathIsFinal'
  <2> SUFFICES ASSUME NEW k \in Launchers, seenRow'[k][1] # None,
    ~seenAlive'[k]
               PROVE  at'[seenRow'[k][1]] = "dead"
    BY DEF SampledDeathIsFinal
  <2>1. \A j \in Launchers : at[j] = "dead" => at'[j] = "dead"
    BY DEF Knowledge, TypeOK
  <2>2. CASE k # l
    BY <2>1, <2>2, SampledOwner DEF Knowledge, SampledDeathIsFinal, TypeOK
  <2>3. CASE k = l
    <3>1. seenRow \in [Launchers -> Views] /\ seenAlive \in [Launchers -> BOOLEAN]
      BY DEF Knowledge, TypeOK
    <3>2. AdmissionView[1] = owner /\ NoView[1] = None
      BY SampledOwner DEF Knowledge
    <3>3. CASE Observe(l)
      <4>1. seenRow'[l] = AdmissionView
        BY <3>1, <3>3
      <4>2. owner # None => ~Alive(owner)
        BY <2>3, <3>1, <3>2, <3>3, <4>1
      <4> QED
        BY <2>1, <2>3, <3>2, <4>1, <4>2 DEF Knowledge, TypeOK, RowTypeOK, Alive
    <3>4. CASE LoseRace(l)
      BY <2>3, <3>1, <3>2, <3>4
    <3> QED
      BY <3>3, <3>4
  <2> QED
    BY <2>2, <2>3
<1> QED
  BY <1>1, <1>2, <1>3, <1>4, <1>5, <1>6, QuietLocalStep

(* Admission itself: coalescing and taking over. *)
LEMMA AdmittingSteps ==
  ASSUME Knowledge, NEW l \in Launchers, Coalesce(l) \/ TakeOver(l)
  PROVE  Knowledge'
<1> USE DEF Coalesce, TakeOver, ForgetSample, Goto
<1>1. /\ UNCHANGED <<boundary, target, task, stage, groupSeen, aborted, tries, origin>>
      /\ UNCHANGED <<completed, execColumns>>
      /\ at[l] = "observed"
  BY DEF RowCoalesce, RowTakeOver
<1>2. StrangersFollowDeath' /\ BoundaryTypeOK'
  BY <1>1, StutterIsOneWay DEF Knowledge, TypeOK
<1>3. LocalTo(l)
  BY <1>1 DEF LocalTo, SameLocals, Knowledge, TypeOK
<1>4. TypeOK'
  <2>1. RowTypeOK'
    BY RowTypePreserved DEF Knowledge, TypeOK
  <2>2. at' \in [Launchers -> Places] /\ gen' \in [Launchers -> Nat]
    BY DEF Knowledge, TypeOK, Places, OwnerPlaces, RowTypeOK
  <2>3. seenRow' \in [Launchers -> Views] /\ seenAlive' \in [Launchers -> BOOLEAN]
    <3>1. /\ seenRow \in [Launchers -> Views] /\ NoView \in Views
          /\ seenAlive \in [Launchers -> BOOLEAN]
      BY SampledOwner DEF Knowledge, TypeOK
    <3>2. /\ seenRow' = [seenRow EXCEPT ![l] = NoView]
          /\ seenAlive' = [seenAlive EXCEPT ![l] = FALSE]
      OBVIOUS
    <3> HIDE DEF Coalesce, TakeOver
    <3> QED
      BY <3>1, <3>2
  <2> QED
    BY <1>1, <1>2, <2>1, <2>2, <2>3 DEF Knowledge, TypeOK, origin
<1>5. CapableIsRecorded' /\ RecordedWasSpawned'
  BY <1>1 DEF Knowledge, CapableIsRecorded, RecordedWasSpawned, MayRunGit,
    GitCapable,
     boundary, execColumns
<1>6. CompletionIsEarned'
  BY <1>1 DEF Knowledge, CompletionIsEarned, Dead, GitCapable, boundary, origin
<1>7. SampledDeathIsFinal'
  <2> SUFFICES ASSUME NEW k \in Launchers, seenRow'[k][1] # None,
    ~seenAlive'[k]
               PROVE  at'[seenRow'[k][1]] = "dead"
    BY DEF SampledDeathIsFinal
  <2>1. k # l
    BY SampledOwner DEF Knowledge, TypeOK
  <2> QED
    BY <1>1, <2>1, SampledOwner DEF Knowledge, SampledDeathIsFinal, TypeOK
<1>8. \A k \in Launchers : OwnerKnows(k)'
  <2> TAKE k \in Launchers
  <2>1. CASE Coalesce(l)
    BY <1>1, <1>3, <2>1 DEF RowCoalesce, ownerColumns, execColumns, boundary,
      origin,
       Knowledge, TypeOK, OwnerKnows, OwnPass, OwnerPlaces, WithTarget,
       Terminating, LocalTo, SameLocals,
       MayRunGit, GitCapable, Dead
  <2>2. CASE TakeOver(l) /\ k = l
    BY <2>2 DEF RowTakeOver, Knowledge, TypeOK, OwnerKnows, OwnPass,
      WithTarget, Terminating
  <2>3. CASE TakeOver(l) /\ k # l
    <3>1. owner # None => at[owner] = "dead"
      BY <2>3, SampledOwner DEF Unchanged, Knowledge, SampledDeathIsFinal
    <3>2. at[k] \notin OwnerPlaces
      BY <3>1, NoneIsNoToken DEF Knowledge, OwnerKnows, OwnerPlaces,
        Terminating
    <3> QED
      BY <1>3, <2>3, <3>2 DEF LocalTo, SameLocals, OwnerKnows
  <2> QED
    BY <2>1, <2>2, <2>3
<1> QED
  BY <1>2, <1>4, <1>5, <1>6, <1>7, <1>8 DEF Knowledge

-----------------------------------------------------------------------------
(* All steps.                                                              *)

(* The steps of controllers and of the kernel. *)
LEMMA BoundarySteps ==
  ASSUME Knowledge, NEW e \in Executions, BoundaryStep(e)
  PROVE  Knowledge'
<1>1. UNCHANGED <<row, launcher, admission, origin>>
  BY DEF BoundaryStep, Outside
<1>2. OneWay /\ BoundaryTypeOK' /\ StrangersFollowDeath'
  BY ControllerStepIsOneWay, WorldStepIsOneWay
     DEF BoundaryStep, Outside, Knowledge, TypeOK
<1>3. TypeOK'
  BY <1>1, <1>2 DEF Knowledge, TypeOK, RowTypeOK, row, launcher, admission,
    origin
<1>4. DeathIsFinal /\ \A k \in Launchers : SameLocals(k)
  BY <1>1 DEF DeathIsFinal, SameLocals, launcher
<1>5. \A k \in Launchers : OwnerKnows(k)'
  BY <1>1, <1>2, <1>4, KnowledgeSurvives DEF Knowledge
<1>6. CapableIsRecorded' /\ RecordedWasSpawned' /\ CompletionIsEarned'
  BY <1>1, <1>2, QuietStep
<1>7. SampledDeathIsFinal'
  BY <1>1, <1>4, SamplesSurvive DEF Knowledge, admission
<1> QED
  BY <1>2, <1>3, <1>5, <1>6, <1>7 DEF Knowledge

(* A stuttering step. *)
LEMMA Stuttering ==
  ASSUME Knowledge, UNCHANGED vars
  PROVE  Knowledge'
<1>1. UNCHANGED <<row, boundary, launcher, admission, origin>>
  BY DEF vars
<1>2. OneWay /\ BoundaryTypeOK' /\ StrangersFollowDeath'
  BY <1>1, StutterIsOneWay DEF Knowledge, TypeOK
<1>3. TypeOK'
  BY <1>1, <1>2 DEF Knowledge, TypeOK, RowTypeOK, row, launcher, admission,
    origin
<1>4. DeathIsFinal /\ \A k \in Launchers : SameLocals(k)
  BY <1>1 DEF DeathIsFinal, SameLocals, launcher
<1>5. \A k \in Launchers : OwnerKnows(k)'
  BY <1>1, <1>2, <1>4, KnowledgeSurvives DEF Knowledge
<1>6. CapableIsRecorded' /\ RecordedWasSpawned' /\ CompletionIsEarned'
  BY <1>1, <1>2, QuietStep
<1>7. SampledDeathIsFinal'
  BY <1>1, <1>4, SamplesSurvive DEF Knowledge, admission
<1> QED
  BY <1>2, <1>3, <1>5, <1>6, <1>7 DEF Knowledge

(* Who moves the row and the samples of admission: nobody but the          *)
(* transactions, and nobody dies but by ending its process.                *)
LauncherKeepsRow(l) ==
  /\ UNCHANGED <<row, seenRow, seenAlive>>
  /\ \/ UNCHANGED at
     \/ \E place \in Places \ {"start", "observed", "dead"} :
          at' = [at EXCEPT ![l] = place]
  /\ at[l] # "dead"

Transactions(l) ==
  \/ Observe(l) \/ LoseRace(l) \/ Coalesce(l) \/ TakeOver(l)
  \/ Clear(l) \/ Register(l) \/ Authorize(l)
  \/ Finish(l) \/ ProvisioningFails(l) \/ Release(l)
  \/ ProcessExits(l) \/ Crash(l)

(* Every other step of a launcher keeps them. *)
LEMMA OthersKeepRow ==
  ASSUME TypeOK, NEW l \in Launchers, LauncherStep(l) \/ LauncherFault(l),
         ~Transactions(l)
  PROVE  LauncherKeepsRow(l)
<1> USE DEF LauncherKeepsRow, Goto, admission
<1>1. CASE AdmissionFails(l) \/ ProbeGroup(l) \/ BoundaryCloses(l)
  BY <1>1 DEF AdmissionFails, ProbeGroup, BoundaryCloses, Places, OwnerPlaces,
    Terminating
<1>2. CASE NothingToRecover(l) \/ GiveUpAdmitted(l) \/ Provision(l)
  BY <1>2 DEF NothingToRecover, GiveUpAdmitted, Provision, Places, OwnerPlaces
<1>3. CASE SpawnFails(l) \/ ReceiveReady(l) \/ DoNotFinish(l)
  BY <1>3 DEF SpawnFails, ReceiveReady, DoNotFinish, Places, OwnerPlaces
<1>4. CASE Cancel(l) \/ Uncaught(l)
  BY <1>4 DEF Cancel, Uncaught, Places, OwnerPlaces, Terminating
<1>5. CASE BeginRecovery(l) \/ NotRegistered(l) \/ NotAuthorized(l)
  BY <1>5 DEF BeginRecovery, NotRegistered, NotAuthorized, Terminate, Places,
    OwnerPlaces, Terminating
<1>6. CASE \/ StartUndeliverable(l) \/ StartLost(l) \/ ObserveClose(l)
           \/ AbortRunning(l) \/ GroupRemains(l)
  BY <1>6 DEF StartUndeliverable, StartLost, ObserveClose, AbortRunning,
    GroupRemains, Terminate, Places, OwnerPlaces, Terminating
<1>7. CASE FindDead(l) \/ FindExact(l) \/ GroupAbsent(l)
  BY <1>7 DEF FindDead, FindExact, GroupAbsent, BoundaryEnded, Places,
    OwnerPlaces, Terminating
<1>8. CASE FindAmbiguous(l)
  BY <1>8 DEF FindAmbiguous, TerminationThrows, Terminate, Places,
    OwnerPlaces, Terminating
<1>9. CASE GraceExpires(l)
  BY <1>9 DEF GraceExpires, TerminationThrows, Terminate, Places,
    OwnerPlaces, Terminating
<1>10. CASE ClearFails(l)
  BY <1>10 DEF ClearFails, Terminate, Places, OwnerPlaces, Terminating
<1>11. CASE HandshakeFails(l)
  BY <1>11 DEF HandshakeFails, Terminate, Places, OwnerPlaces, Terminating
<1>12. CASE Spawn(l) \/ SendStart(l)
  BY <1>12 DEF Spawn, SendStart, Places, OwnerPlaces
<1> HIDE DEF LauncherKeepsRow
<1> QED
  BY <1>1, <1>2, <1>3, <1>4, <1>5, <1>6, <1>7, <1>8, <1>9, <1>10, <1>11,
     <1>12 DEF LauncherStep, LauncherFault, Transactions

(* The initial states satisfy the inductive invariant. *)
LEMMA InitKnowledge == Init => Knowledge
<1> SUFFICES ASSUME Init PROVE Knowledge
  OBVIOUS
<1>1. TypeOK
  BY DEF Init, RowInit, BoundaryInit, TypeOK, RowTypeOK, BoundaryTypeOK,
    Terminated,
     Places, Tasks, NoView, Views, NoGeneration
<1>2. \A e \in Executions : ~MayRunGit(e) /\ ~stranger[e]
  BY DEF Init, BoundaryInit, MayRunGit, GitCapable
<1>3. \A l \in Launchers : OwnerKnows(l)
  BY DEF Init, OwnerKnows, OwnerPlaces, Terminating
<1>4. SampledDeathIsFinal
  BY DEF Init, SampledDeathIsFinal, NoView
<1> QED
  BY <1>1, <1>2, <1>3, <1>4 DEF Knowledge, CapableIsRecorded,
    RecordedWasSpawned,
     StrangersFollowDeath, CompletionIsEarned, Init, RowInit

(* Every step preserves it. *)
LEMMA NextKnowledge == Knowledge /\ [Next]_vars => Knowledge'
<1> SUFFICES ASSUME Knowledge, [Next]_vars PROVE Knowledge'
  OBVIOUS
<1>1. ASSUME NEW l \in Launchers, LauncherStep(l) \/ LauncherFault(l)
      PROVE  Knowledge'
  BY <1>1, PlainSteps, StepsIntoTermination, StepsOfTermination, StepsOfDeath,
     OwnerTransactions, OwnerDeliveries, SamplingSteps, AdmittingSteps
     DEF LauncherStep, LauncherFault
<1>2. ASSUME NEW e \in Executions, BoundaryStep(e) PROVE Knowledge'
  BY <1>2, BoundarySteps
<1>3. CASE UNCHANGED vars
  BY <1>3, Stuttering
<1> QED
  BY <1>1, <1>2, <1>3 DEF Next

-----------------------------------------------------------------------------
(* Records: the row stays readable, and agrees with the boundaries.        *)

(* All that a launcher ever does to a boundary.                            *)
LauncherTouches(l) ==
  \/ UNCHANGED boundary
  \/ HangUp({target[l]}) \/ HangUp(Children(l))
  \/ SignalGroup(target[l], stage[l])
  \/ LeaderAlive(target[l]) /\ KillInert(target[l])
  \/ DeliverStart(target[l])
  \/ Spawn(l) /\ \E e \in Executions : SpawnInert(e)

(* One case per group of actions. *)
LEMMA LauncherTouch ==
  ASSUME NEW l \in Launchers, LauncherStep(l) \/ LauncherFault(l)
  PROVE  LauncherTouches(l)
<1> USE DEF LauncherTouches
<1>1. CASE \/ Observe(l) \/ LoseRace(l) \/ Coalesce(l) \/ TakeOver(l)
           \/ AdmissionFails(l)
  BY <1>1 DEF Observe, LoseRace, Coalesce, TakeOver, AdmissionFails
<1>2. CASE \/ ProbeGroup(l) \/ FindDead(l) \/ GroupAbsent(l)
           \/ BoundaryCloses(l) \/ GroupRemains(l)
  BY <1>2 DEF ProbeGroup, FindDead, GroupAbsent, BoundaryCloses, GroupRemains,
    BoundaryEnded
<1>3. CASE FindAmbiguous(l) \/ GraceExpires(l)
  BY <1>3 DEF FindAmbiguous, GraceExpires, TerminationThrows
<1>4. CASE FindExact(l)
  BY <1>4 DEF FindExact
<1>5. CASE \/ BeginRecovery(l) \/ NothingToRecover(l) \/ GiveUpAdmitted(l)
           \/ Clear(l) \/ Provision(l) \/ ProvisioningFails(l)
  BY <1>5 DEF BeginRecovery, NothingToRecover, GiveUpAdmitted, Clear,
    Provision, ProvisioningFails
<1>6. CASE ClearFails(l) \/ HandshakeFails(l)
  BY <1>6 DEF ClearFails, HandshakeFails
<1>7. CASE Spawn(l) \/ SpawnFails(l) \/ ReceiveReady(l) \/ SendStart(l)
  BY <1>7 DEF Spawn, SpawnFails, ReceiveReady, SendStart
<1>8. CASE \/ Register(l) \/ NotRegistered(l) \/ Authorize(l)
           \/ NotAuthorized(l) \/ StartUndeliverable(l) \/ StartLost(l)
  BY <1>8 DEF Register, NotRegistered, Authorize, NotAuthorized,
    StartUndeliverable, StartLost
<1>9. CASE \/ ObserveClose(l) \/ AbortRunning(l) \/ Finish(l)
           \/ DoNotFinish(l) \/ Release(l)
  BY <1>9 DEF ObserveClose, AbortRunning, Finish, DoNotFinish, Release
<1>10. CASE ProcessExits(l) \/ Cancel(l) \/ Crash(l) \/ Uncaught(l)
  BY <1>10 DEF ProcessExits, Cancel, Crash, Uncaught
<1> HIDE DEF LauncherTouches
<1> QED
  BY <1>1, <1>2, <1>3, <1>4, <1>5, <1>6, <1>7, <1>8, <1>9, <1>10
     DEF LauncherStep, LauncherFault

(* Inert controllers: those that have not handled a START.                 *)
Inert == {"unborn", "spawned", "ready", "armed"}

(* No launcher starts or ends a supervisor or a descendant, or decides an  *)
(* outcome; none makes a controller inert that was not.                    *)
LEMMA LaunchersOnlyAsk ==
  ASSUME BoundaryTypeOK, NEW l \in Launchers, LauncherTouches(l)
  PROVE  /\ UNCHANGED <<sup, desc, outcome>>
         /\ \A e \in Executions : ctl'[e] \in Inert => ctl[e] \in Inert
<1>1. CASE UNCHANGED boundary
  BY <1>1 DEF boundary
<1>2. CASE \/ HangUp({target[l]}) \/ HangUp(Children(l))
           \/ SignalGroup(target[l], stage[l])
  BY <1>2 DEF HangUp, SignalGroup
<1>3. CASE KillInert(target[l]) \/ DeliverStart(target[l])
  BY <1>3 DEF KillInert, DeliverStart, BoundaryTypeOK, Inert
<1>4. ASSUME NEW e \in Executions, SpawnInert(e)
      PROVE  /\ UNCHANGED <<sup, desc, outcome>>
             /\ \A f \in Executions : ctl'[f] \in Inert => ctl[f] \in Inert
  BY <1>4 DEF SpawnInert, BoundaryTypeOK, Inert
<1> QED
  BY <1>1, <1>2, <1>3, <1>4 DEF LauncherTouches

(* The life of a boundary is lived in order. *)
LEMMA HistoryOfBoundaries ==
  ASSUME BoundaryTypeOK, BoundaryHistory, NEW e \in Executions,
         ControllerStep(e) \/ WorldStep(e)
  PROVE  BoundaryHistory'
<1> USE DEF BoundaryTypeOK, BoundaryHistory
<1>1. CASE HandlePrepare(e)
  BY <1>1 DEF HandlePrepare
<1>2. CASE StartSupervisor(e)
  BY <1>2 DEF StartSupervisor
<1>3. CASE \/ RefuseStart(e) \/ DisconnectInert(e) \/ Quiesce(e)
           \/ LoopDrains(e) \/ KilledLeaderDies(e) \/ KillLeader(e)
  <2>1. \E reported \in BOOLEAN : Leave(e, reported)
    BY <1>3 DEF RefuseStart, DisconnectInert, Quiesce, LoopDrains,
      KilledLeaderDies, KillLeader
  <2> QED
    BY <2>1 DEF Leave
<1>4. CASE SupervisorClosed(e)
  BY <1>4 DEF SupervisorClosed
<1>5. CASE Fork(e)
  BY <1>5 DEF Fork, GitCapable
<1>6. CASE SupervisorExits(e)
  BY <1>6 DEF SupervisorExits
<1>7. CASE DescendantsExit(e)
  BY <1>7 DEF DescendantsExit
<1>8. CASE \/ DisconnectStarted(e) \/ HandleSignal(e) \/ ForceKill(e)
           \/ SignalLeader(e) \/ ReusePid(e) \/ StrangerExits(e)
  <2>1. UNCHANGED <<ctl, sup, desc, outcome>>
    BY <1>8 DEF DisconnectStarted, HandleSignal, ForceKill, SignalLeader,
      ReusePid, StrangerExits
  <2> QED
    BY <2>1
<1> HIDE DEF BoundaryTypeOK, BoundaryHistory
<1> QED
  BY <1>1, <1>2, <1>3, <1>4, <1>5, <1>6, <1>7, <1>8
     DEF ControllerStep, WorldStep

(* A readable row is readable wherever it is unchanged. *)
LEMMA ReadableFrame ==
  ASSUME RowReadable, UNCHANGED row
  PROVE  RowReadable'
BY DEF RowReadable, OwnerColumnsTogether, GenerationsOrdered,
  ExecColumnsTogether, ExecutionExplained, row

(* A transaction of a launcher leaves a row every launcher can read.       *)
LEMMA RowStaysReadable ==
  ASSUME Inductive, NEW l \in Launchers, Transactions(l)
  PROVE  RowReadable'
<1>1. Knowledge /\ RowTypeOK /\ RowReadable
  BY DEF Inductive, Knowledge, Records, TypeOK
<1>2. CASE Observe(l) \/ LoseRace(l) \/ ProcessExits(l) \/ Crash(l)
  <2>1. UNCHANGED row
    BY <1>2 DEF Observe, LoseRace, ProcessExits, Crash
  <2> QED
    BY <1>1, <2>1, ReadableFrame
<1>3. CASE Coalesce(l)
  BY <1>1, <1>3, RowReadablePreserved DEF Coalesce
<1>4. CASE TakeOver(l)
  <2>1. RowTakeOver(l) /\ execOwner # l
    BY <1>4 DEF TakeOver, Inductive, Records, NewcomersRegisteredNothing
  <2> QED
    BY <1>1, <2>1, RowReadablePreserved
<1>5. CASE \/ Clear(l) \/ Register(l) \/ Authorize(l) \/ Finish(l)
           \/ Release(l) \/ ProvisioningFails(l)
  BY <1>1, <1>5, OwnersTransact, RowReadablePreserved, ReadableFrame
<1> QED
  BY <1>2, <1>3, <1>4, <1>5 DEF Transactions

(* Only an owner registers an execution, and it has long been admitted.    *)
LEMMA NewcomersStayOut ==
  ASSUME Inductive, NEW l \in Launchers, Transactions(l), RowReadable'
  PROVE  NewcomersRegisteredNothing'
<1>1. /\ Knowledge /\ at \in [Launchers -> Places]
      /\ NewcomersRegisteredNothing
  BY DEF Inductive, Knowledge, TypeOK, Records
<1>2. CASE \/ Observe(l) \/ LoseRace(l) \/ Coalesce(l) \/ TakeOver(l)
           \/ ProcessExits(l) \/ Crash(l)
  <2>1. execOwner' = execOwner
    BY <1>2 DEF Observe, LoseRace, Coalesce, TakeOver, ProcessExits, Crash,
      RowCoalesce, RowTakeOver, row, execColumns
  <2>2. \A k \in Launchers : at'[k] \in {"start", "observed"} =>
                               at[k] \in {"start", "observed"}
    BY <1>1, <1>2 DEF Observe, LoseRace, Coalesce, TakeOver, ProcessExits,
      Crash, Goto
  <2> QED
    BY <1>1, <2>1, <2>2 DEF NewcomersRegisteredNothing
<1>3. CASE \/ Clear(l) \/ Register(l) \/ Authorize(l) \/ Finish(l)
           \/ Release(l) \/ ProvisioningFails(l)
  <2>1. /\ at'[l] \notin {"start", "observed"}
        /\ \A k \in Launchers \ {l} : at'[k] = at[k]
    BY <1>1, <1>3 DEF Clear, Register, Authorize, Finish, Release,
      ProvisioningFails, Goto
  <2>2. execOwner' \in {l, None} \/ execOwner' = execOwner
    <3>1. CASE OwnerTransaction(l)
      BY <3>1, OwnerTransactionIsLocal DEF RowReadable, ExecColumnsTogether
    <3>2. CASE UNCHANGED row
      BY <3>2 DEF row
    <3> QED
      BY <1>1, <1>3, <3>1, <3>2, OwnersTransact
  <2> QED
    BY <1>1, <2>1, <2>2, NoneIsNoToken DEF NewcomersRegisteredNothing
<1> QED
  BY <1>2, <1>3 DEF Transactions

(* No transaction prepares an execution. *)
LEMMA TransactionsNameNothing ==
  ASSUME NEW l \in Launchers, Transactions(l)
  PROVE  UNCHANGED origin
BY DEF Transactions, Observe, LoseRace, Coalesce, TakeOver, Clear, Register,
  Authorize, Finish, Release, ProvisioningFails, ProcessExits, Crash

(* Only the preparation of an execution says whose it is and what for.     *)
LEMMA OnlySpawnNames ==
  ASSUME NEW l \in Launchers, LauncherStep(l) \/ LauncherFault(l), ~Spawn(l)
  PROVE  UNCHANGED origin
<1>1. CASE LauncherFault(l)
  BY <1>1 DEF LauncherFault, Cancel, Crash, Uncaught
<1>2. CASE Transactions(l)
  BY <1>2, TransactionsNameNothing
<1>3. CASE \/ AdmissionFails(l) \/ ProbeGroup(l) \/ FindDead(l)
           \/ FindAmbiguous(l) \/ FindExact(l) \/ GroupAbsent(l)
           \/ GraceExpires(l) \/ BoundaryCloses(l) \/ BeginRecovery(l)
  BY <1>3 DEF AdmissionFails, ProbeGroup, FindDead, FindAmbiguous,
    FindExact, GroupAbsent, GraceExpires, BoundaryCloses, BeginRecovery
<1>4. CASE \/ NothingToRecover(l) \/ GiveUpAdmitted(l) \/ ClearFails(l)
           \/ Provision(l) \/ SpawnFails(l) \/ ReceiveReady(l)
           \/ HandshakeFails(l) \/ NotRegistered(l) \/ NotAuthorized(l)
  BY <1>4 DEF NothingToRecover, GiveUpAdmitted, ClearFails, Provision,
    SpawnFails, ReceiveReady, HandshakeFails, NotRegistered, NotAuthorized
<1>5. CASE \/ SendStart(l) \/ StartUndeliverable(l) \/ ObserveClose(l)
           \/ AbortRunning(l) \/ GroupRemains(l) \/ StartLost(l)
           \/ DoNotFinish(l)
  BY <1>5 DEF SendStart, StartUndeliverable, ObserveClose, AbortRunning,
    GroupRemains, StartLost, DoNotFinish
<1> QED
  BY <1>1, <1>2, <1>3, <1>4, <1>5 DEF LauncherStep, Transactions

(* A registration names the pass of its own generation. *)
LEMMA RecordsOfTransactions ==
  ASSUME Inductive, NEW l \in Launchers, Transactions(l)
  PROVE  RecordIsOfItsPass'
<1>1. Knowledge /\ RecordIsOfItsPass
  BY DEF Inductive, Records
<1>2. UNCHANGED origin
  BY TransactionsNameNothing
<1>3. CASE Register(l)
  <2>1. execToken' = target[l] /\ execGeneration' = gen[l]
    BY <1>3 DEF Register, RowRegister
  <2>2. passGen[target[l]] = gen[l]
    BY <1>1, <1>3 DEF Register, Knowledge, OwnerKnows, OwnPass, OwnerPlaces
  <2> QED
    BY <1>2, <2>1, <2>2 DEF RecordIsOfItsPass, origin
<1>4. CASE Clear(l)
  <2>1. execToken' = None
    BY <1>4 DEF Clear, RowClear
  <2> QED
    BY <2>1 DEF RecordIsOfItsPass
<1>5. CASE ~Register(l) /\ ~Clear(l)
  <2>1. UNCHANGED <<execToken, execGeneration>>
    BY <1>5 DEF Transactions, Observe, LoseRace, Coalesce, TakeOver, Authorize,
      Finish, Release, ProvisioningFails, ProcessExits, Crash, RowCoalesce,
      RowTakeOver, RowAuthorize, RowFinish, RowRelease, row, execColumns
  <2> QED
    BY <1>1, <1>2, <2>1 DEF RecordIsOfItsPass, origin
<1> QED
  BY <1>3, <1>4, <1>5

(* A launcher prepares a fresh execution only with none on record.         *)
LEMMA RecordsOfOthers ==
  ASSUME Inductive, NEW l \in Launchers, LauncherStep(l) \/ LauncherFault(l),
         ~Transactions(l)
  PROVE  RecordIsOfItsPass'
<1>1. Knowledge /\ TypeOK /\ RecordIsOfItsPass
  BY DEF Inductive, Records, Knowledge
<1>2. UNCHANGED row
  BY <1>1, OthersKeepRow DEF LauncherKeepsRow
<1>3. CASE Spawn(l)
  <2>1. execToken = None
    BY <1>1, <1>3 DEF Spawn, Knowledge, OwnerKnows, OwnerPlaces
  <2> QED
    BY <1>2, <2>1 DEF RecordIsOfItsPass, row
<1>4. CASE ~Spawn(l)
  <2>1. UNCHANGED origin
    BY <1>4, OnlySpawnNames
  <2> QED
    BY <1>1, <1>2, <2>1 DEF RecordIsOfItsPass, row, origin
<1> QED
  BY <1>3, <1>4

(* The records of the initial states. *)
LEMMA InitRecords == Init => Records
BY NoneIsNoToken DEF Init, RowInit, BoundaryInit, Records, RowReadable,
  OwnerColumnsTogether, GenerationsOrdered, ExecColumnsTogether,
  ExecutionExplained, NewcomersRegisteredNothing, RecordIsOfItsPass,
  BoundaryHistory, NoGeneration

(* Every step keeps them. *)
LEMMA NextRecords == Inductive /\ [Next]_vars => Records'
<1> SUFFICES ASSUME Inductive, [Next]_vars PROVE Records'
  OBVIOUS
<1>1. Knowledge /\ TypeOK /\ BoundaryTypeOK /\ Records
  BY DEF Inductive, Knowledge, TypeOK
<1>2. ASSUME NEW l \in Launchers, LauncherStep(l) \/ LauncherFault(l)
      PROVE  Records'
  <2>1. BoundaryHistory'
    <3>1. /\ UNCHANGED <<sup, desc, outcome>>
          /\ \A e \in Executions : ctl'[e] \in Inert => ctl[e] \in Inert
      BY <1>1, <1>2, LauncherTouch, LaunchersOnlyAsk
    <3> QED
      BY <1>1, <3>1 DEF Records, BoundaryHistory, Inert
  <2>2. CASE Transactions(l)
    BY <1>1, <2>1, <2>2, RowStaysReadable, NewcomersStayOut,
       RecordsOfTransactions DEF Records
  <2>3. CASE ~Transactions(l)
    <3>1. LauncherKeepsRow(l) /\ RecordIsOfItsPass'
      BY <1>1, <1>2, <2>3, OthersKeepRow, RecordsOfOthers
    <3>2. RowReadable'
      BY <1>1, <3>1, ReadableFrame DEF Records, LauncherKeepsRow
    <3>3. NewcomersRegisteredNothing'
      BY <1>1, <3>1 DEF Records, NewcomersRegisteredNothing, LauncherKeepsRow,
        TypeOK, row
    <3> QED
      BY <2>1, <3>1, <3>2, <3>3 DEF Records
  <2> QED
    BY <2>2, <2>3
<1>3. ASSUME UNCHANGED <<row, launcher, admission, origin>>, BoundaryHistory'
      PROVE  Records'
  <2>1. RowReadable'
    BY <1>1, <1>3, ReadableFrame DEF Records
  <2> QED
    BY <1>1, <1>3, <2>1 DEF Records, NewcomersRegisteredNothing,
      RecordIsOfItsPass, row, launcher, origin
<1>4. ASSUME NEW e \in Executions, BoundaryStep(e) PROVE Records'
  <2>1. BoundaryHistory'
    BY <1>1, <1>4, HistoryOfBoundaries DEF BoundaryStep, Outside, Records
  <2> QED
    BY <1>3, <1>4, <2>1 DEF BoundaryStep, Outside
<1>5. CASE UNCHANGED vars
  <2>1. BoundaryHistory'
    BY <1>1, <1>5 DEF vars, boundary, Records, BoundaryHistory
  <2> QED
    BY <1>3, <1>5, <2>1 DEF vars
<1> QED
  BY <1>2, <1>4, <1>5 DEF Next

-----------------------------------------------------------------------------
(* Passes: every launcher in the owner's code is in step with the row, and *)
(* each generation is scanned at most once.                                *)

(* Every step of a launcher that is no transaction leaves the locals of    *)
(* the others alone, and its own generation and place before a pass.       *)
Stays(l) ==
  /\ LocalTo(l) /\ gen' = gen
  /\ BeforePass(l)' => BeforePass(l)
  /\ OwnerIsInStep(l)'

LEMMA PlainStepsStay ==
  ASSUME Knowledge, NEW l \in Launchers, OwnerIsInStep(l), UNCHANGED row,
         \/ AdmissionFails(l) \/ ProbeGroup(l) \/ BoundaryCloses(l)
         \/ NothingToRecover(l) \/ GiveUpAdmitted(l) \/ Provision(l)
         \/ SpawnFails(l) \/ ReceiveReady(l) \/ DoNotFinish(l)
         \/ Cancel(l) \/ Uncaught(l) \/ SendStart(l) \/ StartLost(l) \/ Spawn(l)
  PROVE  Stays(l)
<1>1. /\ at \in [Launchers -> Places] /\ target \in [Launchers -> Executions \cup {None}]
      /\ TypeOK
  BY DEF Knowledge, TypeOK
<1> USE <1>1 DEF Stays, LocalTo, SameLocals, BeforePass, OwnerIsInStep,
      OwnerPlaces, Terminating, Goto, row
<1>2. CASE AdmissionFails(l) \/ ProbeGroup(l) \/ BoundaryCloses(l)
  BY <1>2 DEF AdmissionFails, ProbeGroup, BoundaryCloses, TypeOK
<1>3. CASE NothingToRecover(l) \/ GiveUpAdmitted(l) \/ Provision(l)
  BY <1>3 DEF NothingToRecover, GiveUpAdmitted, Provision
<1>4. CASE SpawnFails(l) \/ ReceiveReady(l) \/ DoNotFinish(l)
  BY <1>4 DEF SpawnFails, ReceiveReady, DoNotFinish
<1>5. CASE Cancel(l) \/ Uncaught(l) \/ SendStart(l) \/ StartLost(l)
  BY <1>5 DEF Cancel, Uncaught, SendStart, StartLost
<1>6. CASE Spawn(l)
  BY <1>6 DEF Spawn
<1> QED
  BY <1>2, <1>3, <1>4, <1>5, <1>6

(* The entries of a termination say what it is for, and what is recorded. *)
LEMMA EntriesStay ==
  ASSUME Knowledge, NEW l \in Launchers, OwnerIsInStep(l), UNCHANGED row,
         \/ BeginRecovery(l) \/ NotRegistered(l) \/ NotAuthorized(l)
         \/ StartUndeliverable(l) \/ ObserveClose(l) \/ AbortRunning(l)
         \/ GroupRemains(l)
  PROVE  Stays(l)
<1>1. TypeOK /\ OwnerKnows(l)
  BY DEF Knowledge
<1> USE <1>1 DEF Stays, LocalTo, SameLocals, BeforePass, OwnerIsInStep,
      OwnerPlaces, Terminating, OwnerKnows, TypeOK, Goto, Terminate, row
<1>2. CASE BeginRecovery(l)
  BY <1>2 DEF BeginRecovery
<1>3. CASE NotRegistered(l)
  BY <1>3 DEF NotRegistered
<1>4. CASE NotAuthorized(l)
  BY <1>4 DEF NotAuthorized
<1>5. CASE StartUndeliverable(l) \/ AbortRunning(l) \/ GroupRemains(l)
  BY <1>5 DEF StartUndeliverable, AbortRunning, GroupRemains
<1>6. CASE ObserveClose(l)
  BY <1>6 DEF ObserveClose
<1> QED
  BY <1>2, <1>3, <1>4, <1>5, <1>6

(* Inside a termination the target and what is recorded stay. *)
LEMMA TerminationsStay ==
  ASSUME Knowledge, NEW l \in Launchers, OwnerIsInStep(l), UNCHANGED row,
         \/ FindDead(l) \/ FindAmbiguous(l) \/ FindExact(l) \/ GroupAbsent(l)
         \/ GraceExpires(l) \/ ClearFails(l) \/ HandshakeFails(l)
  PROVE  Stays(l)
<1>1. TypeOK /\ OwnerKnows(l)
  BY DEF Knowledge
<1> USE <1>1 DEF Stays, LocalTo, SameLocals, BeforePass, OwnerIsInStep,
      OwnerPlaces, Terminating, OwnerKnows, TypeOK, Goto, row
<1>2. CASE FindDead(l) \/ GroupAbsent(l)
  BY <1>2 DEF FindDead, GroupAbsent, BoundaryEnded
<1>3. CASE FindExact(l)
  BY <1>3 DEF FindExact
<1>4. CASE FindAmbiguous(l)
  BY <1>4 DEF FindAmbiguous, TerminationThrows, Terminate
<1>5. CASE GraceExpires(l)
  BY <1>5 DEF GraceExpires, TerminationThrows, Terminate
<1>6. CASE ClearFails(l)
  BY <1>6 DEF ClearFails, Terminate
<1>7. CASE HandshakeFails(l)
  BY <1>7 DEF HandshakeFails, Terminate
<1> QED
  BY <1>2, <1>3, <1>4, <1>5, <1>6, <1>7

(* A launcher's step leaves the row of another one that is in the owner's  *)
(* code as it is, but for new requests.                                    *)
LEMMA OwnersAreUndisturbed ==
  ASSUME Knowledge, NEW l \in Launchers, NEW k \in Launchers \ {l},
         at[k] \in OwnerPlaces, LauncherStep(l) \/ LauncherFault(l)
  PROVE  UNCHANGED <<ownerColumns, execColumns>>
<1>1. TypeOK /\ owner = k /\ SampledDeathIsFinal
  BY DEF Knowledge, OwnerKnows
<1>2. CASE UNCHANGED row
  BY <1>2 DEF row, ownerColumns, execColumns
<1>3. CASE Coalesce(l)
  BY <1>3 DEF Coalesce, RowCoalesce
<1>4. ~TakeOver(l)
  <2> SUFFICES ASSUME TakeOver(l) PROVE FALSE
    OBVIOUS
  <2>1. seenRow[l][1] = k /\ ~seenAlive[l]
    BY <1>1, SampledOwner DEF TakeOver, Unchanged
  <2>2. at[k] = "dead"
    BY <1>1, <2>1, NoneIsNoToken DEF SampledDeathIsFinal
  <2> QED
    BY <2>2 DEF OwnerPlaces, Terminating
<1>5. ~OwnerTransaction(l)
  BY <1>1, OwnerTransactionIsLocal
<1>6. \/ UNCHANGED row
      \/ Coalesce(l) \/ TakeOver(l) \/ OwnerTransaction(l)
  BY <1>1, OthersKeepRow, OwnersTransact
     DEF LauncherKeepsRow, Transactions, Observe, LoseRace, ProcessExits, Crash
<1> QED
  BY <1>2, <1>3, <1>4, <1>5, <1>6

(* What a transaction makes of the generation and of the place of who runs *)
(* it: a generation is new wherever a pass for it has yet to be prepared.  *)
Advances(l) ==
  /\ LocalTo(l)
  /\ OwnerIsInStep(l)'
  /\ BeforePass(l)' =>
       \/ BeforePass(l) /\ running' = running
       \/ owner = l /\ running < running'
       \/ requested < running'

LEMMA TransactionsAdvance ==
  ASSUME Knowledge, RowReadable, NEW l \in Launchers, OwnerIsInStep(l),
         Transactions(l)
  PROVE  Advances(l)
<1>1. TypeOK /\ OwnerKnows(l)
  BY DEF Knowledge
<1> USE <1>1 DEF Advances, LocalTo, SameLocals, BeforePass, OwnerIsInStep,
      OwnerPlaces, Terminating, OwnerKnows, TypeOK, RowTypeOK, Goto
<1>2. CASE Observe(l) \/ LoseRace(l) \/ ProcessExits(l) \/ Crash(l)
  BY <1>2 DEF Observe, LoseRace, ProcessExits, Crash
<1>3. CASE Coalesce(l)
  BY <1>3 DEF Coalesce
<1>4. CASE TakeOver(l)
  BY <1>4 DEF TakeOver, RowTakeOver
<1>5. CASE Clear(l)
  BY <1>5 DEF Clear, RowClear, ownerColumns
<1>6. CASE Register(l)
  BY <1>6 DEF Register, RowRegister, ownerColumns
<1>7. CASE Authorize(l)
  BY <1>7 DEF Authorize, RowAuthorize, ownerColumns
<1>8. CASE Finish(l)
  BY <1>8 DEF Finish, RowFinish, FinishAllowed
<1>9. CASE ProvisioningFails(l)
  BY <1>9 DEF ProvisioningFails, RowFinish, FinishAllowed
<1>10. CASE Release(l)
  BY <1>10 DEF Release
<1> QED
  BY <1>2, <1>3, <1>4, <1>5, <1>6, <1>7, <1>8, <1>9, <1>10 DEF Transactions

(* One step of a launcher. *)
LEMMA StepsAdvance ==
  ASSUME Knowledge, RowReadable, NEW l \in Launchers, OwnerIsInStep(l),
         LauncherStep(l) \/ LauncherFault(l)
  PROVE  Advances(l)
<1>1. CASE Transactions(l)
  BY <1>1, TransactionsAdvance
<1>2. CASE ~Transactions(l)
  <2>1. UNCHANGED row
    BY <1>2, OthersKeepRow DEF Knowledge, LauncherKeepsRow
  <2>2. Stays(l)
    BY <1>2, <2>1, PlainStepsStay, EntriesStay, TerminationsStay
       DEF LauncherStep, LauncherFault, Transactions
  <2> QED
    BY <2>1, <2>2 DEF Stays, Advances, row
<1> QED
  BY <1>1, <1>2

(* Every launcher stays in step. *)
LEMMA LaunchersStayInStep ==
  ASSUME Inductive, NEW l \in Launchers, LauncherStep(l) \/ LauncherFault(l)
  PROVE  \A k \in Launchers : OwnerIsInStep(k)'
<1>1. /\ Knowledge /\ RowReadable
      /\ \A k \in Launchers : OwnerIsInStep(k)
  BY DEF Inductive, Records, Passes
<1>2. Advances(l)
  BY <1>1, StepsAdvance
<1>3. ASSUME NEW k \in Launchers \ {l} PROVE OwnerIsInStep(k)'
  <2>1. SameLocals(k)
    BY <1>2 DEF Advances, LocalTo
  <2>2. at[k] \in OwnerPlaces => UNCHANGED <<ownerColumns, execColumns>>
    BY <1>1, OwnersAreUndisturbed
  <2> QED
    BY <1>1, <2>1, <2>2 DEF OwnerIsInStep, SameLocals, ownerColumns, execColumns
<1> QED
  BY <1>2, <1>3 DEF Advances

(* Which executions are born changes by preparing one, and by nothing else.*)
LEMMA OnlySpawnGivesBirth ==
  ASSUME BoundaryTypeOK, NEW l \in Launchers,
         LauncherStep(l) \/ LauncherFault(l), ~Spawn(l)
  PROVE  UNCHANGED Born
<1>1. \A e \in Executions : ctl'[e] = "unborn" <=> ctl[e] = "unborn"
  <2>1. CASE UNCHANGED ctl
    BY <2>1
  <2>2. CASE LeaderAlive(target[l]) /\ KillInert(target[l])
    BY <2>2 DEF KillInert, LeaderAlive, BoundaryTypeOK
  <2>3. CASE DeliverStart(target[l])
    BY <2>3 DEF DeliverStart, BoundaryTypeOK
  <2> QED
    BY <2>1, <2>2, <2>3, LauncherTouch
       DEF LauncherTouches, HangUp, SignalGroup, boundary
<1> QED
  BY <1>1 DEF Born

(* A prepared execution is the first one for its generation. *)
LEMMA SpawnIsNew ==
  ASSUME Inductive, NEW l \in Launchers, Spawn(l)
  PROVE  \E e \in Executions \ Born :
           /\ Born' = Born \cup {e}
           /\ passGen' = [passGen EXCEPT ![e] = running]
           /\ \A f \in Born : passGen[f] < running
           /\ owner # None /\ running \in 1 .. requested
           /\ UNCHANGED row
<1>1. /\ Knowledge /\ TypeOK /\ BoundaryTypeOK /\ RowReadable
      /\ OwnerIsInStep(l) /\ PassesFollowRequests /\ OwnerKnows(l)
  BY DEF Inductive, Records, Passes, Knowledge, TypeOK
<1>2. PICK e \in Executions :
        SpawnInert(e) /\ passGen' = [passGen EXCEPT ![e] = gen[l]]
  BY DEF Spawn
<1>3. e \notin Born /\ Born' = Born \cup {e}
  BY <1>1, <1>2 DEF SpawnInert, Born, BoundaryTypeOK
<1>4. /\ owner = l /\ running = gen[l]
      /\ \A f \in Born : passGen[f] < running
  BY <1>1 DEF Spawn, OwnerIsInStep, OwnerKnows, OwnerPlaces,
    PassesFollowRequests, BeforePass
<1>5. owner # None /\ running \in 1 .. requested /\ UNCHANGED row
  BY <1>1, <1>4, NoneIsNoToken DEF Spawn, RowReadable, GenerationsOrdered,
    TypeOK, RowTypeOK
<1> QED
  BY <1>2, <1>3, <1>4, <1>5

(* No generation is prepared for twice. *)
LEMMA GenerationsStayRunOnce ==
  ASSUME Inductive, NEW l \in Launchers, LauncherStep(l) \/ LauncherFault(l)
  PROVE  GenerationsRunOnce'
<1>1. /\ TypeOK /\ BoundaryTypeOK /\ GenerationsRunOnce
  BY DEF Inductive, Passes, Knowledge, TypeOK
<1>2. CASE Spawn(l)
  <2>1. PICK e \in Executions \ Born :
          /\ Born' = Born \cup {e}
          /\ passGen' = [passGen EXCEPT ![e] = running]
          /\ \A f \in Born : passGen[f] < running
    BY <1>2, SpawnIsNew
  <2>2. /\ \A f \in Born : passGen'[f] = passGen[f] /\ passGen'[f] # running
        /\ passGen'[e] = running
    BY <1>1, <2>1 DEF TypeOK, RowTypeOK, Born
  <2> QED
    BY <1>1, <2>1, <2>2 DEF GenerationsRunOnce
<1>3. CASE ~Spawn(l)
  BY <1>1, <1>3, OnlySpawnNames, OnlySpawnGivesBirth
     DEF GenerationsRunOnce, origin
<1> QED
  BY <1>2, <1>3

(* Everything that moves the row. *)
LEMMA RowMoves ==
  ASSUME Inductive, [Next]_vars
  PROVE  \/ UNCHANGED row
         \/ RowCoalesce
         \/ \E l \in Launchers : TakeOver(l) \/ OwnerTransaction(l)
<1>1. Knowledge /\ TypeOK
  BY DEF Inductive, Knowledge
<1>2. ASSUME NEW l \in Launchers, LauncherStep(l) \/ LauncherFault(l),
             ~Transactions(l)
      PROVE  UNCHANGED row
  BY <1>1, <1>2, OthersKeepRow DEF LauncherKeepsRow
<1>3. ASSUME NEW l \in Launchers,
             Observe(l) \/ LoseRace(l) \/ ProcessExits(l) \/ Crash(l)
      PROVE  UNCHANGED row
  BY <1>3 DEF Observe, LoseRace, ProcessExits, Crash
<1>4. ASSUME NEW l \in Launchers, Coalesce(l)
      PROVE  RowCoalesce
  BY <1>4 DEF Coalesce
<1>5. ASSUME NEW l \in Launchers,
             \/ Clear(l) \/ Register(l) \/ Authorize(l) \/ Finish(l)
             \/ Release(l) \/ ProvisioningFails(l)
      PROVE  OwnerTransaction(l) \/ UNCHANGED row
  BY <1>1, <1>5, OwnersTransact
<1>6. CASE \E l \in Launchers : LauncherStep(l) \/ LauncherFault(l)
  BY <1>2, <1>3, <1>4, <1>5, <1>6 DEF Transactions
<1>7. CASE ~ \E l \in Launchers : LauncherStep(l) \/ LauncherFault(l)
  BY <1>7 DEF Next, vars, BoundaryStep, Outside
<1> QED
  BY <1>6, <1>7

(* How the columns that count move. *)
LEMMA CountsMove ==
  ASSUME Inductive, [Next]_vars
  PROVE  /\ requested <= requested'
         /\ owner' # None =>
              \/ owner # None /\ running <= running'
              \/ requested < running'
<1>1. RowTypeOK /\ RowReadable
  BY DEF Inductive, Records, Knowledge, TypeOK
<1> USE <1>1, NoneIsNoToken DEF RowTypeOK, RowReadable, GenerationsOrdered
<1>2. CASE UNCHANGED row
  BY <1>2 DEF row
<1>3. CASE RowCoalesce
  BY <1>3 DEF RowCoalesce, ownerColumns
<1>4. ASSUME NEW l \in Launchers, TakeOver(l)
      PROVE  requested <= requested' /\ requested < running'
  BY <1>4 DEF TakeOver, RowTakeOver
<1>5. ASSUME NEW l \in Launchers, OwnerTransaction(l)
      PROVE  /\ requested <= requested'
             /\ owner' # None => owner # None /\ running <= running'
  BY <1>5 DEF OwnerTransaction, RowFinish, FinishAllowed, RowRelease,
    RowRegister, RowAuthorize, RowClear, ownerColumns
<1> QED
  BY <1>2, <1>3, <1>4, <1>5, RowMoves

(* No pass is ahead of its request or of the owner. *)
LEMMA PassesStayBehind ==
  ASSUME Inductive, NEW l \in Launchers, LauncherStep(l) \/ LauncherFault(l)
  PROVE  PassesFollowRequests'
<1>1. /\ Knowledge /\ TypeOK /\ BoundaryTypeOK /\ RowReadable /\ RowTypeOK
      /\ PassesFollowRequests /\ \A k \in Launchers : OwnerIsInStep(k)
  BY DEF Inductive, Records, Passes, Knowledge, TypeOK
<1>2. /\ requested <= requested'
      /\ owner' # None =>
           \/ owner # None /\ running <= running'
           \/ requested < running'
  BY CountsMove DEF Next
<1>3. Advances(l)
  BY <1>1, StepsAdvance
<1>4. requested' \in Nat /\ running' \in Nat
  <2>1. Knowledge'
    BY <1>1, NextKnowledge DEF Next
  <2> QED
    BY <2>1 DEF Knowledge, TypeOK, RowTypeOK
<1>5. ASSUME NEW k \in Launchers \ {l}, BeforePass(k)'
      PROVE  BeforePass(k) /\ running' = running
  <2>1. BeforePass(k)
    BY <1>3, <1>5 DEF Advances, LocalTo, SameLocals, BeforePass
  <2>2. at[k] \in OwnerPlaces
    BY <2>1 DEF BeforePass, OwnerPlaces, Terminating
  <2> QED
    BY <1>1, <2>1, <2>2, OwnersAreUndisturbed DEF ownerColumns
<1>6. CASE Spawn(l)
  <2>1. PICK e \in Executions \ Born :
          /\ Born' = Born \cup {e}
          /\ passGen' = [passGen EXCEPT ![e] = running]
          /\ \A f \in Born : passGen[f] < running
          /\ owner # None /\ running \in 1 .. requested
          /\ UNCHANGED row
    BY <1>6, SpawnIsNew
  <2>2. \A f \in Born : passGen'[f] = passGen[f]
    BY <1>1, <2>1 DEF TypeOK
  <2>3. \A f \in Born' : passGen'[f] \in 1 .. requested /\ passGen'[f] <= running
    BY <1>1, <2>1, <2>2 DEF TypeOK, RowTypeOK, PassesFollowRequests, Born
  <2>4. \A k \in Launchers : ~BeforePass(k)'
    <3>1. ~BeforePass(l)'
      BY <1>1, <1>6 DEF Spawn, BeforePass, Goto, Terminating, TypeOK
    <3>2. ASSUME NEW k \in Launchers \ {l}, BeforePass(k)' PROVE FALSE
      <4>1. at[k] \in OwnerPlaces
        BY <1>5, <3>2 DEF BeforePass, OwnerPlaces, Terminating
      <4>2. at[l] \in OwnerPlaces
        BY <1>6 DEF Spawn, OwnerPlaces
      <4> QED
        BY <1>1, <4>1, <4>2, OwnerIsAlone
    <3> QED
      BY <3>1, <3>2
  <2> QED
    BY <1>1, <2>1, <2>3, <2>4 DEF PassesFollowRequests, RowTypeOK, row
<1>7. CASE ~Spawn(l)
  <2>1. Born' = Born /\ passGen' = passGen
    BY <1>1, <1>7, OnlySpawnNames, OnlySpawnGivesBirth DEF origin
  <2>2. \A e \in Born : passGen[e] \in Nat
    BY <1>1 DEF TypeOK, Born
  <2>3. ASSUME NEW e \in Born
        PROVE  passGen[e] \in 1 .. requested' /\ (owner' # None => passGen[e] <= running')
    BY <1>1, <1>2, <1>4, <2>2 DEF PassesFollowRequests, RowTypeOK
  <2>4. ASSUME NEW k \in Launchers, BeforePass(k)', NEW e \in Born
        PROVE  passGen[e] < running'
    <3>1. CASE k # l
      BY <1>1, <1>5, <2>4, <3>1 DEF PassesFollowRequests
    <3>2. CASE k = l
      BY <1>1, <1>3, <1>4, <2>2, <2>4, <3>2, NoneIsNoToken
         DEF Advances, PassesFollowRequests, RowTypeOK
    <3> QED
      BY <3>1, <3>2
  <2> QED
    BY <2>1, <2>3, <2>4 DEF PassesFollowRequests
<1> QED
  BY <1>6, <1>7

(* A step that is no admission leaves the generations known, and unknown.  *)
LEMMA GenerationsStayKnown ==
  ASSUME Inductive, NEW l \in Launchers, LauncherStep(l) \/ LauncherFault(l),
         ~Coalesce(l), ~TakeOver(l)
  PROVE  /\ requested' = requested
         /\ Admitted' = Admitted
         /\ \A k \in Launchers : at'[k] \in {"start", "observed"} =>
                                  at[k] \in {"start", "observed"}
<1>1. /\ Knowledge /\ TypeOK /\ RowReadable /\ RowTypeOK
      /\ OwnerIsInStep(l) /\ OwnerKnows(l)
  BY DEF Inductive, Records, Passes, Knowledge, TypeOK
<1>2. CASE Transactions(l)
  <2>1. CASE \/ Observe(l) \/ LoseRace(l) \/ Clear(l) \/ Register(l)
             \/ Authorize(l) \/ Release(l) \/ ProcessExits(l) \/ Crash(l)
    <3>1. requested' = requested /\ gen' = gen
      BY <2>1 DEF Observe, LoseRace, Clear, Register, Authorize, Release,
        ProcessExits, Crash, RowClear, RowRegister, RowAuthorize, RowRelease,
        row
    <3>2. \A k \in Launchers : at'[k] \in {"start", "observed"} =>
                               at[k] \in {"start", "observed"}
      BY <1>1, <2>1 DEF TypeOK, Observe, LoseRace, Clear, Register, Authorize,
        Release, ProcessExits, Crash, Goto
    <3> QED
      BY <3>1, <3>2 DEF Admitted
  <2>2. CASE Finish(l) \/ ProvisioningFails(l)
    <3>1. gen[l] # NoGeneration
      BY <1>1, <2>2, NoneIsNoToken DEF Finish, ProvisioningFails, OwnerKnows,
        OwnerIsInStep, OwnerPlaces, RowReadable, OwnerColumnsTogether
    <3>2. /\ requested' = requested
          /\ gen' = [gen EXCEPT ![l] = IF requested > @ THEN requested ELSE @]
          /\ \E p \in Places \ {"start", "observed"} :
               at' = [at EXCEPT ![l] = p]
      BY <2>2 DEF Finish, ProvisioningFails, RowFinish, Goto, Places,
        OwnerPlaces
    <3>3. gen'[l] # NoGeneration
      BY <1>1, <3>1, <3>2 DEF TypeOK, RowTypeOK, NoGeneration
    <3> QED
      BY <1>1, <3>1, <3>2, <3>3 DEF Admitted, TypeOK
  <2> QED
    BY <1>2, <2>1, <2>2 DEF Transactions
<1>3. CASE ~Transactions(l)
  <2>1. LauncherKeepsRow(l)
    BY <1>1, <1>3, OthersKeepRow
  <2>2. Stays(l)
    BY <1>1, <1>3, <2>1, PlainStepsStay, EntriesStay, TerminationsStay
       DEF LauncherStep, LauncherFault, Transactions, LauncherKeepsRow
  <2> QED
    BY <1>1, <2>1, <2>2 DEF Stays, LauncherKeepsRow, Admitted, TypeOK, row
<1> QED
  BY <1>2, <1>3

(* Admission counts the launcher that asks, which has not asked before.    *)
LEMMA AdmissionsCount ==
  ASSUME Inductive, NEW l \in Launchers, Coalesce(l) \/ TakeOver(l)
  PROVE  RequestsAreInvocations'
<1>1. TypeOK /\ RowTypeOK /\ RequestsAreInvocations
  BY DEF Inductive, Passes, Knowledge, TypeOK
<1>2. /\ at[l] = "observed" /\ requested' = requested + 1
      /\ gen' = [gen EXCEPT ![l] = requested + 1]
      /\ \E p \in {"coalesced", "admitted"} : at' = [at EXCEPT ![l] = p]
  BY DEF Coalesce, TakeOver, RowCoalesce, RowTakeOver, Goto
<1>3. l \notin Admitted /\ Admitted' = Admitted \cup {l}
  <2>1. l \notin Admitted
    BY <1>1, <1>2 DEF RequestsAreInvocations
  <2>2. gen'[l] # NoGeneration /\ \A k \in Launchers \ {l} : gen'[k] = gen[k]
    BY <1>1, <1>2 DEF TypeOK, RowTypeOK, NoGeneration
  <2> QED
    BY <2>1, <2>2 DEF Admitted
<1>4. IsFiniteSet(Admitted') /\ Cardinality(Admitted') = Cardinality(Admitted) + 1
  BY <1>1, <1>3, FS_AddElement DEF RequestsAreInvocations
<1>5. \A k \in Launchers : at'[k] \in {"start", "observed"} =>
        k # l /\ at[k] \in {"start", "observed"}
  BY <1>1, <1>2 DEF TypeOK
<1> QED
  BY <1>1, <1>2, <1>3, <1>4, <1>5 DEF RequestsAreInvocations

(* Every launcher asked at most once, and every request was asked for. *)
LEMMA RequestsStayInvocations ==
  ASSUME Inductive, NEW l \in Launchers, LauncherStep(l) \/ LauncherFault(l)
  PROVE  RequestsAreInvocations'
<1>1. RequestsAreInvocations
  BY DEF Inductive, Passes
<1>2. CASE Coalesce(l) \/ TakeOver(l)
  BY <1>2, AdmissionsCount
<1>3. CASE ~Coalesce(l) /\ ~TakeOver(l)
  BY <1>1, <1>3, GenerationsStayKnown DEF RequestsAreInvocations
<1> QED
  BY <1>2, <1>3

(* Nobody has asked yet. *)
LEMMA InitPasses == Init => Passes
<1> SUFFICES ASSUME Init PROVE Passes
  OBVIOUS
<1>1. Admitted = {} /\ Born = {}
  BY DEF Init, BoundaryInit, Admitted, Born
<1>2. /\ \A l \in Launchers : OwnerIsInStep(l)
      /\ PassesFollowRequests /\ GenerationsRunOnce
  BY <1>1 DEF Init, OwnerIsInStep, PassesFollowRequests, BeforePass,
    GenerationsRunOnce, OwnerPlaces, Terminating
<1>3. RequestsAreInvocations
  BY <1>1, FS_EmptySet DEF Init, RowInit, RequestsAreInvocations
<1> QED
  BY <1>2, <1>3 DEF Passes

(* Every step keeps them. *)
LEMMA NextPasses == Inductive /\ [Next]_vars => Passes'
<1> SUFFICES ASSUME Inductive, [Next]_vars PROVE Passes'
  OBVIOUS
<1>1. /\ BoundaryTypeOK /\ StrangersFollowDeath /\ Passes
  BY DEF Inductive, Knowledge, TypeOK
<1>2. ASSUME NEW l \in Launchers, LauncherStep(l) \/ LauncherFault(l)
      PROVE  Passes'
  BY <1>2, LaunchersStayInStep, PassesStayBehind, GenerationsStayRunOnce,
     RequestsStayInvocations DEF Passes
<1>3. ASSUME UNCHANGED <<row, launcher, admission, origin>>, OneWay
      PROVE  Passes'
  <2>1. UNCHANGED <<Born, Admitted>>
    BY <1>3 DEF OneWay, Born, Admitted, launcher
  <2>2. \A l \in Launchers : OwnerIsInStep(l)'
    BY <1>1, <1>3 DEF Passes, OwnerIsInStep, row, launcher
  <2>3. PassesFollowRequests' /\ GenerationsRunOnce' /\ RequestsAreInvocations'
    BY <1>1, <1>3, <2>1 DEF Passes, PassesFollowRequests, BeforePass,
      GenerationsRunOnce, RequestsAreInvocations, row, launcher, origin
  <2> QED
    BY <2>2, <2>3 DEF Passes
<1>4. ASSUME NEW e \in Executions, BoundaryStep(e) PROVE Passes'
  BY <1>1, <1>3, <1>4, ControllerStepIsOneWay, WorldStepIsOneWay
     DEF BoundaryStep, Outside
<1>5. CASE UNCHANGED vars
  BY <1>3, <1>5, StutterIsOneWay DEF vars
<1> QED
  BY <1>2, <1>4, <1>5 DEF Next

-----------------------------------------------------------------------------
(* The invariant that carries all the others: what owners know, what the   *)
(* row and the boundaries say of each other, and what bounds the passes.   *)
THEOREM InvariantHolds == Spec => []Inductive
<1>1. Init => Inductive
  BY InitKnowledge, InitRecords, InitPasses DEF Inductive
<1>2. Inductive /\ [Next]_vars => Inductive'
  BY NextKnowledge, NextRecords, NextPasses DEF Inductive
<1> QED
  BY <1>1, <1>2, PTL DEF Spec

(* No order of launchers, deaths and failures leaves a row that makes      *)
(* readReconcilerState throw for everybody after.                          *)
THEOREM RowStaysReadableForAll == Spec => []RowReadable
<1>1. Inductive => RowReadable
  BY DEF Inductive, Records
<1> QED
  BY InvariantHolds, <1>1, PTL

-----------------------------------------------------------------------------
(* Passes are bounded.                                                     *)

(* No two executions are ever prepared for the same generation, whoever    *)
(* takes over from whom: a launcher that inherits a pending request runs   *)
(* it under a number of its own, and a repeated pass is a newer one.       *)
THEOREM GenerationsRunOnceHolds == Spec => []GenerationsRunOnce
<1>1. Inductive => GenerationsRunOnce
  BY DEF Inductive, Passes
<1> QED
  BY <1>1, InvariantHolds, PTL

(* The requests of the row count the launchers that were admitted, each    *)
(* once, and together with the theorem before: the pass loop of            *)
(* runCoalescedReconciliation starts no more executions than launchers     *)
(* were admitted, in every order of requests, deaths and retries.          *)
THEOREM PassesStayBounded == Spec => []PassesAreBounded
<1>1. Inductive => PassesAreBounded
  <2> SUFFICES ASSUME Inductive PROVE PassesAreBounded
    OBVIOUS
  <2>1. /\ requested \in Nat /\ passGen \in [Executions -> Nat]
        /\ PassesFollowRequests /\ GenerationsRunOnce
        /\ requested = Cardinality(Admitted)
    BY DEF Inductive, Passes, Knowledge, TypeOK, RowTypeOK,
      RequestsAreInvocations
  <2> DEFINE number == [e \in Born |-> passGen[e]]
  <2>2. number \in Injection(Born, 1 .. requested)
    BY <2>1 DEF Injection, IsInjective, PassesFollowRequests, GenerationsRunOnce
  <2>3. IsFiniteSet(1 .. requested) /\ Cardinality(1 .. requested) = requested
    BY <2>1, FS_Interval
  <2> HIDE DEF number
  <2> QED
    BY <2>1, <2>2, <2>3, FS_Injection DEF PassesAreBounded
<1> QED
  BY <1>1, InvariantHolds, PTL

(* registerExecution, authorizeExecutionStart, clearExecutionAfterBoundary *)
(* and finishCoalescedPass each re-read the row and refuse a caller it no  *)
(* longer names.  Whoever gets to them is named: no pass is ever lost to a *)
(* refused fence, only to calls that fail.                                 *)
THEOREM FencesLetOwnersPassHolds == Spec => []FencesLetOwnersPass
<1>1. Inductive => FencesLetOwnersPass
  <2> SUFFICES ASSUME Inductive, NEW l \in Launchers,
                      at[l] \in {"prepared", "registered", "clear",
                                 "provision", "finish"}
               PROVE  /\ at[l] = "prepared" => RegisterAllowed(l, gen[l])
                      /\ at[l] = "registered" => AuthorizeAllowed(l, target[l])
                      /\ at[l] = "clear" => ClearAllowed(l, target[l])
                      /\ at[l] \in {"provision", "finish"}
                           => FinishAllowed(l, gen[l])
    BY DEF FencesLetOwnersPass
  <2>1. OwnerKnows(l) /\ OwnerIsInStep(l) /\ at[l] \in OwnerPlaces
    BY DEF Inductive, Knowledge, Passes, OwnerPlaces
  <2> QED
    BY <2>1 DEF OwnerKnows, OwnerIsInStep, RegisterAllowed, AuthorizeAllowed,
      ClearAllowed, FinishAllowed
<1> QED
  BY <1>1, InvariantHolds, PTL

-----------------------------------------------------------------------------
(* Launchers only go on: one lemma per group of places.                    *)

(* The admission, and the places outside of any termination.               *)
LEMMA AdmissionGoesOn ==
  ASSUME TypeOK, NEW l \in Launchers,
         \/ Observe(l) \/ LoseRace(l) \/ Coalesce(l) \/ TakeOver(l)
         \/ AdmissionFails(l) \/ NothingToRecover(l) \/ GiveUpAdmitted(l)
         \/ Provision(l) \/ Spawn(l) \/ SpawnFails(l) \/ ReceiveReady(l)
         \/ Register(l) \/ Authorize(l) \/ SendStart(l) \/ StartLost(l)
         \/ DoNotFinish(l) \/ Release(l) \/ ProcessExits(l) \/ Cancel(l)
  PROVE  GoesOn(l)
<1>1. /\ at \in [Launchers -> Places] /\ tries \in [Launchers -> Nat]
      /\ at[l] \in Places
  BY DEF TypeOK
<1> USE <1>1 DEF GoesOn, Left, PlaceRank, Terminating, Goto
<1>2. CASE LoseRace(l)
  <2>1. CASE tries[l] + 1 < MaxAttempts
    BY <1>2, <2>1 DEF LoseRace, TriesAgain
  <2>2. CASE ~(tries[l] + 1 < MaxAttempts)
    BY <1>2, <2>2 DEF LoseRace
  <2> QED
    BY <2>1, <2>2
<1>3. CASE Observe(l) \/ Coalesce(l) \/ TakeOver(l) \/ AdmissionFails(l)
  BY <1>3 DEF Observe, Coalesce, TakeOver, AdmissionFails
<1>4. CASE NothingToRecover(l) \/ GiveUpAdmitted(l) \/ Provision(l)
  BY <1>4 DEF NothingToRecover, GiveUpAdmitted, Provision
<1>5. CASE Spawn(l) \/ SpawnFails(l) \/ ReceiveReady(l)
  BY <1>5 DEF Spawn, SpawnFails, ReceiveReady
<1>6. CASE Register(l) \/ Authorize(l) \/ SendStart(l) \/ StartLost(l)
  BY <1>6 DEF Register, Authorize, SendStart, StartLost
<1>7. CASE DoNotFinish(l) \/ Release(l) \/ ProcessExits(l)
  BY <1>7 DEF DoNotFinish, Release, ProcessExits
<1>8. CASE Cancel(l)
  BY <1>8 DEF Cancel
<1> QED
  BY <1>2, <1>3, <1>4, <1>5, <1>6, <1>7, <1>8

(* What a launcher still has to do is more than nothing until it is dead.  *)
LEMMA SomethingIsLeft ==
  ASSUME TypeOK, NEW l \in Launchers, OwnerIsInStep(l)
  PROVE  /\ at[l] \in OwnerPlaces \ {"release"} => 2 < Left(l)
         /\ at[l] \notin {"dead", "coalesced"} => 0 < Left(l)
<1>1. at[l] \in Places /\ task[l] \in Tasks /\ stage[l] \in {"initial", "TERM", "KILL"}
  BY DEF TypeOK
<1> USE <1>1 DEF Left, PlaceRank, TerminationRank, StageRank, LookRank,
      ClosingRank, ClearRank, Places, Terminating, OwnerPlaces, Tasks,
      OwnerIsInStep
<1>2. CASE at[l] \in Terminating
  <2>1. TerminationRank[task[l]] \in Nat /\ 6 <= TerminationRank[task[l]]
    BY <1>2
  <2>2. StageRank[stage[l]] \in Nat /\ LookRank[at[l]] \in Nat
    BY <1>2
  <2> HIDE DEF TerminationRank, StageRank, LookRank
  <2> QED
    BY <1>2, <2>1, <2>2
<1>3. CASE at[l] \in {"closing", "clear"}
  BY <1>3
<1>4. CASE at[l] \notin Terminating \cup {"closing", "clear"}
  BY <1>4
<1> QED
  BY <1>2, <1>3, <1>4

(* Every way into a termination, and out of one that throws.               *)
LEMMA TerminationsGoOn ==
  ASSUME TypeOK, NEW l \in Launchers, OwnerIsInStep(l),
         NEW why \in Tasks \ {"none", "pass"}, NEW e, Terminate(l, e, why),
         TerminationRank[why] + 8 < Left(l)
  PROVE  GoesOn(l)
<1>1. at'[l] = "probe" /\ task'[l] = why /\ stage'[l] = "initial"
  BY DEF Terminate, Goto, TypeOK
<1>2. Left(l)' = TerminationRank[why] + 6 + 2
  BY <1>1 DEF Left, Terminating, StageRank, LookRank
<1>3. TerminationRank[why] \in Nat
  BY DEF TerminationRank, Tasks
<1> QED
  BY <1>2, <1>3 DEF GoesOn

(* The ways into a termination.                                            *)
LEMMA EntriesGoOn ==
  ASSUME TypeOK, NEW l \in Launchers, OwnerIsInStep(l),
         \/ BeginRecovery(l) \/ HandshakeFails(l) \/ NotRegistered(l)
         \/ NotAuthorized(l) \/ StartUndeliverable(l) \/ ObserveClose(l)
         \/ AbortRunning(l) \/ GroupRemains(l)
  PROVE  GoesOn(l)
<1>1. at \in [Launchers -> Places] /\ task \in [Launchers -> Tasks]
  BY DEF TypeOK
<1> USE <1>1 DEF PlaceRank, TerminationRank, Terminating, Tasks
<1>2. at[l] \in DOMAIN PlaceRank => Left(l) = PlaceRank[at[l]]
  BY DEF Left
<1>3. CASE BeginRecovery(l)
  BY <1>2, <1>3, TerminationsGoOn DEF BeginRecovery
<1>4. CASE HandshakeFails(l)
  <2>1. CASE Terminate(l, target[l], "abandon")
    BY <1>2, <1>4, <2>1, TerminationsGoOn DEF HandshakeFails
  <2>2. CASE Goto(l, "release")
    BY <1>4, <2>2 DEF HandshakeFails, Goto, GoesOn, Left
  <2> QED
    BY <1>4, <2>1, <2>2 DEF HandshakeFails
<1>5. CASE NotRegistered(l)
  BY <1>2, <1>5, TerminationsGoOn DEF NotRegistered
<1>6. CASE NotAuthorized(l)
  BY <1>2, <1>6, TerminationsGoOn DEF NotAuthorized
<1>7. CASE StartUndeliverable(l) \/ AbortRunning(l)
  BY <1>2, <1>7, TerminationsGoOn DEF StartUndeliverable, AbortRunning
<1>7a. CASE GroupRemains(l)
  <2>1. Left(l) = 16
    BY <1>7a DEF GroupRemains, Left, ClosingRank
  <2> QED
    BY <1>7a, <2>1, TerminationsGoOn DEF GroupRemains
<1>8. CASE ObserveClose(l)
  <2>1. CASE Terminate(l, target[l], "cleanup")
    BY <1>2, <1>8, <2>1, TerminationsGoOn DEF ObserveClose
  <2>2. CASE Goto(l, "clear") /\ task' = [task EXCEPT ![l] = "pass"]
    BY <1>8, <2>2 DEF ObserveClose, Goto, GoesOn, Left, ClearRank
  <2> QED
    BY <1>8, <2>1, <2>2 DEF ObserveClose
<1> QED
  BY <1>3, <1>4, <1>5, <1>6, <1>7, <1>7a, <1>8

(* A termination that ends, either way.                                    *)
LEMMA EndsGoOn ==
  ASSUME TypeOK, NEW l \in Launchers, OwnerIsInStep(l),
         at[l] \in Terminating, BoundaryEnded(l) \/ TerminationThrows(l)
  PROVE  GoesOn(l)
<1>1. /\ at \in [Launchers -> Places] /\ task[l] \in Tasks \ {"none", "pass"}
      /\ stage[l] \in {"initial", "TERM", "KILL"}
  BY DEF TypeOK, OwnerIsInStep, OwnerPlaces, Terminating
<1>2. Left(l) = TerminationRank[task[l]] + StageRank[stage[l]] + LookRank[at[l]]
  BY DEF Left
<1>3. StageRank[stage[l]] \in Nat /\ LookRank[at[l]] \in Nat
  BY <1>1 DEF StageRank, LookRank, Terminating
<1>4. /\ TerminationRank[task[l]] \in Nat /\ 6 <= TerminationRank[task[l]]
      /\ task[l] = "recover" => TerminationRank[task[l]] = 48
      /\ task[l] \in {"abandon", "withdraw", "cancel", "interrupt"}
           => TerminationRank[task[l]] = 24
  BY <1>1 DEF TerminationRank, Tasks
<1>5. Left(l) \in Nat /\ TerminationRank[task[l]] <= Left(l)
  BY <1>2, <1>3, <1>4
<1> USE <1>1, <1>4, <1>5 DEF Goto, GoesOn
<1>6. CASE BoundaryEnded(l)
  <2>1. task' = task /\ at'[l] = IF task[l] = "recover" THEN "clear" ELSE "closing"
    BY <1>6 DEF BoundaryEnded
  <2>2. Left(l)' = IF task[l] = "recover" THEN 47 ELSE ClosingRank[task[l]]
    BY <2>1 DEF Left, Terminating, ClearRank
  <2> QED
    BY <2>2 DEF ClosingRank, Tasks
<1>7. CASE TerminationThrows(l)
  <2>1. CASE Goto(l, "release")
    <3>1. Left(l)' = 2
      BY <2>1 DEF Left, Terminating, PlaceRank
    <3> QED
      BY <3>1
  <2>2. CASE /\ task[l] \in {"withdraw", "cancel", "interrupt"}
             /\ \/ Terminate(l, target[l], "discard")
                \/ Terminate(l, target[l], "cleanup")
    BY <2>2, TerminationsGoOn DEF TerminationRank, Tasks
  <2> QED
    BY <1>7, <2>1, <2>2 DEF TerminationThrows
<1> QED
  BY <1>6, <1>7

(* Inside a termination.                                                   *)
LEMMA InsideGoesOn ==
  ASSUME TypeOK, NEW l \in Launchers, OwnerIsInStep(l),
         \/ ProbeGroup(l) \/ FindDead(l) \/ FindAmbiguous(l) \/ FindExact(l)
         \/ GroupAbsent(l) \/ GraceExpires(l) \/ BoundaryCloses(l)
  PROVE  GoesOn(l)
<1>1. /\ at \in [Launchers -> Places] /\ task[l] \in Tasks \ {"none"}
      /\ stage \in [Launchers -> {"initial", "TERM", "KILL"}]
      /\ at[l] \in Terminating => task[l] # "pass"
      /\ at[l] = "closing" => task[l] \notin {"none", "pass", "recover"}
  BY DEF TypeOK, OwnerIsInStep, OwnerPlaces, Terminating, ProbeGroup, FindDead,
    FindAmbiguous, FindExact, GroupAbsent, GraceExpires, BoundaryCloses
<1> USE <1>1 DEF Terminating, Goto
<1>2. CASE FindDead(l) \/ GroupAbsent(l) \/ FindAmbiguous(l)
  BY <1>2, EndsGoOn DEF FindDead, GroupAbsent, FindAmbiguous
<1>3. CASE GraceExpires(l) /\ TerminationThrows(l)
  BY <1>3, EndsGoOn DEF GraceExpires
<1>4. CASE \/ ProbeGroup(l) \/ FindExact(l)
           \/ GraceExpires(l) /\ ~TerminationThrows(l)
  <2>1. /\ at[l] \in Terminating /\ at'[l] \in Terminating /\ task' = task
        /\ StageRank[stage'[l]] + LookRank[at'[l]]
             < StageRank[stage[l]] + LookRank[at[l]]
    BY <1>4 DEF ProbeGroup, FindExact, GraceExpires, StageRank, LookRank
  <2>2. TerminationRank[task[l]] \in Nat
    BY <2>1 DEF TerminationRank, Tasks
  <2>3. /\ StageRank[stage[l]] \in Nat /\ LookRank[at[l]] \in Nat
        /\ StageRank[stage'[l]] \in Nat /\ LookRank[at'[l]] \in Nat
    BY <1>4, <2>1 DEF ProbeGroup, FindExact, GraceExpires, StageRank, LookRank
  <2>4. /\ Left(l) = TerminationRank[task[l]] + StageRank[stage[l]] + LookRank[at[l]]
        /\ Left(l)' = TerminationRank[task[l]] + StageRank[stage'[l]] + LookRank[at'[l]]
    BY <2>1 DEF Left
  <2> QED
    BY <2>1, <2>2, <2>3, <2>4 DEF GoesOn
<1>5. CASE BoundaryCloses(l)
  BY <1>5 DEF BoundaryCloses, GoesOn, Left, ClosingRank, ClearRank, PlaceRank,
    Tasks
<1> QED
  BY <1>2, <1>3, <1>4, <1>5

(* After it, or after the pass.                                            *)
LEMMA ClearsGoOn ==
  ASSUME TypeOK, NEW l \in Launchers, OwnerIsInStep(l),
         Clear(l) \/ ClearFails(l) \/ Finish(l) \/ ProvisioningFails(l)
  PROVE  GoesOn(l)
<1>1. /\ at \in [Launchers -> Places] /\ gen \in [Launchers -> Nat]
      /\ requested \in Nat
      /\ at[l] = "clear" =>
           task[l] \in {"recover", "pass", "cancel", "interrupt", "cleanup"}
  BY DEF TypeOK, RowTypeOK, OwnerIsInStep, OwnerPlaces
<1>2. at[l] = "clear" => Left(l) = ClearRank[task[l]]
  BY DEF Left, Terminating
<1>3. CASE Clear(l)
  BY <1>1, <1>3 DEF Clear, Goto, GoesOn, Left, Terminating, ClearRank,
    PlaceRank
<1>4. CASE ClearFails(l)
  <2>1. CASE Goto(l, "release")
    BY <1>1, <1>4, <2>1 DEF ClearFails, Goto, GoesOn, Left, Terminating,
      ClearRank, PlaceRank
  <2>2. CASE /\ task[l] \in {"pass", "cancel", "interrupt"}
             /\ Terminate(l, target[l], "cleanup")
    BY <1>1, <1>2, <1>4, <2>2, TerminationsGoOn
       DEF ClearFails, ClearRank, TerminationRank, Tasks
  <2> QED
    BY <1>4, <2>1, <2>2 DEF ClearFails
<1>5. CASE Finish(l) \/ ProvisioningFails(l)
  <2>1. CASE requested > gen[l]
    BY <1>1, <1>5, <2>1 DEF Finish, ProvisioningFails, GoesOn, PassesAgain
  <2>2. CASE ~(requested > gen[l])
    <3>1. at'[l] = "returned" /\ at[l] \in {"finish", "provision"}
      BY <1>1, <1>5, <2>2 DEF Finish, ProvisioningFails, Goto
    <3> QED
      BY <3>1 DEF GoesOn, Left, Terminating, PlaceRank
  <2> QED
    BY <2>1, <2>2
<1> QED
  BY <1>3, <1>4, <1>5

(* A launcher that dies, or gives up in its handler of last resort.        *)
LEMMA FaultsGoOn ==
  ASSUME TypeOK, NEW l \in Launchers, OwnerIsInStep(l), Crash(l) \/ Uncaught(l)
  PROVE  GoesOn(l)
<1>1. at \in [Launchers -> Places]
  BY DEF TypeOK
<1>2. CASE Crash(l)
  <2>1. Left(l)' = 0
    BY <1>1, <1>2 DEF Crash, Goto, Left, Terminating, PlaceRank
  <2> QED
    BY <1>2, <2>1, SomethingIsLeft DEF Crash, GoesOn
<1>3. CASE Uncaught(l)
  <2>1. Left(l)' = 2
    BY <1>1, <1>3 DEF Uncaught, Goto, Left, Terminating, PlaceRank
  <2>2. CASE at[l] = "release"
    BY <1>1, <1>3, <2>2 DEF Uncaught, Goto, GoesOn
  <2> QED
    BY <1>3, <2>1, <2>2, SomethingIsLeft DEF Uncaught, GoesOn
<1> QED
  BY <1>2, <1>3

(* Beside at most one pass for each request and the bounded attempts of    *)
(* the admission, every change of place, purpose or signal of a launcher   *)
(* brings its end nearer.                                                  *)
THEOREM LaunchersOnlyGoOnHolds == Spec => LaunchersOnlyGoOn
<1> DEFINE AllGoOn == \A l \in Launchers : GoesOn(l)
<1>1. Inductive /\ [Next]_vars => [AllGoOn]_vars
  <2> SUFFICES ASSUME Inductive, Next, NEW k \in Launchers PROVE GoesOn(k)
    OBVIOUS
  <2>1. /\ Knowledge /\ TypeOK /\ RowReadable
        /\ \A l \in Launchers : OwnerIsInStep(l)
    BY DEF Inductive, Knowledge, Records, Passes
  <2>2. ASSUME NEW l \in Launchers, LauncherStep(l) \/ LauncherFault(l)
        PROVE  GoesOn(k)
    <3>1. CASE k = l
      BY <2>1, <2>2, <3>1, AdmissionGoesOn, EntriesGoOn, InsideGoesOn,
         ClearsGoOn, FaultsGoOn DEF LauncherStep, LauncherFault
    <3>2. CASE k # l
      BY <2>1, <2>2, <3>2, StepsAdvance DEF Advances, LocalTo, SameLocals, GoesOn
    <3> QED
      BY <3>1, <3>2
  <2>3. CASE UNCHANGED launcher
    BY <2>3 DEF launcher, GoesOn
  <2> QED
    BY <2>2, <2>3 DEF Next, BoundaryStep, Outside
<1> QED
  BY <1>1, InvariantHolds, PTL DEF Spec, LaunchersOnlyGoOn

-----------------------------------------------------------------------------
(* Every variable keeps its type.                                          *)
THEOREM TypeCorrect == Spec => []TypeOK
<1>1. Knowledge => TypeOK
  BY DEF Knowledge
<1> QED
  BY InitKnowledge, NextKnowledge, <1>1, PTL DEF Spec

(* What the places in the owner's code know holds throughout.              *)
LEMMA KnowledgeHolds == Spec => []Knowledge
BY InitKnowledge, NextKnowledge, PTL DEF Spec

(* EXEC-INV-2 and EXEC-INV-3: whatever runs Git, or is about to, is the    *)
(* execution that the row records with its start authorized.               *)
THEOREM GitRunsOnlyRecorded == Spec => []CapableIsRecorded
<1>1. Knowledge => CapableIsRecorded
  BY DEF Knowledge
<1> QED
  BY KnowledgeHolds, <1>1, PTL

(* SINGLE_LIVE_GIT_EXECUTION: at most one boundary can touch repositories. *)
THEOREM GitRunsOnce == Spec => []SingleLiveGitExecution
<1>1. Knowledge => SingleLiveGitExecution
  BY DEF Knowledge, CapableIsRecorded, SingleLiveGitExecution, MayRunGit
<1> QED
  BY KnowledgeHolds, <1>1, PTL

(* EXEC-INV-4: past recovery a launcher coexists with no foreign boundary. *)
THEOREM RecoveryIsExclusive == Spec => []RecoveryNeverOverlaps
<1>1. Knowledge => RecoveryNeverOverlaps
  <2> SUFFICES ASSUME Knowledge, NEW l \in Launchers, NEW e \in Executions,
                      PastRecovery(l), MayRunGit(e)
               PROVE  spawner[e] = l /\ at[l] = "running"
    BY DEF RecoveryNeverOverlaps
  <2>1. execToken = e /\ e # None /\ OwnerKnows(l)
    BY NoneIsNoToken DEF Knowledge, CapableIsRecorded
  <2>2. at[l] \in {"registered", "authorized", "running"} /\ e = target[l]
    BY <2>1 DEF OwnerKnows, PastRecovery, OwnerPlaces
  <2> QED
    BY <2>1, <2>2 DEF OwnerKnows, OwnPass, OwnerPlaces
<1> QED
  BY KnowledgeHolds, <1>1, PTL

(* EXEC-INV-10: whoever is in the owner's code is the owner of the row.    *)
THEOREM OwnershipIsExclusive == Spec => []OwnerIsSingle
<1>1. Knowledge => OwnerIsSingle
  BY DEF Knowledge, OwnerKnows, OwnerIsSingle
<1> QED
  BY KnowledgeHolds, <1>1, PTL

(* A completed generation had a pass of its own that ended in success.     *)
THEOREM CompletionsAreEarned == Spec => []CompletionIsEarned
<1>1. Knowledge => CompletionIsEarned
  BY DEF Knowledge
<1> QED
  BY KnowledgeHolds, <1>1, PTL

(* EXEC-INV-6 and EXEC-INV-11: completion moves only in the absence of any *)
(* boundary that runs, or is about to run, Git.                            *)
THEOREM CompletionWaitsForDeath == Spec => CompletionFollowsBoundaryDeath
<1> DEFINE Step == completed' # completed => \A e \in Executions : ~MayRunGit(e)
<1>1. Knowledge /\ [Next]_vars => [Step]_vars
  <2> SUFFICES ASSUME Knowledge, [Next]_vars, completed' # completed,
    NEW e \in Executions
               PROVE  ~MayRunGit(e)
    OBVIOUS
  <2>1. execToken = None
    <3>1. PICK l \in Launchers : LauncherStep(l) \/ LauncherFault(l)
      BY DEF Next, vars, BoundaryStep, Outside, row
    <3>2. Finish(l) \/ ProvisioningFails(l)
      <4>1. Transactions(l)
        BY <3>1, OthersKeepRow DEF Knowledge, LauncherKeepsRow, row
      <4>2. ~(Observe(l) \/ LoseRace(l) \/ ProcessExits(l) \/ Crash(l))
        BY DEF Observe, LoseRace, ProcessExits, Crash, row
      <4>3. ~(Coalesce(l) \/ TakeOver(l))
        BY DEF Coalesce, TakeOver, RowCoalesce, RowTakeOver
      <4>4. ~(Clear(l) \/ Register(l) \/ Authorize(l) \/ Release(l))
        BY DEF Clear, Register, Authorize, Release, RowClear, RowRegister,
          RowAuthorize, RowRelease, row
      <4> QED
        BY <4>1, <4>2, <4>3, <4>4 DEF Transactions
    <3> QED
      BY <3>2 DEF Finish, ProvisioningFails, RowFinish, FinishAllowed
  <2> QED
    BY <2>1, NoneIsNoToken DEF Knowledge, CapableIsRecorded
<1>2. [][Next]_vars /\ []Knowledge => [][Step]_vars
  BY <1>1, PTL
<1> QED
  BY KnowledgeHolds, <1>2, PTL DEF Spec, CompletionFollowsBoundaryDeath

(* EXEC-INV-9: a group signal reaches the group it was meant for or none.  *)
THEOREM SignalsReachTheirGroup == Spec => StrangersAreNotSignalled
<1> DEFINE Step == \A l \in Launchers :
                     at[l] = "identify" /\ at'[l] = "await" => ~stranger[target[l]]
<1>1. Knowledge /\ [Next]_vars => [Step]_vars
  <2> SUFFICES ASSUME Knowledge, [Next]_vars, NEW l \in Launchers,
                      at[l] = "identify", at'[l] = "await", stranger[target[l]]
               PROVE  FALSE
    OBVIOUS
  <2>1. target[l] \in Executions
    BY DEF Knowledge, OwnerKnows, OwnerPlaces, WithTarget, Terminating
  <2>2. ctl[target[l]] = "gone"
    BY <2>1 DEF Knowledge, StrangersFollowDeath, Dead
  <2>3. ~FindExact(l)
    BY <2>2 DEF FindExact, LeaderAlive
  <2>4. PICK k \in Launchers : LauncherStep(k) \/ LauncherFault(k)
    <3>1. at' # at
      OBVIOUS
    <3> QED
      BY <3>1 DEF Next, vars, launcher, BoundaryStep, Outside
  <2>5. at \in [Launchers -> Places]
    BY DEF Knowledge, TypeOK
  <2>6. \A place \in Places \ {"await"} : at' # [at EXCEPT ![k] = place]
    BY <2>5
  <2> QED
    BY <2>3, <2>4, <2>5, <2>6 DEF LauncherStep, LauncherFault, Places,
      OwnerPlaces,
       Terminating, Goto, Terminate, BoundaryEnded, TerminationThrows,
       Observe, LoseRace, Coalesce, TakeOver, AdmissionFails, ProbeGroup,
       FindDead,
       FindAmbiguous, FindExact, GroupAbsent, GraceExpires, BoundaryCloses,
       BeginRecovery, NothingToRecover, GiveUpAdmitted, Provision,
       ProvisioningFails, Clear, ClearFails, Spawn,
       SpawnFails, ReceiveReady, HandshakeFails, Register, NotRegistered,
       Authorize,
       NotAuthorized, SendStart, StartUndeliverable, StartLost, ObserveClose,
       AbortRunning, GroupRemains,
       Finish, DoNotFinish, Release, ProcessExits, Cancel, Crash, Uncaught
<1>2. [][Next]_vars /\ []Knowledge => [][Step]_vars
  BY <1>1, PTL
<1> QED
  BY KnowledgeHolds, <1>2, PTL DEF Spec, StrangersAreNotSignalled
-----------------------------------------------------------------------------
(* Launchers implement callers of the coordinator: each of their           *)
(* transactions is one of the Reconciler's, by a process that is alive,    *)
(* and whatever else happens is a stutter or a death.                      *)

Living == [l \in Launchers |-> Alive(l)]

(* A launcher that goes on living changes nobody's life.                   *)
LEMMA LifeGoesOn ==
  ASSUME TypeOK, NEW l \in Launchers, at[l] # "dead",
         NEW place, place # "dead", at' = [at EXCEPT ![l] = place]
  PROVE  Living[l] /\ UNCHANGED Living
BY DEF TypeOK, Living, Alive

(* Sampling, and an attempt lost to a changed owner. *)
LEMMA SamplesAreObservations ==
  ASSUME Inductive, NEW l \in Launchers, Observe(l) \/ LoseRace(l)
  PROVE  Coordinator!Next
<1>1. TypeOK
  BY DEF Inductive, Knowledge
<1>2. CASE Observe(l)
  <2>1. Living[l] /\ UNCHANGED Living
    BY <1>1, <1>2, LifeGoesOn DEF Observe, Goto
  <2>2. PICK verdict \in BOOLEAN :
          /\ owner = None => ~verdict
          /\ owner # None /\ Alive(owner) => verdict
          /\ seenAlive' = [seenAlive EXCEPT ![l] = verdict]
    BY <1>2 DEF Observe
  <2>3. Coordinator!JudgedAlive(verdict)
    BY <1>1, <2>2 DEF Coordinator!JudgedAlive, TypeOK, RowTypeOK
  <2>4. /\ seenRow' = [seenRow EXCEPT ![l] = Coordinator!AdmissionView]
        /\ UNCHANGED Coordinator!row
    BY <1>2 DEF Observe, AdmissionView, Coordinator!AdmissionView, row,
      Coordinator!row
  <2>5. Coordinator!Observe(l)
    BY <2>1, <2>2, <2>3, <2>4 DEF Coordinator!Observe, Living
  <2> QED
    BY <2>5 DEF Coordinator!Next
<1>3. CASE LoseRace(l)
  <2>1. Living[l] /\ UNCHANGED Living
    BY <1>1, <1>3, LifeGoesOn DEF LoseRace, Goto
  <2>2. /\ seenRow[l] # Coordinator!AdmissionView
        /\ Coordinator!ForgetSample(l)
        /\ UNCHANGED Coordinator!row
    BY <1>3 DEF LoseRace, Unchanged, AdmissionView, Coordinator!AdmissionView,
      ForgetSample, Coordinator!ForgetSample, NoView, Coordinator!NoView,
      NoGeneration, Coordinator!NoGeneration, row, Coordinator!row
  <2>3. Coordinator!LoseRace(l)
    BY <2>1, <2>2 DEF Coordinator!LoseRace, Living
  <2> QED
    BY <2>3 DEF Coordinator!Next
<1> QED
  BY <1>2, <1>3

(* Admission commits on the row that was sampled. *)
LEMMA AdmissionsAreAdmissions ==
  ASSUME Inductive, NEW l \in Launchers, Coalesce(l) \/ TakeOver(l)
  PROVE  Coordinator!Next
<1>1. TypeOK
  BY DEF Inductive, Knowledge
<1>2. Living[l] /\ UNCHANGED Living
  <2>1. /\ at[l] # "dead"
        /\ \/ at' = [at EXCEPT ![l] = "coalesced"]
           \/ at' = [at EXCEPT ![l] = "admitted"]
    BY DEF Coalesce, TakeOver, Goto
  <2> QED
    BY <1>1, <2>1, LifeGoesOn
<1>3. /\ requested + 1 \in Nat
      /\ seenRow[l] = Coordinator!AdmissionView
      /\ Coordinator!ForgetSample(l)
  BY <1>1 DEF Coalesce, TakeOver, Unchanged, AdmissionView,
    Coordinator!AdmissionView, ForgetSample, Coordinator!ForgetSample, NoView,
    Coordinator!NoView, NoGeneration, Coordinator!NoGeneration, TypeOK,
    RowTypeOK
<1>4. CASE Coalesce(l)
  <2>1. seenAlive[l] /\ Coordinator!RowCoalesce
    BY <1>4 DEF Coalesce, RowCoalesce, Coordinator!RowCoalesce, ownerColumns,
      execColumns, Coordinator!ownerColumns, Coordinator!execColumns
  <2>2. Coordinator!Coalesce(l)
    BY <1>2, <1>3, <2>1 DEF Coordinator!Coalesce, Living
  <2> QED
    BY <2>2 DEF Coordinator!Next
<1>5. CASE TakeOver(l)
  <2>1. ~seenAlive[l] /\ Coordinator!RowTakeOver(l)
    BY <1>5 DEF TakeOver, RowTakeOver, Coordinator!RowTakeOver, execColumns,
      Coordinator!execColumns
  <2>2. Coordinator!TakeOver(l)
    BY <1>2, <1>3, <2>1 DEF Coordinator!TakeOver, Living
  <2> QED
    BY <2>2 DEF Coordinator!Next
<1> QED
  BY <1>4, <1>5

(* The end of a process is a death, whatever it leaves behind. *)
LEMMA EndsAreDeaths ==
  ASSUME Inductive, NEW l \in Launchers, ProcessExits(l) \/ Crash(l)
  PROVE  Coordinator!Next
<1>1. at[l] # "dead" /\ at' = [at EXCEPT ![l] = "dead"]
  BY DEF ProcessExits, Crash, Goto
<1>2. Living[l] /\ Living' = [Living EXCEPT ![l] = FALSE]
  BY <1>1 DEF Living, Alive, Inductive, Knowledge, TypeOK
<1>3. UNCHANGED <<Coordinator!row, seenRow, seenAlive>>
  BY DEF ProcessExits, Crash, row, Coordinator!row, admission
<1>4. Coordinator!Die(l)
  BY <1>2, <1>3 DEF Coordinator!Die, Living
<1> QED
  BY <1>4 DEF Coordinator!Next

(* The fenced transactions: the generation an owner names is the running   *)
(* one, which was requested.                                               *)
LEMMA TransactionsAreTransactions ==
  ASSUME Inductive, NEW l \in Launchers,
         \/ Clear(l) \/ Register(l) \/ Authorize(l) \/ Finish(l) \/ Release(l)
         \/ ProvisioningFails(l)
  PROVE  [Coordinator!Next]_(Coordinator!vars)
<1>1. Knowledge /\ TypeOK /\ RowTypeOK
  BY DEF Inductive, Knowledge, TypeOK
<1>2. at[l] \in OwnerPlaces /\ at[l] # "dead"
  BY DEF Clear, Register, Authorize, Finish, Release, ProvisioningFails,
    OwnerPlaces
<1>3. Living[l] /\ UNCHANGED Living
  <2>1. \E place \in Places \ {"dead"} : at' = [at EXCEPT ![l] = place]
    BY DEF Clear, Register, Authorize, Finish, Release, ProvisioningFails,
      Goto, Places, OwnerPlaces
  <2> QED
    BY <1>1, <1>2, <2>1, LifeGoesOn
<1>4. UNCHANGED <<seenRow, seenAlive>>
  BY DEF Clear, Register, Authorize, Finish, Release, ProvisioningFails,
    admission
<1>5. running = gen[l] /\ owner = l => gen[l] \in 0 .. requested
  BY <1>1, NoneIsNoToken DEF Inductive, Records, RowReadable,
    GenerationsOrdered, RowTypeOK
<1>6. at[l] \in {"prepared", "registered", "clear"} =>
        target[l] \in Executions
  BY <1>1, <1>2 DEF Knowledge, OwnerKnows, WithTarget
<1>7. CASE Clear(l)
  <2>1. target[l] \in Executions /\ Coordinator!RowClear(l, target[l])
    BY <1>6, <1>7 DEF Clear, RowClear, ClearAllowed, Coordinator!RowClear,
      Coordinator!ClearAllowed, ownerColumns, Coordinator!ownerColumns,
      NoGeneration, Coordinator!NoGeneration
  <2>2. Coordinator!Clear(l)
    BY <1>3, <1>4, <2>1 DEF Coordinator!Clear, Living
  <2> QED
    BY <2>2 DEF Coordinator!Next
<1>8. CASE Register(l)
  <2>1. /\ target[l] \in Executions /\ gen[l] \in 0 .. requested
        /\ Coordinator!RowRegister(l, gen[l], target[l])
    BY <1>5, <1>6, <1>8 DEF Register, RowRegister, RegisterAllowed,
      Coordinator!RowRegister, Coordinator!RegisterAllowed, ownerColumns,
      Coordinator!ownerColumns
  <2>2. Coordinator!Register(l)
    BY <1>3, <1>4, <2>1 DEF Coordinator!Register, Living
  <2> QED
    BY <2>2 DEF Coordinator!Next
<1>9. CASE Authorize(l)
  <2>1. target[l] \in Executions /\ Coordinator!RowAuthorize(l, target[l])
    BY <1>6, <1>9 DEF Authorize, RowAuthorize, AuthorizeAllowed,
      Coordinator!RowAuthorize, Coordinator!AuthorizeAllowed, ownerColumns,
      Coordinator!ownerColumns
  <2>2. Coordinator!Authorize(l)
    BY <1>3, <1>4, <2>1 DEF Coordinator!Authorize, Living
  <2> QED
    BY <2>2 DEF Coordinator!Next
<1>10. CASE Finish(l) \/ ProvisioningFails(l)
  <2>1. PICK success \in BOOLEAN : RowFinish(l, gen[l], success)
    <3>1. /\ (outcome[target[l]] = "success") \in BOOLEAN
          /\ FALSE \in BOOLEAN
      OBVIOUS
    <3> QED
      BY <1>10, <3>1 DEF Finish, ProvisioningFails
  <2>2. gen[l] \in 0 .. requested
    BY <1>5, <2>1 DEF RowFinish, FinishAllowed
  <2>3. Coordinator!RowFinish(l, gen[l], success)
    BY <2>1 DEF RowFinish, FinishAllowed, Coordinator!RowFinish,
      Coordinator!FinishAllowed, execColumns, Coordinator!execColumns,
      NoGeneration, Coordinator!NoGeneration
  <2>4. Coordinator!Finish(l)
    BY <1>3, <1>4, <2>2, <2>3 DEF Coordinator!Finish, Living
  <2> QED
    BY <2>4 DEF Coordinator!Next
<1>11. CASE Release(l) /\ RowRelease(l)
  <2>1. Coordinator!RowRelease(l)
    BY <1>11 DEF RowRelease, ReleaseAllowed, Coordinator!RowRelease,
      Coordinator!ReleaseAllowed, execColumns, Coordinator!execColumns,
      NoGeneration, Coordinator!NoGeneration
  <2>2. Coordinator!Release(l)
    BY <1>3, <1>4, <2>1 DEF Coordinator!Release, Living
  <2> QED
    BY <2>2 DEF Coordinator!Next
<1>12. CASE Release(l) /\ ~RowRelease(l)
  <2>1. UNCHANGED row
    BY <1>12 DEF Release
  <2> QED
    BY <1>3, <1>4, <2>1 DEF row, Coordinator!vars, Coordinator!row, Living
<1> QED
  BY <1>7, <1>8, <1>9, <1>10, <1>11, <1>12

(* Launchers use the coordinator only through its transactions: whatever   *)
(* is proved of every caller of the Reconciler holds of them.              *)
THEOREM LaunchersAreCallers == Spec => ImplementsReconciler
<1>1. Init => Coordinator!Init
  BY DEF Init, RowInit, Coordinator!Init, Coordinator!RowInit, NoView,
    Coordinator!NoView, NoGeneration, Coordinator!NoGeneration, Alive
<1>2. Inductive /\ [Next]_vars => [Coordinator!Next]_(Coordinator!vars)
  <2> SUFFICES ASSUME Inductive, [Next]_vars
               PROVE  [Coordinator!Next]_(Coordinator!vars)
    OBVIOUS
  <2>1. TypeOK
    BY DEF Inductive, Knowledge
  <2>2. ASSUME UNCHANGED <<row, seenRow, seenAlive, Living>>
        PROVE  UNCHANGED Coordinator!vars
    BY <2>2 DEF Coordinator!vars, Coordinator!row, row, Living
  <2>3. ASSUME NEW l \in Launchers, LauncherStep(l) \/ LauncherFault(l),
               ~Transactions(l)
        PROVE  UNCHANGED Coordinator!vars
    <3>1. LauncherKeepsRow(l)
      BY <2>1, <2>3, OthersKeepRow
    <3>2. UNCHANGED Living
      BY <2>1, <3>1, LifeGoesOn DEF LauncherKeepsRow, Living, Alive
    <3> QED
      BY <2>2, <3>1, <3>2 DEF LauncherKeepsRow
  <2>4. ASSUME NEW l \in Launchers, Transactions(l)
        PROVE  [Coordinator!Next]_(Coordinator!vars)
    BY <2>4, SamplesAreObservations, AdmissionsAreAdmissions, EndsAreDeaths,
       TransactionsAreTransactions DEF Transactions
  <2>5. ASSUME UNCHANGED <<row, launcher, admission>>
        PROVE  UNCHANGED Coordinator!vars
    <3>1. UNCHANGED Living
      BY <2>5 DEF Living, Alive, launcher
    <3> QED
      BY <2>2, <2>5, <3>1 DEF admission
  <2> QED
    BY <2>3, <2>4, <2>5 DEF Next, BoundaryStep, Outside, vars
<1> QED
  BY <1>1, <1>2, InvariantHolds, PTL
     DEF Spec, ImplementsReconciler, Coordinator!Spec

(* No launcher displaces another one that is alive, however old the sample *)
(* on which it decides.                                                    *)
THEOREM LiveLaunchersKeepTheRow == Spec => Coordinator!LiveOwnerKeepsRow
<1> DEFINE Step == owner # None /\ owner' # owner /\ Living[owner]
                     => owner' = None
<1>1. Inductive /\ [Next]_vars => [Step]_(Coordinator!vars)
  <2> SUFFICES ASSUME Inductive, [Next]_vars, owner # None, owner' # owner,
                      Living[owner]
               PROVE  owner' = None
    OBVIOUS
  <2>1. TypeOK /\ SampledDeathIsFinal
    BY DEF Inductive, Knowledge
  <2>2. PICK l \in Launchers : TakeOver(l) \/ OwnerTransaction(l)
    BY RowMoves DEF row, RowCoalesce, ownerColumns
  <2>3. ~TakeOver(l)
    <3> SUFFICES ASSUME TakeOver(l) PROVE FALSE
      OBVIOUS
    <3>1. seenRow[l][1] = owner /\ ~seenAlive[l]
      BY <2>1, SampledOwner DEF TakeOver, Unchanged
    <3>2. at[owner] = "dead" /\ owner \in Launchers
      BY <2>1, <3>1 DEF SampledDeathIsFinal, TypeOK, RowTypeOK
    <3> QED
      BY <3>2 DEF Living, Alive
  <2>4. owner = l /\ owner' \in {l, None}
    BY <2>2, <2>3, OwnerTransactionIsLocal
  <2> QED
    BY <2>4
<1> QED
  BY <1>1, InvariantHolds, PTL DEF Spec, Coordinator!LiveOwnerKeepsRow, Living

(* An execution on record survives every change of owner, so a launcher    *)
(* that takes over finds what its predecessor left.                        *)
THEOREM LaunchersInheritRecords == Spec => Coordinator!DescriptorOutlivesOwner
<1> DEFINE Step == execToken # None /\ ownerColumns' # ownerColumns
                     => UNCHANGED execColumns /\ owner' # None
<1>1. Inductive /\ [Next]_vars => [Step]_(Coordinator!vars)
  <2> SUFFICES ASSUME Inductive, [Next]_vars, execToken # None,
                      ownerColumns' # ownerColumns
               PROVE  UNCHANGED execColumns /\ owner' # None
    OBVIOUS
  <2>1. PICK l \in Launchers : TakeOver(l) \/ OwnerTransaction(l)
    BY RowMoves DEF row, RowCoalesce, ownerColumns
  <2>2. ~OwnerTransaction(l)
    BY DEF OwnerTransaction, RowFinish, FinishAllowed, RowRelease,
      ReleaseAllowed, RowRegister, RegisterAllowed, RowAuthorize, RowClear
  <2> QED
    BY <2>1, <2>2, NoneIsNoToken DEF TakeOver, RowTakeOver
<1> QED
  BY <1>1, InvariantHolds, PTL DEF Spec, Coordinator!DescriptorOutlivesOwner,
     ownerColumns, execColumns, Coordinator!ownerColumns,
     Coordinator!execColumns

(* Launchers report generations in order, each at most once, and stop only *)
(* when no newer request is waiting.                                       *)
THEOREM LaunchersReportInOrder == Spec => Coordinator!CompletionMovesForward
<1> DEFINE Step == completed' # completed
                     => completed < completed' /\ completed' = running
                          /\ (requested > running <=> owner' # None)
<1>1. Inductive /\ [Next]_vars => [Step]_(Coordinator!vars)
  <2> SUFFICES ASSUME Inductive, [Next]_vars, completed' # completed
               PROVE  completed < completed' /\ completed' = running
                        /\ (requested > running <=> owner' # None)
    OBVIOUS
  <2>1. RowTypeOK /\ GenerationsOrdered
    BY DEF Inductive, Knowledge, TypeOK, Records, RowReadable
  <2>2. PICK l \in Launchers : OwnerTransaction(l)
    BY RowMoves DEF row, RowCoalesce, TakeOver, RowTakeOver
  <2>3. PICK g \in Nat, success \in BOOLEAN : RowFinish(l, g, success)
    BY <2>2 DEF OwnerTransaction, RowRelease, RowRegister, RowAuthorize,
      RowClear
  <2> QED
    BY <2>1, <2>3, NoneIsNoToken DEF RowFinish, FinishAllowed,
      GenerationsOrdered, RowTypeOK
<1> QED
  BY <1>1, InvariantHolds, PTL DEF Spec, Coordinator!CompletionMovesForward

-----------------------------------------------------------------------------
(* The whole protocol implements scans that happen one at a time.          *)

(* What the abstract state is made of: which executions have a supervisor, *)
(* which of them may touch a repository, and what they were prepared for.  *)
LEMMA ScansStay ==
  ASSUME BoundaryHistory,
         \A e \in Executions :
           /\ GitCapable(e)' <=> GitCapable(e)
           /\ sup'[e] = "none" <=> sup[e] = "none"
           /\ sup[e] # "none" => passGen'[e] = passGen[e]
  PROVE  UNCHANGED <<Scans(Capable), Scans(Ended)>>
<1>1. Capable' = Capable /\ Ended' = Ended
  BY DEF Capable, Ended
<1>2. \A e \in Capable \cup Ended : passGen'[e] = passGen[e]
  BY DEF Capable, Ended, GitCapable, BoundaryHistory
<1> QED
  BY <1>1, <1>2 DEF Scans

(* No step of a launcher begins or ends a scan. *)
LEMMA LaunchersKeepScans ==
  ASSUME Inductive, NEW l \in Launchers, LauncherStep(l) \/ LauncherFault(l)
  PROVE  UNCHANGED <<Scans(Capable), Scans(Ended)>>
<1>1. TypeOK /\ BoundaryTypeOK /\ BoundaryHistory
  BY DEF Inductive, Knowledge, TypeOK, Records
<1>2. UNCHANGED <<sup, desc>>
  BY <1>1, LauncherTouch, LaunchersOnlyAsk
<1>3. \A e \in Executions : sup[e] # "none" => passGen'[e] = passGen[e]
  <2>1. CASE Spawn(l)
    <3>1. PICK e \in Executions :
            ctl[e] = "unborn" /\ passGen' = [passGen EXCEPT ![e] = gen[l]]
      BY <2>1 DEF Spawn, SpawnInert
    <3>2. sup[e] = "none"
      BY <1>1, <3>1 DEF BoundaryHistory
    <3> QED
      BY <1>1, <3>1, <3>2 DEF TypeOK
  <2>2. CASE ~Spawn(l)
    BY <2>2, OnlySpawnNames DEF origin
  <2> QED
    BY <2>1, <2>2
<1> QED
  BY <1>1, <1>2, <1>3, ScansStay DEF GitCapable

(* A delivered START begins the scan of the recorded execution, for a      *)
(* generation that was requested and is not complete.                      *)
LEMMA StartIsBegin ==
  ASSUME Inductive, NEW e \in Executions, StartSupervisor(e),
         UNCHANGED <<row, origin>>
  PROVE  Promise!Next
<1>1. /\ BoundaryTypeOK /\ RowTypeOK /\ BoundaryHistory /\ RowReadable
      /\ CapableIsRecorded /\ RecordIsOfItsPass
  BY DEF Inductive, Knowledge, TypeOK, Records
<1>2. /\ ctl[e] = "armed" /\ sup' = [sup EXCEPT ![e] = "live"]
      /\ UNCHANGED desc /\ sup[e] = "none" /\ ~desc[e]
  BY <1>1 DEF StartSupervisor, BoundaryHistory
<1>3. execToken = e /\ e # None
  BY <1>1, <1>2, NoneIsNoToken DEF CapableIsRecorded, MayRunGit
<1>4. Capable = {} /\ e \notin Ended
  BY <1>1, <1>2, <1>3 DEF Capable, Ended, CapableIsRecorded, MayRunGit,
    GitCapable
<1>5. Capable' = {e} /\ Ended' = Ended
  BY <1>1, <1>2, <1>4 DEF Capable, Ended, GitCapable, BoundaryTypeOK
<1>6. /\ completed < passGen[e] /\ passGen[e] <= requested
      /\ passGen[e] \in 1 .. requested
  BY <1>1, <1>3 DEF RowReadable, ExecutionExplained, GenerationsOrdered,
    RecordIsOfItsPass, RowTypeOK
<1>7. /\ Scans(Capable) = {}
      /\ \A s \in Scans(Ended) : s[1] # e
      /\ Scans(Capable)' = {<<e, passGen[e]>>}
      /\ Scans(Ended)' = Scans(Ended)
  BY <1>4, <1>5 DEF Scans, origin
<1>8. Promise!Begin(e, passGen[e])
  BY <1>6, <1>7 DEF Promise!Begin, row
<1> QED
  BY <1>6, <1>8 DEF Promise!Next

(* The last process that may touch a repository ends the scan.             *)
LEMMA ExitsAreEnds ==
  ASSUME Inductive, NEW e \in Executions,
         SupervisorExits(e) \/ DescendantsExit(e), UNCHANGED <<row, origin>>
  PROVE  [Promise!Next]_(Promise!vars)
<1>1. /\ BoundaryTypeOK /\ BoundaryHistory /\ CapableIsRecorded
  BY DEF Inductive, Knowledge, TypeOK, Records
<1>2. GitCapable(e) /\ sup[e] # "none"
  BY <1>1 DEF SupervisorExits, DescendantsExit, GitCapable, BoundaryHistory
<1>3. Capable = {e}
  BY <1>1, <1>2 DEF Capable, CapableIsRecorded, MayRunGit
<1>4. /\ \A f \in Executions \ {e} : sup'[f] = sup[f] /\ desc'[f] = desc[f]
      /\ sup'[e] # "none"
  BY <1>1, <1>2 DEF SupervisorExits, DescendantsExit, BoundaryTypeOK
<1>5. CASE GitCapable(e)'
  <2>1. UNCHANGED <<Scans(Capable), Scans(Ended)>>
    BY <1>1, <1>2, <1>4, <1>5, ScansStay DEF GitCapable, origin
  <2> QED
    BY <2>1 DEF Promise!vars, row
<1>6. CASE ~GitCapable(e)'
  <2>1. Capable' = {}
    BY <1>3, <1>4, <1>6 DEF Capable, GitCapable
  <2>2. Ended' = Ended \cup {e}
    BY <1>2, <1>3, <1>4, <1>6 DEF Capable, Ended, GitCapable
  <2>3. /\ Scans(Capable) = {<<e, passGen[e]>>}
        /\ Scans(Capable)' = {}
        /\ Scans(Ended)' = Scans(Ended) \cup {<<e, passGen[e]>>}
    BY <1>3, <2>1, <2>2 DEF Scans, origin
  <2>4. Promise!End
    BY <2>3 DEF Promise!End, row
  <2> QED
    BY <2>4 DEF Promise!Next
<1> QED
  BY <1>5, <1>6

(* Nothing else that happens to a boundary shows. *)
LEMMA OtherEventsAreSilent ==
  ASSUME Inductive, NEW e \in Executions, BoundaryStep(e),
         ~StartSupervisor(e), ~SupervisorExits(e), ~DescendantsExit(e)
  PROVE  UNCHANGED Promise!vars
<1>1. /\ BoundaryTypeOK /\ BoundaryHistory
  BY DEF Inductive, Knowledge, TypeOK, Records
<1>2. UNCHANGED <<row, origin>>
  BY DEF BoundaryStep, Outside
<1>3. CASE Fork(e)
  <2>1. /\ GitCapable(e) /\ sup' = sup /\ desc' = [desc EXCEPT ![e] = TRUE]
    BY <1>3 DEF Fork
  <2>2. \A f \in Executions : GitCapable(f)' <=> GitCapable(f)
    BY <1>1, <2>1 DEF GitCapable, BoundaryTypeOK
  <2> QED
    BY <1>1, <1>2, <2>1, <2>2, ScansStay DEF Promise!vars, row, origin
<1>4. CASE SupervisorClosed(e)
  <2>1. /\ sup[e] = "exited" /\ sup' = [sup EXCEPT ![e] = "closed"]
        /\ desc' = desc
    BY <1>4 DEF SupervisorClosed
  <2>2. \A f \in Executions : /\ GitCapable(f)' <=> GitCapable(f)
                              /\ sup'[f] = "none" <=> sup[f] = "none"
    BY <1>1, <2>1 DEF GitCapable, BoundaryTypeOK
  <2> QED
    BY <1>1, <1>2, <2>2, ScansStay DEF Promise!vars, row, origin
<1>5. CASE ~Fork(e) /\ ~SupervisorClosed(e)
  <2>1. UNCHANGED <<sup, desc>>
    <3>1. CASE ControllerStep(e)
      BY <1>5, <3>1 DEF ControllerStep, HandlePrepare, RefuseStart,
        DisconnectInert, DisconnectStarted, HandleSignal, Quiesce, ForceKill,
        LoopDrains, Leave
    <3>2. CASE WorldStep(e)
      BY <1>5, <3>2 DEF WorldStep, KilledLeaderDies, KillLeader, SignalLeader,
        ReusePid, StrangerExits, Leave
    <3> QED
      BY <3>1, <3>2 DEF BoundaryStep, Outside
  <2> QED
    BY <1>1, <1>2, <2>1, ScansStay DEF Promise!vars, row, origin, GitCapable
<1> QED
  BY <1>3, <1>4, <1>5

(* A finish reports, if anything, the generation of a scan that has ended. *)
LEMMA FinishIsComplete ==
  ASSUME Inductive, NEW l \in Launchers, Finish(l), completed' # completed
  PROVE  Promise!Next
<1>1. /\ TypeOK /\ RowTypeOK /\ BoundaryHistory /\ RowReadable
      /\ CapableIsRecorded /\ OwnerKnows(l)
  BY DEF Inductive, Knowledge, TypeOK, Records
<1>2. /\ owner = l /\ execToken = None /\ running = gen[l]
      /\ completed' = gen[l] /\ outcome[target[l]] = "success"
      /\ requested' = requested
  BY DEF Finish, RowFinish, FinishAllowed
<1>3. completed < gen[l] /\ gen[l] \in 1 .. requested
  BY <1>1, <1>2, NoneIsNoToken DEF RowReadable, GenerationsOrdered, RowTypeOK
<1>4. /\ target[l] \in Executions /\ Dead(target[l])
      /\ passGen[target[l]] = gen[l]
  BY <1>1 DEF Finish, OwnerKnows, OwnerPlaces, WithTarget, OwnPass
<1>5. target[l] \in Ended
  BY <1>1, <1>2, <1>4 DEF Ended, BoundaryHistory, Dead
<1>6. Scans(Capable) = {}
  BY <1>1, <1>2, NoneIsNoToken DEF Scans, Capable, CapableIsRecorded, MayRunGit
<1>7. <<target[l], gen[l]>> \in Scans(Ended)
  BY <1>4, <1>5 DEF Scans
<1>8. UNCHANGED <<Scans(Capable), Scans(Ended)>>
  BY LaunchersKeepScans DEF LauncherStep
<1>9. Promise!Complete(gen[l])
  BY <1>2, <1>3, <1>4, <1>6, <1>7, <1>8 DEF Promise!Complete
<1> QED
  BY <1>3, <1>4, <1>9 DEF Promise!Next

(* Every other step of a launcher asks, or does not show. *)
LEMMA LaunchersAskOrComplete ==
  ASSUME Inductive, NEW l \in Launchers, LauncherStep(l) \/ LauncherFault(l)
  PROVE  [Promise!Next]_(Promise!vars)
<1>1. TypeOK /\ RowTypeOK /\ UNCHANGED <<Scans(Capable), Scans(Ended)>>
  BY LaunchersKeepScans DEF Inductive, Knowledge, TypeOK
<1>2. CASE Coalesce(l) \/ TakeOver(l)
  <2>1. requested' = requested + 1 /\ completed' = completed
    BY <1>2 DEF Coalesce, TakeOver, RowCoalesce, RowTakeOver
  <2>2. Promise!Ask
    BY <1>1, <2>1 DEF Promise!Ask
  <2> QED
    BY <2>2 DEF Promise!Next
<1>3. CASE Finish(l) /\ completed' # completed
  BY <1>3, FinishIsComplete
<1>4. ASSUME UNCHANGED <<requested, completed>>
      PROVE  UNCHANGED Promise!vars
  BY <1>1, <1>4 DEF Promise!vars
<1>5. CASE Finish(l) /\ completed' = completed
  BY <1>4, <1>5 DEF Finish, RowFinish
<1>6. CASE \/ Observe(l) \/ LoseRace(l) \/ ProcessExits(l) \/ Crash(l)
           \/ ~Transactions(l)
  <2>1. UNCHANGED row
    <3>1. CASE Observe(l) \/ LoseRace(l) \/ ProcessExits(l) \/ Crash(l)
      BY <3>1 DEF Observe, LoseRace, ProcessExits, Crash
    <3>2. CASE ~Transactions(l)
      BY <1>1, <3>2, OthersKeepRow DEF LauncherKeepsRow
    <3> QED
      BY <1>6, <3>1, <3>2
  <2> QED
    BY <1>4, <2>1 DEF row
<1>7. CASE \/ Clear(l) \/ Register(l) \/ Authorize(l) \/ Release(l)
           \/ ProvisioningFails(l)
  <2>1. UNCHANGED <<requested, completed>>
    BY <1>7 DEF Clear, Register, Authorize, Release, ProvisioningFails,
      RowClear, RowRegister, RowAuthorize, RowRelease, RowFinish, row
  <2> QED
    BY <1>4, <2>1
<1> QED
  BY <1>2, <1>3, <1>5, <1>6, <1>7 DEF Transactions

(* Launchers, controllers and every fault together behave like scans that  *)
(* happen one at a time, each at most once, each after the request it      *)
(* answers; only a scan that has ended completes a generation.             *)
THEOREM GitRunsAsPromised == Spec => ImplementsSingleLiveExecution
<1>1. Init => Promise!Init
  <2> SUFFICES ASSUME Init PROVE Promise!Init
    OBVIOUS
  <2>1. Capable = {} /\ Ended = {}
    BY DEF Init, BoundaryInit, Capable, Ended, GitCapable
  <2> QED
    BY <2>1 DEF Promise!Init, Scans, Init, RowInit
<1>2. Inductive /\ [Next]_vars => [Promise!Next]_(Promise!vars)
  <2> SUFFICES ASSUME Inductive, [Next]_vars
               PROVE  [Promise!Next]_(Promise!vars)
    OBVIOUS
  <2>1. ASSUME NEW l \in Launchers, LauncherStep(l) \/ LauncherFault(l)
        PROVE  [Promise!Next]_(Promise!vars)
    BY <2>1, LaunchersAskOrComplete
  <2>2. ASSUME NEW e \in Executions, BoundaryStep(e)
        PROVE  [Promise!Next]_(Promise!vars)
    <3>1. UNCHANGED <<row, origin>>
      BY <2>2 DEF BoundaryStep, Outside
    <3> QED
      BY <2>2, <3>1, StartIsBegin, ExitsAreEnds, OtherEventsAreSilent
  <2>3. CASE UNCHANGED vars
    <3>1. UNCHANGED <<Scans(Capable), Scans(Ended)>>
      BY <2>3 DEF vars, boundary, origin, Scans, Capable, Ended, GitCapable
    <3> QED
      BY <2>3, <3>1 DEF vars, row, Promise!vars
  <2> QED
    BY <2>1, <2>2, <2>3 DEF Next
<1> QED
  BY <1>1, <1>2, InvariantHolds, PTL
     DEF Spec, ImplementsSingleLiveExecution, Promise!Spec
=============================================================================
