------------------------- MODULE ExecutionBoundary -------------------------
(***************************************************************************)
(* One execution controller per execution token, with the process group it *)
(* leads: the controller itself, node-supervisor, and the Git, test and    *)
(* LLM descendants that inherit the group.  Every action is one callback   *)
(* of the controller's event loop, or one event of the kernel.             *)
(***************************************************************************)
EXTENDS Identities

CONSTANT
  Faults  \* the environment faults switched on, a subset of FaultKinds

FaultKinds ==
  {"crash",       \* a launcher process dies without running any handler
   "cancel",      \* a signal, or a failed heartbeat, aborts a launcher
   "uncaught",    \* an uncaught exception in a launcher
   "io",          \* a SQLite, file-system or spawn call throws
   "timeout",     \* the READY handshake outlasts HANDSHAKE_TIMEOUT_MS
   "unreadable",  \* a process-start identity cannot be read
   "reuse",       \* the kernel hands a dead controller's PID to a stranger
   "kill"}        \* somebody else signals a controller

ASSUME FaultsAreKnown == Faults \subseteq FaultKinds

VARIABLES
  ctl,      \* what the controller process has reached
  link,     \* its IPC channel: open, hung up by the launcher, or closed
  phase,    \* how far the termination of its group has gone
  sup,      \* node-supervisor
  desc,     \* whether some other descendant of the group is alive
  outcome,  \* what the launcher reads as the result of the pass
  stranger  \* whether an unrelated group now has this PID and PGID

boundary == <<ctl, link, phase, sup, desc, outcome, stranger>>

Terminated == {"terminating", "killed"}

BoundaryTypeOK ==
  /\ ctl \in [Executions ->
                {"unborn", "spawned", "ready", "armed", "started", "gone"}]
  /\ link \in [Executions -> {"open", "closing", "closed"}]
  /\ phase \in [Executions -> {"calm", "signalled"} \cup Terminated]
  /\ sup \in [Executions -> {"none", "live", "exited", "closed"}]
  /\ desc \in [Executions -> BOOLEAN]
  /\ outcome \in [Executions -> {"none", "success", "failure"}]
  /\ stranger \in [Executions -> BOOLEAN]

BoundaryInit ==
  /\ ctl = [e \in Executions |-> "unborn"]
  /\ link = [e \in Executions |-> "open"]
  /\ phase = [e \in Executions |-> "calm"]
  /\ sup = [e \in Executions |-> "none"]
  /\ desc = [e \in Executions |-> FALSE]
  /\ outcome = [e \in Executions |-> "none"]
  /\ stranger = [e \in Executions |-> FALSE]

LeaderAlive(e) == ctl[e] \notin {"unborn", "gone"}

(* The event loop turns: the process is alive and no SIGKILL is pending.   *)
LoopTurns(e) == LeaderAlive(e) /\ phase[e] # "killed"

(* Only the supervisor and its descendants can touch a repository.         *)
GitCapable(e) == sup[e] = "live" \/ desc[e]

(* START is in the pipe: the controller may still become Git-capable.      *)
MayRunGit(e) == GitCapable(e) \/ ctl[e] = "armed"

(* processGroupExists: signal 0 to the group number finds a process.       *)
GroupExists(e) == LeaderAlive(e) \/ GitCapable(e) \/ stranger[e]

(* The boundary is over, and a process group cannot come back.             *)
Dead(e) == ctl[e] = "gone" /\ ~GitCapable(e)

(* The kernel hands a number out again only when the whole group is gone.  *)
StrangersFollowDeath == \A e \in Executions : stranger[e] => Dead(e)

-----------------------------------------------------------------------------
(* What a launcher does to a boundary; conjuncts of the launcher's steps.  *)

SpawnInert(e) ==
  /\ ctl[e] = "unborn"
  /\ ctl' = [ctl EXCEPT ![e] = "spawned"]
  /\ UNCHANGED <<link, phase, sup, desc, outcome, stranger>>

DeliverStart(e) ==
  /\ ctl[e] = "ready" /\ link[e] = "open"
  /\ ctl' = [ctl EXCEPT ![e] = "armed"]
  /\ UNCHANGED <<link, phase, sup, desc, outcome, stranger>>

(* kill(-pgid, signal): a SIGTERM waits for the controller's handler; after *)
(* a SIGKILL no member runs again, though each dies in its own time.       *)
SignalGroup(e, signal) ==
  /\ phase' = [phase EXCEPT ![e] =
                 IF signal = "KILL" THEN "killed"
                 ELSE IF @ = "calm" THEN "signalled" ELSE @]
  /\ UNCHANGED <<ctl, link, sup, desc, outcome, stranger>>

(* SIGKILL to a controller that was never sent START.                      *)
KillInert(e) ==
  /\ ctl' = [ctl EXCEPT ![e] = "gone"]
  /\ UNCHANGED <<link, phase, sup, desc, outcome, stranger>>

(* The launcher's end of the channel closes, by disconnect or by its death. *)
HangUp(S) ==
  /\ link' = [e \in Executions |->
                IF e \in S /\ link[e] = "open" THEN "closing" ELSE link[e]]
  /\ UNCHANGED <<ctl, phase, sup, desc, outcome, stranger>>

-----------------------------------------------------------------------------
(* The controller's event loop (execution-controller.ts).                  *)

(* The controller process ends; what the launcher did not get as a RESULT  *)
(* it reads from a close code that is never zero while the channel is open.*)
Leave(e, reported) ==
  /\ ctl' = [ctl EXCEPT ![e] = "gone"]
  /\ outcome' = [outcome EXCEPT ![e] = IF reported THEN @ ELSE "failure"]
  /\ UNCHANGED <<link, phase, sup, desc, stranger>>

HandlePrepare(e) ==
  /\ LoopTurns(e) /\ ctl[e] = "spawned"
  /\ ctl' = [ctl EXCEPT ![e] = "ready"]
  /\ UNCHANGED <<link, phase, sup, desc, outcome, stranger>>

(* START spawns the supervisor, unless termination has begun.  Messages    *)
(* already in the pipe are handled before the end of file behind them.     *)
(* Mutant: the controller restarts a supervisor that ended.                *)
StartSupervisorAgain(e) ==
  /\ LoopTurns(e) /\ phase[e] # "terminating"
  /\ \/ ctl[e] = "armed"
     \/ ctl[e] = "started" /\ sup[e] = "exited"
  /\ ctl' = [ctl EXCEPT ![e] = "started"]
  /\ sup' = [sup EXCEPT ![e] = "live"]
  /\ UNCHANGED <<link, phase, desc, outcome, stranger>>

StartSupervisor(e) ==
  /\ LoopTurns(e) /\ ctl[e] = "armed" /\ phase[e] # "terminating"
  /\ ctl' = [ctl EXCEPT ![e] = "started"]
  /\ sup' = [sup EXCEPT ![e] = "live"]
  /\ UNCHANGED <<link, phase, desc, outcome, stranger>>

RefuseStart(e) ==
  /\ LoopTurns(e) /\ ctl[e] = "armed" /\ phase[e] = "terminating"
  /\ Leave(e, FALSE)

(* IPC closure: an inert controller exits, a started one terminates.       *)
DisconnectInertIgnored(e) ==  \* mutant: only a started one listens
  /\ LoopTurns(e) /\ link[e] = "closing" /\ ctl[e] = "ready"
  /\ link' = [link EXCEPT ![e] = "closed"]
  /\ UNCHANGED <<ctl, phase, sup, desc, outcome, stranger>>

DisconnectInert(e) ==
  /\ LoopTurns(e) /\ link[e] = "closing" /\ ctl[e] = "ready"
  /\ Leave(e, FALSE)

DisconnectStarted(e) ==
  /\ LoopTurns(e) /\ link[e] = "closing" /\ ctl[e] = "started"
  /\ link' = [link EXCEPT ![e] = "closed"]
  /\ phase' = [phase EXCEPT ![e] = "terminating"]
  /\ UNCHANGED <<ctl, sup, desc, outcome, stranger>>

HandleSignal(e) ==
  /\ LoopTurns(e) /\ phase[e] = "signalled"
  /\ phase' = [phase EXCEPT ![e] = "terminating"]
  /\ UNCHANGED <<ctl, link, sup, desc, outcome, stranger>>

(* The supervisor's close event: its observation is recorded and the rest  *)
(* of the group is asked to end.                                           *)
SupervisorClosed(e) ==
  /\ LoopTurns(e) /\ sup[e] = "exited"
  /\ sup' = [sup EXCEPT ![e] = "closed"]
  /\ phase' = [phase EXCEPT ![e] = "terminating"]
  /\ UNCHANGED <<ctl, link, desc, outcome, stranger>>

(* finishWhenQuiescent: alone in its group, the controller sends RESULT if *)
(* it has an observation and a channel, and exits.                         *)
Quiesce(e) ==
  /\ LoopTurns(e) /\ phase[e] = "terminating"
  /\ ~GitCapable(e)
  /\ Leave(e, sup[e] = "closed" /\ link[e] = "open")

(* Mutant: the close of the supervisor clears the forced-kill timer.       *)
ForceKillWithSupervisor(e) ==
  /\ LoopTurns(e) /\ phase[e] = "terminating" /\ sup[e] # "closed"
  /\ phase' = [phase EXCEPT ![e] = "killed"]
  /\ UNCHANGED <<ctl, link, sup, desc, outcome, stranger>>

(* The forced kill of its own group, itself included.                      *)
ForceKill(e) ==
  /\ LoopTurns(e) /\ phase[e] = "terminating"
  /\ phase' = [phase EXCEPT ![e] = "killed"]
  /\ UNCHANGED <<ctl, link, sup, desc, outcome, stranger>>

(* Both termination timers are unref'd: with the channel closed and the    *)
(* supervisor handle closed nothing keeps the event loop, so the process   *)
(* ends without waiting for either timer.                                  *)
LoopDrains(e) ==
  /\ LoopTurns(e) /\ link[e] = "closed"
  /\ phase[e] = "terminating" /\ sup[e] = "closed"
  /\ Leave(e, FALSE)

ControllerStep(e) ==
  \/ HandlePrepare(e) \/ StartSupervisor(e) \/ RefuseStart(e)
  \/ DisconnectInert(e) \/ DisconnectStarted(e) \/ HandleSignal(e)
  \/ SupervisorClosed(e) \/ Quiesce(e) \/ ForceKill(e) \/ LoopDrains(e)

-----------------------------------------------------------------------------
(* The supervised pipeline and the kernel.                                 *)

Fork(e) ==
  /\ GitCapable(e) /\ ~desc[e] /\ phase[e] # "killed"
  /\ desc' = [desc EXCEPT ![e] = TRUE]
  /\ UNCHANGED <<ctl, link, phase, sup, outcome, stranger>>

(* A killed supervisor cannot have succeeded.                              *)
SupervisorExits(e) ==
  /\ sup[e] = "live"
  /\ sup' = [sup EXCEPT ![e] = "exited"]
  /\ \E status \in {"success", "failure"} :
       /\ phase[e] = "killed" => status = "failure"
       /\ outcome' = [outcome EXCEPT ![e] = status]
  /\ UNCHANGED <<ctl, link, phase, desc, stranger>>

DescendantsExit(e) ==
  /\ desc[e]
  /\ desc' = [desc EXCEPT ![e] = FALSE]
  /\ UNCHANGED <<ctl, link, phase, sup, outcome, stranger>>

KilledLeaderDies(e) ==
  /\ LeaderAlive(e) /\ phase[e] = "killed"
  /\ Leave(e, FALSE)

(* SIGKILL frees every member of the group sooner or later.                *)
Reap(e) ==
  \/ KilledLeaderDies(e)
  \/ phase[e] = "killed" /\ (SupervisorExits(e) \/ DescendantsExit(e))

KillLeader(e) ==
  /\ "kill" \in Faults /\ LeaderAlive(e)
  /\ Leave(e, FALSE)

SignalLeader(e) ==
  /\ "kill" \in Faults /\ LeaderAlive(e) /\ phase[e] = "calm"
  /\ phase' = [phase EXCEPT ![e] = "signalled"]
  /\ UNCHANGED <<ctl, link, sup, desc, outcome, stranger>>

(* A PID is reused only once no process has it as PID or as group number.  *)
ReusePid(e) ==
  /\ "reuse" \in Faults /\ Dead(e) /\ ~stranger[e]
  /\ stranger' = [stranger EXCEPT ![e] = TRUE]
  /\ UNCHANGED <<ctl, link, phase, sup, desc, outcome>>

StrangerExits(e) ==
  /\ stranger[e]
  /\ stranger' = [stranger EXCEPT ![e] = FALSE]
  /\ UNCHANGED <<ctl, link, phase, sup, desc, outcome>>

WorldStep(e) ==
  \/ Fork(e) \/ SupervisorExits(e) \/ DescendantsExit(e)
  \/ KilledLeaderDies(e) \/ KillLeader(e) \/ SignalLeader(e)
  \/ ReusePid(e) \/ StrangerExits(e)
=============================================================================
