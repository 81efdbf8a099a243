--------------------------- MODULE ReconcilerRow ---------------------------
(***************************************************************************)
(* The singleton row of reconciler.sqlite and the transactions that        *)
(* rewrite it.  A transaction is one BEGIN IMMEDIATE ... COMMIT, so each   *)
(* operator below is one atomic step; a fence that refuses rolls back and  *)
(* leaves the row alone, which is the operator not being enabled.          *)
(*                                                                         *)
(* Columns that only describe a process (pid, boot epoch, start identity,  *)
(* caller, session, heartbeat) are written and erased with the token that  *)
(* stands for them here.  A NULL token is None and a NULL generation is    *)
(* NoGeneration: generations count from 1.                                 *)
(***************************************************************************)
EXTENDS Naturals, Identities

VARIABLES
  requested, completed, running,              \* the three generations
  owner,                                      \* token of the scheduling owner
  execToken, execGeneration, execOwner, execState  \* the active execution

ownerColumns == <<running, owner>>
execColumns  == <<execToken, execGeneration, execOwner, execState>>
row          == <<requested, completed, running, owner,
                  execToken, execGeneration, execOwner, execState>>

NoGeneration == 0

ExecStates == {"REGISTERED", "START_AUTHORIZED"}

ASSUME NoneIsNoState == None \notin ExecStates

RowTypeOK ==
  /\ requested \in Nat
  /\ completed \in Nat
  /\ running \in Nat
  /\ owner \in Launchers \cup {None}
  /\ execToken \in Executions \cup {None}
  /\ execGeneration \in Nat
  /\ execOwner \in Launchers \cup {None}
  /\ execState \in ExecStates \cup {None}

RowInit ==
  /\ requested = 0
  /\ completed = 0
  /\ running = NoGeneration
  /\ owner = None
  /\ execToken = None
  /\ execGeneration = NoGeneration
  /\ execOwner = None
  /\ execState = None

-----------------------------------------------------------------------------
(* What readReconcilerState accepts; any other row makes every later call  *)
(* of every launcher throw, so no sequence of transactions may produce one.*)

OwnerColumnsTogether == (owner = None) <=> (running = NoGeneration)

GenerationsOrdered ==
  /\ completed <= requested
  /\ owner # None => completed < running /\ running <= requested

ExecColumnsTogether ==
  /\ (execToken = None) <=> (execGeneration = NoGeneration)
  /\ (execToken = None) <=> (execOwner = None)
  /\ (execToken = None) <=> (execState = None)

ExecutionExplained ==
  execToken # None =>
    /\ owner # None
    /\ completed < execGeneration /\ execGeneration <= running
    /\ (execOwner = owner) <=> (execGeneration = running)

RowReadable ==
  /\ OwnerColumnsTogether
  /\ GenerationsOrdered
  /\ ExecColumnsTogether
  /\ ExecutionExplained

-----------------------------------------------------------------------------
(* registerReconciliationRequest: the two outcomes of admission.           *)

RowCoalesce ==
  /\ requested' = requested + 1
  /\ UNCHANGED <<completed, ownerColumns, execColumns>>

(* Mutants: the new owner runs the generation before its own request; the  *)
(* new owner starts from an empty execution.                               *)
RowTakeOverOneBehind(l) ==
  /\ requested' = requested + 1
  /\ running' = requested
  /\ owner' = l
  /\ UNCHANGED <<completed, execColumns>>

RowTakeOverErasing(l) ==
  /\ requested' = requested + 1
  /\ running' = requested + 1
  /\ owner' = l
  /\ execToken' = None /\ execGeneration' = NoGeneration
  /\ execOwner' = None /\ execState' = None
  /\ UNCHANGED completed

RowTakeOver(l) ==
  /\ requested' = requested + 1
  /\ running' = requested + 1
  /\ owner' = l
  /\ UNCHANGED <<completed, execColumns>>

(* finishReconciliationPass: the owner token, an empty execution and the   *)
(* running generation fence it.                                            *)
FinishUnfenced(l, g) == owner = l /\ execToken = None  \* mutant

FinishAllowed(l, g) == owner = l /\ execToken = None /\ running = g

(* Mutant: success is claimed for the newest request.                      *)
RowFinishForNewest(l, g, success) ==
  /\ FinishAllowed(l, g)
  /\ completed' = IF success THEN requested ELSE completed
  /\ running' = IF requested > g THEN requested ELSE NoGeneration
  /\ owner' = IF requested > g THEN owner ELSE None
  /\ UNCHANGED <<requested, execColumns>>

RowFinish(l, g, success) ==
  /\ FinishAllowed(l, g)
  /\ completed' = IF success THEN g ELSE completed
  /\ \/ /\ requested > g                     \* CONTINUE with the newest one
        /\ running' = requested
        /\ UNCHANGED owner
     \/ /\ requested <= g                    \* STOP_SUCCESS or STOP_FAILED
        /\ running' = NoGeneration
        /\ owner' = None
  /\ UNCHANGED <<requested, execColumns>>

(* releaseReconciliationOwnership: refused while an execution is recorded. *)
ReleaseAllowed(l) == owner = l /\ execToken = None

RowRelease(l) ==
  /\ ReleaseAllowed(l)
  /\ running' = NoGeneration
  /\ owner' = None
  /\ UNCHANGED <<requested, completed, execColumns>>

(* registerActiveExecution, authorizeActiveExecutionStart and              *)
(* clearActiveExecution.                                                   *)
RegisterAllowed(l, g) == owner = l /\ running = g /\ execToken = None

RowRegister(l, g, e) ==
  /\ RegisterAllowed(l, g)
  /\ execToken' = e
  /\ execGeneration' = g
  /\ execOwner' = l
  /\ execState' = "REGISTERED"
  /\ UNCHANGED <<requested, completed, ownerColumns>>

AuthorizeAllowed(l, e) ==
  owner = l /\ execToken = e /\ execOwner = l /\ execState = "REGISTERED"

RowAuthorize(l, e) ==
  /\ AuthorizeAllowed(l, e)
  /\ execState' = "START_AUTHORIZED"
  /\ UNCHANGED <<requested, completed, ownerColumns,
                 execToken, execGeneration, execOwner>>

ClearAllowed(l, e) == owner = l /\ execToken = e

RowClear(l, e) ==
  /\ ClearAllowed(l, e)
  /\ execToken' = None
  /\ execGeneration' = NoGeneration
  /\ execOwner' = None
  /\ execState' = None
  /\ UNCHANGED <<requested, completed, ownerColumns>>
=============================================================================
