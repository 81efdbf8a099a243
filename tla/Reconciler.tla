----------------------------- MODULE Reconciler -----------------------------
(***************************************************************************)
(* The coordinator as a library: any living process may call any           *)
(* transaction at any moment, with any generation and any execution token, *)
(* in any order.  Admission is the one call that reads outside its         *)
(* transaction: it samples the row and the owner's liveness, and commits   *)
(* only on the row it sampled.                                             *)
(***************************************************************************)
EXTENDS ReconcilerRow

CONSTANT
  Generations  \* Nat; a finite interval 0..N bounds a model-checking run

ASSUME GenerationsAreNat == Generations \subseteq Nat

VARIABLES
  alive,      \* processes that have not exited; a PID plus start identity
  seenRow,    \* the columns a caller sampled before its admission
  seenAlive   \* whether it judged the sampled owner to be alive

vars == <<row, alive, seenRow, seenAlive>>

(* ownerMatchesObservation compares exactly these columns. *)
AdmissionView ==
  <<owner, running, execToken, execGeneration, execOwner, execState>>

NoView == <<None, NoGeneration, None, NoGeneration, None, None>>

Views ==
  (Launchers \cup {None}) \X Nat \X (Executions \cup {None}) \X Nat
    \X (Launchers \cup {None}) \X (ExecStates \cup {None})

TypeOK ==
  /\ RowTypeOK
  /\ alive \in [Launchers -> BOOLEAN]
  /\ seenRow \in [Launchers -> Views]
  /\ seenAlive \in [Launchers -> BOOLEAN]

Init ==
  /\ RowInit
  /\ alive = [l \in Launchers |-> TRUE]
  /\ seenRow = [l \in Launchers |-> NoView]
  /\ seenAlive = [l \in Launchers |-> FALSE]

(* ownerIsAlive: a process with the recorded PID and start identity; a     *)
(* reused PID whose identity cannot be read also counts as alive.          *)
JudgedAlive(verdict) ==
  IF owner = None THEN verdict = FALSE
  ELSE alive[owner] => verdict = TRUE

Observe(l) ==
  /\ alive[l]
  /\ seenRow' = [seenRow EXCEPT ![l] = AdmissionView]
  /\ \E verdict \in BOOLEAN :
       /\ JudgedAlive(verdict)
       /\ seenAlive' = [seenAlive EXCEPT ![l] = verdict]
  /\ UNCHANGED <<row, alive>>

(* A sample is a local of one attempt; NoView is the sample of an idle row. *)
ForgetSample(l) ==
  /\ seenRow' = [seenRow EXCEPT ![l] = NoView]
  /\ seenAlive' = [seenAlive EXCEPT ![l] = FALSE]

LoseRace(l) ==
  /\ alive[l]
  /\ seenRow[l] # AdmissionView
  /\ ForgetSample(l)
  /\ UNCHANGED <<row, alive>>

Coalesce(l) ==
  /\ alive[l] /\ requested + 1 \in Generations
  /\ seenRow[l] = AdmissionView
  /\ seenAlive[l]
  /\ RowCoalesce
  /\ ForgetSample(l)
  /\ UNCHANGED alive

(* Mutant: the liveness verdict is used whatever has happened since.       *)
TakeOverOnStaleVerdict(l) ==
  /\ alive[l] /\ requested + 1 \in Generations
  /\ ~seenAlive[l]
  /\ RowTakeOver(l)
  /\ ForgetSample(l)
  /\ UNCHANGED alive

TakeOver(l) ==
  /\ alive[l] /\ requested + 1 \in Generations
  /\ seenRow[l] = AdmissionView
  /\ ~seenAlive[l]
  /\ RowTakeOver(l)
  /\ ForgetSample(l)
  /\ UNCHANGED alive

Finish(l) ==
  /\ alive[l]
  /\ \E g \in 0 .. requested, success \in BOOLEAN : RowFinish(l, g, success)
  /\ UNCHANGED <<alive, seenRow, seenAlive>>

Release(l) ==
  /\ alive[l]
  /\ RowRelease(l)
  /\ UNCHANGED <<alive, seenRow, seenAlive>>

Register(l) ==
  /\ alive[l]
  /\ \E g \in 0 .. requested, e \in Executions : RowRegister(l, g, e)
  /\ UNCHANGED <<alive, seenRow, seenAlive>>

Authorize(l) ==
  /\ alive[l]
  /\ \E e \in Executions : RowAuthorize(l, e)
  /\ UNCHANGED <<alive, seenRow, seenAlive>>

Clear(l) ==
  /\ alive[l]
  /\ \E e \in Executions : RowClear(l, e)
  /\ UNCHANGED <<alive, seenRow, seenAlive>>

(* The process ends, with or without its row; its start identity is gone   *)
(* for good.                                                               *)
Die(l) ==
  /\ alive[l]
  /\ alive' = [alive EXCEPT ![l] = FALSE]
  /\ UNCHANGED <<row, seenRow, seenAlive>>

Next ==
  \E l \in Launchers :
    \/ Observe(l) \/ LoseRace(l) \/ Coalesce(l) \/ TakeOver(l) \/ Finish(l)
    \/ Release(l) \/ Register(l) \/ Authorize(l) \/ Clear(l) \/ Die(l)

Spec == Init /\ [][Next]_vars

-----------------------------------------------------------------------------
(* RowReadable is the reader's own acceptance test (reconciler-state.ts):  *)
(* whatever order callers use, the row stays one every launcher can read.  *)

(* A living owner is never displaced: while its process runs, the owner    *)
(* column leaves it only by becoming empty.  A sampled liveness verdict    *)
(* that is stale by the time it is committed is what could break this.     *)
LiveOwnerKeepsRow ==
  [][owner # None /\ owner' # owner /\ alive[owner] => owner' = None]_vars

(* An owner that finds the descriptor of a predecessor inherits it: the    *)
(* descriptor survives every change of owner and of running generation,    *)
(* and disappears only under an owner that keeps the row.                  *)
DescriptorOutlivesOwner ==
  [][execToken # None /\ ownerColumns' # ownerColumns
       => UNCHANGED execColumns /\ owner' # None]_vars

(* A generation is completed at most once, never behind one already        *)
(* completed, and never for a request registered after its pass began.     *)
CompletionMovesForward ==
  [][completed' # completed
       => completed < completed' /\ completed' = running
            /\ (requested > running <=> owner' # None)]_vars
=============================================================================
