--------------------------- MODULE PipelineProofs ---------------------------
(***************************************************************************)
(* What an exit code of zero is worth, for any number of repositories,     *)
(* cycles and faults (Pipeline).  The argument joins two chains: that of   *)
(* the processes, of which each waits for the one before it, and that of   *)
(* the lists through which a repository without an outcome is passed on.   *)
(***************************************************************************)
EXTENDS Pipeline, TLAPS

(* A phase has lists only while it runs, and a batch only between phases.  *)
ListsInv ==
  /\ place \in {"discover", "validate", "handle"} => ~delegated /\ batch = {}
  /\ place = "discover" =>
       todo = {} /\ jobs = {} /\ \A r \in Repositories : status[r] = "none"
  /\ place = "done" => todo = {} /\ jobs = {}
  /\ place = "done" /\ ~delegated =>
       batch = {} /\ \A r \in Found : status[r] # "FAILED"
  /\ NobodyIsLeftOut

(* Who waits for whom, and what the end of a process says about the phase. *)
ProcessInv ==
  /\ proc["resumed"] # "unborn" => bridge # "reading"
  /\ bridge # "reading" => ~Running("producer")
  /\ proc["producer"] # "unborn" /\ proc["bridge"] # "unborn"
  /\ bridge = "jobs" => ~Running("resumed") /\ delegated
  /\ delegated => place = "done"
  /\ proc[Orchestrator] = "zero" /\ bridge # "jobs" => place = "done"
  /\ proc["bridge"] = "zero" =>
       /\ ~delegated
       /\ bridge # "jobs"
       /\ bridge = "reading" => proc["resumed"] = "unborn" /\ ~Running("producer")
       /\ bridge = "resuming" => proc["resumed"] = "zero"

(* An outcome was earned, and is final once both stages have ended.        *)
OutcomeInv ==
  /\ \A r \in Repositories : status[r] = "SUCCESS" => r \in committed \cup published
  /\ outcome # "none" => \A p \in Stages : ~Running(p)
  /\ outcome = "zero" => (\A p \in Stages : proc[p] = "zero") /\ ~interrupted

(* What the supervisor has seen has happened.                              *)
SeenInv ==
  /\ ended => ~Running("producer")
  /\ \A p \in seen : ~Running(p)

IInv == TypeOK /\ ListsInv /\ ProcessInv /\ OutcomeInv /\ SeenInv

USE DepthAssumption, MaxAttemptsAssumption, FaultsAssumption

LEMMA InitIInv == Init => IInv
<1> SUFFICES ASSUME Init PROVE IInv
  OBVIOUS
<1> USE DEF Init, Processes, Stages, Settled
<1>1. TypeOK
  <2>1. proc \in [Processes -> {"unborn", "running", "zero", "failed", "killed"}]
    OBVIOUS
  <2>2. attempts \in [Repositories -> 0 .. MaxAttempts]
    OBVIOUS
  <2> QED
    BY <2>1, <2>2 DEF TypeOK
<1>2. ListsInv
  BY DEF ListsInv, NobodyIsLeftOut, Found
<1>3. ProcessInv
  BY DEF ProcessInv, Running, Orchestrator
<1>4. OutcomeInv
  BY DEF OutcomeInv, Running
<1>5. SeenInv
  BY DEF SeenInv
<1> QED
  BY <1>1, <1>2, <1>3, <1>4, <1>5 DEF IInv

(* What one iteration of the loop does to the state of a repository.       *)
LEMMA HandleStep ==
  ASSUME TypeOK, NEW r \in Repositories, Handle(r)
  PROVE  /\ r \in todo /\ todo' = todo \ {r} /\ place = "handle"
         /\ place' = "handle"
         /\ \E s \in {status[r]} \cup Settled : status' = [status EXCEPT ![r] = s]
         /\ \/ status'[r] \in Settled /\ jobs' = jobs
            \/ status' = status /\ jobs' = jobs \cup {r}
         /\ attempts' \in [Repositories -> 0 .. MaxAttempts]
         /\ committed' \in {committed, committed \cup {r}}
         /\ published' \in {published, published \cup {r}}
         /\ status'[r] = "SUCCESS" =>
              status[r] = "SUCCESS" \/ r \in committed' \cup published'
         /\ UNCHANGED <<change, delegated, inference, proc, supervisor>>
<1> USE DEF TypeOK, Settled, Settle, MayCommit, MayPublish
<1>1. /\ Working("handle") /\ r \in NextJobs
      /\ todo' = todo \ {r} /\ place = "handle"
      /\ UNCHANGED <<change, place, delegated, inference, proc, supervisor>>
  BY DEF Handle, Working
<1>2. r \in todo
  BY <1>1 DEF NextJobs, Deepest
<1>3. CASE HandleCheckpoint(r)
  BY <1>1, <1>2, <1>3 DEF HandleCheckpoint
<1>4. CASE Publish(r)
  BY <1>1, <1>2, <1>4 DEF Publish
<1>5. CASE AcceptEmpty(r)
  BY <1>1, <1>2, <1>5 DEF AcceptEmpty
<1>6. CASE Retry(r)
  <2>1. attempts[r] + 1 \in 0 .. MaxAttempts
    BY <1>6 DEF Retry
  <2> QED
    BY <1>1, <1>2, <1>6, <2>1 DEF Retry
<1>7. CASE GiveUp(r)
  BY <1>1, <1>2, <1>7 DEF GiveUp
<1> QED
  BY <1>3, <1>4, <1>5, <1>6, <1>7 DEF Handle

Ways == {"unborn", "running", "zero", "failed", "killed"}

LEMMA EndsOK ==
  ASSUME TypeOK, NEW p \in Processes, NEW how \in Ways, Ends(p, how)
  PROVE  proc' \in [Processes -> Ways]
BY DEF TypeOK, Ends, Ways

LEMMA NextTypeOK == TypeOK /\ [Next]_vars => TypeOK'
<1> SUFFICES ASSUME TypeOK, [Next]_vars PROVE TypeOK'
  OBVIOUS
<1>s. /\ Stages \subseteq Processes /\ "resumed" \in Processes
      /\ "bridge" \in Stages /\ "producer" \in Stages
      /\ Orchestrator \in Processes
      /\ {"running", "zero", "failed", "killed"} \subseteq Ways
  BY DEF Stages, Processes, Orchestrator, Ways
<1>1. CASE PhaseThrows \/ Discover
  BY <1>1 DEF TypeOK, inference, supervisor, observed, PhaseThrows, Discover
<1>2. ASSUME NEW r \in Repositories, Validate(r) PROVE TypeOK'
  BY <1>2 DEF TypeOK, inference, supervisor, observed, Validate, Settle, Settled
<1>3. CASE LeavePhase
  <2>1. CASE Delegate
    BY <1>3, <2>1 DEF TypeOK, supervisor, observed, LeavePhase, Delegate
  <2>2. CASE Finalize
    BY <1>3, <2>2 DEF TypeOK, supervisor, observed, LeavePhase, Finalize
  <2> QED
    BY <1>3, <2>1, <2>2 DEF LeavePhase
<1>4. ASSUME NEW r \in Repositories, Handle(r) PROVE TypeOK'
  <2>1. PICK s \in {status[r]} \cup Settled : status' = [status EXCEPT ![r] = s]
    BY <1>4, HandleStep
  <2>2. status' \in [Repositories -> {"none", "PENDING", "RUNNING"} \cup Settled]
    BY <2>1 DEF TypeOK
  <2>3. /\ committed' \subseteq Repositories /\ published' \subseteq Repositories
        /\ jobs' \subseteq Repositories /\ todo' \subseteq Repositories
        /\ place' = "handle"
        /\ attempts' \in [Repositories -> 0 .. MaxAttempts]
        /\ UNCHANGED <<change, delegated, inference, proc, supervisor>>
    BY <1>4, HandleStep DEF TypeOK
  <2> QED
    BY <2>2, <2>3 DEF TypeOK, inference, supervisor, observed
<1>5. CASE OrchestratorExits
  <2>1. proc' \in [Processes -> Ways]
    BY <1>5, <1>s, EndsOK DEF OrchestratorExits
  <2> QED
    BY <1>5, <2>1 DEF TypeOK, phases, inference, supervisor, observed, Ways, OrchestratorExits
<1>6. CASE ReadBlock \/ Collect
  <2>1. proc' \in [Processes -> Ways]
    BY <1>6, <1>s, EndsOK DEF ReadBlock, Collect, BridgeExits, TypeOK, Ways
  <2>2. bridge' \in {bridge, "jobs"} /\ UNCHANGED <<batch, results, phases, supervisor>>
    BY <1>6 DEF ReadBlock, Collect, BridgeExits
  <2> QED
    BY <2>1, <2>2 DEF TypeOK, phases, supervisor, observed, Ways
<1>7. CASE Resume
  <2>1. proc' \in [Processes -> Ways]
    BY <1>7, <1>s, EndsOK DEF Resume, BridgeExits
  <2>2. /\ bridge' \in {bridge, "resuming"} /\ place' \in {place, "handle"}
        /\ delegated' \in {delegated, FALSE} /\ todo' \in {todo, batch}
        /\ batch' \in {batch, {}} /\ results' = results
        /\ UNCHANGED <<change, status, attempts, jobs, committed, published, supervisor>>
    BY <1>7 DEF Resume, BridgeExits
  <2>3. /\ bridge' \in {"reading", "jobs", "resuming"} /\ delegated' \in BOOLEAN
        /\ place' \in {"discover", "validate", "handle", "done", "failed"}
        /\ todo' \subseteq Repositories /\ batch' \subseteq Repositories
        /\ results' \in [Repositories -> {"none", "success", "error"}]
    BY <2>2 DEF TypeOK
  <2>4. /\ seen' \subseteq Stages /\ ended' \in BOOLEAN
        /\ doomed' \subseteq Processes /\ outcome' \in {"none", "zero", "nonzero", "signal"}
        /\ terminating' \in BOOLEAN /\ interrupted' \in BOOLEAN /\ ioError' \in BOOLEAN
    BY <2>2 DEF TypeOK, supervisor, observed
  <2> QED
    BY <2>1, <2>2, <2>3, <2>4 DEF TypeOK, Ways
<1>8. ASSUME NEW r \in Repositories, Answer(r) PROVE TypeOK'
  <2>1. proc' \in [Processes -> Ways]
    BY <1>8, <1>s, EndsOK DEF Answer, BridgeExits, TypeOK, Ways
  <2>2. /\ results' \in [Repositories -> {"none", "success", "error"}]
        /\ UNCHANGED <<batch, bridge, phases, supervisor>>
    BY <1>8 DEF Answer, BridgeExits, TypeOK
  <2> QED
    BY <2>1, <2>2 DEF TypeOK, phases, supervisor, observed, Ways
<1>9. CASE ForceKill \/ \E p \in Processes : SignalArrives(p) \/ Crash(p) \/ SpawnFails(p)
  <2>1. proc' \in [Processes -> Ways]
    BY <1>9, <1>s, EndsOK DEF ForceKill, SignalArrives, Crash, SpawnFails
  <2>2. /\ UNCHANGED <<phases, inference, ended, outcome, interrupted, ioError>>
        /\ \/ UNCHANGED <<seen, terminating, doomed>>
           \/ /\ terminating' = TRUE /\ doomed' \subseteq Processes
              /\ seen' \subseteq Stages
    <3>1. CASE ForceKill \/ \E p \in Processes : SignalArrives(p) \/ Crash(p)
      BY <3>1 DEF ForceKill, SignalArrives, Crash, supervisor, observed
    <3>2. CASE \E p \in Processes : SpawnFails(p)
      BY <3>2, <1>s DEF SpawnFails, Terminate, TypeOK
    <3> QED
      BY <1>9, <3>1, <3>2
  <2>3. /\ terminating' \in BOOLEAN /\ doomed' \subseteq Processes
        /\ seen' \subseteq Stages /\ ended' \in BOOLEAN
    BY <2>2 DEF TypeOK
  <2> QED
    BY <2>1, <2>2, <2>3 DEF TypeOK, phases, inference, Ways
<1>10. CASE \/ OutputEnds \/ ProducerLeft \/ ConsumerLeft \/ Finish
            \/ StreamFails \/ Interrupt
  <2>1. /\ terminating' \in BOOLEAN /\ interrupted' \in BOOLEAN /\ ioError' \in BOOLEAN
        /\ outcome' \in {outcome, "zero", "nonzero", "signal"}
        /\ doomed' \subseteq Processes
        /\ seen' \subseteq Stages /\ ended' \in BOOLEAN
    BY <1>10, <1>s DEF OutputEnds, ProducerLeft, ConsumerLeft, Finish, StreamFails,
      Interrupt, Terminate, Resolve, TypeOK, observed
  <2>2. UNCHANGED <<phases, inference, proc>>
    BY <1>10 DEF OutputEnds, ProducerLeft, ConsumerLeft, Finish, StreamFails, Interrupt
  <2> QED
    BY <2>1, <2>2 DEF TypeOK, phases, inference
<1>11. CASE UNCHANGED vars
  BY <1>11 DEF TypeOK, vars, phases, inference, supervisor, observed
<1> QED
  BY <1>1, <1>2, <1>3, <1>4, <1>5, <1>6, <1>7, <1>8, <1>9, <1>10, <1>11
  DEF Next, OrchestratorStep, BridgeStep, SupervisorStep, Trouble

LEMMA NextLists == IInv /\ [Next]_vars => ListsInv'
<1> SUFFICES ASSUME IInv, [Next]_vars PROVE ListsInv'
  OBVIOUS
<1> USE DEF ListsInv, NobodyIsLeftOut, Found, Settled
<1>0. /\ ListsInv /\ ProcessInv
      /\ todo \subseteq Repositories /\ jobs \subseteq Repositories
      /\ batch \subseteq Repositories
      /\ DOMAIN status = Repositories
      /\ place \in {"discover", "validate", "handle", "done", "failed"}
  BY DEF IInv, TypeOK
<1>1. CASE Discover
  <2>1. UNCHANGED <<status, jobs, delegated, batch>> /\ place = "discover"
    BY <1>1 DEF Discover, Working, inference
  <2>2. ASSUME NEW c \in [Repositories -> {"none", "own", "submodule", "ahead"}],
               change' = c, todo' = {r \in Repositories : c[r] # "none"},
               place' = IF todo' = {} THEN "done" ELSE "validate"
        PROVE  ListsInv'
    <3>1. jobs' = {} /\ batch' = {} /\ ~delegated'
          /\ \A r \in Repositories : status'[r] \notin Settled
      BY <1>0, <2>1
    <3>2. \A r \in Repositories : r \in todo' <=> change'[r] # "none"
      BY <2>2
    <3>3. /\ todo' \subseteq Repositories
          /\ (place' = "done" /\ todo' = {}) \/ place' = "validate"
      BY <2>2
    <3>4. NobodyIsLeftOut'
      BY <3>1, <3>2, <3>3
    <3>5. \A r \in Found' : status'[r] # "FAILED"
      BY <3>1
    <3> QED
      BY <3>1, <3>3, <3>4, <3>5
  <2> QED
    BY <1>1, <2>2 DEF Discover
<1>2. ASSUME NEW r \in Repositories, Validate(r) PROVE ListsInv'
  BY <1>0, <1>2 DEF Validate, Settle, Working, inference, Deepest
<1>3. CASE LeavePhase
  <2>1. /\ todo = {} /\ todo' = {} /\ place # "failed" /\ batch = {} /\ ~delegated
        /\ change' = change
    BY <1>0, <1>3 DEF LeavePhase, Working
  <2>2. CASE Delegate
    BY <1>0, <2>1, <2>2 DEF Delegate
  <2>3. CASE jobs = {} /\ Finalize
    BY <1>0, <2>1, <2>3 DEF Finalize
  <2> QED
    BY <1>3, <2>2, <2>3 DEF LeavePhase
<1>4. ASSUME NEW r \in Repositories, Handle(r) PROVE ListsInv'
  <2>0. TypeOK
    BY DEF IInv
  <2>1. PICK s \in {status[r]} \cup Settled : status' = [status EXCEPT ![r] = s]
    BY <2>0, <1>4, HandleStep
  <2>2. /\ r \in todo /\ todo' = todo \ {r} /\ place = "handle"
        /\ place' = "handle"
        /\ \/ status'[r] \in Settled /\ jobs' = jobs
           \/ status' = status /\ jobs' = jobs \cup {r}
        /\ change' = change /\ delegated' = delegated /\ batch' = batch
    BY <2>0, <1>4, HandleStep DEF inference
  <2> QED
    BY <1>0, <2>1, <2>2
<1>5. CASE Resume
  <2>1. bridge = "jobs" /\ delegated /\ place = "done"
    BY <1>0, <1>5 DEF Resume, BridgeAt, ProcessInv
  <2>2. /\ UNCHANGED <<change, status, jobs>>
        /\ \/ place' = "handle" /\ delegated' = FALSE /\ todo' = batch /\ batch' = {}
           \/ UNCHANGED <<place, delegated, todo, batch>>
    BY <1>5 DEF Resume, BridgeExits
  <2> QED
    BY <1>0, <2>1, <2>2
<1>6. CASE UNCHANGED phases /\ batch' = batch
  BY <1>0, <1>6 DEF phases
<1>7. CASE \/ ReadBlock \/ Collect \/ SupervisorStep \/ StreamFails \/ Interrupt
           \/ OrchestratorExits \/ UNCHANGED vars
  BY <1>7, <1>6 DEF ReadBlock, Collect, BridgeExits, SupervisorStep, OutputEnds, ProducerLeft, ConsumerLeft,
    ForceKill, Finish, StreamFails, Interrupt, OrchestratorExits, vars, inference
<1>8. ASSUME NEW r \in Repositories, Answer(r) PROVE ListsInv'
  BY <1>8, <1>6 DEF Answer, BridgeExits
<1>9. ASSUME NEW p \in Processes, SignalArrives(p) \/ Crash(p) \/ SpawnFails(p)
      PROVE  ListsInv'
  BY <1>9, <1>6 DEF SignalArrives, Crash, SpawnFails, inference
<1>10. CASE PhaseThrows
  BY <1>10 DEF PhaseThrows
<1> QED
  BY <1>1, <1>2, <1>3, <1>4, <1>5, <1>7, <1>8, <1>9, <1>10
  DEF Next, OrchestratorStep, BridgeStep, Trouble

LEMMA NextProcess == IInv /\ [Next]_vars => ProcessInv'
<1> SUFFICES ASSUME IInv, [Next]_vars PROVE ProcessInv'
  OBVIOUS
<1> USE DEF ProcessInv, Running, Orchestrator
<1>0. /\ ListsInv /\ ProcessInv
      /\ ended => ~Running("producer")
      /\ bridge \in {"reading", "jobs", "resuming"}
      /\ DOMAIN proc = {"producer", "bridge", "resumed"}
  BY DEF IInv, SeenInv, TypeOK, Processes, Stages
<1>1. CASE PhaseThrows \/ Discover \/ LeavePhase \/ \E r \in Repositories : Validate(r) \/ Handle(r)
  <2>1. /\ place \in {"discover", "validate", "handle"}
        /\ Running(Orchestrator) /\ UNCHANGED <<bridge, proc>>
        /\ \/ UNCHANGED delegated
           \/ delegated' /\ place' = "done"
    BY <1>1 DEF PhaseThrows, Discover, Validate, LeavePhase, Delegate, Finalize, Handle,
      Working, inference
  <2>2. ~delegated /\ bridge # "jobs"
    BY <1>0, <2>1 DEF ListsInv
  <2> QED
    BY <1>0, <2>1, <2>2
<1>2. CASE OrchestratorExits
  <2>1. UNCHANGED <<bridge, place, delegated>> /\ Running(Orchestrator)
        /\ \/ place = "done" /\ proc' = [proc EXCEPT ![Orchestrator] = "zero"]
           \/ proc' = [proc EXCEPT ![Orchestrator] = "failed"]
    BY <1>2 DEF OrchestratorExits, Working, Ends, phases, inference
  <2> QED
    BY <1>0, <2>1
<1>3. CASE ReadBlock
  <2>1. /\ bridge = "reading" /\ proc["bridge"] = "running" /\ ~Running("producer")
        /\ UNCHANGED <<place, delegated>>
        /\ \/ delegated /\ bridge' = "jobs" /\ proc' = proc
           \/ bridge' = bridge /\ proc' = [proc EXCEPT !["bridge"] = "failed"]
           \/ ~delegated /\ bridge' = bridge /\ proc' = [proc EXCEPT !["bridge"] = "zero"]
    BY <1>0, <1>3 DEF ReadBlock, BridgeAt, BridgeExits, Ends, phases
  <2> QED
    BY <1>0, <2>1
<1>4. CASE Resume
  <2>1. /\ bridge = "jobs" /\ proc["bridge"] = "running"
        /\ \/ /\ proc' = [proc EXCEPT !["resumed"] = "running"]
              /\ bridge' = "resuming" /\ ~delegated'
           \/ /\ UNCHANGED <<bridge, place, delegated>>
              /\ proc' = [proc EXCEPT !["bridge"] = "failed"]
    BY <1>4 DEF Resume, BridgeAt, BridgeExits, Ends
  <2> QED
    BY <1>0, <2>1
<1>5. CASE Collect
  <2>1. /\ bridge = "resuming" /\ proc["bridge"] = "running" /\ ~Running("resumed")
        /\ UNCHANGED <<place, delegated>>
        /\ \/ delegated /\ bridge' = "jobs" /\ proc' = proc
           \/ /\ ~delegated /\ proc["resumed"] = "zero" /\ bridge' = bridge
              /\ proc' = [proc EXCEPT !["bridge"] = "zero"]
           \/ bridge' = bridge /\ proc' = [proc EXCEPT !["bridge"] = "failed"]
    BY <1>5 DEF Collect, BridgeAt, BridgeExits, Ends, phases
  <2> QED
    BY <1>0, <2>1
<1>6. ASSUME NEW r \in Repositories, Answer(r) PROVE ProcessInv'
  <2>1. /\ bridge = "jobs" /\ proc["bridge"] = "running"
        /\ UNCHANGED <<bridge, place, delegated>>
        /\ proc' = proc \/ proc' = [proc EXCEPT !["bridge"] = "failed"]
    BY <1>6 DEF Answer, BridgeAt, BridgeExits, Ends, phases
  <2> QED
    BY <1>0, <2>1
<1>7. ASSUME NEW p \in Processes, Running(p),
             \E how \in {"killed", "failed"} : Ends(p, how),
             UNCHANGED <<phases, inference>>
      PROVE  ProcessInv'
  <2>1. PICK how \in {"killed", "failed"} : proc' = [proc EXCEPT ![p] = how]
    BY <1>7 DEF Ends
  <2>2. UNCHANGED <<bridge, place, delegated>>
    BY <1>7 DEF phases, inference
  <2>3. p \in {"producer", "bridge", "resumed"}
    BY DEF Processes, Stages
  <2> QED
    BY <1>0, <1>7, <2>1, <2>2, <2>3
<1>8. ASSUME NEW p \in Processes, SignalArrives(p) \/ Crash(p) \/ SpawnFails(p)
      PROVE  ProcessInv'
  BY <1>7, <1>8 DEF SignalArrives, Crash, SpawnFails
<1>9. CASE ForceKill
  BY <1>7, <1>9 DEF ForceKill, Processes
<1>10. CASE \/ OutputEnds \/ ProducerLeft \/ ConsumerLeft \/ Finish
            \/ StreamFails \/ Interrupt \/ UNCHANGED vars
  <2>1. UNCHANGED <<bridge, place, delegated, proc>>
    BY <1>10 DEF OutputEnds, ProducerLeft, ConsumerLeft, Finish, StreamFails, Interrupt, vars, phases,
      inference
  <2> QED
    BY <1>0, <2>1
<1> QED
  BY <1>1, <1>2, <1>3, <1>4, <1>5, <1>6, <1>8, <1>9, <1>10
  DEF Next, OrchestratorStep, BridgeStep, SupervisorStep, Trouble

LEMMA NextOutcome == IInv /\ [Next]_vars => OutcomeInv'
<1> SUFFICES ASSUME IInv, [Next]_vars PROVE OutcomeInv'
  OBVIOUS
<1> USE DEF OutcomeInv, Running, Stages
<1>0. TypeOK /\ OutcomeInv /\ \A p \in seen : ~Running(p)
  BY DEF IInv, SeenInv
<1>1. ASSUME NEW r \in Repositories, Handle(r) PROVE OutcomeInv'
  <2>1. PICK s \in {status[r]} \cup Settled : status' = [status EXCEPT ![r] = s]
    BY <1>0, <1>1, HandleStep
  <2>2. /\ status'[r] = "SUCCESS" =>
             status[r] = "SUCCESS" \/ r \in committed' \cup published'
        /\ committed \subseteq committed' /\ published \subseteq published'
        /\ UNCHANGED <<proc, supervisor>>
    BY <1>0, <1>1, HandleStep
  <2>3. \A q \in Repositories : status'[q] = "SUCCESS" => q \in committed' \cup published'
    BY <1>0, <2>1, <2>2 DEF TypeOK
  <2> QED
    BY <1>0, <2>2, <2>3 DEF supervisor
<1>2. ASSUME UNCHANGED <<committed, published>>,
             \A q \in Repositories : status'[q] = "SUCCESS" => status[q] = "SUCCESS"
      PROVE  \A q \in Repositories : status'[q] = "SUCCESS" => q \in committed' \cup published'
  BY <1>0, <1>2
<1>3. CASE PhaseThrows \/ Discover \/ LeavePhase \/ \E r \in Repositories : Validate(r)
  <2>1. UNCHANGED <<proc, outcome, interrupted, committed, published>>
    BY <1>3 DEF PhaseThrows, Discover, LeavePhase, Validate, supervisor
  <2>2. \A q \in Repositories : status'[q] = "SUCCESS" => status[q] = "SUCCESS"
    BY <1>0, <1>3 DEF PhaseThrows, Discover, LeavePhase, Delegate, Finalize, Validate, Settle, TypeOK
  <2> QED
    BY <1>0, <1>2, <2>1, <2>2
<1>4. CASE Finish
  <2>1. UNCHANGED <<status, committed, published, proc, interrupted>>
    BY <1>4 DEF Finish, phases
  <2>2. /\ \A p \in Stages : ~Running(p)
        /\ outcome' = "zero" => (\A p \in Stages : proc[p] = "zero") /\ ~interrupted
    BY <1>0, <1>4 DEF Finish, Resolve
  <2> QED
    BY <1>0, <2>1, <2>2
<1>5. ASSUME NEW p \in Processes, Running(p), NEW how, Ends(p, how), how # "running",
             UNCHANGED <<phases, outcome, interrupted>>
      PROVE  OutcomeInv'
  <2>1. UNCHANGED <<status, committed, published>> /\ proc' = [proc EXCEPT ![p] = how]
    BY <1>5 DEF phases, Ends
  <2> QED
    BY <1>0, <1>5, <2>1 DEF TypeOK, Processes
<1>6. CASE Resume
  <2>1. proc["bridge"] = "running" /\ UNCHANGED <<status, committed, published, supervisor>>
    BY <1>6 DEF Resume, BridgeAt
  <2>2. outcome = "none" /\ outcome' = "none"
    BY <1>0, <2>1 DEF supervisor
  <2> QED
    BY <1>0, <2>1, <2>2
<1>7. ASSUME UNCHANGED <<phases, proc, outcome, interrupted>> PROVE OutcomeInv'
  BY <1>0, <1>7 DEF phases
<1>8. CASE ReadBlock \/ Collect \/ \E r \in Repositories : Answer(r)
  <2>1. UNCHANGED <<phases, outcome, interrupted>> /\ Running("bridge")
    BY <1>8 DEF ReadBlock, Collect, Answer, BridgeAt, supervisor
  <2>2. proc' = proc \/ Ends("bridge", "zero") \/ Ends("bridge", "failed")
    BY <1>8 DEF ReadBlock, Collect, Answer, BridgeExits
  <2> QED
    BY <1>5, <1>7, <2>1, <2>2 DEF Processes
<1>9. CASE OrchestratorExits \/ ForceKill
  BY <1>5, <1>9 DEF OrchestratorExits, Working, ForceKill, supervisor, Processes, Orchestrator
<1>10. CASE \E p \in Processes : SignalArrives(p) \/ Crash(p) \/ SpawnFails(p)
  BY <1>5, <1>10 DEF SignalArrives, Crash, SpawnFails, supervisor
<1>11. CASE \/ OutputEnds \/ ProducerLeft \/ ConsumerLeft \/ StreamFails
            \/ UNCHANGED vars
  BY <1>7, <1>11 DEF OutputEnds, ProducerLeft, ConsumerLeft, StreamFails, vars, supervisor
<1>12. CASE Interrupt
  BY <1>0, <1>12 DEF Interrupt, phases
<1> QED
  BY <1>1, <1>3, <1>4, <1>6, <1>8, <1>9, <1>10, <1>11, <1>12
  DEF Next, OrchestratorStep, BridgeStep, SupervisorStep, Trouble

LEMMA NextSeen == IInv /\ [Next]_vars => SeenInv'
<1> SUFFICES ASSUME IInv, [Next]_vars PROVE SeenInv'
  OBVIOUS
<1> USE DEF Running
<1>0. /\ seen \subseteq Stages /\ "resumed" \notin Stages
      /\ "producer" \in Stages /\ "bridge" \in Stages
      /\ Stages \subseteq Processes /\ DOMAIN proc = Processes
  BY DEF IInv, TypeOK, Stages, Processes
<1>1. ASSUME UNCHANGED <<seen, ended>>,
             proc' = proc \/ \E p \in Processes :
                               \E how : Ends(p, how) /\ (how = "running" => p = "resumed")
      PROVE  SeenInv'
  BY <1>0, <1>1 DEF IInv, SeenInv, Ends
<1>2. CASE OrchestratorStep \/ BridgeStep
  <2>1. UNCHANGED <<seen, ended>>
    BY <1>2 DEF OrchestratorStep, PhaseThrows, Discover, LeavePhase, OrchestratorExits,
      Validate, Handle, BridgeStep, ReadBlock, Resume, Collect, Answer, supervisor, observed
  <2>2. CASE OrchestratorStep
    BY <1>0, <1>1, <2>1, <2>2 DEF OrchestratorStep, PhaseThrows, Discover, LeavePhase,
      OrchestratorExits, Validate, Handle, Orchestrator, Processes
  <2>3. CASE BridgeStep
    <3>1. \/ proc' = proc \/ Ends("bridge", "zero") \/ Ends("bridge", "failed")
          \/ Ends("resumed", "running")
      BY <2>3 DEF BridgeStep, ReadBlock, Resume, Collect, Answer, BridgeExits
    <3> QED
      BY <1>0, <1>1, <2>1, <3>1 DEF Processes
  <2> QED
    BY <1>2, <2>2, <2>3
<1>3. CASE \/ ForceKill \/ Finish \/ StreamFails \/ Interrupt \/ UNCHANGED vars
           \/ \E p \in Processes : SignalArrives(p) \/ Crash(p)
  BY <1>0, <1>1, <1>3 DEF ForceKill, Finish, StreamFails, Interrupt, SignalArrives, Crash,
    vars, supervisor, observed
<1>4. CASE OutputEnds \/ ProducerLeft \/ ConsumerLeft
  BY <1>4 DEF OutputEnds, ProducerLeft, ConsumerLeft, IInv, SeenInv
<1>5. ASSUME NEW p \in Processes, SpawnFails(p) PROVE SeenInv'
  BY <1>0, <1>5 DEF SpawnFails, Ends, IInv, SeenInv
<1> QED
  BY <1>2, <1>3, <1>4, <1>5 DEF Next, SupervisorStep, Trouble

(* The invariant holds of every reachable state.                           *)
THEOREM IInvHolds == Spec => []IInv
<1>1. IInv /\ [Next]_vars => IInv'
  BY NextTypeOK, NextLists, NextProcess, NextOutcome, NextSeen DEF IInv
<1> QED
  BY InitIInv, <1>1, PTL DEF Spec

(* The variables of a pass keep their types.                               *)
THEOREM TypeCorrect == Spec => []TypeOK
<1>1. IInv => TypeOK
  BY DEF IInv
<1> QED
  BY <1>1, IInvHolds, PTL

(* An exit code of zero speaks for every repository and every process.     *)
THEOREM ZeroIsTrue == Spec => []ZeroSpeaksForAll
<1>1. IInv => ZeroSpeaksForAll
  <2> SUFFICES ASSUME IInv, outcome = "zero" PROVE ZeroSpeaksForAll
    BY DEF ZeroSpeaksForAll
  <2>1. /\ proc["producer"] = "zero" /\ proc["bridge"] = "zero" /\ ~interrupted
        /\ ~delegated /\ bridge \in {"reading", "resuming"}
    BY DEF IInv, TypeOK, OutcomeInv, ProcessInv, Stages
  <2>2. place = "done" /\ proc["resumed"] \in {"unborn", "zero"}
    BY <2>1 DEF IInv, ProcessInv, Orchestrator
  <2>3. \A r \in Found : status[r] = "SUCCESS"
    BY <2>1, <2>2 DEF IInv, ListsInv, NobodyIsLeftOut, Found, Settled
  <2> QED
    BY <2>1, <2>2, <2>3 DEF ZeroSpeaksForAll, IInv, OutcomeInv, Found, Processes,
      Stages, Running
<1> QED
  BY <1>1, IInvHolds, PTL

(* The orchestrators of a pass follow one another.                         *)
THEOREM OrchestratorsFollow == Spec => []OneOrchestrator
<1>1. IInv => OneOrchestrator
  BY DEF IInv, ProcessInv, OneOrchestrator, Running
<1> QED
  BY <1>1, IInvHolds, PTL

(* No repository gets lost between the batches.                            *)
THEOREM ListsAreComplete == Spec => []NobodyIsLeftOut
<1>1. IInv => NobodyIsLeftOut
  BY DEF IInv, ListsInv
<1> QED
  BY <1>1, IInvHolds, PTL

(* A reported outcome is final.                                            *)
THEOREM OutcomesAreFinal == Spec => OutcomesStay
<1> DEFINE Stay == \A r \in Repositories :
                     status[r] \in Settled =>
                       /\ status'[r] = status[r]
                       /\ r \in committed' <=> r \in committed
                       /\ r \in published' <=> r \in published
<1>1. IInv /\ [Next]_vars => [Stay]_vars
  <2> SUFFICES ASSUME IInv, Next PROVE Stay
    OBVIOUS
  <2>0. TypeOK /\ ListsInv
    BY DEF IInv
  <2>1. ASSUME NEW r \in Repositories, Handle(r) PROVE Stay
    <3>1. PICK s \in {status[r]} \cup Settled : status' = [status EXCEPT ![r] = s]
      BY <2>0, <2>1, HandleStep
    <3>2. /\ r \in todo /\ place = "handle"
          /\ committed' \in {committed, committed \cup {r}}
          /\ published' \in {published, published \cup {r}}
      BY <2>0, <2>1, HandleStep
    <3>3. status[r] \notin Settled
      BY <2>0, <3>2 DEF ListsInv, NobodyIsLeftOut
    <3> QED
      BY <2>0, <3>1, <3>2, <3>3 DEF TypeOK
  <2>2. ASSUME NEW r \in Repositories, Validate(r) PROVE Stay
    <3>1. status[r] \notin Settled
      BY <2>0, <2>2 DEF Validate, Working, Deepest, ListsInv, NobodyIsLeftOut
    <3> QED
      BY <2>0, <2>2, <3>1 DEF Validate, Settle, TypeOK
  <2>3. CASE LeavePhase
    BY <2>0, <2>3 DEF LeavePhase, Delegate, Finalize, TypeOK, Settled
  <2>4. CASE UNCHANGED <<status, committed, published>>
    BY <2>4
  <2>5. CASE PhaseThrows \/ Discover \/ OrchestratorExits \/ BridgeStep \/ SupervisorStep \/ Trouble
    BY <2>5, <2>4 DEF PhaseThrows, Discover, OrchestratorExits, BridgeStep, ReadBlock, Resume,
      Collect, Answer, SupervisorStep, OutputEnds, ProducerLeft, ConsumerLeft, ForceKill, Finish, Trouble,
      StreamFails, Interrupt, SignalArrives, Crash, SpawnFails, phases
  <2> QED
    BY <2>1, <2>2, <2>3, <2>5 DEF Next, OrchestratorStep
<1> QED
  BY <1>1, IInvHolds, PTL DEF Spec, OutcomesStay

(* How far a repository is from the end of its way through the lists: loop *)
(* of the validation, jobs, batch, loop of the next cycle; and the cycles  *)
(* that its attempts leave.                                                *)
Left(r) ==
  4 * (MaxAttempts - attempts[r])
    + (IF place = "discover" THEN 5
       ELSE IF r \in todo /\ place = "validate" THEN 4
       ELSE IF r \in jobs THEN 3
       ELSE IF r \in batch THEN 2
       ELSE IF r \in todo THEN 1 ELSE 0)

Stays(r) ==
  /\ attempts'[r] = attempts[r]
  /\ r \in todo' <=> r \in todo
  /\ r \in jobs' <=> r \in jobs
  /\ r \in batch' <=> r \in batch

(* Each repository goes through the cycles of delegation and resumption at *)
(* most once per attempt, whatever the others do: it never changes its     *)
(* list but towards its end, and is put back on one only by a retry.       *)
RepositoriesOnlyGoOn ==
  [][\A r \in Repositories : Left(r)' < Left(r) \/ Stays(r)]_vars

(* One iteration of the last phase takes its repository on, and only it.   *)
LEMMA HandleGoesOn ==
  ASSUME IInv, NEW r \in Repositories, Handle(r), NEW q \in Repositories
  PROVE  Left(q)' < Left(q) \/ Stays(q)
<1>0. TypeOK /\ ListsInv
  BY DEF IInv
<1>1. /\ r \in todo /\ todo' = todo \ {r} /\ place = "handle" /\ place' = "handle"
      /\ jobs' = jobs \/ jobs' = jobs \cup {r}
      /\ batch' = batch
  BY <1>0, HandleStep DEF inference
<1>2. r \notin jobs /\ batch = {}
  BY <1>0, <1>1 DEF ListsInv, NobodyIsLeftOut
<1>3. /\ \A p \in Repositories : attempts[p] \in 0 .. MaxAttempts
      /\ \A p \in Repositories : attempts'[p] \in 0 .. MaxAttempts
  BY <1>0, HandleStep DEF TypeOK
<1>4. CASE q # r
  <2>1. attempts'[q] = attempts[q]
    BY <1>0, <1>4 DEF Handle, HandleCheckpoint, Publish, AcceptEmpty, Retry, GiveUp, TypeOK
  <2> QED
    BY <1>1, <1>4, <2>1 DEF Stays
<1>5. CASE q = r
  <2>1. \/ attempts'[r] = attempts[r] /\ jobs' = jobs
        \/ attempts'[r] = attempts[r] + 1
    BY <1>0 DEF Handle, HandleCheckpoint, Publish, AcceptEmpty, Retry, GiveUp, TypeOK
  <2> QED
    BY <1>1, <1>2, <1>3, <1>5, <2>1 DEF Left
<1> QED
  BY <1>4, <1>5

(* The steps that pass whole lists on, and the one that opens the cycles.  *)
LEMMA ListsGoOn ==
  ASSUME IInv, NEW q \in Repositories,
         \/ Discover \/ PhaseThrows \/ LeavePhase \/ Resume
         \/ \E r \in Repositories : Validate(r)
  PROVE  Left(q)' < Left(q) \/ Stays(q)
<1>0. /\ TypeOK /\ ListsInv /\ ProcessInv
      /\ attempts[q] \in 0 .. MaxAttempts
      /\ 4 * (MaxAttempts - attempts[q]) \in Int
  BY DEF IInv, TypeOK
<1>1. CASE Discover
  <2>1. /\ place = "discover" /\ attempts' = attempts /\ place' # "discover"
        /\ jobs' = jobs /\ batch' = batch /\ jobs = {} /\ batch = {}
    BY <1>0, <1>1 DEF Discover, Working, inference, ListsInv
  <2> QED
    BY <1>0, <2>1 DEF Left
<1>2. CASE PhaseThrows
  <2>1. UNCHANGED <<attempts, todo, jobs, batch>>
    BY <1>2 DEF PhaseThrows, inference
  <2> QED
    BY <2>1 DEF Stays
<1>3. CASE LeavePhase
  <2>1. /\ todo = {} /\ todo' = {} /\ batch = {} /\ attempts' = attempts
        /\ place # "discover" /\ place' # "discover"
        /\ \/ batch' = jobs /\ jobs' = {}
           \/ batch' = batch /\ jobs' = jobs
    BY <1>0, <1>3 DEF LeavePhase, Working, Delegate, Finalize, ListsInv
  <2> QED
    BY <1>0, <2>1 DEF Left, Stays
<1>4. CASE Resume
  <2>1. /\ place = "done" /\ attempts' = attempts /\ jobs' = jobs
        /\ \/ place' = "handle" /\ todo' = batch /\ batch' = {}
           \/ UNCHANGED <<todo, batch>>
    BY <1>0, <1>4 DEF Resume, BridgeAt, BridgeExits, ProcessInv
  <2>2. todo = {} /\ jobs = {}
    BY <1>0, <2>1 DEF ListsInv
  <2> QED
    BY <1>0, <2>1, <2>2 DEF Left, Stays
<1>5. ASSUME NEW r \in Repositories, Validate(r)
      PROVE  Left(q)' < Left(q) \/ Stays(q)
  <2>1. /\ place = "validate" /\ place' = "validate" /\ r \in todo /\ todo' = todo \ {r}
        /\ attempts' = attempts /\ batch' = batch
        /\ jobs' = jobs \/ jobs' = jobs \cup {r}
    BY <1>5 DEF Validate, Working, Deepest, inference
  <2>2. batch = {} /\ r \notin jobs
    BY <1>0, <2>1 DEF ListsInv, NobodyIsLeftOut
  <2> QED
    BY <1>0, <2>1, <2>2 DEF Left, Stays
<1> QED
  BY <1>1, <1>2, <1>3, <1>4, <1>5

(* A pass has a bounded number of cycles. *)
THEOREM RepositoriesOnlyGoOnHolds == Spec => RepositoriesOnlyGoOn
<1> DEFINE GoOn == \A r \in Repositories : Left(r)' < Left(r) \/ Stays(r)
<1>1. IInv /\ [Next]_vars => [GoOn]_vars
  <2> SUFFICES ASSUME IInv, Next, NEW q \in Repositories
               PROVE  Left(q)' < Left(q) \/ Stays(q)
    OBVIOUS
  <2>1. CASE UNCHANGED <<attempts, todo, jobs, batch>>
    BY <2>1 DEF Stays
  <2>2. CASE \/ OrchestratorExits \/ ReadBlock \/ Collect
             \/ \E r \in Repositories : Answer(r)
    BY <2>1, <2>2 DEF OrchestratorExits, ReadBlock, Collect, Answer, BridgeExits,
      phases, inference
  <2>3. CASE SupervisorStep \/ Trouble
    BY <2>1, <2>3 DEF SupervisorStep, OutputEnds, ProducerLeft, ConsumerLeft, ForceKill, Finish, Trouble,
      StreamFails, Interrupt, SignalArrives, Crash, SpawnFails, phases, inference
  <2> QED
    BY <2>2, <2>3, HandleGoesOn, ListsGoOn DEF Next, OrchestratorStep, BridgeStep
<1> QED
  BY <1>1, IInvHolds, PTL DEF Spec, RepositoriesOnlyGoOn
=============================================================================
