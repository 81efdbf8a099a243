-------------------------- MODULE ReconcilerProofs --------------------------
(***************************************************************************)
(* What TLAPS proves of the coordinator for every set of callers and       *)
(* execution tokens and for unbounded generations (Reconciler).            *)
(***************************************************************************)
EXTENDS Reconciler, ReconcilerRowProofs

(* A takeover is never committed against a living owner, nor by the        *)
(* process that registered the execution it inherits: a sample that found  *)
(* the owner dead stays true, and an execution outlives its launcher only. *)
StaleSamplesAreSafe ==
  \A l \in Launchers :
    seenRow[l][1] # None /\ ~seenAlive[l] => ~alive[seenRow[l][1]]

ExecutionsOfOthersAreOrphans ==
  execToken # None /\ execOwner # owner => ~alive[execOwner]

IInv ==
  TypeOK /\ RowReadable /\ StaleSamplesAreSafe /\ ExecutionsOfOthersAreOrphans

(* The first component of a sample is the owner column.                    *)
LEMMA SampledOwner ==
  ASSUME TypeOK, NEW l \in Launchers
  PROVE  /\ AdmissionView \in Views /\ NoView \in Views
         /\ AdmissionView[1] = owner /\ NoView[1] = None
         /\ seenRow[l][1] \in Launchers \cup {None}
BY DEF TypeOK, RowTypeOK, AdmissionView, NoView, Views, NoGeneration

(* The initial states satisfy the inductive invariant. *)
LEMMA InitIInv == Init => IInv
BY NoneIsNoToken DEF Init, RowInit, IInv, TypeOK, RowTypeOK, RowReadable,
   OwnerColumnsTogether, GenerationsOrdered, ExecColumnsTogether,
   ExecutionExplained, StaleSamplesAreSafe, ExecutionsOfOthersAreOrphans,
   NoView, Views, NoGeneration

(* The sample actions leave the row alone; NoView samples nobody.          *)
LEMMA SamplingKeepsIInv ==
  ASSUME IInv, NEW l \in Launchers, Observe(l) \/ LoseRace(l)
  PROVE  IInv'
<1> USE DEF IInv, Observe, LoseRace, ForgetSample, row
<1>1. TypeOK'
  BY SampledOwner DEF TypeOK, RowTypeOK
<1>2. RowReadable'
  BY DEF RowReadable, OwnerColumnsTogether, GenerationsOrdered,
     ExecColumnsTogether, ExecutionExplained
<1>3. StaleSamplesAreSafe'
  BY NoneIsNoToken, SampledOwner DEF StaleSamplesAreSafe, JudgedAlive, TypeOK,
    RowTypeOK
<1>4. ExecutionsOfOthersAreOrphans'
  BY DEF ExecutionsOfOthersAreOrphans
<1> QED
  BY <1>1, <1>2, <1>3, <1>4

(* A death keeps the row, and every verdict of death stays true.           *)
LEMMA DyingKeepsIInv ==
  ASSUME IInv, NEW l \in Launchers, Die(l)
  PROVE  IInv'
<1> USE DEF IInv, Die, row
<1>1. TypeOK'
  BY DEF TypeOK, RowTypeOK
<1>2. RowReadable'
  BY DEF RowReadable, OwnerColumnsTogether, GenerationsOrdered,
     ExecColumnsTogether, ExecutionExplained
<1>3. StaleSamplesAreSafe'
  BY SampledOwner DEF StaleSamplesAreSafe, TypeOK
<1>4. ExecutionsOfOthersAreOrphans'
  BY DEF ExecutionsOfOthersAreOrphans, TypeOK, RowTypeOK
<1> QED
  BY <1>1, <1>2, <1>3, <1>4

(* Admission: the committed sample is the row itself.                      *)
LEMMA AdmissionKeepsIInv ==
  ASSUME IInv, NEW l \in Launchers, Coalesce(l) \/ TakeOver(l)
  PROVE  IInv'
<1>1. CASE Coalesce(l)
  <2> USE <1>1 DEF IInv, Coalesce, ForgetSample
  <2>1. RowTypeOK'
    BY RowTypePreserved, NoneIsNoToken DEF TypeOK, RowCoalesce, RowTypeOK,
      ownerColumns, execColumns
  <2>2. TypeOK'
    BY <2>1, SampledOwner DEF TypeOK
  <2>3. RowReadable'
    BY DEF RowCoalesce, TypeOK, RowTypeOK, RowReadable, OwnerColumnsTogether,
       GenerationsOrdered, ExecColumnsTogether, ExecutionExplained,
       ownerColumns, execColumns
  <2>4. StaleSamplesAreSafe'
    BY SampledOwner DEF StaleSamplesAreSafe, TypeOK
  <2>5. ExecutionsOfOthersAreOrphans'
    BY DEF ExecutionsOfOthersAreOrphans, RowCoalesce, ownerColumns, execColumns
  <2> QED
    BY <2>2, <2>3, <2>4, <2>5
<1>2. CASE TakeOver(l)
  <2> USE <1>2 DEF IInv, TakeOver, ForgetSample
  <2>1. owner # None => ~alive[owner]
    BY SampledOwner DEF StaleSamplesAreSafe
  <2>2. execToken # None => execOwner # l /\ ~alive[execOwner]
    BY <2>1, NoneIsNoToken DEF ExecutionsOfOthersAreOrphans, RowReadable,
       ExecColumnsTogether, ExecutionExplained
  <2>3. TypeOK'
    BY SampledOwner DEF TypeOK, RowTypeOK, RowTakeOver, execColumns
  <2>4. RowReadable'
    BY <2>2, NoneIsNoToken DEF RowTakeOver, TypeOK, RowTypeOK, RowReadable,
       OwnerColumnsTogether, GenerationsOrdered, ExecColumnsTogether,
       ExecutionExplained, execColumns, NoGeneration
  <2>5. StaleSamplesAreSafe'
    BY SampledOwner DEF StaleSamplesAreSafe, TypeOK
  <2>6. ExecutionsOfOthersAreOrphans'
    BY <2>2 DEF ExecutionsOfOthersAreOrphans, RowTakeOver, execColumns
  <2> QED
    BY <2>3, <2>4, <2>5, <2>6
<1> QED
  BY <1>1, <1>2

(* The transactions of an owner.                                           *)
LEMMA OwnerKeepsIInv ==
  ASSUME IInv, NEW l \in Launchers, OwnerTransaction(l),
         UNCHANGED <<alive, seenRow, seenAlive>>
  PROVE  IInv'
<1> USE DEF IInv
<1>1. TypeOK'
  BY RowTypePreserved DEF TypeOK
<1>2. RowReadable'
  BY RowReadablePreserved DEF TypeOK
<1>3. StaleSamplesAreSafe'
  BY DEF StaleSamplesAreSafe
<1>4. ExecutionsOfOthersAreOrphans'
  BY OwnerTransactionIsLocal DEF ExecutionsOfOthersAreOrphans
<1> QED
  BY <1>1, <1>2, <1>3, <1>4

(* Each remaining action of a caller is such a transaction.                *)
LEMMA OwnerActions ==
  ASSUME TypeOK, NEW l \in Launchers,
         \/ Finish(l) \/ Release(l) \/ Register(l) \/ Authorize(l) \/ Clear(l)
  PROVE  OwnerTransaction(l) /\ UNCHANGED <<alive, seenRow, seenAlive>>
<1>1. \A g \in 0 .. requested : g \in Nat
  BY DEF TypeOK, RowTypeOK
<1> QED
  BY <1>1 DEF OwnerTransaction, Finish, Release, Register, Authorize, Clear

(* Every coordinator call preserves it. *)
LEMMA NextIInv == IInv /\ [Next]_vars => IInv'
<1> SUFFICES ASSUME IInv, [Next]_vars PROVE IInv'
  OBVIOUS
<1>1. ASSUME NEW l \in Launchers,
             \/ Finish(l) \/ Release(l) \/ Register(l) \/ Authorize(l)
             \/ Clear(l)
      PROVE  IInv'
  <2>1. OwnerTransaction(l) /\ UNCHANGED <<alive, seenRow, seenAlive>>
    BY <1>1, OwnerActions DEF IInv
  <2> QED
    BY <2>1, OwnerKeepsIInv
<1>2. CASE UNCHANGED vars
  BY <1>2 DEF vars, row, IInv, TypeOK, RowTypeOK, RowReadable,
     OwnerColumnsTogether, GenerationsOrdered, ExecColumnsTogether,
     ExecutionExplained, StaleSamplesAreSafe, ExecutionsOfOthersAreOrphans,
     AdmissionView
<1> QED
  BY <1>1, <1>2, SamplingKeepsIInv, DyingKeepsIInv, AdmissionKeepsIInv
     DEF Next

-----------------------------------------------------------------------------
(* The columns and samples keep their types.                               *)
THEOREM TypeCorrect == Spec => []TypeOK
<1>1. IInv => TypeOK
  BY DEF IInv
<1> QED
  BY InitIInv, NextIInv, <1>1, PTL DEF Spec

(* Any order of calls by any number of processes leaves a row that the     *)
(* reader of reconciler-state.ts accepts, so no caller can make every      *)
(* later call of every other caller throw.                                 *)
THEOREM RowStaysReadable == Spec => []RowReadable
<1>1. IInv => RowReadable
  BY DEF IInv
<1> QED
  BY InitIInv, NextIInv, <1>1, PTL DEF Spec

(* Whatever a caller sampled and however late it commits, a living owner   *)
(* is never displaced.                                                     *)
THEOREM LivingOwnerKeepsRow == Spec => LiveOwnerKeepsRow
<1> DEFINE Step == owner # None /\ owner' # owner /\ alive[owner] => owner' = None
<1>1. IInv /\ [Next]_vars => [Step]_vars
  <2> SUFFICES ASSUME IInv, NEW l \in Launchers,
                      owner # None, owner' # owner, alive[owner],
                      \/ Observe(l) \/ LoseRace(l) \/ Coalesce(l) \/ TakeOver(l)
                      \/ Finish(l) \/ Release(l) \/ Register(l) \/ Authorize(l)
                      \/ Clear(l) \/ Die(l)
               PROVE  owner' = None
    BY DEF Next
  <2>1. CASE Observe(l) \/ LoseRace(l) \/ Die(l)
    BY <2>1 DEF Observe, LoseRace, Die, row
  <2>2. CASE Coalesce(l)
    BY <2>2 DEF Coalesce, RowCoalesce, ownerColumns
  <2>3. CASE TakeOver(l)
    BY <2>3, SampledOwner DEF TakeOver, IInv, StaleSamplesAreSafe
  <2>4. CASE Finish(l) \/ Release(l) \/ Register(l) \/ Authorize(l) \/ Clear(l)
    BY <2>4, OwnerActions, OwnerTransactionIsLocal DEF IInv
  <2> QED
    BY <2>1, <2>2, <2>3, <2>4
<1>2. [][Next]_vars /\ []IInv => [][Step]_vars
  BY <1>1, PTL
<1> QED
  BY InitIInv, NextIInv, <1>2, PTL DEF Spec, LiveOwnerKeepsRow

(* A recorded execution survives every change of owner and of running      *)
(* generation: it can only be cleared, and only under an owner that stays. *)
THEOREM DescriptorSurvives == Spec => DescriptorOutlivesOwner
<1> DEFINE Step == execToken # None /\ ownerColumns' # ownerColumns
                     => UNCHANGED execColumns /\ owner' # None
<1>1. IInv /\ [Next]_vars => [Step]_vars
  <2> SUFFICES ASSUME IInv, NEW l \in Launchers,
                      execToken # None, ownerColumns' # ownerColumns,
                      \/ Observe(l) \/ LoseRace(l) \/ Coalesce(l) \/ TakeOver(l)
                      \/ Finish(l) \/ Release(l) \/ Register(l) \/ Authorize(l)
                      \/ Clear(l) \/ Die(l)
               PROVE  UNCHANGED execColumns /\ owner' # None
    BY DEF Next
  <2>1. CASE Observe(l) \/ LoseRace(l) \/ Die(l) \/ Coalesce(l)
    BY <2>1 DEF Observe, LoseRace, Die, Coalesce, RowCoalesce, row,
      ownerColumns
  <2>2. CASE TakeOver(l)
    BY <2>2, NoneIsNoToken DEF TakeOver, RowTakeOver
  <2>3. CASE Finish(l) \/ Release(l) \/ Register(l)
    BY <2>3 DEF Finish, Release, Register, RowFinish, FinishAllowed,
      RowRelease,
       ReleaseAllowed, RowRegister, RegisterAllowed
  <2>4. CASE Authorize(l) \/ Clear(l)
    BY <2>4 DEF Authorize, Clear, RowAuthorize, RowClear, ownerColumns
  <2> QED
    BY <2>1, <2>2, <2>3, <2>4
<1>2. [][Next]_vars /\ []IInv => [][Step]_vars
  BY <1>1, PTL
<1> QED
  BY InitIInv, NextIInv, <1>2, PTL DEF Spec, DescriptorOutlivesOwner

(* Completion moves only forward, to the generation that was running, and  *)
(* the owner stays exactly when a newer request is waiting.                *)
THEOREM CompletionIsMonotone == Spec => CompletionMovesForward
<1> DEFINE Step == completed' # completed
                     => completed < completed' /\ completed' = running
                          /\ (requested > running <=> owner' # None)
<1>1. IInv /\ [Next]_vars => [Step]_vars
  <2> SUFFICES ASSUME IInv, NEW l \in Launchers, completed' # completed,
                      \/ Observe(l) \/ LoseRace(l) \/ Coalesce(l) \/ TakeOver(l)
                      \/ Finish(l) \/ Release(l) \/ Register(l) \/ Authorize(l)
                      \/ Clear(l) \/ Die(l)
               PROVE  /\ completed < completed' /\ completed' = running
                      /\ requested > running <=> owner' # None
    BY DEF Next
  <2>1. PICK g \in 0 .. requested, success \in BOOLEAN : RowFinish(l, g,
    success)
    BY DEF Observe, LoseRace, Die, Coalesce, TakeOver, Finish, Release,
      Register,
       Authorize, Clear, RowCoalesce, RowTakeOver, RowRelease, RowRegister,
       RowAuthorize, RowClear, row
  <2> QED
    BY <2>1, NoneIsNoToken DEF IInv, TypeOK, RowTypeOK, RowReadable,
       GenerationsOrdered, RowFinish, FinishAllowed
<1>2. [][Next]_vars /\ []IInv => [][Step]_vars
  BY <1>1, PTL
<1> QED
  BY InitIInv, NextIInv, <1>2, PTL DEF Spec, CompletionMovesForward
=============================================================================
