------------------------- MODULE ReconcilerRowProofs -------------------------
(* What every transaction on the reconciler row preserves, whoever runs it. *)
EXTENDS ReconcilerRow, TLAPS

(* The transactions reserved to the owner, with any arguments.             *)
OwnerTransaction(l) ==
  \/ \E g \in Nat, success \in BOOLEAN : RowFinish(l, g, success)
  \/ RowRelease(l)
  \/ \E g \in Nat, e \in Executions : RowRegister(l, g, e)
  \/ \E e \in Executions : RowAuthorize(l, e) \/ RowClear(l, e)

(* Every column keeps its type.                                            *)
LEMMA RowTypePreserved ==
  ASSUME RowTypeOK, NEW l \in Launchers,
         RowCoalesce \/ RowTakeOver(l) \/ OwnerTransaction(l)
  PROVE  RowTypeOK'
<1> USE DEF RowTypeOK, ExecStates, ownerColumns, execColumns, NoGeneration
<1>1. CASE RowCoalesce
  BY <1>1 DEF RowCoalesce
<1>2. CASE RowTakeOver(l)
  BY <1>2 DEF RowTakeOver
<1>3. ASSUME NEW g \in Nat, NEW success \in BOOLEAN, RowFinish(l, g, success)
      PROVE  RowTypeOK'
  BY <1>3 DEF RowFinish
<1>4. CASE RowRelease(l)
  BY <1>4 DEF RowRelease
<1>5. ASSUME NEW g \in Nat, NEW e \in Executions, RowRegister(l, g, e)
      PROVE  RowTypeOK'
  BY <1>5 DEF RowRegister
<1>6. ASSUME NEW e \in Executions, RowAuthorize(l, e) \/ RowClear(l, e)
      PROVE  RowTypeOK'
  BY <1>6 DEF RowAuthorize, RowClear
<1> QED
  BY <1>1, <1>2, <1>3, <1>4, <1>5, <1>6 DEF OwnerTransaction

(* A readable row stays readable, provided the new owner of a takeover did *)
(* not itself register the execution it inherits.                          *)
LEMMA RowReadablePreserved ==
  ASSUME RowTypeOK, RowReadable, NEW l \in Launchers,
         \/ RowCoalesce
         \/ RowTakeOver(l) /\ execOwner # l
         \/ OwnerTransaction(l)
  PROVE  RowReadable'
<1> USE NoneIsNoToken, NoneIsNoState DEF RowTypeOK, RowReadable, ExecStates,
      OwnerColumnsTogether, GenerationsOrdered, ExecColumnsTogether,
      ExecutionExplained, ownerColumns, execColumns, NoGeneration
<1>1. CASE RowCoalesce
  BY <1>1 DEF RowCoalesce
<1>2. CASE RowTakeOver(l) /\ execOwner # l
  BY <1>2 DEF RowTakeOver
<1>3. ASSUME NEW g \in Nat, NEW success \in BOOLEAN, RowFinish(l, g, success)
      PROVE  RowReadable'
  BY <1>3 DEF RowFinish, FinishAllowed
<1>4. CASE RowRelease(l)
  BY <1>4 DEF RowRelease, ReleaseAllowed
<1>5. ASSUME NEW g \in Nat, NEW e \in Executions, RowRegister(l, g, e)
      PROVE  RowReadable'
  BY <1>5 DEF RowRegister, RegisterAllowed
<1>6. ASSUME NEW e \in Executions, RowAuthorize(l, e)
      PROVE  RowReadable'
  BY <1>6 DEF RowAuthorize, AuthorizeAllowed
<1>7. ASSUME NEW e \in Executions, RowClear(l, e)
      PROVE  RowReadable'
  BY <1>7 DEF RowClear, ClearAllowed
<1> QED
  BY <1>1, <1>2, <1>3, <1>4, <1>5, <1>6, <1>7 DEF OwnerTransaction

(* An owner's transaction never hands the row, or an execution, to anybody *)
(* else: it keeps or empties the owner, and it registers only for itself.  *)
LEMMA OwnerTransactionIsLocal ==
  ASSUME NEW l \in Launchers, OwnerTransaction(l)
  PROVE  /\ owner = l /\ owner' \in {l, None}
         /\ requested' = requested
         /\ \/ execToken' = None \/ execOwner' = l
            \/ UNCHANGED <<execToken, execOwner>>
         /\ execToken' # None => owner' = l
BY NoneIsNoToken DEF OwnerTransaction, RowFinish, FinishAllowed, RowRelease,
   ReleaseAllowed, RowRegister, RegisterAllowed, RowAuthorize, AuthorizeAllowed,
   RowClear, ClearAllowed, ownerColumns, execColumns
=============================================================================
