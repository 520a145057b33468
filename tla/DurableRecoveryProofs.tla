------------------------ MODULE DurableRecoveryProofs ------------------------
(* The recovery store keeps its rows consistent and is a ledger of          *)
(* operations, for any number of tabs, sessions, requests and invocations.  *)
EXTENDS DurableRecovery, TLAPS

------------------------------------------------------------------------------
(* The merge of evidence, proved in RecoveryEvidenceProofs: its facts about  *)
(* two snapshots do not depend on the state of that module.                  *)

Merging ==
    INSTANCE RecoveryEvidenceProofs WITH
        execution <- None, snapshots <- None, delivered <- None, retained <- None

LEMMA SameMerge ==
    ASSUME NEW previous, NEW next
    PROVE  /\ Merging!Merge(previous, next) = Merge(previous, next)
           /\ Merging!Mergeable(previous, next) = Mergeable(previous, next)
           /\ Merging!IsNotSubmitted(next) = IsNotSubmitted(next)
           /\ Merging!Identified(next) = Identified(next)
           /\ Merging!Accepted(next) = Accepted(next)
           /\ Merging!Committed(next) = Committed(next)
           /\ Merging!SameReceipt(previous, next) = SameReceipt(previous, next)
<1> QED
  BY DEF Merging!Merge, Merge, Merging!StalePending, StalePending,
         Merging!KeepEstablished, KeepEstablished, Merging!Mergeable, Mergeable,
         Merging!IsNotSubmitted, IsNotSubmitted, Merging!Identified, Identified,
         Merging!Accepted, Accepted, Merging!Committed, Committed,
         Merging!SameReceipt, SameReceipt

LEMMA SameEvidence == Merging!AcceptedEvidence = AcceptedEvidence
<1> QED
  BY DEF Merging!AcceptedEvidence, AcceptedEvidence, Merging!Evidence, Evidence,
         Merging!ValidEvidence, ValidEvidence, Merging!NotSubmitted, NotSubmitted,
         Merging!Identified, Identified, Merging!Accepted, Accepted,
         Merging!Committed, Committed

LEMMA MergeIsValid ==
    ASSUME NEW previous \in AcceptedEvidence \cup {None},
           NEW next \in AcceptedEvidence,
           Mergeable(previous, next)
    PROVE  Merge(previous, next) \in AcceptedEvidence
<1> QED
  BY EvidenceAssumption, SameMerge, SameEvidence, Merging!MergeIsValid
     DEF Merging!EvidenceAssumption, Merging!Evidence, Evidence

LEMMA MergeFields ==
    ASSUME NEW previous \in AcceptedEvidence, NEW next \in AcceptedEvidence,
           Mergeable(previous, next)
    PROVE  LET e == Merge(previous, next) IN
           /\ IsNotSubmitted(e) <=> IsNotSubmitted(previous) \/ IsNotSubmitted(next)
           /\ Identified(next) => e.transactionHash = next.transactionHash
<1> QED
  BY EvidenceAssumption, SameMerge, SameEvidence, Merging!MergeFields
     DEF Merging!EvidenceAssumption, Merging!Evidence, Evidence

------------------------------------------------------------------------------
(* Finals and rows.                                                          *)

LEMMA FinalFields ==
    ASSUME NEW final \in Final
    PROVE  final # None /\ final.hash \in HashText \cup {None}
<1> QED
  BY RecoveryAssumption DEF Final, FinalsOf, Rejected, Submitted, Signed

\* An approved submission is a final of any subject that submits.
LEMMA SubmittedIsFinal ==
    ASSUME NEW tx \in Tx, NEW subject \in SubmitSubject
    PROVE  LET f == Submitted([tx |-> tx, lowerCase |-> TRUE]) IN
           f \in Final /\ f # None /\ SubmissionOf(f, tx)
<1> DEFINE h == [tx |-> tx, lowerCase |-> TRUE]
<1>1. h \in HashText /\ h # None
  <2>1. h \in HashText
    BY DEF HashText
  <2>2. None \notin HashText
    BY RecoveryAssumption
  <2> QED
    BY <2>1, <2>2
<1>2. Submitted(h) \in FinalsOf(subject)
  BY <1>1 DEF FinalsOf
<1>3. subject \in Subject
  BY RecoveryAssumption
<1>4. Submitted(h) \in Final
  BY <1>2, <1>3 DEF Final
<1>5. SubmissionOf(Submitted(h), tx)
  BY <1>1 DEF Submitted, SubmissionOf
<1> QED
  BY <1>4, <1>5, FinalFields

\* Two rows that differ in their time stamp only agree on everything else.
LEMMA Stamped ==
    ASSUME NEW row \in Request, NEW t \in Nat
    PROVE  LET r == [row EXCEPT !.updatedAt = t] IN
           /\ r \in Request
           /\ RowAgrees(row) => RowAgrees(r)
           /\ EntryOf(r) = EntryOf(row)
           /\ r.debt = row.debt /\ r.receipt = row.receipt /\ r.state = row.state
<1> QED
  BY DEF Request, RowAgrees, EntryOf, Settled, VerifiedNotSubmitted, Failed

------------------------------------------------------------------------------
(* One row                                                                 *)

LEMMA FinalAgrees ==
    ASSUME NEW row \in Request, RowAgrees(row), NEW final \in Final,
           CanSaveFinal(row, final)
    PROVE  LET r == [row EXCEPT !.final = final] IN
           r \in Request /\ RowAgrees(r)
<1> USE EvidenceAssumption, RecoveryAssumption
<1>1. final # None
  BY FinalFields
<1> QED
  BY <1>1 DEF Request, RowAgrees, CanSaveFinal, Settled, VerifiedNotSubmitted, Failed

LEMMA RecoveryAgrees ==
    ASSUME NEW row \in Request, RowAgrees(row), NEW next \in AcceptedEvidence,
           CanSaveRecovery(row, next)
    PROVE  LET r == WithRecovery(row, next) IN
           r \in Request /\ RowAgrees(r)
<1> USE EvidenceAssumption, RecoveryAssumption
<1> DEFINE e == Merge(row.evidence, next)
           f == Submitted([tx |-> e.transactionHash, lowerCase |-> TRUE])
           r == WithRecovery(row, next)
<1>1. e \in AcceptedEvidence /\ e \in Evidence /\ ValidEvidence(e) /\ e # None
  <2>1. row.evidence \in AcceptedEvidence \cup {None} /\ Mergeable(row.evidence, next)
    BY DEF Request, CanSaveRecovery
  <2> QED
    BY <2>1, MergeIsValid DEF AcceptedEvidence
<1>2. r = [row EXCEPT !.evidence = e,
                      !.transactionHash = IF Identified(e) THEN e.transactionHash ELSE @,
                      !.final = IF e.status = "approved" THEN f ELSE @]
  BY DEF WithRecovery
<1>3. Identified(e) => f \in Final /\ f # None /\ SubmissionOf(f, e.transactionHash)
  <2> SUFFICES ASSUME Identified(e)
               PROVE  f \in Final /\ f # None /\ SubmissionOf(f, e.transactionHash)
    OBVIOUS
  <2>1. e.transactionHash \in Tx /\ row.receipt.subject \in SubmitSubject
    BY <1>1 DEF Identified, Evidence, CanSaveRecovery
  <2> QED
    BY <2>1, SubmittedIsFinal
<1>4. /\ e.status = "approved" => Identified(e)
      /\ e.status = "not-submitted" => ~Identified(e)
  BY <1>1 DEF ValidEvidence, NotSubmitted, Identified
<1>5. r \in Request
  BY <1>1, <1>2, <1>3, <1>4 DEF Request, Identified, Evidence
<1>6. /\ r.evidence = e
      /\ r.transactionHash = IF Identified(e) THEN e.transactionHash ELSE row.transactionHash
      /\ r.final = IF e.status = "approved" THEN f ELSE row.final
      /\ r.state = "active"
  BY <1>2 DEF Request, CanSaveRecovery
<1>7. /\ row.transactionHash # None => e.transactionHash = row.transactionHash
      /\ row.final # None => Identified(e) /\ row.final = f
  BY DEF CanSaveRecovery
<1> QED
  BY <1>1, <1>3, <1>4, <1>5, <1>6, <1>7
     DEF RowAgrees, Failed, IsNotSubmitted, Identified

LEMMA HashAgrees ==
    ASSUME NEW row \in Request, RowAgrees(row), NEW tx \in Tx, CanSaveHash(row, tx)
    PROVE  LET r == [row EXCEPT !.transactionHash = tx] IN
           r \in Request /\ RowAgrees(r)
<1> QED
  BY EvidenceAssumption
     DEF Request, RowAgrees, CanSaveHash, Settled, VerifiedNotSubmitted, Failed, Identified

LEMMA TransitionAgrees ==
    ASSUME NEW row \in Request, RowAgrees(row),
           NEW state \in {"acknowledged", "archived"}, CanTransition(row, state)
    PROVE  LET r == [row EXCEPT !.state = state] IN
           r \in Request /\ RowAgrees(r)
<1> QED
  BY DEF Request, RowAgrees, CanTransition, Settled, VerifiedNotSubmitted, Failed

------------------------------------------------------------------------------
(* The store                                                               *)

\* A save between its transactions, and a row, waive the acknowledgement only
\* if the invocation they name, should it still exist, waives it.
WaiverOf(receipt) ==
    /\ receipt.invocation \in prepared
    /\ invocations[receipt.invocation] # None =>
         invocations[receipt.invocation].debt = "waived"

Inv ==
    /\ TypeOK
    /\ OutcomeAgrees
    /\ \A i \in Invocation : invocations[i] # None => i \in prepared
    /\ \A task \in Task : saving[task] # None /\ saving[task].debt = "waived" =>
         WaiverOf(saving[task].receipt)
    /\ \A scope \in Scope : requests[scope] # None /\ requests[scope].debt = "waived" =>
         WaiverOf(requests[scope].receipt)

\* A put of a consistent row that keeps the receipt and the debt.
LEMMA PutInv ==
    ASSUME Inv, NEW scope \in Scope, requests[scope] # None, NEW row \in Request,
           RowAgrees(row), row.debt = requests[scope].debt,
           row.receipt = requests[scope].receipt, Put(scope, row)
    PROVE  Inv'
<1> DEFINE r == IF row = requests[scope] THEN requests[scope]
                ELSE [row EXCEPT !.updatedAt = now]
<1>1. /\ requests' = [requests EXCEPT ![scope] = r]
      /\ UNCHANGED <<invocations, prepared, saving, now>>
  BY DEF Put
<1>2. /\ r \in Request /\ RowAgrees(r)
      /\ r.debt = row.debt /\ r.receipt = row.receipt
  BY Stamped DEF Inv, TypeOK
<1>3. TypeOK'
  BY <1>1, <1>2 DEF Inv, TypeOK
<1>4. OutcomeAgrees'
  BY <1>1, <1>2 DEF Inv, TypeOK, OutcomeAgrees
<1>5. ASSUME NEW s \in Scope, requests'[s] # None, requests'[s].debt = "waived"
      PROVE  WaiverOf(requests'[s].receipt)
  BY <1>1, <1>2, <1>5 DEF Inv, TypeOK
<1>6. (\A s \in Scope : requests[s] # None /\ requests[s].debt = "waived" =>
         WaiverOf(requests[s].receipt))'
  BY <1>1, <1>5 DEF WaiverOf
<1>7. (\A task \in Task : saving[task] # None /\ saving[task].debt = "waived" =>
         WaiverOf(saving[task].receipt))'
  BY <1>1 DEF Inv, WaiverOf
<1> QED
  BY <1>1, <1>3, <1>4, <1>6, <1>7 DEF Inv

\* The two transactions of saveDurableRequest.
LEMMA SavingInv ==
    ASSUME Inv, NEW task \in Task,
           \/ \E receipt \in Receipts : SaveRequestRead(task, receipt)
           \/ SaveRequestWrite(task)
    PROVE  Inv'
<1> USE RecoveryAssumption
<1>1. ASSUME NEW receipt \in Receipts, SaveRequestRead(task, receipt)
      PROVE  Inv'
  <2> DEFINE s == [ receipt |-> receipt, debt |-> DebtOf(receipt) ]
  <2>1. /\ saving' = [saving EXCEPT ![task] = s]
        /\ UNCHANGED <<requests, invocations, prepared, now>>
        /\ receipt \in Receipt
        /\ receipt.invocation # None => receipt.invocation \in Invocation \cap prepared
    BY <1>1 DEF SaveRequestRead, Receipt
  <2>2. s \in [receipt : Receipt, debt : Debt]
    BY <2>1 DEF Inv, TypeOK, DebtOf, BoundTo, PreparedInvocation, Debt
  <2>3. s.debt = "waived" => WaiverOf(receipt)
    BY <2>1 DEF WaiverOf, DebtOf, BoundTo
  <2>4. TypeOK'
    BY <2>1, <2>2 DEF Inv, TypeOK
  <2>5. (\A t \in Task : saving[t] # None /\ saving[t].debt = "waived" =>
           WaiverOf(saving[t].receipt))'
    BY <2>1, <2>3 DEF Inv, TypeOK, WaiverOf
  <2> QED
    BY <2>1, <2>4, <2>5 DEF Inv, OutcomeAgrees, WaiverOf
<1>2. CASE SaveRequestWrite(task)
  <2> DEFINE scope == ScopeOf(saving[task].receipt)
             row == NewRow(saving[task])
  <2>1. /\ saving[task] \in [receipt : Receipt, debt : Debt]
        /\ saving[task] # None
        /\ requests' = [requests EXCEPT ![scope] = IF @ = None THEN row ELSE @]
        /\ saving' = [saving EXCEPT ![task] = None]
        /\ UNCHANGED <<invocations, prepared, now>>
    BY <1>2 DEF SaveRequestWrite, Inv, TypeOK
  <2>2. scope \in Scope
    BY <2>1 DEF ScopeOf, Scope, Receipt
  <2>3. row \in Request /\ RowAgrees(row)
    BY <2>1 DEF NewRow, Request, RowAgrees, Receipt, Settled, VerifiedNotSubmitted,
                Failed, IsNotSubmitted, Inv, TypeOK
  <2>4. row.debt = "waived" => WaiverOf(row.receipt)
    BY <2>1 DEF NewRow, Inv
  <2>5. TypeOK'
    BY <2>1, <2>2, <2>3 DEF Inv, TypeOK
  <2>6. OutcomeAgrees'
    BY <2>1, <2>2, <2>3 DEF Inv, TypeOK, OutcomeAgrees
  <2>7. (\A s \in Scope : requests[s] # None /\ requests[s].debt = "waived" =>
           WaiverOf(requests[s].receipt))'
    BY <2>1, <2>2, <2>4 DEF Inv, TypeOK, WaiverOf
  <2>8. (\A t \in Task : saving[t] # None /\ saving[t].debt = "waived" =>
           WaiverOf(saving[t].receipt))'
    BY <2>1 DEF Inv, TypeOK, WaiverOf
  <2> QED
    BY <2>1, <2>5, <2>6, <2>7, <2>8 DEF Inv
<1> QED
  BY <1>1, <1>2

\* Tabs closed between the two transactions.
LEMMA AbandonInv ==
    ASSUME Inv, NEW tasks \in SUBSET Task, Abandon(tasks)
    PROVE  Inv'
<1>1. /\ saving' = [task \in Task |-> IF task \in tasks THEN None ELSE saving[task]]
      /\ UNCHANGED <<requests, invocations, prepared, now>>
  BY DEF Abandon
<1>2. \A task \in Task : saving'[task] \in {saving[task], None}
  BY <1>1
<1>3. TypeOK'
  BY <1>1, <1>2 DEF Inv, TypeOK
<1>4. (\A task \in Task : saving[task] # None /\ saving[task].debt = "waived" =>
         WaiverOf(saving[task].receipt))'
  BY <1>1, <1>2 DEF Inv, WaiverOf
<1> QED
  BY <1>1, <1>3, <1>4 DEF Inv, OutcomeAgrees, WaiverOf

\* The four operations on an existing row.
LEMMA RowInv ==
    ASSUME Inv, NEW scope \in Scope,
           \/ \E final \in Final : SaveFinal(scope, final)
           \/ \E next \in AcceptedEvidence : SaveExternalRecovery(scope, next)
           \/ \E tx \in Tx : SaveTransactionHash(scope, tx)
           \/ \E state \in {"acknowledged", "archived"} : Transition(scope, state)
    PROVE  Inv'
<1> DEFINE row == requests[scope]
<1>1. row # None => row \in Request /\ RowAgrees(row)
  BY DEF Inv, TypeOK, OutcomeAgrees
<1>2. ASSUME NEW final \in Final, SaveFinal(scope, final)
      PROVE  Inv'
  <2> DEFINE r == [row EXCEPT !.final = final]
  <2>1. r \in Request /\ RowAgrees(r)
    BY <1>1, <1>2, FinalAgrees DEF SaveFinal
  <2>2. r.debt = row.debt /\ r.receipt = row.receipt
    BY <1>1, <1>2 DEF SaveFinal, Request
  <2> QED
    BY <1>2, <2>1, <2>2, PutInv DEF SaveFinal
<1>3. ASSUME NEW next \in AcceptedEvidence, SaveExternalRecovery(scope, next)
      PROVE  Inv'
  <2> DEFINE r == WithRecovery(row, next)
  <2>1. r \in Request /\ RowAgrees(r)
    BY <1>1, <1>3, RecoveryAgrees DEF SaveExternalRecovery
  <2>2. r.debt = row.debt /\ r.receipt = row.receipt
    BY <1>1, <1>3 DEF SaveExternalRecovery, WithRecovery, Request
  <2> QED
    BY <1>3, <2>1, <2>2, PutInv DEF SaveExternalRecovery
<1>4. ASSUME NEW tx \in Tx, SaveTransactionHash(scope, tx)
      PROVE  Inv'
  <2> DEFINE r == [row EXCEPT !.transactionHash = tx]
  <2>1. r \in Request /\ RowAgrees(r)
    BY <1>1, <1>4, HashAgrees DEF SaveTransactionHash
  <2>2. r.debt = row.debt /\ r.receipt = row.receipt
    BY <1>1, <1>4 DEF SaveTransactionHash, Request
  <2> QED
    BY <1>4, <2>1, <2>2, PutInv DEF SaveTransactionHash
<1>5. ASSUME NEW state \in {"acknowledged", "archived"}, Transition(scope, state)
      PROVE  Inv'
  <2> DEFINE r == [row EXCEPT !.state = state]
  <2>1. r \in Request /\ RowAgrees(r)
    BY <1>1, <1>5, TransitionAgrees DEF Transition
  <2>2. r.debt = row.debt /\ r.receipt = row.receipt
    BY <1>1, <1>5 DEF Transition, Request
  <2> QED
    BY <1>5, <2>1, <2>2, PutInv DEF Transition
<1> QED
  BY <1>2, <1>3, <1>4, <1>5

\* The operations on the invocations; none changes a debt once recorded.
LEMMA InvocationInv ==
    ASSUME Inv, InvocationNext
    PROVE  Inv'
<1> USE RecoveryAssumption
<1>1. PICK i \in Invocation :
         \/ \E session \in Session, subject \in Subject :
              PrepareInvocation(i, session, subject)
         \/ SaveMobileEnvelope(i)
         \/ \E state \in {"created", "unknown", "not-invoked"},
               requestId \in RequestId \cup {None} : UpdateInvocation(i, state, requestId)
  BY DEF InvocationNext
<1>2. /\ UNCHANGED <<requests, saving, now>>
      /\ prepared \subseteq prepared' /\ prepared' \subseteq Invocation
      /\ invocations' \in [Invocation -> PreparedInvocation \cup {None}]
      /\ \A j \in Invocation : invocations'[j] # None => j \in prepared'
      /\ \A j \in prepared : /\ invocations[j] = None => invocations'[j] = None
                             /\ invocations[j] # None /\ invocations'[j] # None =>
                                  invocations'[j].debt = invocations[j].debt
  <2>1. ASSUME NEW session \in Session, NEW subject \in Subject,
               PrepareInvocation(i, session, subject)
        PROVE  <1>2!:
    <3>1. PICK debt \in Debt : invocations' = [invocations EXCEPT ![i] =
            [ session |-> session, subject |-> subject, debt |-> debt,
              state |-> "prepared", requestId |-> None, mobileRequest |-> FALSE ]]
      BY <2>1 DEF PrepareInvocation
    <3>2. [ session |-> session, subject |-> subject, debt |-> debt,
            state |-> "prepared", requestId |-> None, mobileRequest |-> FALSE ]
            \in PreparedInvocation
      BY DEF PreparedInvocation
    <3>3. /\ i \notin prepared /\ prepared' = prepared \cup {i}
          /\ UNCHANGED <<requests, saving, now>>
      BY <2>1 DEF PrepareInvocation
    <3> QED
      BY <3>1, <3>2, <3>3 DEF Inv, TypeOK
  <2>2. CASE SaveMobileEnvelope(i)
    <3> DEFINE r == [invocations[i] EXCEPT !.mobileRequest = TRUE]
    <3>1. invocations[i] \in PreparedInvocation /\ invocations[i] # None
      BY <2>2 DEF SaveMobileEnvelope, Inv, TypeOK
    <3>2. invocations' = [invocations EXCEPT ![i] = r]
      BY <2>2 DEF SaveMobileEnvelope, Inv, TypeOK
    <3>3. r \in PreparedInvocation /\ r.debt = invocations[i].debt
      BY <3>1 DEF PreparedInvocation
    <3>4. UNCHANGED <<requests, prepared, saving, now>>
      BY <2>2 DEF SaveMobileEnvelope
    <3> HIDE DEF r
    <3> QED
      BY <3>1, <3>2, <3>3, <3>4 DEF Inv, TypeOK
  <2>3. ASSUME NEW state \in {"created", "unknown", "not-invoked"},
               NEW requestId \in RequestId \cup {None},
               UpdateInvocation(i, state, requestId)
        PROVE  <1>2!:
    <3> DEFINE r == [invocations[i] EXCEPT
                      !.state = state,
                      !.requestId = IF requestId = None THEN @ ELSE requestId]
    <3>1. invocations' = [invocations EXCEPT ![i] = r]
      BY <2>3 DEF UpdateInvocation, Inv, TypeOK
    <3>2. invocations[i] \in PreparedInvocation /\ invocations[i] # None
      BY <2>3 DEF UpdateInvocation, Inv, TypeOK
    <3>3. r \in PreparedInvocation /\ r.debt = invocations[i].debt
      BY <3>2 DEF PreparedInvocation
    <3>4. UNCHANGED <<requests, prepared, saving, now>>
      BY <2>3 DEF UpdateInvocation
    <3> HIDE DEF r
    <3> QED
      BY <3>1, <3>2, <3>3, <3>4 DEF Inv, TypeOK
  <2> QED
    BY <1>1, <2>1, <2>2, <2>3
<1>3. \A receipt \in Receipt : WaiverOf(receipt) => WaiverOf(receipt)'
  BY <1>2 DEF WaiverOf, Inv, TypeOK, Receipt
<1>4. TypeOK'
  BY <1>2 DEF Inv, TypeOK
<1>5. (\A task \in Task : saving[task] # None /\ saving[task].debt = "waived" =>
         WaiverOf(saving[task].receipt))'
  BY <1>2, <1>3 DEF Inv, TypeOK, WaiverOf
<1>6. (\A s \in Scope : requests[s] # None /\ requests[s].debt = "waived" =>
         WaiverOf(requests[s].receipt))'
  BY <1>2, <1>3 DEF Inv, TypeOK, Request, WaiverOf
<1> QED
  BY <1>2, <1>4, <1>5, <1>6 DEF Inv, OutcomeAgrees

LEMMA PruneInv ==
    ASSUME Inv, Prune
    PROVE  Inv'
<1>1. /\ \A s \in Scope : requests'[s] \in {None, requests[s]}
      /\ requests' \in [Scope -> Request \cup {None}]
      /\ \A i \in Invocation : invocations'[i] \in {None, invocations[i]}
      /\ invocations' \in [Invocation -> PreparedInvocation \cup {None}]
      /\ UNCHANGED <<prepared, saving, now>>
  BY DEF Prune, Inv, TypeOK
<1>2. TypeOK'
  BY <1>1 DEF Inv, TypeOK
<1>3. OutcomeAgrees'
  BY <1>1 DEF Inv, OutcomeAgrees
<1>4. \A receipt : WaiverOf(receipt) => WaiverOf(receipt)'
  BY <1>1 DEF WaiverOf, Inv, TypeOK
<1>5. (\A task \in Task : saving[task] # None /\ saving[task].debt = "waived" =>
         WaiverOf(saving[task].receipt))'
  BY <1>1, <1>4 DEF Inv, TypeOK, WaiverOf
<1>6. (\A s \in Scope : requests[s] # None /\ requests[s].debt = "waived" =>
         WaiverOf(requests[s].receipt))'
  BY <1>1, <1>4 DEF Inv, WaiverOf
<1> QED
  BY <1>1, <1>2, <1>3, <1>5, <1>6 DEF Inv

LEMMA InitInv == Init => Inv
<1> QED
  BY DEF Init, Inv, TypeOK, OutcomeAgrees

LEMMA NextInv == Inv /\ [Next]_vars => Inv'
<1> SUFFICES ASSUME Inv, [Next]_vars PROVE Inv'
  OBVIOUS
<1>1. CASE RequestNext
  BY <1>1, SavingInv, AbandonInv, RowInv DEF RequestNext
<1>2. CASE InvocationNext
  BY <1>2, InvocationInv
<1>3. CASE Prune
  BY <1>3, PruneInv
<1>4. CASE Tick
  <2>1. UNCHANGED <<requests, invocations, prepared, saving>> /\ now' \in Nat
    BY <1>4 DEF Tick, Inv, TypeOK
  <2> QED
    BY <2>1 DEF Inv, TypeOK, OutcomeAgrees, WaiverOf
<1>5. CASE UNCHANGED vars
  BY <1>5 DEF vars, Inv, TypeOK, OutcomeAgrees, WaiverOf
<1> QED
  BY <1>1, <1>2, <1>3, <1>4, <1>5 DEF Next

\* Inv holds in every reachable state.
THEOREM Invariance == Spec => []Inv
<1> QED
  BY InitInv, NextInv, PTL DEF Spec

\* Every stored row, invocation and save in progress is well-formed.
THEOREM TypeCorrect == Spec => []TypeOK
<1>1. Inv => TypeOK
  BY DEF Inv
<1> QED
  BY <1>1, Invariance, PTL

\* The evidence, the hash, the final and the delivery state of a request agree.
THEOREM OutcomeConsistent == Spec => []OutcomeAgrees
<1>1. Inv => OutcomeAgrees
  BY DEF Inv
<1> QED
  BY <1>1, Invariance, PTL

\* No interleaving of saves, tab closures and prunes waives a remote
\* acknowledgement that the invocation recorded as owed.
THEOREM DebtPreserved == Spec => []DebtKept
<1>1. Inv => DebtKept
  BY DEF Inv, DebtKept, WaiverOf
<1> QED
  BY <1>1, Invariance, PTL

------------------------------------------------------------------------------
(* Deletion                                                                *)

\* No row and no invocation disappears.
KeepsRows ==
    /\ \A s \in Scope : requests[s] # None => requests'[s] # None
    /\ invocations' = invocations

\* A put leaves every row in place.
LEMMA PutKeeps ==
    ASSUME Inv, NEW scope \in Scope, requests[scope] # None, NEW row \in Request,
           Put(scope, row)
    PROVE  KeepsRows
<1>1. [row EXCEPT !.updatedAt = now] \in Request /\ None \notin Request
  BY Stamped, RecoveryAssumption DEF Inv, TypeOK
<1> QED
  BY <1>1 DEF Put, Inv, TypeOK, KeepsRows

LEMMA RequestStepKeeps ==
    ASSUME Inv, RequestNext
    PROVE  KeepsRows
<1>1. ASSUME NEW task \in Task,
             \/ \E receipt \in Receipts : SaveRequestRead(task, receipt)
             \/ SaveRequestWrite(task)
      PROVE  KeepsRows
  BY <1>1 DEF SaveRequestRead, SaveRequestWrite, NewRow, KeepsRows, Inv, TypeOK
<1>3. ASSUME NEW tasks \in SUBSET Task, Abandon(tasks)
      PROVE  KeepsRows
  BY <1>3 DEF Abandon, KeepsRows
<1>2. ASSUME NEW scope \in Scope,
             \/ \E final \in Final : SaveFinal(scope, final)
             \/ \E next \in AcceptedEvidence : SaveExternalRecovery(scope, next)
             \/ \E tx \in Tx : SaveTransactionHash(scope, tx)
             \/ \E state \in {"acknowledged", "archived"} : Transition(scope, state)
      PROVE  KeepsRows
  <2> DEFINE row == requests[scope]
  <2>1. row # None => row \in Request /\ RowAgrees(row)
    BY DEF Inv, TypeOK, OutcomeAgrees
  <2>2. ASSUME NEW final \in Final, SaveFinal(scope, final)
        PROVE  KeepsRows
    BY <2>1, <2>2, FinalAgrees, PutKeeps DEF SaveFinal
  <2>3. ASSUME NEW next \in AcceptedEvidence, SaveExternalRecovery(scope, next)
        PROVE  KeepsRows
    BY <2>1, <2>3, RecoveryAgrees, PutKeeps DEF SaveExternalRecovery
  <2>4. ASSUME NEW tx \in Tx, SaveTransactionHash(scope, tx)
        PROVE  KeepsRows
    BY <2>1, <2>4, HashAgrees, PutKeeps DEF SaveTransactionHash
  <2>5. ASSUME NEW state \in {"acknowledged", "archived"}, Transition(scope, state)
        PROVE  KeepsRows
    BY <2>1, <2>5, TransitionAgrees, PutKeeps DEF Transition
  <2> QED
    BY <1>2, <2>2, <2>3, <2>4, <2>5
<1> QED
  BY <1>1, <1>2, <1>3 DEF RequestNext

\* What a step deletes had been delivered: a deleted row is not open, and an
\* invocation goes together with a row that is deleted.
DeletesDelivered ==
    /\ \A scope \in Scope :
         requests[scope] # None /\ requests'[scope] = None =>
           requests[scope].state # "active"
    /\ \A i \in Invocation :
         invocations[i] # None /\ invocations'[i] = None =>
           \E scope \in Scope : /\ requests[scope] # None
                                /\ requests[scope].receipt.invocation = i
                                /\ requests'[scope] = None

LEMMA StepDeletesDelivered == Inv /\ [Next]_vars => DeletesDelivered
<1> SUFFICES ASSUME Inv, [Next]_vars PROVE DeletesDelivered
  OBVIOUS
<1> USE DEF DeletesDelivered
<1>1. CASE RequestNext
  BY <1>1, RequestStepKeeps DEF KeepsRows
<1>2. CASE InvocationNext
  <2>1. requests' = requests
    BY <1>2 DEF InvocationNext, PrepareInvocation, SaveMobileEnvelope, UpdateInvocation
  <2>2. \A i \in Invocation : invocations[i] # None => invocations'[i] # None
    <3>1. None \notin PreparedInvocation
      BY RecoveryAssumption
    <3>2. ASSUME NEW j \in Invocation, NEW session \in Session, NEW subject \in Subject,
                 PrepareInvocation(j, session, subject)
          PROVE  \A i \in Invocation : invocations[i] # None => invocations'[i] # None
      BY <3>2 DEF PrepareInvocation, Inv, TypeOK
    <3>3. ASSUME NEW j \in Invocation, SaveMobileEnvelope(j)
          PROVE  \A i \in Invocation : invocations[i] # None => invocations'[i] # None
      <4>1. [invocations[j] EXCEPT !.mobileRequest = TRUE] \in PreparedInvocation
        BY <3>3 DEF SaveMobileEnvelope, Inv, TypeOK, PreparedInvocation
      <4> QED
        BY <3>1, <3>3, <4>1 DEF SaveMobileEnvelope, Inv, TypeOK
    <3>4. ASSUME NEW j \in Invocation,
                 NEW state \in {"created", "unknown", "not-invoked"},
                 NEW requestId \in RequestId \cup {None},
                 UpdateInvocation(j, state, requestId)
          PROVE  \A i \in Invocation : invocations[i] # None => invocations'[i] # None
      <4> DEFINE r == [invocations[j] EXCEPT
                        !.state = state,
                        !.requestId = IF requestId = None THEN @ ELSE requestId]
      <4>1. invocations[j] \in PreparedInvocation
        BY <3>4 DEF UpdateInvocation, Inv, TypeOK
      <4>2. r \in PreparedInvocation
        BY <4>1 DEF PreparedInvocation
      <4>3. invocations' = [invocations EXCEPT ![j] = r]
        BY <3>4 DEF UpdateInvocation, Inv, TypeOK
      <4> HIDE DEF r
      <4> QED
        BY <3>1, <4>2, <4>3 DEF Inv, TypeOK
    <3> QED
      BY <1>2, <3>2, <3>3, <3>4 DEF InvocationNext
  <2> QED
    BY <2>1, <2>2
<1>3. CASE Prune
  BY <1>3
     DEF Prune, ExpiredScopes, Expired, Completes, Inv, TypeOK
<1>4. CASE Tick
  BY <1>4 DEF Tick
<1>5. CASE UNCHANGED vars
  BY <1>5 DEF vars
<1> QED
  BY <1>1, <1>2, <1>3, <1>4, <1>5 DEF Next

\* Whatever the store deletes had been delivered.
THEOREM UnknownWorkKept == Spec => UnknownWorkSurvives
<1>1. Inv /\ [Next]_vars => [DeletesDelivered]_vars
  BY StepDeletesDelivered
<1> QED
  BY <1>1, Invariance, PTL DEF Spec, UnknownWorkSurvives, DeletesDelivered

------------------------------------------------------------------------------
(* The store implements OperationLedger                                    *)

Book == [scope \in Scope |->
          IF requests[scope] = None THEN None ELSE EntryOf(requests[scope])]

LEMMA EntryInLedger ==
    ASSUME NEW row \in Request
    PROVE  EntryOf(row) \in Ledger!Entry
<1>1. FinalTx(row.final) \in Tx \cup {None}
  BY FinalFields DEF Request, FinalTx, HashText
<1> QED
  BY <1>1 DEF Request, EntryOf, Ledger!Entry

LEMMA EntryUpdate ==
    ASSUME NEW entry \in Ledger!Entry,
           NEW answer \in Final \cup {None}, NEW tx \in Tx \cup {None}
    PROVE  [entry EXCEPT !.answer = answer, !.tx = tx] =
             [ answer |-> answer, tx |-> tx, proof |-> entry.proof,
               delivery |-> entry.delivery ]
<1> DEFINE e == [entry EXCEPT !.answer = answer, !.tx = tx]
<1>1. e \in Ledger!Entry
  BY DEF Ledger!Entry
<1>2. e.answer = answer /\ e.tx = tx /\ e.proof = entry.proof /\ e.delivery = entry.delivery
  BY DEF Ledger!Entry
<1> HIDE DEF e
<1>3. e = [ answer |-> e.answer, tx |-> e.tx, proof |-> e.proof, delivery |-> e.delivery ]
  BY <1>1 DEF Ledger!Entry
<1> QED
  BY <1>2, <1>3 DEF e

\* A put changes one entry of the ledger, into that of the row put.
LEMMA PutBook ==
    ASSUME Inv, NEW scope \in Scope, requests[scope] # None, NEW row \in Request,
           Put(scope, row)
    PROVE  /\ Book' = [Book EXCEPT ![scope] = EntryOf(row)]
           /\ Book[scope] = EntryOf(requests[scope]) /\ Book[scope] # None
<1> DEFINE r == IF row = requests[scope] THEN requests[scope]
                ELSE [row EXCEPT !.updatedAt = now]
<1>1. requests' = [requests EXCEPT ![scope] = r]
  BY DEF Put
<1>2. r \in Request /\ r # None /\ EntryOf(r) = EntryOf(row)
  BY Stamped, RecoveryAssumption DEF Inv, TypeOK
<1> HIDE DEF r
<1>3. requests \in [Scope -> Request \cup {None}]
  BY DEF Inv, TypeOK
<1>4. ASSUME NEW s \in Scope
      PROVE  (IF requests'[s] = None THEN None ELSE EntryOf(requests'[s]))
               = [Book EXCEPT ![scope] = EntryOf(row)][s]
  BY <1>1, <1>2, <1>3 DEF Book
<1>5. Book' = [s \in Scope |-> IF requests'[s] = None THEN None ELSE EntryOf(requests'[s])]
  BY DEF Book, EntryOf, Failed, IsNotSubmitted, FinalTx
<1>6. Book[scope] = EntryOf(requests[scope]) /\ Book[scope] # None
  <2>1. requests[scope] \in Request
    BY <1>3
  <2>2. EntryOf(requests[scope]) \in Ledger!Entry
    BY <2>1, EntryInLedger
  <2> QED
    BY <2>2, EntryAssumption DEF Book
<1> QED
  BY <1>4, <1>5, <1>6 DEF Book

\* A row operation is one step of the ledger, or none that it can see.
LEMMA RowStep ==
    ASSUME Inv, NEW scope \in Scope,
           \/ \E final \in Final : SaveFinal(scope, final)
           \/ \E next \in AcceptedEvidence : SaveExternalRecovery(scope, next)
           \/ \E tx \in Tx : SaveTransactionHash(scope, tx)
           \/ \E state \in {"acknowledged", "archived"} : Transition(scope, state)
    PROVE  Ledger!LedgerNext \/ Book' = Book
<1> USE EvidenceAssumption
<1> DEFINE row == requests[scope]
           entry == EntryOf(row)
<1>1. /\ row # None => row \in Request /\ RowAgrees(row)
      /\ requests \in [Scope -> Request \cup {None}]
  BY DEF Inv, TypeOK, OutcomeAgrees
<1>2. ASSUME NEW final \in Final, SaveFinal(scope, final)
      PROVE  Ledger!LedgerNext \/ Book' = Book
  <2> DEFINE r == [row EXCEPT !.final = final]
  <2>1. /\ row \in Request /\ row # None /\ RowAgrees(row)
        /\ r \in Request /\ CanSaveFinal(row, final) /\ Put(scope, r)
    BY <1>1, <1>2, FinalAgrees DEF SaveFinal
  <2>2. Book' = [Book EXCEPT ![scope] = EntryOf(r)] /\ Book[scope] = entry /\ entry # None
    BY <2>1, PutBook
  <2>3. CASE row.final = final
    <3>1. EntryOf(r) = entry
      BY <2>1, <2>3 DEF Request, EntryOf, Failed
    <3> QED
      BY <2>2, <3>1 DEF Book
  <2>4. CASE row.final = None
    <3>1. row.transactionHash # None => row.transactionHash = FinalTx(final)
      BY <2>1, FinalFields DEF CanSaveFinal, SubmissionOf, FinalTx
    <3>2. EntryOf(r) = [entry EXCEPT !.answer = final, !.tx = FinalTx(final)]
      <4>1. /\ r.final = final /\ r.transactionHash = row.transactionHash
            /\ r.evidence = row.evidence /\ r.state = row.state
        BY <2>1 DEF Request
      <4>2. (IF r.transactionHash # None THEN r.transactionHash ELSE FinalTx(r.final))
              = FinalTx(final)
        BY <3>1, <4>1
      <4> HIDE DEF r
      <4>3. EntryOf(r) = [ answer |-> final, tx |-> FinalTx(final),
                           proof |-> entry.proof, delivery |-> entry.delivery ]
        BY <4>1, <4>2 DEF EntryOf, Failed
      <4>4. entry \in Ledger!Entry /\ FinalTx(final) \in Tx \cup {None}
        BY <2>1, EntryInLedger, FinalFields DEF FinalTx, HashText
      <4> HIDE DEF entry
      <4> QED
        BY <4>3, <4>4, EntryUpdate
    <3>3. /\ entry.delivery = "active" /\ entry.answer = None /\ entry.proof = "none"
          /\ entry.tx \in {None, FinalTx(final)}
      BY <2>1, <2>4, <3>1 DEF EntryOf, CanSaveFinal, FinalTx
    <3>4. Ledger!Settle(scope, final)
      BY <2>2, <3>2, <3>3 DEF Ledger!Settle, Ledger!Known, Ledger!Settled, Book
    <3> QED
      BY <3>4 DEF Ledger!LedgerNext
  <2> QED
    BY <2>1, <2>3, <2>4 DEF CanSaveFinal
<1>3. ASSUME NEW tx \in Tx, SaveTransactionHash(scope, tx)
      PROVE  Ledger!LedgerNext \/ Book' = Book
  <2> DEFINE r == [row EXCEPT !.transactionHash = tx]
  <2>1. /\ row \in Request /\ row # None /\ RowAgrees(row)
        /\ r \in Request /\ CanSaveHash(row, tx) /\ Put(scope, r)
    BY <1>1, <1>3, HashAgrees DEF SaveTransactionHash
  <2>2. Book' = [Book EXCEPT ![scope] = EntryOf(r)] /\ Book[scope] = entry /\ entry # None
    BY <2>1, PutBook
  <2>3. CASE entry.tx = tx
    <3>1. EntryOf(r) = entry
      BY <2>1, <2>3 DEF Request, EntryOf, Failed
    <3> QED
      BY <2>2, <3>1 DEF Book
  <2>4. CASE entry.tx # tx
    <3>1. row.transactionHash = None /\ row.final = None
      BY <2>1, <2>4, FinalFields
         DEF EntryOf, FinalTx, CanSaveHash, SubmissionOf, Request
    <3>2. EntryOf(r) = [entry EXCEPT !.tx = tx]
      BY <2>1 DEF Request, EntryOf, Failed
    <3>3. entry.tx = None /\ entry.answer = None /\ entry.proof = "none"
      BY <2>1, <3>1 DEF EntryOf, CanSaveHash, FinalTx
    <3>4. Ledger!Identify(scope, tx)
      BY <2>2, <3>2, <3>3 DEF Ledger!Identify, Ledger!Known, Ledger!Settled, Book
    <3> QED
      BY <3>4 DEF Ledger!LedgerNext
  <2> QED
    BY <2>3, <2>4
<1>4. ASSUME NEW state \in {"acknowledged", "archived"}, Transition(scope, state)
      PROVE  Ledger!LedgerNext \/ Book' = Book
  <2> DEFINE r == [row EXCEPT !.state = state]
  <2>1. /\ row \in Request /\ row # None /\ RowAgrees(row)
        /\ r \in Request /\ CanTransition(row, state) /\ Put(scope, r)
    BY <1>1, <1>4, TransitionAgrees DEF Transition
  <2>2. Book' = [Book EXCEPT ![scope] = EntryOf(r)] /\ Book[scope] = entry /\ entry # None
    BY <2>1, PutBook
  <2>3. EntryOf(r) = [entry EXCEPT !.delivery = state]
    BY <2>1 DEF Request, EntryOf, Failed
  <2>4. /\ entry.delivery = "active"
        /\ state = IF Ledger!Settled(entry) THEN "acknowledged" ELSE "archived"
    <3>1. Ledger!Settled(entry) <=> Settled(row)
      BY <2>1 DEF Ledger!Settled, EntryOf, Settled, VerifiedNotSubmitted, RowAgrees
    <3> QED
      BY <2>1, <3>1 DEF EntryOf, CanTransition
  <2>5. Ledger!Deliver(scope, state)
    BY <2>2, <2>3, <2>4 DEF Ledger!Deliver, Ledger!Known, Book
  <2> QED
    BY <2>5 DEF Ledger!LedgerNext
<1>5. ASSUME NEW next \in AcceptedEvidence, SaveExternalRecovery(scope, next)
      PROVE  Ledger!LedgerNext \/ Book' = Book
  <2> DEFINE e == Merge(row.evidence, next)
             f == Submitted([tx |-> e.transactionHash, lowerCase |-> TRUE])
             r == WithRecovery(row, next)
  <2>1. /\ row \in Request /\ row # None /\ RowAgrees(row)
        /\ r \in Request /\ CanSaveRecovery(row, next) /\ Put(scope, r)
    BY <1>1, <1>5, RecoveryAgrees DEF SaveExternalRecovery
  <2>2. Book' = [Book EXCEPT ![scope] = EntryOf(r)] /\ Book[scope] = entry /\ entry # None
    BY <2>1, PutBook
  <2>3. e \in Evidence /\ ValidEvidence(e) /\ e # None
    <3>1. row.evidence \in AcceptedEvidence \cup {None} /\ Mergeable(row.evidence, next)
      BY <2>1 DEF Request, CanSaveRecovery
    <3> QED
      BY <3>1, MergeIsValid DEF AcceptedEvidence
  <2>4. r = [row EXCEPT !.evidence = e,
                        !.transactionHash = IF Identified(e) THEN e.transactionHash ELSE @,
                        !.final = IF e.status = "approved" THEN f ELSE @]
    BY DEF WithRecovery
  <2>5. /\ row.state = "active"
        /\ row.transactionHash # None => e.transactionHash = row.transactionHash
        /\ row.final # None => Identified(e) /\ row.final = f
    BY <2>1 DEF CanSaveRecovery
  <2>6. CASE e.status = "not-submitted"
    <3>1. ~Identified(e) /\ row.transactionHash = None /\ row.final = None
      BY <2>3, <2>5, <2>6 DEF ValidEvidence, NotSubmitted, Identified
    <3>2. EntryOf(r) = [entry EXCEPT !.proof = "not-submitted"]
      BY <2>1, <2>3, <2>4, <2>6, <3>1 DEF Request, EntryOf, Failed, IsNotSubmitted
    <3>3. CASE Failed(row)
      <4>1. EntryOf(r) = entry
        BY <3>2, <3>3 DEF EntryOf
      <4> QED
        BY <2>2, <4>1 DEF Book
    <3>4. CASE ~Failed(row)
      <4>1. /\ entry.delivery = "active" /\ entry.answer = None /\ entry.tx = None
            /\ entry.proof = "none"
        BY <2>5, <3>1, <3>4 DEF EntryOf, FinalTx
      <4>2. Ledger!RuleOut(scope)
        BY <2>2, <3>2, <4>1 DEF Ledger!RuleOut, Ledger!Known, Ledger!Settled, Book
      <4> QED
        BY <4>2 DEF Ledger!LedgerNext
    <3> QED
      BY <3>3, <3>4
  <2>7. CASE e.status # "not-submitted"
    <3>1. ~Failed(row)
      <4>1. row.evidence \in AcceptedEvidence \cup {None} /\ Mergeable(row.evidence, next)
        BY <2>1 DEF Request, CanSaveRecovery
      <4>2. CASE row.evidence = None
        BY <4>2 DEF Failed, IsNotSubmitted
      <4>3. CASE row.evidence # None
        BY <2>3, <2>7, <4>1, <4>3, MergeFields DEF Failed, IsNotSubmitted
      <4> QED
        BY <4>2, <4>3
    <3>2. ~Failed(r)
      BY <2>1, <2>3, <2>4, <2>7 DEF Request, Failed, IsNotSubmitted
    <3>3. CASE ~Identified(e)
      <4>1. e.status # "approved" /\ row.final = None /\ row.transactionHash = None
        BY <2>3, <2>5, <3>3 DEF ValidEvidence, NotSubmitted, Identified
      <4>2. EntryOf(r) = entry
        BY <2>1, <2>4, <3>1, <3>2, <3>3, <4>1 DEF Request, EntryOf
      <4> QED
        BY <2>2, <4>2 DEF Book
    <3>4. CASE Identified(e)
      <4>1. PICK tx \in Tx : tx = e.transactionHash
        BY <2>3, <3>4 DEF Identified, Evidence
      <4>2. PICK answer \in Final : answer = f /\ answer # None /\ SubmissionOf(answer, tx)
        <5>1. row.receipt.subject \in SubmitSubject
          BY <2>1 DEF CanSaveRecovery
        <5> QED
          BY <4>1, <5>1, SubmittedIsFinal
      <4>3. FinalTx(answer) = tx
        BY <4>2 DEF FinalTx, SubmissionOf
      <4>4. /\ r.final = IF e.status = "approved" THEN answer ELSE row.final
            /\ r.transactionHash = tx /\ tx # None
            /\ r.state = row.state
        BY <2>1, <2>4, <3>4, <4>1, <4>2 DEF Request, Identified
      <4>5. EntryOf(r) = [entry EXCEPT
                            !.answer = IF e.status = "approved" THEN answer ELSE row.final,
                            !.tx = tx]
        <5> DEFINE a == IF e.status = "approved" THEN answer ELSE row.final
        <5> HIDE DEF r, e
        <5>1. EntryOf(r) = [ answer |-> a, tx |-> tx, proof |-> entry.proof,
                             delivery |-> entry.delivery ]
          BY <3>1, <3>2, <4>4 DEF EntryOf
        <5>2. entry \in Ledger!Entry /\ a \in Final \cup {None}
          BY <2>1, EntryInLedger DEF Request
        <5> HIDE DEF entry, a
        <5>3. EntryOf(r) = [entry EXCEPT !.answer = a, !.tx = tx]
          BY <5>1, <5>2, EntryUpdate
        <5> QED
          BY <5>3 DEF a
      <4>6. entry.tx \in {None, tx} /\ entry.answer \in {None, answer}
            /\ entry.answer = row.final
        BY <2>5, <4>1, <4>2, <4>3 DEF EntryOf, FinalTx
      <4>7. entry.answer = answer => entry.tx = tx
        BY <2>5, <4>1, <4>2, <4>3 DEF EntryOf
      <4>8. entry.delivery = "active" /\ entry.proof = "none"
        BY <2>5, <3>1 DEF EntryOf
      <4> HIDE DEF r, e, f
      <4>9. CASE entry.answer = answer
        <5>1. EntryOf(r) = entry
          BY <4>5, <4>6, <4>7, <4>9 DEF EntryOf
        <5> QED
          BY <2>2, <5>1 DEF Book
      <4>10. CASE entry.answer = None /\ e.status = "approved"
        <5>1. EntryOf(r) = [entry EXCEPT !.answer = answer, !.tx = FinalTx(answer)]
          BY <4>3, <4>5, <4>10
        <5>2. Ledger!Settle(scope, answer)
          BY <2>2, <4>3, <4>6, <4>8, <4>10, <5>1
             DEF Ledger!Settle, Ledger!Known, Ledger!Settled, Book
        <5> QED
          BY <5>2 DEF Ledger!LedgerNext
      <4>11. CASE entry.answer = None /\ e.status # "approved"
        <5>1. EntryOf(r) = [entry EXCEPT !.tx = tx]
          BY <4>5, <4>6, <4>11 DEF EntryOf
        <5>2. CASE entry.tx = tx
          <6>1. EntryOf(r) = entry
            BY <5>1, <5>2 DEF EntryOf
          <6> QED
            BY <2>2, <6>1 DEF Book
        <5>3. CASE entry.tx = None
          <6>1. Ledger!Identify(scope, tx)
            BY <2>2, <4>8, <4>11, <5>1, <5>3
               DEF Ledger!Identify, Ledger!Known, Ledger!Settled, Book
          <6> QED
            BY <6>1 DEF Ledger!LedgerNext
        <5> QED
          BY <4>6, <5>2, <5>3
      <4> QED
        BY <4>6, <4>9, <4>10, <4>11
    <3> QED
      BY <3>3, <3>4
  <2> QED
    BY <2>6, <2>7
<1> QED
  BY <1>2, <1>3, <1>4, <1>5

\* The second transaction of saveDurableRequest opens an operation, or finds
\* it in the ledger already.
LEMMA OpenStep ==
    ASSUME Inv, NEW task \in Task, SaveRequestWrite(task)
    PROVE  Ledger!LedgerNext \/ Book' = Book
<1> DEFINE receipt == saving[task].receipt
           row == NewRow(saving[task])
           delivery == IF receipt.archived THEN "archived" ELSE "active"
<1>1. /\ saving[task] \in [receipt : Receipt, debt : Debt]
      /\ requests \in [Scope -> Request \cup {None}]
      /\ now \in Nat
  BY DEF SaveRequestWrite, Inv, TypeOK
<1>2. PICK scope \in Scope : scope = ScopeOf(receipt)
  BY <1>1 DEF ScopeOf, Scope, Receipt
<1>3. requests' = [requests EXCEPT ![scope] = IF @ = None THEN row ELSE @]
  BY <1>2 DEF SaveRequestWrite
<1>4. row \in Request /\ row # None
  BY <1>1, RecoveryAssumption DEF NewRow, Request, Receipt
<1>5. EntryOf(row) = [ answer |-> None, tx |-> None, proof |-> "none",
                       delivery |-> delivery ]
  BY DEF NewRow, EntryOf, Failed, IsNotSubmitted, FinalTx
<1> HIDE DEF row, receipt
<1>6. Book' = [s \in Scope |-> IF requests'[s] = None THEN None ELSE EntryOf(requests'[s])]
  BY DEF Book, EntryOf, Failed, IsNotSubmitted, FinalTx
<1>7. CASE requests[scope] # None
  BY <1>1, <1>3, <1>6, <1>7 DEF Book
<1>8. CASE requests[scope] = None
  <2>1. Book' = [Book EXCEPT ![scope] = EntryOf(row)]
    <3>1. \A s \in Scope : (IF requests'[s] = None THEN None ELSE EntryOf(requests'[s]))
                             = [Book EXCEPT ![scope] = EntryOf(row)][s]
      BY <1>1, <1>3, <1>4, <1>8 DEF Book
    <3> QED
      BY <1>6, <3>1 DEF Book
  <2>2. Book[scope] = None
    BY <1>8 DEF Book
  <2>3. PICK d \in {"active", "archived"} : d = delivery
    OBVIOUS
  <2>4. Ledger!Open(scope, d)
    BY <1>5, <2>1, <2>2, <2>3 DEF Ledger!Open, Ledger!Known, Book
  <2> QED
    BY <2>4 DEF Ledger!LedgerNext
<1> QED
  BY <1>7, <1>8

\* A prune forgets delivered operations, all at once.
LEMMA ForgetStep ==
    ASSUME Inv, Prune
    PROVE  Ledger!LedgerNext
<1>1. PICK ops \in SUBSET Scope : ops = ExpiredScopes
  BY DEF ExpiredScopes
<1>2. requests' = [scope \in Scope |-> IF scope \in ops THEN None ELSE requests[scope]]
  BY <1>1 DEF Prune
<1>3. \A scope \in ops : requests[scope] \in Request /\ requests[scope] # None
                         /\ requests[scope].state # "active"
  BY <1>1 DEF ExpiredScopes, Expired, Inv, TypeOK
<1>4. \A scope \in ops : Book[scope] # None /\ Book[scope].delivery # "active"
  <2> SUFFICES ASSUME NEW scope \in ops
               PROVE  Book[scope] # None /\ Book[scope].delivery # "active"
    OBVIOUS
  <2>1. Book[scope] = EntryOf(requests[scope])
    BY <1>3 DEF Book
  <2>2. EntryOf(requests[scope]) \in Ledger!Entry
    BY <1>3, EntryInLedger
  <2>3. EntryOf(requests[scope]).delivery = requests[scope].state
    BY DEF EntryOf
  <2> QED
    BY <1>3, <2>1, <2>2, <2>3, EntryAssumption
<1>5. Book' = [scope \in Scope |-> IF scope \in ops THEN None ELSE Book[scope]]
  <2>1. Book' = [s \in Scope |-> IF requests'[s] = None THEN None ELSE EntryOf(requests'[s])]
    BY DEF Book, EntryOf, Failed, IsNotSubmitted, FinalTx
  <2> QED
    BY <1>2, <2>1 DEF Book
<1>6. Ledger!Forget(ops)
  BY <1>4, <1>5 DEF Ledger!Forget, Ledger!Known, Book
<1> QED
  BY <1>6 DEF Ledger!LedgerNext

\* Each step of the store is a step of the ledger, or invisible in it.
LEMMA LedgerSimulation ==
    ASSUME Inv, [Next]_vars
    PROVE  Ledger!LedgerNext \/ Book' = Book
<1>1. ASSUME requests' = requests PROVE Book' = Book
  BY <1>1 DEF Book, EntryOf, Failed, IsNotSubmitted, FinalTx
<1>2. CASE RequestNext
  <2>1. ASSUME NEW task \in Task,
               \/ \E receipt \in Receipts : SaveRequestRead(task, receipt)
               \/ SaveRequestWrite(task)
        PROVE  Ledger!LedgerNext \/ Book' = Book
    BY <1>1, <2>1, OpenStep DEF SaveRequestRead
  <2>2. ASSUME NEW tasks \in SUBSET Task, Abandon(tasks)
        PROVE  Book' = Book
    BY <1>1, <2>2 DEF Abandon
  <2> QED
    BY <1>2, <2>1, <2>2, RowStep DEF RequestNext
<1>3. CASE InvocationNext
  BY <1>1, <1>3 DEF InvocationNext, PrepareInvocation, SaveMobileEnvelope, UpdateInvocation
<1>4. CASE Prune
  BY <1>4, ForgetStep
<1>5. CASE Tick
  BY <1>1, <1>5 DEF Tick
<1>6. CASE UNCHANGED vars
  BY <1>1, <1>6 DEF vars
<1> QED
  BY <1>2, <1>3, <1>4, <1>5, <1>6 DEF Next

\* The recovery store implements the abstract ledger: at most one transaction
\* and one answer per operation, never revised; non-submission exclusive;
\* delivery only of what is settled, archiving only of what is not; and only
\* delivered operations forgotten.
THEOREM Refinement == Spec => ImplementsLedger
<1>1. Init => Ledger!LedgerInit
  BY DEF Init, Ledger!LedgerInit
<1>2. Inv /\ [Next]_vars => [Ledger!LedgerNext]_Book
  BY LedgerSimulation
<1> QED
  BY <1>1, <1>2, Invariance, PTL DEF Spec, ImplementsLedger, Ledger!LedgerSpec, Book
==============================================================================
