------------------------ MODULE DesktopRecoveryProofs ------------------------
(***************************************************************************)
(* The requests to Infer Desk, proved for any number of tabs, sessions,    *)
(* invocations and requests.                                               *)
(*                                                                         *)
(* Every step is a step of the durable store or leaves it alone, so that   *)
(* the invariant of DurableRecoveryProofs, read through an instance of     *)
(* that module, is one conjunct of the invariant and needs no second       *)
(* proof.  The other conjuncts say what each place that outlives a step    *)
(* (a receipt of a tab, a save between its two transactions, a row, a call *)
(* and a recovery operation between two awaits) knows of the request that  *)
(* Desk holds.  They are stable because nothing that Desk did is taken     *)
(* back: an admission, its session and id, its outcome, and the            *)
(* acknowledgement.                                                        *)
(***************************************************************************)
EXTENDS DesktopRecovery, TLAPS

StoreProofs ==
    INSTANCE DurableRecoveryProofs WITH
        DesktopSession <- Session,
        Receipts <- DeskReceipt,
        Task <- Tab \X {"call", "recovery"}

------------------------------------------------------------------------------
(* The store of the proofs is the store of the model.                      *)

LEMMA SameData ==
    /\ StoreProofs!Scope = Store!Scope
    /\ StoreProofs!Receipt = Store!Receipt
    /\ StoreProofs!Evidence = Store!Evidence
    /\ StoreProofs!HashText = Store!HashText
    /\ StoreProofs!Debt = Store!Debt
    /\ StoreProofs!PreparedInvocation = Store!PreparedInvocation
<1> QED
  BY DEF StoreProofs!Scope, Store!Scope, StoreProofs!Receipt, Store!Receipt,
         StoreProofs!Evidence, Store!Evidence, StoreProofs!HashText, Store!HashText,
         StoreProofs!Debt, Store!Debt,
         StoreProofs!PreparedInvocation, Store!PreparedInvocation

LEMMA SameFinals ==
    /\ \A subject : StoreProofs!FinalsOf(subject) = Store!FinalsOf(subject)
    /\ StoreProofs!Final = Store!Final
<1>1. ASSUME NEW subject
      PROVE  StoreProofs!FinalsOf(subject) = Store!FinalsOf(subject)
  BY SameData
     DEF StoreProofs!FinalsOf, Store!FinalsOf, StoreProofs!Rejected, Store!Rejected,
         StoreProofs!Submitted, Store!Submitted, StoreProofs!Signed, Store!Signed
<1> QED
  BY <1>1 DEF StoreProofs!Final, Store!Final

LEMMA SameEvidence ==
    StoreProofs!AcceptedEvidence = Store!AcceptedEvidence
<1> QED
  BY SameData
     DEF StoreProofs!AcceptedEvidence, Store!AcceptedEvidence,
         StoreProofs!ValidEvidence, Store!ValidEvidence,
         StoreProofs!NotSubmitted, Store!NotSubmitted,
         StoreProofs!Identified, Store!Identified, StoreProofs!Accepted, Store!Accepted,
         StoreProofs!Committed, Store!Committed

LEMMA SameRows == StoreProofs!Request = Store!Request
<1> QED
  BY SameData, SameFinals, SameEvidence DEF StoreProofs!Request, Store!Request

LEMMA SameRowTests ==
    ASSUME NEW row
    PROVE  /\ StoreProofs!Failed(row) = Store!Failed(row)
           /\ StoreProofs!Settled(row) = Store!Settled(row)
           /\ StoreProofs!VerifiedNotSubmitted(row) = Store!VerifiedNotSubmitted(row)
           /\ StoreProofs!Expired(row) = Store!Expired(row)
           /\ \A final : StoreProofs!CanSaveFinal(row, final) = Store!CanSaveFinal(row, final)
           /\ \A tx : StoreProofs!CanSaveHash(row, tx) = Store!CanSaveHash(row, tx)
           /\ \A state : StoreProofs!CanTransition(row, state) = Store!CanTransition(row, state)
<1> QED
  BY DEF StoreProofs!Failed, Store!Failed, StoreProofs!IsNotSubmitted, Store!IsNotSubmitted,
         StoreProofs!Settled, Store!Settled, StoreProofs!Expired, Store!Expired,
         StoreProofs!VerifiedNotSubmitted, Store!VerifiedNotSubmitted,
         StoreProofs!CanSaveFinal, Store!CanSaveFinal,
         StoreProofs!CanSaveHash, Store!CanSaveHash,
         StoreProofs!SubmissionOf, Store!SubmissionOf,
         StoreProofs!CanTransition, Store!CanTransition

LEMMA SameMerge ==
    ASSUME NEW row, NEW next
    PROVE  /\ StoreProofs!CanSaveRecovery(row, next) = Store!CanSaveRecovery(row, next)
           /\ StoreProofs!WithRecovery(row, next) = Store!WithRecovery(row, next)
<1> USE DEF StoreProofs!IsNotSubmitted, Store!IsNotSubmitted,
            StoreProofs!Identified, Store!Identified, StoreProofs!Accepted, Store!Accepted,
            StoreProofs!Committed, Store!Committed
<1>1. StoreProofs!Merge(row.evidence, next) = Store!Merge(row.evidence, next)
  BY DEF StoreProofs!Merge, Store!Merge,
         StoreProofs!StalePending, Store!StalePending,
         StoreProofs!KeepEstablished, Store!KeepEstablished
<1>2. StoreProofs!Mergeable(row.evidence, next) = Store!Mergeable(row.evidence, next)
  BY DEF StoreProofs!Mergeable, Store!Mergeable,
         StoreProofs!SameReceipt, Store!SameReceipt
<1>3. \A h : StoreProofs!Submitted(h) = Store!Submitted(h)
  BY DEF StoreProofs!Submitted, Store!Submitted
<1>4. StoreProofs!CanSaveRecovery(row, next) = Store!CanSaveRecovery(row, next)
  BY <1>1, <1>2, <1>3 DEF StoreProofs!CanSaveRecovery, Store!CanSaveRecovery
<1>5. StoreProofs!WithRecovery(row, next) = Store!WithRecovery(row, next)
  BY <1>1, <1>3 DEF StoreProofs!WithRecovery, Store!WithRecovery
<1> QED
  BY <1>4, <1>5

LEMMA SameRequestSteps == Store!RequestNext => StoreProofs!RequestNext
<1> SUFFICES ASSUME Store!RequestNext PROVE StoreProofs!RequestNext
  OBVIOUS
<1>1. ASSUME NEW task \in Tab \X {"call", "recovery"}, NEW receipt \in DeskReceipt,
             Store!SaveRequestRead(task, receipt)
      PROVE  StoreProofs!SaveRequestRead(task, receipt)
  BY <1>1 DEF StoreProofs!SaveRequestRead, Store!SaveRequestRead,
              StoreProofs!DebtOf, Store!DebtOf, StoreProofs!BoundTo, Store!BoundTo
<1>2. ASSUME NEW task \in Tab \X {"call", "recovery"}, Store!SaveRequestWrite(task)
      PROVE  StoreProofs!SaveRequestWrite(task)
  BY <1>2 DEF StoreProofs!SaveRequestWrite, Store!SaveRequestWrite,
              StoreProofs!NewRow, Store!NewRow, StoreProofs!ScopeOf, Store!ScopeOf
<1>3. ASSUME NEW tasks, Store!Abandon(tasks)
      PROVE  StoreProofs!Abandon(tasks)
  BY <1>3 DEF StoreProofs!Abandon, Store!Abandon
<1>4. ASSUME NEW scope, NEW row, Store!Put(scope, row)
      PROVE  StoreProofs!Put(scope, row)
  BY <1>4 DEF StoreProofs!Put, Store!Put
<1>5. ASSUME NEW scope, NEW final, Store!SaveFinal(scope, final)
      PROVE  StoreProofs!SaveFinal(scope, final)
  BY <1>4, <1>5, SameFinals, SameRowTests DEF StoreProofs!SaveFinal, Store!SaveFinal
<1>6. ASSUME NEW scope, NEW next, Store!SaveExternalRecovery(scope, next)
      PROVE  StoreProofs!SaveExternalRecovery(scope, next)
  BY <1>4, <1>6, SameMerge DEF StoreProofs!SaveExternalRecovery, Store!SaveExternalRecovery
<1>7. ASSUME NEW scope, NEW tx, Store!SaveTransactionHash(scope, tx)
      PROVE  StoreProofs!SaveTransactionHash(scope, tx)
  BY <1>4, <1>7, SameRowTests
     DEF StoreProofs!SaveTransactionHash, Store!SaveTransactionHash
<1>8. ASSUME NEW scope, NEW state, Store!Transition(scope, state)
      PROVE  StoreProofs!Transition(scope, state)
  BY <1>4, <1>8, SameRowTests DEF StoreProofs!Transition, Store!Transition
<1> QED
  BY <1>1, <1>2, <1>3, <1>5, <1>6, <1>7, <1>8, SameData, SameFinals, SameEvidence
     DEF Store!RequestNext, StoreProofs!RequestNext

LEMMA SameInvocationSteps == Store!InvocationNext => StoreProofs!InvocationNext
<1> SUFFICES ASSUME Store!InvocationNext PROVE StoreProofs!InvocationNext
  OBVIOUS
<1>1. ASSUME NEW i, NEW s, NEW subject, Store!PrepareInvocation(i, s, subject)
      PROVE  StoreProofs!PrepareInvocation(i, s, subject)
  BY <1>1, SameData DEF StoreProofs!PrepareInvocation, Store!PrepareInvocation
<1>2. ASSUME NEW i, Store!SaveMobileEnvelope(i)
      PROVE  StoreProofs!SaveMobileEnvelope(i)
  BY <1>2 DEF StoreProofs!SaveMobileEnvelope, Store!SaveMobileEnvelope
<1>3. ASSUME NEW i, NEW state, NEW requestId, Store!UpdateInvocation(i, state, requestId)
      PROVE  StoreProofs!UpdateInvocation(i, state, requestId)
  BY <1>3 DEF StoreProofs!UpdateInvocation, Store!UpdateInvocation
<1> QED
  BY <1>1, <1>2, <1>3 DEF Store!InvocationNext, StoreProofs!InvocationNext

LEMMA SameSteps == [Store!Next]_storeVars => [StoreProofs!Next]_(StoreProofs!vars)
<1>1. Store!Prune => StoreProofs!Prune
  BY SameData, SameRowTests
     DEF StoreProofs!Prune, Store!Prune, StoreProofs!ExpiredScopes, Store!ExpiredScopes,
         StoreProofs!Completes, Store!Completes, StoreProofs!BoundTo, Store!BoundTo
<1>2. Store!Tick => StoreProofs!Tick
  BY DEF StoreProofs!Tick, Store!Tick
<1> QED
  BY <1>1, <1>2, SameRequestSteps, SameInvocationSteps
     DEF Store!Next, StoreProofs!Next, storeVars, StoreProofs!vars

LEMMA SameAssumptions ==
    /\ StoreProofs!EvidenceAssumption
    /\ StoreProofs!RecoveryAssumption
    /\ StoreProofs!EntryAssumption
<1>1. StoreProofs!EvidenceAssumption
  BY StoreAssumption, SameData DEF StoreProofs!EvidenceAssumption, Store!EvidenceAssumption
<1>2. StoreProofs!RecoveryAssumption
  BY StoreAssumption, SameData, SameRows, SameFinals
     DEF StoreProofs!RecoveryAssumption, Store!RecoveryAssumption
<1>3. StoreProofs!EntryAssumption
  BY StoreAssumption, SameData, SameFinals
     DEF StoreProofs!EntryAssumption, Store!EntryAssumption,
         StoreProofs!Ledger!Entry, Store!Ledger!Entry
<1> QED
  BY <1>1, <1>2, <1>3

\* The invariant of the store, proved of it for every step.
LEMMA StoreStarts == Store!Init => StoreProofs!Inv
<1>1. Store!Init => StoreProofs!Init
  BY SameData DEF Store!Init, StoreProofs!Init
<1> QED
  BY <1>1, SameAssumptions, StoreProofs!InitInv
     DEF StoreProofs!InitInv, StoreProofs!EvidenceAssumption,
         StoreProofs!RecoveryAssumption, StoreProofs!EntryAssumption

LEMMA StoreContinues == StoreProofs!Inv /\ [Store!Next]_storeVars => StoreProofs!Inv'
<1> QED
  BY SameSteps, SameAssumptions, StoreProofs!NextInv
     DEF StoreProofs!NextInv, StoreProofs!EvidenceAssumption,
         StoreProofs!RecoveryAssumption, StoreProofs!EntryAssumption

LEMMA StoreFacts ==
    ASSUME StoreProofs!Inv
    PROVE  /\ Store!TypeOK
           /\ \A i \in Invocation : invocations[i] # None => i \in prepared
           /\ \A scope \in Store!Scope : Row(scope) # None => Store!RowAgrees(Row(scope))
<1>1. Store!TypeOK
  BY SameData, SameRows
     DEF StoreProofs!Inv, StoreProofs!TypeOK, Store!TypeOK
<1>2. \A i \in Invocation : invocations[i] # None => i \in prepared
  BY DEF StoreProofs!Inv
<1>3. ASSUME NEW row, StoreProofs!RowAgrees(row)
      PROVE  Store!RowAgrees(row)
  BY <1>3, SameRowTests
     DEF StoreProofs!RowAgrees, Store!RowAgrees, StoreProofs!SubmissionOf, Store!SubmissionOf,
         StoreProofs!Identified, Store!Identified
<1>4. \A scope \in Store!Scope : Row(scope) # None => Store!RowAgrees(Row(scope))
  BY <1>3, SameData DEF StoreProofs!Inv, StoreProofs!OutcomeAgrees, Row
<1> QED
  BY <1>1, <1>2, <1>4

------------------------------------------------------------------------------
(* The inductive invariant.                                                *)

\* A receipt names a request that Infer Desk admitted for its invocation.
Genuine(r) ==
    /\ r.invocation \in Invocation
    /\ desk[r.invocation] # None
    /\ r.session = desk[r.invocation].session
    /\ r.requestId = desk[r.invocation].requestId
    /\ r.archived => Accepted(Store!ScopeOf(r))

\* A request of a v1 session never waives its acknowledgement at Desk.
KeepsDebt(x) == x.debt = "waived" => x.receipt.session \notin V1Session

DeskAgrees ==
    /\ posted \subseteq prepared
    /\ \A i \in Invocation : desk[i] # None => i \in posted
    /\ \A i, j \in Invocation :
         desk[i] # None /\ desk[j] # None /\ desk[i].requestId = desk[j].requestId => i = j

InvocationsAgree ==
    \A i \in Invocation :
      /\ invocations[i] # None =>
           invocations[i].debt = IF invocations[i].session \in V1Session
                                 THEN "required" ELSE "waived"
      /\ desk[i] # None /\ ~Accepted(DeskScope(i)) => invocations[i] # None

CallAgrees(call) ==
    LET i == call.invocation IN
    /\ i \in prepared
    /\ call.step = "hook" =>
         /\ i \notin posted
         /\ invocations[i] # None => invocations[i].state # "not-invoked"
    /\ call.step # "hook" => i \in posted
    /\ call.step \notin {"hook", "posting"} => desk[i] # None
    /\ call.step = "completing" =>
         /\ call.outcome # None
         /\ call.outcome = desk[i].answer.outcome

CallsKnow == \A tab \in Tab : calls[tab] # None => CallAgrees(calls[tab])

OneCallEach ==
    \A tab, tab2 \in Tab :
      calls[tab] # None /\ calls[tab2] # None /\ tab # tab2 =>
        calls[tab].invocation # calls[tab2].invocation

ReceiptsAreGenuine == \A tab \in Tab : \A r \in receipts[tab] : Genuine(r)

SavesAgree ==
    \A task \in Tab \X {"call", "recovery"} :
      saving[task] # None => Genuine(saving[task].receipt) /\ KeepsDebt(saving[task])

RowAgrees(scope, row) ==
    LET i == row.receipt.invocation IN
    /\ Genuine(row.receipt)
    /\ Store!ScopeOf(row.receipt) = scope
    /\ KeepsDebt(row)
    /\ row.final # None => row.final = desk[i].answer.outcome
    /\ Store!Failed(row) => desk[i].answer.outcome = Store!NotSubmitted
    /\ row.state # "active" => Accepted(scope)
    /\ row.state = "acknowledged" /\ scope[1] \in V1Session => desk[i].retention # "held"

RowsAgree == \A scope \in Store!Scope : Row(scope) # None => RowAgrees(scope, Row(scope))

RecoveryAgrees(operation) ==
    LET i == operation.invocation IN
    /\ operation.step \in {"lookup", "saving", "linking"} => i \in Invocation
    /\ operation.step \in {"saving", "linking"} => desk[i] # None
    /\ operation.step \in {"reading", "read", "revalidating", "acknowledging", "accepting"} =>
         /\ operation.scope \in Store!Scope
         /\ i \in Invocation
         /\ desk[i] # None
         /\ DeskScope(i) = operation.scope
    /\ operation.step = "read" =>
         /\ operation.answer \in Answer
         /\ operation.answer.outcome # None =>
              desk[i].answer.outcome = operation.answer.outcome
    /\ operation.step = "accepting" /\ operation.scope[1] \in V1Session =>
         desk[i].retention # "held"
    /\ operation.step \in {"clearing", "marking"} =>
         operation.scope \in Store!Scope /\ Accepted(operation.scope)

RecoveriesKnow ==
    \A tab \in Tab : recovery[tab] # None => RecoveryAgrees(recovery[tab])

Inv ==
    /\ TypeOK
    /\ StoreProofs!Inv
    /\ NotInvokedIsTrue
    /\ DeskAgrees /\ InvocationsAgree
    /\ CallsKnow /\ OneCallEach
    /\ ReceiptsAreGenuine /\ SavesAgree /\ RowsAgree
    /\ RecoveriesKnow
    /\ ToldIsSaved

LEMMA StoreTypes ==
    ASSUME Inv
    PROVE  /\ Store!TypeOK
           /\ \A i \in Invocation : invocations[i] # None => i \in prepared
           /\ \A scope \in Store!Scope : Row(scope) # None => Store!RowAgrees(Row(scope))
<1> QED
  BY StoreFacts DEF Inv

------------------------------------------------------------------------------
(* Every step is one of the store, or leaves it alone.                     *)

LEMMA StoreActions ==
    /\ \A i \in Invocation, s \in Session, subject \in Subject :
         Store!PrepareInvocation(i, s, subject) => Store!Next
    /\ \A i \in Invocation, state \in {"created", "unknown", "not-invoked"},
          requestId \in RequestId \cup {None} :
         Store!UpdateInvocation(i, state, requestId) => Store!Next
    /\ \A task \in Tab \X {"call", "recovery"}, receipt \in DeskReceipt :
         Store!SaveRequestRead(task, receipt) => Store!Next
    /\ \A task \in Tab \X {"call", "recovery"} : Store!SaveRequestWrite(task) => Store!Next
    /\ \A tasks \in SUBSET (Tab \X {"call", "recovery"}) : Store!Abandon(tasks) => Store!Next
    /\ \A scope \in Store!Scope, tx \in Tx :
         Store!SaveTransactionHash(scope, tx) => Store!Next
    /\ \A scope \in Store!Scope, state \in {"acknowledged", "archived"} :
         Store!Transition(scope, state) => Store!Next
<1>1. Store!InvocationNext => Store!Next
  BY DEF Store!Next
<1>2. Store!RequestNext => Store!Next
  BY DEF Store!Next
<1> QED
  BY <1>1, <1>2 DEF Store!InvocationNext, Store!RequestNext

LEMMA ProofIsEvidence ==
    /\ Store!NotSubmitted \in Store!AcceptedEvidence
    /\ Store!NotSubmitted # None
    /\ Store!IsNotSubmitted(Store!NotSubmitted)
    /\ ~Store!Identified(Store!NotSubmitted)
    /\ Store!NotSubmitted.status = "not-submitted"
<1>1. Store!NotSubmitted \in Store!Evidence
  BY DEF Store!NotSubmitted, Store!Evidence
<1>2. Store!NotSubmitted # None
  BY <1>1, StoreAssumption DEF Store!EvidenceAssumption
<1> QED
  BY <1>1, <1>2
     DEF Store!AcceptedEvidence, Store!ValidEvidence, Store!NotSubmitted,
         Store!IsNotSubmitted, Store!Identified

LEMMA OutcomeSteps ==
    ASSUME Inv, NEW scope \in Store!Scope, NEW outcome, SaveOutcome(scope, outcome)
    PROVE  Store!Next
<1>1. CASE outcome = Store!NotSubmitted
  <2>1. Store!SaveExternalRecovery(scope, Store!NotSubmitted)
    BY <1>1 DEF SaveOutcome
  <2> QED
    BY <2>1, ProofIsEvidence DEF Store!Next, Store!RequestNext
<1>2. CASE outcome # Store!NotSubmitted
  <2>1. Store!SaveFinal(scope, outcome)
    BY <1>2 DEF SaveOutcome
  <2>2. outcome \in Store!FinalsOf(requests[scope].receipt.subject)
    BY <2>1 DEF Store!SaveFinal
  <2>3. requests[scope].receipt.subject \in Subject
    BY <2>1, StoreTypes DEF Store!SaveFinal, Store!TypeOK, Store!Request, Store!Receipt
  <2>4. outcome \in Store!Final
    BY <2>2, <2>3 DEF Store!Final
  <2> QED
    BY <2>1, <2>4 DEF Store!Next, Store!RequestNext
<1> QED
  BY <1>1, <1>2

\* What a tab in a call, or an operation of its recovery, works with.
LEMMA CallFacts ==
    ASSUME Inv, NEW tab \in Tab, calls[tab] # None
    PROVE  /\ calls[tab] \in Call
           /\ calls[tab].invocation \in Invocation
           /\ CallAgrees(calls[tab])
<1> QED
  BY DEF Inv, TypeOK, CallsKnow, Call

LEMMA RecoveryFacts ==
    ASSUME Inv, NEW tab \in Tab, recovery[tab] # None
    PROVE  recovery[tab] \in Recovery /\ RecoveryAgrees(recovery[tab])
<1> QED
  BY DEF Inv, TypeOK, RecoveriesKnow

LEMMA DeskFacts ==
    ASSUME Inv, NEW i \in Invocation, desk[i] # None
    PROVE  /\ desk[i] \in DeskEntry
           /\ desk[i].session \in Session /\ desk[i].requestId \in RequestId
           /\ desk[i].answer \in Answer
           /\ DeskScope(i) \in Store!Scope
           /\ ReceiptOf(i) \in DeskReceipt
           /\ i \in posted /\ i \in prepared
<1> QED
  BY DEF Inv, TypeOK, DeskEntry, DeskScope, Store!Scope, ReceiptOf, DeskReceipt, DeskAgrees

LEMMA TryUpdateStep ==
    ASSUME NEW i \in Invocation, NEW state \in {"created", "unknown", "not-invoked"},
           NEW requestId \in RequestId \cup {None}, TryUpdate(i, state, requestId)
    PROVE  [Store!Next]_storeVars
<1> QED
  BY StoreActions DEF TryUpdate

LEMMA CallUsesStore ==
    ASSUME Inv, NEW tab \in Tab, CallNext(tab)
    PROVE  [Store!Next]_storeVars
<1> DEFINE i == calls[tab].invocation
           task == <<tab, "call">>
<1> USE DEF InCall
<1>0. task \in Tab \X {"call", "recovery"}
  OBVIOUS
<1>1. ASSUME NEW j \in Invocation, NEW subject \in Subject, Prepare(tab, j, subject)
      PROVE  Store!Next
  BY <1>1, StoreActions DEF Prepare, Inv, TypeOK
<1>2. CASE Refuse(tab)
  BY <1>2, CallFacts, TryUpdateStep DEF Refuse
<1>3. CASE Post(tab)
  BY <1>3 DEF Post
<1>4. CASE PostFails(tab)
  BY <1>4, CallFacts, TryUpdateStep DEF PostFails
<1>5. CASE PostAnswered(tab)
  BY <1>0, <1>5, CallFacts, DeskFacts, StoreActions DEF PostAnswered, CallTask
<1>6. CASE SaveCall(tab)
  BY <1>0, <1>6, StoreActions DEF SaveCall, CallTask
<1>7. CASE LinkCall(tab)
  <2>1. i \in Invocation /\ desk[i] # None
    BY <1>7, CallFacts DEF LinkCall, CallAgrees
  <2> QED
    BY <1>7, <2>1, DeskFacts, StoreActions DEF LinkCall
<1>8. CASE RecordingFails(tab)
  <2>1. i \in Invocation /\ desk[i] # None
    BY <1>8, CallFacts DEF RecordingFails, CallAgrees
  <2> QED
    BY <1>8, <2>1, DeskFacts, TryUpdateStep DEF RecordingFails
<1>9. CASE PollAnswered(tab) \/ PollFails(tab)
  BY <1>9 DEF PollAnswered, PollFails
<1>10. CASE CompleteCall(tab)
  <2>1. i \in Invocation /\ desk[i] # None
    BY <1>10, CallFacts DEF CompleteCall, CallAgrees
  <2> QED
    BY <1>10, <2>1, DeskFacts, OutcomeSteps DEF CompleteCall
<1> QED
  BY <1>1, <1>2, <1>3, <1>4, <1>5, <1>6, <1>7, <1>8, <1>9, <1>10 DEF CallNext

LEMMA RecoveryUsesStore ==
    ASSUME Inv, NEW tab \in Tab, RecoveryNext(tab)
    PROVE  [Store!Next]_storeVars
<1> DEFINE i == recovery[tab].invocation
           task == <<tab, "recovery">>
<1> USE DEF InRecovery
<1>0. task \in Tab \X {"call", "recovery"}
  OBVIOUS
<1>1. ASSUME NEW receipt \in receipts[tab], Migrate(tab, receipt)
      PROVE  Store!Next
  BY <1>0, <1>1, StoreActions DEF Migrate, RecoveryTask, Inv, TypeOK
<1>2. CASE Migrated(tab)
  BY <1>0, <1>2, StoreActions DEF Migrated, RecoveryTask
<1>3. ASSUME NEW j \in Invocation, StartLookup(tab, j)
      PROVE  UNCHANGED storeVars
  BY <1>3 DEF StartLookup
<1>4. CASE LookupAnswered(tab)
  <2>1. i \in Invocation /\ desk[i] # None
    BY <1>4, RecoveryFacts DEF LookupAnswered, RecoveryAgrees
  <2> QED
    BY <1>0, <1>4, <2>1, DeskFacts, StoreActions DEF LookupAnswered, RecoveryTask
<1>5. CASE SaveLookup(tab)
  BY <1>0, <1>5, StoreActions DEF SaveLookup, RecoveryTask
<1>6. CASE LinkLookup(tab)
  <2>1. i \in Invocation /\ desk[i] # None
    BY <1>6, RecoveryFacts DEF LinkLookup, RecoveryAgrees
  <2> QED
    BY <1>6, <2>1, DeskFacts, StoreActions DEF LinkLookup
<1>7. ASSUME NEW scope \in Store!Scope,
             \/ Replay(tab, scope) \/ StartRead(tab, scope)
             \/ StartAcknowledge(tab, scope) \/ Archive(tab, scope)
      PROVE  [Store!Next]_storeVars
  BY <1>7, StoreActions DEF Replay, StartRead, StartAcknowledge, Archive
<1>8. CASE ReadAnswered(tab)
  BY <1>8 DEF ReadAnswered
<1>9. CASE SaveRead(tab)
  <2> DEFINE answer == recovery[tab].answer
  <2>1. recovery[tab].scope \in Store!Scope /\ answer \in Answer
    BY <1>9, RecoveryFacts DEF SaveRead, RecoveryAgrees
  <2>2. answer.tx # None => answer.tx \in Tx
    BY <2>1 DEF Answer
  <2> QED
    BY <1>9, <2>1, <2>2, OutcomeSteps, StoreActions DEF SaveRead
<1>10. CASE Revalidate(tab)
  <2>1. recovery[tab].scope \in Store!Scope
    BY <1>10, RecoveryFacts DEF Revalidate, RecoveryAgrees
  <2> QED
    BY <1>10, <2>1, OutcomeSteps DEF Revalidate, SaveOutcome
<1>11. CASE DeskAcknowledges(tab)
  BY <1>11 DEF DeskAcknowledges
<1>12. CASE Accept(tab)
  <2>1. recovery[tab].scope \in Store!Scope
    BY <1>12, RecoveryFacts DEF Accept, RecoveryAgrees
  <2> QED
    BY <1>12, <2>1, StoreActions DEF Accept
<1>13. CASE Clear(tab) \/ Mark(tab)
  BY <1>13 DEF Clear, Mark
<1>14. CASE RecoveryFails(tab)
  BY <1>0, <1>14, StoreActions DEF RecoveryFails, RecoveryTask
<1> QED
  BY <1>1, <1>2, <1>3, <1>4, <1>5, <1>6, <1>7, <1>8, <1>9, <1>10, <1>11, <1>12, <1>13,
     <1>14 DEF RecoveryNext

LEMMA StepUsesStore ==
    ASSUME Inv, [Next]_vars
    PROVE  [Store!Next]_storeVars
<1>1. ASSUME NEW tab \in Tab, LeaveTab(tab)
      PROVE  Store!Next
  BY <1>1, StoreActions DEF LeaveTab, CallTask, RecoveryTask
<1>2. CASE Maintain
  BY <1>2 DEF Maintain, Store!Next
<1>3. CASE (\E s \in Session : Connect(s)) \/ Disconnect \/ DeskNext
  BY <1>3 DEF Connect, Disconnect, DeskNext, Admit, Forget, Identify, Decide
<1>4. CASE UNCHANGED vars
  BY <1>4 DEF vars
<1> QED
  BY <1>1, <1>2, <1>3, <1>4, CallUsesStore, RecoveryUsesStore DEF Next

------------------------------------------------------------------------------
(* Types.                                                                  *)

LEMMA CallTypes ==
    ASSUME Inv, NEW tab \in Tab, CallNext(tab)
    PROVE  TypeOK'
<1> DEFINE i == calls[tab].invocation
           Same == UNCHANGED <<session, recovery, accepted>>
<1> USE DEF InCall, SetCall, CallStep
<1>0. TypeOK
  BY DEF Inv
<1>1. ASSUME NEW call \in Call \cup {None}, calls' = [calls EXCEPT ![tab] = call], Same,
             UNCHANGED <<receipts, desk, posted, told>>
      PROVE  TypeOK'
  BY <1>0, <1>1 DEF TypeOK
<1>2. ASSUME NEW step \in {"hook", "posting", "saving", "unsaved", "linking", "polling",
                           "completing"},
             calls[tab] # None
      PROVE  [calls[tab] EXCEPT !.step = step] \in Call
  BY <1>2, CallFacts DEF Call
<1>3. ASSUME NEW j \in Invocation, NEW subject \in Subject, Prepare(tab, j, subject)
      PROVE  TypeOK'
  <2>1. [step |-> "hook", invocation |-> j, outcome |-> None] \in Call
    BY DEF Call
  <2> QED
    BY <1>1, <1>3, <2>1 DEF Prepare
<1>4. CASE Refuse(tab) \/ PostFails(tab) \/ RecordingFails(tab) \/ PollFails(tab)
  BY <1>1, <1>4 DEF Refuse, PostFails, RecordingFails, PollFails
<1>5. CASE Post(tab)
  BY <1>0, <1>2, <1>5, CallFacts DEF Post, TypeOK
<1>6. CASE PostAnswered(tab)
  <2>1. desk[i] # None /\ calls[tab] # None
    BY <1>6 DEF PostAnswered
  <2>2. receipts' \in [Tab -> SUBSET DeskReceipt]
    <3>1. ReceiptOf(i) \in DeskReceipt
      BY <2>1, CallFacts, DeskFacts
    <3> QED
      BY <1>0, <1>6, <3>1 DEF PostAnswered, Keep, TypeOK
  <2>3. calls' \in [Tab -> Call \cup {None}]
    BY <1>0, <1>2, <1>6, <2>1 DEF PostAnswered, TypeOK
  <2> QED
    BY <1>0, <1>6, <2>2, <2>3 DEF PostAnswered, TypeOK
<1>7. CASE SaveCall(tab)
  BY <1>1, <1>2, <1>7 DEF SaveCall
<1>8. CASE LinkCall(tab)
  BY <1>1, <1>2, <1>8 DEF LinkCall
<1>9. CASE PollAnswered(tab)
  <2> DEFINE outcome == desk[i].answer.outcome
             call == [calls[tab] EXCEPT !.step = "completing", !.outcome = outcome]
  <2>1. calls[tab] \in Call /\ i \in Invocation /\ desk[i] # None
    BY <1>9, CallFacts DEF PollAnswered, CallAgrees
  <2>2. outcome \in Outcome \cup {None}
    BY <2>1, DeskFacts DEF Answer
  <2>3. call \in Call
    BY <2>1, <2>2 DEF Call
  <2> QED
    BY <1>1, <1>9, <2>3 DEF PollAnswered
<1>10. CASE CompleteCall(tab)
  <2> DEFINE outcome == calls[tab].outcome
  <2>1. /\ calls[tab] \in Call /\ i \in Invocation /\ desk[i] # None
        /\ outcome # None
    BY <1>10, CallFacts DEF CompleteCall, CallAgrees
  <2>2. DeskScope(i) \in Store!Scope /\ outcome \in Outcome
    BY <2>1, DeskFacts DEF Call
  <2>3. told' \in {told, told \cup {<<DeskScope(i), outcome>>}}
    BY <1>10 DEF CompleteCall, Tell
  <2>4. calls' = [calls EXCEPT ![tab] = None] /\ UNCHANGED <<receipts, desk, posted>> /\ Same
    BY <1>10 DEF CompleteCall
  <2> QED
    BY <1>0, <2>2, <2>3, <2>4 DEF TypeOK
<1> QED
  BY <1>3, <1>4, <1>5, <1>6, <1>7, <1>8, <1>9, <1>10 DEF CallNext

\* What a row says of its request's outcome is what Desk decided.
LEMMA RowOutcome ==
    ASSUME Inv, NEW scope \in Store!Scope, Row(scope) # None, Store!Settled(Row(scope))
    PROVE  LET outcome == IF Row(scope).final # None THEN Row(scope).final
                                                     ELSE Store!NotSubmitted
               i == Row(scope).receipt.invocation IN
           /\ i \in Invocation /\ desk[i] # None /\ DeskScope(i) = scope
           /\ outcome = desk[i].answer.outcome
           /\ outcome \in Outcome
<1> DEFINE row == Row(scope)
           i == row.receipt.invocation
           outcome == IF row.final # None THEN row.final ELSE Store!NotSubmitted
<1>1. RowAgrees(scope, row)
  BY DEF Inv, RowsAgree
<1>2. i \in Invocation /\ desk[i] # None /\ DeskScope(i) = scope
  BY <1>1 DEF RowAgrees, Genuine, Store!ScopeOf, DeskScope
<1>3. outcome = desk[i].answer.outcome
  BY <1>1 DEF RowAgrees, Store!Settled, Store!VerifiedNotSubmitted
<1>4. outcome # None
  BY ProofIsEvidence
<1>5. outcome \in Outcome
  BY <1>2, <1>3, <1>4, DeskFacts DEF Answer
<1> QED
  BY <1>2, <1>3, <1>5

LEMMA RecoveryTypes ==
    ASSUME Inv, NEW tab \in Tab, RecoveryNext(tab)
    PROVE  TypeOK'
<1> DEFINE i == recovery[tab].invocation
           Same == UNCHANGED <<session, calls, posted>>
<1> USE DEF InRecovery, SetRecovery, RecoveryStep
<1>0. TypeOK
  BY DEF Inv
<1>1. ASSUME NEW operation \in Recovery \cup {None},
             recovery' = [recovery EXCEPT ![tab] = operation], Same,
             UNCHANGED <<receipts, desk, told>>,
             accepted' \subseteq Store!Scope \X {"acknowledged", "archived"}
      PROVE  TypeOK'
  BY <1>0, <1>1 DEF TypeOK
<1>2. ASSUME NEW step \in {"migrating", "lookup", "saving", "linking", "reading", "read",
                           "revalidating", "acknowledging", "accepting", "clearing",
                           "marking"},
             recovery[tab] # None
      PROVE  [recovery[tab] EXCEPT !.step = step] \in Recovery
  BY <1>2, RecoveryFacts DEF Recovery
<1>3. ASSUME NEW step \in {"migrating", "lookup", "reading", "revalidating", "acknowledging",
                           "accepting", "marking"},
             NEW j \in Invocation \cup {None}, NEW scope \in Store!Scope \cup {None},
             Start(tab, step, j, scope), UNCHANGED <<receipts, desk, told>>,
             accepted' \subseteq Store!Scope \X {"acknowledged", "archived"}
      PROVE  TypeOK'
  <2>1. [step |-> step, invocation |-> j, scope |-> scope, session |-> session,
         answer |-> None] \in Recovery
    BY <1>0 DEF Recovery, TypeOK
  <2> QED
    BY <1>1, <1>3, <2>1 DEF Start
<1>4. accepted \subseteq Store!Scope \X {"acknowledged", "archived"}
  BY <1>0 DEF TypeOK
<1>5. ASSUME NEW receipt \in receipts[tab], Migrate(tab, receipt)
      PROVE  TypeOK'
  BY <1>3, <1>4, <1>5 DEF Migrate, history
<1>6. CASE Migrated(tab) \/ LinkLookup(tab) \/ RecoveryFails(tab)
  BY <1>1, <1>4, <1>6 DEF Migrated, LinkLookup, RecoveryFails, history
<1>7. ASSUME NEW j \in Invocation, StartLookup(tab, j)
      PROVE  TypeOK'
  BY <1>3, <1>4, <1>7 DEF StartLookup, history
<1>8. CASE LookupAnswered(tab)
  <2>1. i \in Invocation /\ desk[i] # None /\ recovery[tab] # None
    BY <1>8, RecoveryFacts DEF LookupAnswered, RecoveryAgrees
  <2>2. receipts' \in [Tab -> SUBSET DeskReceipt]
    <3>1. ReceiptOf(i) \in DeskReceipt
      BY <2>1, DeskFacts
    <3> QED
      BY <1>0, <1>8, <3>1 DEF LookupAnswered, Keep, TypeOK
  <2>3. recovery' \in [Tab -> Recovery \cup {None}]
    BY <1>0, <1>2, <1>8, <2>1 DEF LookupAnswered, TypeOK
  <2> QED
    BY <1>0, <1>8, <2>2, <2>3 DEF LookupAnswered, TypeOK, history
<1>9. CASE SaveLookup(tab)
  BY <1>1, <1>2, <1>4, <1>9 DEF SaveLookup, history
<1>10. ASSUME NEW scope \in Store!Scope, Replay(tab, scope)
       PROVE  TypeOK'
  <2> DEFINE outcome == IF Row(scope).final # None THEN Row(scope).final
                                                   ELSE Store!NotSubmitted
  <2>1. outcome \in Outcome
    BY <1>10, RowOutcome DEF Replay, Exact
  <2>2. told' = told \cup {<<scope, outcome>>}
    BY <1>10 DEF Replay, Tell
  <2> QED
    BY <1>0, <1>10, <2>1, <2>2 DEF Replay, TypeOK, tabVars
<1>11. ASSUME NEW scope \in Store!Scope,
              StartRead(tab, scope) \/ StartAcknowledge(tab, scope)
       PROVE  TypeOK'
  <2>1. Row(scope) # None
    BY <1>11 DEF StartRead, StartAcknowledge, Exact
  <2>2. Row(scope).receipt.invocation \in Invocation \cup {None}
    BY <2>1, StoreTypes DEF Row, Store!TypeOK, Store!Request, Store!Receipt
  <2> QED
    BY <1>3, <1>4, <1>11, <2>2 DEF StartRead, StartAcknowledge, history
<1>12. ASSUME NEW scope \in Store!Scope, Archive(tab, scope)
       PROVE  TypeOK'
  BY <1>3, <1>4, <1>12 DEF Archive
<1>13. CASE ReadAnswered(tab)
  <2> DEFINE operation == [recovery[tab] EXCEPT !.step = "read", !.answer = desk[i].answer]
  <2>1. recovery[tab] \in Recovery /\ i \in Invocation /\ desk[i] # None
    BY <1>13, RecoveryFacts DEF ReadAnswered, RecoveryAgrees
  <2>2. operation \in Recovery
    BY <2>1, DeskFacts DEF Recovery
  <2> QED
    BY <1>1, <1>4, <1>13, <2>2 DEF ReadAnswered, history
<1>14. CASE SaveRead(tab)
  <2> DEFINE scope == recovery[tab].scope
             answer == recovery[tab].answer
  <2>1. scope \in Store!Scope /\ answer \in Answer
    BY <1>14, RecoveryFacts DEF SaveRead, RecoveryAgrees
  <2>2. \/ told' = told
        \/ answer.outcome # None /\ told' = told \cup {<<scope, answer.outcome>>}
    BY <1>14 DEF SaveRead, Tell
  <2>3. told' \subseteq Store!Scope \X Outcome
    BY <1>0, <2>1, <2>2 DEF TypeOK, Answer
  <2> QED
    BY <1>0, <1>14, <2>3 DEF SaveRead, TypeOK
<1>15. CASE Revalidate(tab)
  BY <1>1, <1>2, <1>4, <1>15 DEF Revalidate, history
<1>16. CASE DeskAcknowledges(tab)
  <2>1. i \in Invocation /\ recovery[tab] # None
    BY <1>16, RecoveryFacts DEF DeskAcknowledges, RecoveryAgrees
  <2>2. [desk[i] EXCEPT !.retention = "acknowledged"] \in DeskEntry
    BY <1>16, <2>1, DeskFacts DEF DeskAcknowledges, DeskEntry
  <2>3. desk' \in [Invocation -> DeskEntry \cup {None}]
    BY <1>0, <1>16, <2>1, <2>2 DEF DeskAcknowledges, TypeOK
  <2>4. recovery' \in [Tab -> Recovery \cup {None}]
    BY <1>0, <1>2, <1>16, <2>1 DEF DeskAcknowledges, TypeOK
  <2> QED
    BY <1>0, <1>16, <2>3, <2>4 DEF DeskAcknowledges, TypeOK, history
<1>17. CASE Accept(tab)
  <2>1. recovery[tab].scope \in Store!Scope /\ recovery[tab] # None
    BY <1>17, RecoveryFacts DEF Accept, RecoveryAgrees
  <2>2. accepted' \subseteq Store!Scope \X {"acknowledged", "archived"}
    BY <1>4, <1>17, <2>1 DEF Accept
  <2>3. [recovery[tab] EXCEPT !.step = "clearing"] \in Recovery
    BY <1>2, <2>1
  <2>4. /\ recovery' = [recovery EXCEPT ![tab] = [recovery[tab] EXCEPT !.step = "clearing"]]
        /\ Same /\ UNCHANGED <<receipts, desk, told>>
    BY <1>17 DEF Accept
  <2> QED
    BY <1>1, <2>2, <2>3, <2>4
<1>18. CASE Clear(tab)
  <2>1. receipts' \in [Tab -> SUBSET DeskReceipt]
    BY <1>0, <1>18 DEF Clear, TypeOK
  <2> QED
    BY <1>0, <1>18, <2>1 DEF Clear, TypeOK, history
<1>19. CASE Mark(tab)
  <2>1. \A r \in DeskReceipt : [r EXCEPT !.archived = TRUE] \in DeskReceipt
    BY DEF DeskReceipt
  <2>2. receipts' \in [Tab -> SUBSET DeskReceipt]
    BY <1>0, <1>19, <2>1 DEF Mark, TypeOK
  <2> QED
    BY <1>0, <1>19, <2>2 DEF Mark, TypeOK, history
<1> QED
  BY <1>5, <1>6, <1>7, <1>8, <1>9, <1>10, <1>11, <1>12, <1>13, <1>14, <1>15, <1>16, <1>17,
     <1>18, <1>19 DEF RecoveryNext

LEMMA DeskTypes == ASSUME Inv, DeskNext PROVE TypeOK'
<1>0. TypeOK
  BY DEF Inv
<1>1. PICK i \in Invocation : \/ Admit(i) \/ Forget(i)
                              \/ \E tx \in Tx : Identify(i, tx)
                              \/ \E outcome \in Outcome : Decide(i, outcome)
  BY DEF DeskNext
<1>2. ASSUME NEW entry \in DeskEntry, desk' = [desk EXCEPT ![i] = entry],
             UNCHANGED <<session, tabVars, posted, history>>
      PROVE  TypeOK'
  BY <1>0, <1>2 DEF TypeOK, tabVars, history
<1>3. CASE Admit(i)
  <2>1. PICK requestId \in RequestId :
          desk' = [desk EXCEPT ![i] =
            [ session |-> invocations[i].session, requestId |-> requestId,
              subject |-> invocations[i].subject, answer |-> Nothing,
              indexed |-> invocations[i].session \in V1Session,
              retention |-> "held" ]]
    BY <1>3 DEF Admit
  <2>2. invocations[i] \in Store!PreparedInvocation
    BY <1>3, StoreTypes DEF Admit, Store!TypeOK
  <2>3. [ session |-> invocations[i].session, requestId |-> requestId,
          subject |-> invocations[i].subject, answer |-> Nothing,
          indexed |-> invocations[i].session \in V1Session,
          retention |-> "held" ] \in DeskEntry
    BY <2>2 DEF DeskEntry, Store!PreparedInvocation, Nothing, Answer
  <2> QED
    BY <1>2, <1>3, <2>1, <2>3 DEF Admit
<1>4. CASE Forget(i)
  <2>1. [desk[i] EXCEPT !.retention = "pruned"] \in DeskEntry
    BY <1>4, DeskFacts DEF Forget, DeskEntry
  <2> QED
    BY <1>2, <1>4, <2>1 DEF Forget
<1>5. ASSUME NEW tx \in Tx, Identify(i, tx)
      PROVE  TypeOK'
  <2>1. [desk[i] EXCEPT !.answer.tx = tx] \in DeskEntry
    BY <1>5, DeskFacts DEF Identify, DeskEntry, Answer
  <2> QED
    BY <1>2, <1>5, <2>1 DEF Identify
<1>6. ASSUME NEW outcome \in Outcome, Decide(i, outcome)
      PROVE  TypeOK'
  <2>1. [desk[i] EXCEPT !.answer.outcome = outcome] \in DeskEntry
    BY <1>6, DeskFacts DEF Decide, DeskEntry, Answer
  <2> QED
    BY <1>2, <1>6, <2>1 DEF Decide
<1> QED
  BY <1>1, <1>3, <1>4, <1>5, <1>6

LEMMA TypeInv == ASSUME Inv, [Next]_vars PROVE TypeOK'
<1>0. TypeOK
  BY DEF Inv
<1>1. ASSUME NEW s \in Session, Connect(s) PROVE TypeOK'
  BY <1>0, <1>1 DEF Connect, TypeOK, tabVars, history
<1>2. CASE Disconnect
  BY <1>0, <1>2 DEF Disconnect, TypeOK, tabVars, history
<1>3. CASE Maintain
  BY <1>0, <1>3 DEF Maintain, TypeOK, tabVars, history
<1>4. ASSUME NEW tab \in Tab, LeaveTab(tab) PROVE TypeOK'
  BY <1>0, <1>4 DEF LeaveTab, TypeOK, history
<1>5. CASE UNCHANGED vars
  BY <1>0, <1>5 DEF vars, TypeOK, tabVars, history
<1> QED
  BY <1>1, <1>2, <1>3, <1>4, <1>5, CallTypes, RecoveryTypes, DeskTypes DEF Next

------------------------------------------------------------------------------
(* What no step takes back: what was sent, admitted, decided, acknowledged  *)
(* at Desk, and accepted by the dapp.                                       *)

EntryKept(i) ==
    desk[i] # None =>
      /\ desk'[i] # None
      /\ desk'[i].session = desk[i].session /\ desk'[i].requestId = desk[i].requestId
      /\ desk[i].answer.outcome # None => desk'[i].answer.outcome = desk[i].answer.outcome
      /\ desk[i].retention # "held" => desk'[i].retention # "held"

Grows ==
    /\ posted \subseteq posted'
    /\ prepared \subseteq prepared'
    /\ accepted \subseteq accepted'
    /\ \A i \in Invocation : EntryKept(i)

LEMMA PreparedGrows == [Store!Next]_storeVars => prepared \subseteq prepared'
<1> USE DEF Store!Put
<1>1. Store!RequestNext => prepared' = prepared
  BY DEF Store!RequestNext, Store!SaveRequestRead, Store!SaveRequestWrite, Store!Abandon,
         Store!SaveFinal, Store!SaveExternalRecovery, Store!SaveTransactionHash,
         Store!Transition
<1>2. Store!InvocationNext => prepared \subseteq prepared'
  BY DEF Store!InvocationNext, Store!PrepareInvocation, Store!SaveMobileEnvelope,
         Store!UpdateInvocation
<1> QED
  BY <1>1, <1>2 DEF Store!Next, Store!Prune, Store!Tick, storeVars

LEMMA EntriesKept ==
    ASSUME Inv, NEW i \in Invocation, NEW entry \in DeskEntry,
           desk' = [desk EXCEPT ![i] = entry],
           desk[i] # None =>
             /\ entry.session = desk[i].session /\ entry.requestId = desk[i].requestId
             /\ desk[i].answer.outcome # None => entry.answer.outcome = desk[i].answer.outcome
             /\ desk[i].retention # "held" => entry.retention # "held"
    PROVE  \A j \in Invocation : EntryKept(j)
<1>1. entry # None
  BY EntryAssumption
<1> QED
  BY <1>1 DEF EntryKept, Inv, TypeOK

LEMMA DeskGrows == ASSUME Inv, DeskNext PROVE \A j \in Invocation : EntryKept(j)
<1>1. PICK i \in Invocation : \/ Admit(i) \/ Forget(i)
                              \/ \E tx \in Tx : Identify(i, tx)
                              \/ \E outcome \in Outcome : Decide(i, outcome)
  BY DEF DeskNext
<1>2. TypeOK' /\ desk \in [Invocation -> DeskEntry \cup {None}]
  BY DeskTypes DEF Inv, TypeOK
<1>3. CASE Admit(i)
  BY <1>2, <1>3 DEF Admit, EntryKept
<1>4. CASE Forget(i)
  <2>1. [desk[i] EXCEPT !.retention = "pruned"] \in DeskEntry
    BY <1>4, DeskFacts DEF Forget, DeskEntry
  <2> QED
    BY <1>4, <2>1, EntriesKept DEF Forget, DeskEntry
<1>5. ASSUME NEW tx \in Tx, Identify(i, tx)
      PROVE  \A j \in Invocation : EntryKept(j)
  <2>1. [desk[i] EXCEPT !.answer.tx = tx] \in DeskEntry /\ desk[i] \in DeskEntry
    BY <1>5, DeskFacts DEF Identify, DeskEntry, Answer
  <2> QED
    BY <1>5, <2>1, EntriesKept DEF Identify, DeskEntry, Answer
<1>6. ASSUME NEW outcome \in Outcome, Decide(i, outcome)
      PROVE  \A j \in Invocation : EntryKept(j)
  <2>1. [desk[i] EXCEPT !.answer.outcome = outcome] \in DeskEntry /\ desk[i] \in DeskEntry
    BY <1>6, DeskFacts DEF Decide, DeskEntry, Answer
  <2> QED
    BY <1>6, <2>1, EntriesKept DEF Decide, DeskEntry, Answer
<1> QED
  BY <1>1, <1>3, <1>4, <1>5, <1>6

LEMMA StepGrows == ASSUME Inv, [Next]_vars PROVE Grows
<1>0. prepared \subseteq prepared'
  BY StepUsesStore, PreparedGrows
<1>1. UNCHANGED desk => \A i \in Invocation : EntryKept(i)
  BY DEF EntryKept
<1>2. ASSUME NEW tab \in Tab, CallNext(tab)
      PROVE  posted \subseteq posted' /\ UNCHANGED <<desk, accepted>>
  BY <1>2 DEF CallNext, Prepare, Refuse, Post, PostFails, PostAnswered, SaveCall, LinkCall,
              RecordingFails, PollAnswered, PollFails, CompleteCall, SetCall, CallStep
<1>3. ASSUME NEW tab \in Tab, RecoveryNext(tab)
      PROVE  Grows
  <2>1. CASE DeskAcknowledges(tab)
    <3> DEFINE i == recovery[tab].invocation
    <3>1. i \in Invocation /\ desk[i] # None
      BY <2>1, RecoveryFacts DEF DeskAcknowledges, InRecovery, RecoveryAgrees
    <3>2. [desk[i] EXCEPT !.retention = "acknowledged"] \in DeskEntry
      BY <3>1, DeskFacts DEF DeskEntry
    <3>3. \A j \in Invocation : EntryKept(j)
      BY <2>1, <3>1, <3>2, EntriesKept, DeskFacts DEF DeskAcknowledges, DeskEntry
    <3> QED
      BY <1>0, <2>1, <3>3 DEF Grows, DeskAcknowledges, RecoveryStep, SetRecovery, history
  <2>2. CASE ~DeskAcknowledges(tab)
    <3>1. UNCHANGED <<desk, posted>> /\ accepted \subseteq accepted'
      BY <1>3, <2>2
         DEF RecoveryNext, Migrate, Migrated, StartLookup, LookupAnswered, SaveLookup,
             LinkLookup, Replay, StartRead, StartAcknowledge, Archive, ReadAnswered, SaveRead,
             Revalidate, Accept, Clear, Mark, RecoveryFails, Start, RecoveryStep, SetRecovery,
             history
    <3> QED
      BY <1>0, <1>1, <3>1 DEF Grows
  <2> QED
    BY <2>1, <2>2
<1>4. CASE DeskNext
  <2>1. UNCHANGED <<posted, accepted>>
    BY <1>4 DEF DeskNext, Admit, Forget, Identify, Decide, history
  <2> QED
    BY <1>0, <1>4, <2>1, DeskGrows DEF Grows
<1>5. ASSUME \/ \E tab \in Tab : LeaveTab(tab)
             \/ \E s \in Session : Connect(s)
             \/ Disconnect \/ Maintain \/ UNCHANGED vars
      PROVE  UNCHANGED <<desk, posted, accepted>>
  BY <1>5 DEF LeaveTab, Connect, Disconnect, Maintain, vars, history
<1> QED
  BY <1>0, <1>1, <1>2, <1>3, <1>4, <1>5 DEF Next, Grows

------------------------------------------------------------------------------
(* What each part of the invariant needs of a step.                        *)

LEMMA GenuineKept ==
    ASSUME Inv, Grows, NEW r, Genuine(r)
    PROVE  Genuine(r)'
<1> QED
  BY DEF Genuine, Grows, EntryKept, Accepted

\* Rows.
LEMMA RowKept ==
    ASSUME Inv, Grows, NEW scope \in Store!Scope, NEW row, RowAgrees(scope, row)
    PROVE  RowAgrees(scope, row)'
<1> DEFINE i == row.receipt.invocation
<1>1. Genuine(row.receipt)'
  BY GenuineKept DEF RowAgrees
<1>2. i \in Invocation /\ EntryKept(i) /\ desk[i] # None
  BY DEF RowAgrees, Genuine, Grows
<1>3. row.final # None => row.final = desk'[i].answer.outcome
  BY <1>2 DEF RowAgrees, EntryKept
<1>4. Store!Failed(row) => desk'[i].answer.outcome = Store!NotSubmitted
  BY <1>2, ProofIsEvidence DEF RowAgrees, EntryKept
<1>5. row.state # "active" => Accepted(scope)'
  BY DEF RowAgrees, Accepted, Grows
<1>6. row.state = "acknowledged" /\ scope[1] \in V1Session => desk'[i].retention # "held"
  BY <1>2 DEF RowAgrees, EntryKept
<1> QED
  BY <1>1, <1>3, <1>4, <1>5, <1>6 DEF RowAgrees

RowsShrink == \A scope \in Store!Scope : requests'[scope] \in {None, requests[scope]}

LEMMA RowsFrame == ASSUME Inv, Grows, RowsShrink PROVE RowsAgree'
<1>1. ASSUME NEW scope \in Store!Scope, requests'[scope] # None
      PROVE  RowAgrees(scope, requests[scope])' /\ requests'[scope] = requests[scope]
  <2>1. requests'[scope] = requests[scope]
    BY <1>1 DEF RowsShrink
  <2>2. \A row : row = requests[scope] => RowAgrees(scope, row)
    BY <1>1, <2>1 DEF Inv, RowsAgree, Row
  <2>3. \A row : row = requests[scope] => RowAgrees(scope, row)'
    BY <2>2, RowKept
  <2> QED
    BY <2>1, <2>3 DEF RowAgrees, Genuine
<1> QED
  BY <1>1 DEF RowsAgree, Row

\* One row is put, or opened.
LEMMA RowsPut ==
    ASSUME Inv, Grows, NEW scope \in Store!Scope, NEW row, requests'[scope] = row,
           RowAgrees(scope, row)',
           \A s \in Store!Scope : s # scope => requests'[s] = requests[s]
    PROVE  RowsAgree'
<1>1. ASSUME NEW s \in Store!Scope, NEW row2, requests'[s] = row2, row2 # None
      PROVE  RowAgrees(s, row2)'
  <2>1. CASE s = scope
    BY <1>1, <2>1
  <2>2. CASE s # scope
    <3>1. requests[s] = row2 /\ Row(s) # None
      BY <1>1, <2>2 DEF Row
    <3>2. RowAgrees(s, row2)
      BY <3>1 DEF Inv, RowsAgree, Row
    <3> QED
      BY <3>2, RowKept
  <2> QED
    BY <2>1, <2>2
<1> QED
  BY <1>1 DEF RowsAgree, Row, RowAgrees, Genuine

\* Saves between their two transactions.
SavesShrink ==
    \A task \in Tab \X {"call", "recovery"} : saving'[task] \in {None, saving[task]}

LEMMA SavesFrame == ASSUME Inv, Grows, SavesShrink PROVE SavesAgree'
<1>1. ASSUME NEW task \in Tab \X {"call", "recovery"}, NEW save, saving'[task] = save,
             save # None
      PROVE  Genuine(save.receipt)' /\ KeepsDebt(save)
  <2>1. saving[task] = save
    BY <1>1 DEF SavesShrink
  <2>2. Genuine(save.receipt) /\ KeepsDebt(save)
    BY <1>1, <2>1 DEF Inv, SavesAgree
  <2> QED
    BY <2>2, GenuineKept
<1> QED
  BY <1>1 DEF SavesAgree, Genuine, KeepsDebt

LEMMA SavesPut ==
    ASSUME Inv, Grows, NEW task \in Tab \X {"call", "recovery"}, NEW receipt \in DeskReceipt,
           Genuine(receipt)', Store!SaveRequestRead(task, receipt)
    PROVE  SavesAgree'
<1> DEFINE debt == Store!DebtOf(receipt)
<1>1. saving \in [Tab \X {"call", "recovery"} ->
                    [receipt : Store!Receipt, debt : Store!Debt] \cup {None}]
  BY StoreTypes DEF Store!TypeOK
<1>2. saving' = [saving EXCEPT ![task] = [receipt |-> receipt, debt |-> debt]]
  BY DEF Store!SaveRequestRead
<1>3. debt = "waived" => receipt.session \notin V1Session
  <2> SUFFICES ASSUME debt = "waived" PROVE receipt.session \notin V1Session
    OBVIOUS
  <2>1. /\ receipt.invocation # None
        /\ Store!BoundTo(invocations[receipt.invocation], receipt)
        /\ invocations[receipt.invocation].debt = "waived"
    BY DEF Store!DebtOf
  <2>2. receipt.invocation \in Invocation
    BY <2>1 DEF DeskReceipt
  <2> QED
    BY <2>1, <2>2 DEF Inv, InvocationsAgree, Store!BoundTo
<1>4. ASSUME NEW t \in Tab \X {"call", "recovery"}, NEW save, saving'[t] = save, save # None
      PROVE  Genuine(save.receipt)' /\ KeepsDebt(save)
  <2>1. CASE t = task
    <3>1. save = [receipt |-> receipt, debt |-> debt]
      BY <1>1, <1>2, <1>4, <2>1
    <3>2. save.receipt = receipt /\ save.debt = debt
      BY <3>1
    <3> QED
      BY <3>2, <1>3 DEF KeepsDebt, Genuine
  <2>2. CASE t # task
    <3>1. saving[t] = save
      BY <1>1, <1>2, <1>4, <2>2
    <3>2. Genuine(save.receipt) /\ KeepsDebt(save)
      BY <1>4, <3>1 DEF Inv, SavesAgree
    <3> QED
      BY <3>2, GenuineKept
  <2> QED
    BY <2>1, <2>2
<1> QED
  BY <1>4 DEF SavesAgree, Genuine, KeepsDebt

\* The receipts of the tabs.
LEMMA ReceiptsFrame ==
    ASSUME Inv, Grows, \A tab \in Tab : receipts'[tab] \subseteq receipts[tab]
    PROVE  ReceiptsAreGenuine'
<1>1. ASSUME NEW tab \in Tab, NEW r \in receipts'[tab] PROVE Genuine(r)'
  BY <1>1, GenuineKept DEF Inv, ReceiptsAreGenuine
<1> QED
  BY <1>1 DEF ReceiptsAreGenuine

LEMMA ReceiptsKeep ==
    ASSUME Inv, Grows, NEW tab \in Tab, NEW receipt, Genuine(receipt)', Keep(tab, receipt)
    PROVE  ReceiptsAreGenuine'
<1>1. receipts \in [Tab -> SUBSET DeskReceipt]
  BY DEF Inv, TypeOK
<1>2. ASSUME NEW t \in Tab, NEW r \in receipts'[t] PROVE Genuine(r)'
  <2>1. r \in receipts[t] \/ r = receipt
    BY <1>1, <1>2 DEF Keep
  <2>2. r \in receipts[t] => Genuine(r)'
    BY GenuineKept DEF Inv, ReceiptsAreGenuine
  <2> QED
    BY <2>1, <2>2
<1> QED
  BY <1>2 DEF ReceiptsAreGenuine

\* Invocations.
InvocationsKept ==
    \A i \in Invocation :
      /\ invocations'[i] # None <=> invocations[i] # None
      /\ invocations[i] # None =>
           /\ invocations'[i].session = invocations[i].session
           /\ invocations'[i].debt = invocations[i].debt
           /\ invocations'[i].state = "not-invoked" => invocations[i].state = "not-invoked"

NoNewEntry == \A i \in Invocation : desk'[i] # None => desk[i] # None

LEMMA InvocationsFrame ==
    ASSUME Inv, Grows, InvocationsKept, NoNewEntry
    PROVE  InvocationsAgree'
<1>1. ASSUME NEW i \in Invocation, desk'[i] # None, ~Accepted(DeskScope(i))'
      PROVE  invocations'[i] # None
  <2>1. desk[i] # None /\ EntryKept(i)
    BY <1>1 DEF NoNewEntry, Grows
  <2>2. DeskScope(i)' = DeskScope(i)
    BY <2>1 DEF DeskScope, EntryKept
  <2>3. ~Accepted(DeskScope(i))
    BY <1>1, <2>2 DEF Accepted, Grows
  <2> QED
    BY <2>1, <2>3 DEF Inv, InvocationsAgree, InvocationsKept
<1> QED
  BY <1>1 DEF Inv, InvocationsAgree, InvocationsKept

LEMMA DeskFrame ==
    ASSUME Inv, Grows, NoNewEntry, posted \subseteq prepared => posted' \subseteq prepared'
    PROVE  DeskAgrees'
<1>1. posted' \subseteq prepared'
  BY DEF Inv, DeskAgrees
<1>2. \A i \in Invocation : desk'[i] # None => i \in posted'
  BY DEF Inv, DeskAgrees, NoNewEntry, Grows
<1>3. ASSUME NEW i \in Invocation, NEW j \in Invocation, desk'[i] # None, desk'[j] # None,
             desk'[i].requestId = desk'[j].requestId
      PROVE  i = j
  BY <1>3 DEF Inv, DeskAgrees, NoNewEntry, Grows, EntryKept
<1> QED
  BY <1>1, <1>2, <1>3 DEF DeskAgrees

LEMMA NotInvokedFrame ==
    ASSUME Inv, InvocationsKept, UNCHANGED posted
    PROVE  NotInvokedIsTrue'
<1> QED
  BY DEF Inv, InvocationsKept, NotInvokedIsTrue

\* Calls.
LEMMA CallKept ==
    ASSUME Inv, Grows, InvocationsKept, UNCHANGED posted, NEW call \in Call,
           CallAgrees(call)
    PROVE  CallAgrees(call)'
<1> DEFINE i == call.invocation
<1>1. i \in Invocation /\ EntryKept(i)
  BY DEF Grows, Call
<1> QED
  BY <1>1 DEF CallAgrees, Grows, EntryKept, InvocationsKept

CallsShrink == \A tab \in Tab : calls'[tab] \in {None, calls[tab]}

LEMMA CallsFrame ==
    ASSUME Inv, Grows, InvocationsKept, UNCHANGED posted, CallsShrink
    PROVE  CallsKnow' /\ OneCallEach'
<1>1. ASSUME NEW tab \in Tab, NEW call, calls'[tab] = call, call # None
      PROVE  CallAgrees(call)'
  <2>1. calls[tab] = call /\ call \in Call
    BY <1>1, CallFacts DEF CallsShrink
  <2>2. CallAgrees(call)
    BY <1>1, <2>1 DEF Inv, CallsKnow
  <2> QED
    BY <2>1, <2>2, CallKept
<1>2. CallsKnow'
  BY <1>1 DEF CallsKnow, CallAgrees
<1>3. OneCallEach'
  BY DEF Inv, OneCallEach, CallsShrink
<1> QED
  BY <1>2, <1>3

LEMMA CallsPut ==
    ASSUME Inv, Grows, InvocationsKept, UNCHANGED posted, NEW tab \in Tab, NEW call \in Call,
           calls[tab] # None, call.invocation = calls[tab].invocation,
           CallAgrees(call)', calls' = [calls EXCEPT ![tab] = call]
    PROVE  CallsKnow' /\ OneCallEach'
<1>0. calls \in [Tab -> Call \cup {None}]
  BY DEF Inv, TypeOK
<1>1. ASSUME NEW t \in Tab, NEW c, calls'[t] = c, c # None
      PROVE  CallAgrees(c)'
  <2>1. CASE t = tab
    BY <1>0, <1>1, <2>1 DEF CallAgrees
  <2>2. CASE t # tab
    <3>1. calls[t] = c /\ c \in Call
      BY <1>0, <1>1, <2>2
    <3>2. CallAgrees(c)
      BY <1>1, <3>1 DEF Inv, CallsKnow
    <3> QED
      BY <3>1, <3>2, CallKept
  <2> QED
    BY <2>1, <2>2
<1>2. CallsKnow'
  BY <1>1 DEF CallsKnow, CallAgrees
<1>3. OneCallEach'
  BY <1>0 DEF Inv, OneCallEach
<1> QED
  BY <1>2, <1>3

\* Recovery operations.
LEMMA RecoveryKept ==
    ASSUME Inv, Grows, NEW operation \in Recovery, RecoveryAgrees(operation)
    PROVE  RecoveryAgrees(operation)'
<1> DEFINE i == operation.invocation
<1>1. i \in Invocation => EntryKept(i)
  BY DEF Grows
<1>2. i \in Invocation /\ desk[i] # None =>
        DeskScope(i)' = DeskScope(i) /\ desk'[i] # None
  BY <1>1 DEF EntryKept, DeskScope
<1>3. \A scope : Accepted(scope) => Accepted(scope)'
  BY DEF Accepted, Grows
<1> QED
  BY <1>1, <1>2, <1>3 DEF RecoveryAgrees, EntryKept, Accepted, DeskScope

LEMMA RecoveriesFrame ==
    ASSUME Inv, Grows, \A tab \in Tab : recovery'[tab] \in {None, recovery[tab]}
    PROVE  RecoveriesKnow'
<1>1. ASSUME NEW tab \in Tab, NEW operation, recovery'[tab] = operation, operation # None
      PROVE  RecoveryAgrees(operation)'
  <2>1. recovery[tab] = operation /\ operation \in Recovery /\ RecoveryAgrees(operation)
    BY <1>1, RecoveryFacts
  <2> QED
    BY <2>1, RecoveryKept
<1> QED
  BY <1>1 DEF RecoveriesKnow, RecoveryAgrees, Accepted, DeskScope

LEMMA RecoveriesPut ==
    ASSUME Inv, Grows, NEW tab \in Tab, NEW operation \in Recovery,
           RecoveryAgrees(operation)', recovery' = [recovery EXCEPT ![tab] = operation]
    PROVE  RecoveriesKnow'
<1>0. recovery \in [Tab -> Recovery \cup {None}]
  BY DEF Inv, TypeOK
<1>1. ASSUME NEW t \in Tab, NEW o, recovery'[t] = o, o # None
      PROVE  RecoveryAgrees(o)'
  <2>1. CASE t = tab
    <3>1. o = operation
      BY <1>0, <1>1, <2>1
    <3> QED
      BY <3>1 DEF RecoveryAgrees, Accepted, DeskScope
  <2>2. CASE t # tab
    <3>1. recovery[t] = o
      BY <1>0, <1>1, <2>2
    <3>2. o \in Recovery /\ RecoveryAgrees(o)
      BY <1>1, <3>1, RecoveryFacts
    <3> QED
      BY <3>2, RecoveryKept
  <2> QED
    BY <2>1, <2>2
<1> QED
  BY <1>1 DEF RecoveriesKnow, RecoveryAgrees, Accepted, DeskScope

\* Outcomes.
SavedAs(row, outcome) ==
    IF outcome = Store!NotSubmitted THEN Store!VerifiedNotSubmitted(row)
                                    ELSE row.final = outcome

ToldHolds(scope, outcome) ==
    /\ \E i \in Invocation : /\ desk[i] # None
                             /\ DeskScope(i) = scope
                             /\ desk[i].answer.outcome = outcome
    /\ ~Accepted(scope) => Row(scope) # None /\ SavedAs(Row(scope), outcome)

RowOutlives(row, next) ==
    /\ row.final # None => next.final = row.final
    /\ Store!VerifiedNotSubmitted(row) => Store!VerifiedNotSubmitted(next)

OutcomeKept(scope) ==
    requests[scope] # None =>
      \/ requests[scope].state # "active"
      \/ requests'[scope] # None /\ RowOutlives(requests[scope], requests'[scope])

OutcomesKept == \A scope \in Store!Scope : OutcomeKept(scope)

LEMMA OutcomeIsPresent == None \notin Outcome
<1>1. \A subject \in Subject : None \notin Store!FinalsOf(subject)
  BY StoreAssumption DEF Store!RecoveryAssumption, Store!Final
<1> QED
  BY <1>1, ProofIsEvidence DEF Outcome, Outcomes

LEMMA ToldKept ==
    ASSUME Inv, Grows, OutcomesKept, NEW scope \in Store!Scope, NEW outcome \in Outcome,
           ToldHolds(scope, outcome)
    PROVE  ToldHolds(scope, outcome)'
<1>1. PICK i \in Invocation : /\ desk[i] # None
                              /\ DeskScope(i) = scope
                              /\ desk[i].answer.outcome = outcome
  BY DEF ToldHolds
<1>2. desk'[i] # None /\ DeskScope(i)' = scope /\ desk'[i].answer.outcome = outcome
  BY <1>1, OutcomeIsPresent DEF Grows, EntryKept, DeskScope
<1>3. ASSUME ~Accepted(scope)'
      PROVE  requests'[scope] # None /\ SavedAs(requests'[scope], outcome)
  <2>1. ~Accepted(scope)
    BY <1>3 DEF Accepted, Grows
  <2>2. requests[scope] # None /\ SavedAs(requests[scope], outcome)
    BY <2>1 DEF ToldHolds, Row
  <2>3. requests[scope].state = "active"
    BY <2>1, <2>2 DEF Inv, RowsAgree, Row, RowAgrees
  <2>4. requests'[scope] # None /\ RowOutlives(requests[scope], requests'[scope])
    BY <2>2, <2>3 DEF OutcomesKept, OutcomeKept
  <2>5. outcome # None
    BY OutcomeIsPresent
  <2> QED
    BY <2>2, <2>4, <2>5 DEF RowOutlives, SavedAs
<1> QED
  BY <1>2, <1>3 DEF ToldHolds, Row, SavedAs, DeskScope

LEMMA ToldFrame ==
    ASSUME Inv, Grows, OutcomesKept, NEW scope \in Store!Scope, NEW outcome \in Outcome,
           told' \subseteq told \cup {<<scope, outcome>>},
           <<scope, outcome>> \in told' => ToldHolds(scope, outcome)'
    PROVE  ToldIsSaved'
<1>1. ASSUME NEW s \in Store!Scope, NEW o \in Outcome, <<s, o>> \in told'
      PROVE  ToldHolds(s, o)'
  <2>1. CASE <<s, o>> \in told
    <3>1. ToldHolds(s, o)
      BY <2>1 DEF Inv, ToldIsSaved, ToldHolds, SavedAs
    <3> QED
      BY <3>1, ToldKept
  <2>2. CASE <<s, o>> \notin told
    <3>1. s = scope /\ o = outcome
      BY <1>1, <2>2
    <3> QED
      BY <1>1, <3>1 DEF ToldHolds
  <2> QED
    BY <2>1, <2>2
<1> QED
  BY <1>1 DEF ToldIsSaved, ToldHolds, SavedAs

LEMMA ToldStays == ASSUME Inv, Grows, OutcomesKept, UNCHANGED told PROVE ToldIsSaved'
<1>1. ASSUME NEW scope \in Store!Scope, NEW outcome \in Outcome, <<scope, outcome>> \in told'
      PROVE  ToldHolds(scope, outcome)'
  <2>1. ToldHolds(scope, outcome)
    BY <1>1 DEF Inv, ToldIsSaved, ToldHolds, SavedAs
  <2> QED
    BY <2>1, ToldKept
<1> QED
  BY <1>1 DEF ToldIsSaved, ToldHolds, SavedAs

------------------------------------------------------------------------------
(* What each operation of the store does to the invariant.                 *)

\* The parts about rows and told outcomes, of a step that tells nothing new.
LEMMA RowsSame ==
    ASSUME Inv, Grows, requests' = requests
    PROVE  RowsAgree' /\ OutcomesKept
<1>1. RowsAgree'
  BY RowsFrame DEF RowsShrink
<1>2. OutcomesKept
  BY DEF OutcomesKept, OutcomeKept, RowOutlives
<1> QED
  BY <1>1, <1>2

\* The invocation of the row of an admitted request is the one it was for.
LEMMA RowOfEntry ==
    ASSUME Inv, NEW scope \in Store!Scope, Row(scope) # None,
           NEW i \in Invocation, desk[i] # None, DeskScope(i) = scope
    PROVE  Row(scope).receipt.invocation = i
<1> DEFINE r == Row(scope).receipt
<1>1. Genuine(r) /\ Store!ScopeOf(r) = scope
  BY DEF Inv, RowsAgree, RowAgrees
<1>2. r.requestId = desk[i].requestId
  BY <1>1 DEF Store!ScopeOf, DeskScope
<1> QED
  BY <1>1, <1>2 DEF Genuine, Inv, DeskAgrees

\* A row is replaced by another one of the same request.
LEMMA PutInv ==
    ASSUME Inv, Grows, NEW scope \in Store!Scope, Row(scope) # None,
           NEW row \in Store!Request, Store!Put(scope, row),
           row.receipt = Row(scope).receipt, row.debt = Row(scope).debt,
           RowAgrees(scope, row)',
           RowOutlives(Row(scope), row)
    PROVE  /\ RowsAgree' /\ OutcomesKept
           /\ UNCHANGED <<invocations, saving>>
           /\ requests'[scope] # None
           /\ requests'[scope].final = row.final
           /\ Store!VerifiedNotSubmitted(row) =>
                Store!VerifiedNotSubmitted(requests'[scope])
<1> DEFINE new == IF row = requests[scope] THEN requests[scope]
                                           ELSE [row EXCEPT !.updatedAt = now]
<1>1. requests \in [Store!Scope -> Store!Request \cup {None}] /\ now \in Nat
  BY StoreTypes DEF Store!TypeOK
<1>2. requests' = [requests EXCEPT ![scope] = new] /\ UNCHANGED <<invocations, saving>>
  BY DEF Store!Put
<1>3. /\ new \in Store!Request /\ new # None
      /\ new.receipt = row.receipt /\ new.debt = row.debt /\ new.state = row.state
      /\ new.final = row.final /\ new.transactionHash = row.transactionHash
      /\ new.evidence = row.evidence
  <2>1. new \in Store!Request
    BY <1>1 DEF Store!Request
  <2>2. new # None
    BY <2>1, StoreAssumption DEF Store!RecoveryAssumption
  <2> QED
    BY <2>1, <2>2 DEF Store!Request
<1>4. requests'[scope] = new /\ \A s \in Store!Scope : s # scope => requests'[s] = requests[s]
  BY <1>1, <1>2
<1>5. PICK n : n = new
  OBVIOUS
<1>6. RowAgrees(scope, n)'
  BY <1>3, <1>5 DEF RowAgrees, KeepsDebt, Store!Failed
<1>7. RowsAgree'
  BY <1>4, <1>5, <1>6, RowsPut
<1>8. OutcomesKept
  <2>1. RowOutlives(Row(scope), new)
    BY <1>3 DEF RowOutlives, Store!VerifiedNotSubmitted, Store!Failed
  <2> QED
    BY <1>3, <1>4, <2>1 DEF OutcomesKept, OutcomeKept, Row, RowOutlives
<1>9. Store!VerifiedNotSubmitted(row) => Store!VerifiedNotSubmitted(new)
  BY <1>3 DEF Store!VerifiedNotSubmitted, Store!Failed
<1> QED
  BY <1>2, <1>3, <1>4, <1>7, <1>8, <1>9

\* What the row of a request becomes by a saved outcome.
LEMMA FinalSaved ==
    ASSUME Inv, Grows, NEW scope \in Store!Scope, NEW final, final # None,
           Store!SaveFinal(scope, final),
           NEW i \in Invocation, desk[i] # None, DeskScope(i) = scope,
           desk[i].answer.outcome = final
    PROVE  /\ RowsAgree' /\ OutcomesKept
           /\ UNCHANGED <<invocations, saving>>
           /\ requests'[scope] # None /\ requests'[scope].final = final
<1> DEFINE old == requests[scope]
           row == [old EXCEPT !.final = final]
<1>1. /\ old # None /\ final \in Store!FinalsOf(old.receipt.subject)
      /\ Store!CanSaveFinal(old, final) /\ Store!Put(scope, row)
  BY DEF Store!SaveFinal
<1>2. old \in Store!Request /\ RowAgrees(scope, old) /\ Store!RowAgrees(old)
  BY <1>1, StoreTypes DEF Store!TypeOK, Inv, RowsAgree, Row
<1>3. final \in Store!Final
  BY <1>1, <1>2 DEF Store!Final, Store!Request, Store!Receipt
<1>4. /\ row \in Store!Request
      /\ row.receipt = old.receipt /\ row.debt = old.debt /\ row.state = old.state
      /\ row.final = final /\ row.transactionHash = old.transactionHash
      /\ row.evidence = old.evidence
  BY <1>2, <1>3 DEF Store!Request
<1>5. old.receipt.invocation = i
  BY <1>1, RowOfEntry DEF Row
<1>6. desk'[i].answer.outcome = final
  BY DEF Grows, EntryKept
<1>7. PICK o : o = old
  OBVIOUS
<1>8. RowAgrees(scope, o)'
  BY <1>2, <1>7, RowKept
<1>9. PICK r : r = row
  OBVIOUS
<1>10. RowAgrees(scope, r)'
  <2>1. ~Store!Failed(r)
    BY <1>1, <1>4, <1>9 DEF Store!CanSaveFinal, Store!Failed
  <2>2. r.receipt.invocation = i
    BY <1>4, <1>5, <1>9
  <2>3. r.final = desk'[r.receipt.invocation].answer.outcome
    BY <1>4, <1>6, <1>9, <2>2
  <2> QED
    BY <1>4, <1>7, <1>8, <1>9, <2>1, <2>3 DEF RowAgrees, KeepsDebt
<1>11. RowOutlives(old, row)
  BY <1>1, <1>4 DEF RowOutlives, Store!CanSaveFinal, Store!VerifiedNotSubmitted
<1> QED
  BY <1>1, <1>4, <1>9, <1>10, <1>11, PutInv DEF Row

LEMMA ProofSaved ==
    ASSUME Inv, Grows, NEW scope \in Store!Scope,
           Store!SaveExternalRecovery(scope, Store!NotSubmitted),
           NEW i \in Invocation, desk[i] # None, DeskScope(i) = scope,
           desk[i].answer.outcome = Store!NotSubmitted
    PROVE  /\ RowsAgree' /\ OutcomesKept
           /\ UNCHANGED <<invocations, saving>>
           /\ requests'[scope] # None /\ Store!VerifiedNotSubmitted(requests'[scope])
<1> DEFINE old == requests[scope]
           evidence == Store!Merge(old.evidence, Store!NotSubmitted)
           row == Store!WithRecovery(old, Store!NotSubmitted)
<1>1. /\ old # None /\ Store!CanSaveRecovery(old, Store!NotSubmitted)
      /\ Store!Put(scope, row)
  BY DEF Store!SaveExternalRecovery
<1>2. old \in Store!Request /\ RowAgrees(scope, old) /\ Store!RowAgrees(old)
  BY <1>1, StoreTypes DEF Store!TypeOK, Inv, RowsAgree, Row
<1>3. /\ evidence \in Store!AcceptedEvidence /\ evidence # None
      /\ evidence.status = "not-submitted" /\ evidence.transactionHash = None
  <2>1. evidence \in {old.evidence, Store!NotSubmitted} \cap Store!AcceptedEvidence
    <3>1. old.evidence \in Store!AcceptedEvidence \cup {None}
      BY <1>2 DEF Store!Request
    <3> QED
      BY <3>1, ProofIsEvidence DEF Store!Merge
  <2>2. evidence.status = "not-submitted"
    BY ProofIsEvidence DEF Store!Merge
  <2>3. evidence = Store!NotSubmitted
    BY <2>1, <2>2 DEF Store!AcceptedEvidence, Store!ValidEvidence
  <2> QED
    BY <2>1, <2>3, ProofIsEvidence DEF Store!NotSubmitted
<1>4. old.final = None /\ old.transactionHash = None /\ old.state = "active"
  BY <1>1, <1>3 DEF Store!CanSaveRecovery, Store!Identified
<1>5. row = [old EXCEPT !.evidence = evidence]
  <2>1. row = [old EXCEPT !.evidence = evidence, !.transactionHash = @, !.final = @]
    BY <1>3 DEF Store!WithRecovery, Store!Identified
  <2> QED
    BY <1>2, <2>1 DEF Store!Request
<1>6. /\ row \in Store!Request
      /\ row.receipt = old.receipt /\ row.debt = old.debt /\ row.state = old.state
      /\ row.final = None /\ row.transactionHash = None
      /\ row.evidence = evidence
  BY <1>2, <1>3, <1>4, <1>5 DEF Store!Request
<1>7. Store!VerifiedNotSubmitted(row)
  BY <1>3, <1>6 DEF Store!VerifiedNotSubmitted, Store!Failed, Store!IsNotSubmitted
<1>8. old.receipt.invocation = i
  BY <1>1, RowOfEntry DEF Row
<1>9. desk'[i].answer.outcome = Store!NotSubmitted
  BY ProofIsEvidence DEF Grows, EntryKept
<1>10. PICK o : o = old
  OBVIOUS
<1>11. RowAgrees(scope, o)'
  BY <1>2, <1>10, RowKept
<1>12. PICK r : r = row
  OBVIOUS
<1>13. RowAgrees(scope, r)'
  <2>1. r.receipt.invocation = i
    BY <1>6, <1>8, <1>12
  <2> QED
    BY <1>6, <1>9, <1>10, <1>11, <1>12, <2>1 DEF RowAgrees, KeepsDebt
<1>14. RowOutlives(old, row)
  BY <1>4, <1>7 DEF RowOutlives
<1> QED
  BY <1>1, <1>6, <1>7, <1>12, <1>13, <1>14, PutInv DEF Row

LEMMA HashSaved ==
    ASSUME Inv, Grows, NEW scope \in Store!Scope, NEW tx \in Tx,
           Store!SaveTransactionHash(scope, tx)
    PROVE  RowsAgree' /\ OutcomesKept /\ UNCHANGED <<invocations, saving>>
<1> DEFINE old == requests[scope]
           row == [old EXCEPT !.transactionHash = tx]
<1>1. old # None /\ Store!CanSaveHash(old, tx) /\ Store!Put(scope, row)
  BY DEF Store!SaveTransactionHash
<1>2. old \in Store!Request /\ RowAgrees(scope, old)
  BY <1>1, StoreTypes DEF Store!TypeOK, Inv, RowsAgree, Row
<1>3. /\ row \in Store!Request
      /\ row.receipt = old.receipt /\ row.debt = old.debt /\ row.state = old.state
      /\ row.final = old.final /\ row.evidence = old.evidence
  BY <1>2 DEF Store!Request
<1>4. PICK o, r : o = old /\ r = row
  OBVIOUS
<1>5. RowAgrees(scope, o)'
  BY <1>2, <1>4, RowKept
<1>6. RowAgrees(scope, r)'
  BY <1>3, <1>4, <1>5 DEF RowAgrees, KeepsDebt, Store!Failed
<1>7. RowOutlives(old, row)
  BY <1>1, <1>3 DEF RowOutlives, Store!CanSaveHash, Store!VerifiedNotSubmitted
<1> QED
  BY <1>1, <1>3, <1>4, <1>6, <1>7, PutInv DEF Row

LEMMA Transitioned ==
    ASSUME Inv, Grows, NEW scope \in Store!Scope, NEW state \in {"acknowledged", "archived"},
           Store!Transition(scope, state), Accepted(scope)',
           NEW i \in Invocation, Row(scope).receipt.invocation = i,
           state = "acknowledged" /\ scope[1] \in V1Session => desk'[i].retention # "held"
    PROVE  RowsAgree' /\ OutcomesKept /\ UNCHANGED <<invocations, saving>>
<1> DEFINE old == requests[scope]
           row == [old EXCEPT !.state = state]
<1>1. old # None /\ Store!Put(scope, row)
  BY DEF Store!Transition
<1>2. old \in Store!Request /\ RowAgrees(scope, old)
  BY <1>1, StoreTypes DEF Store!TypeOK, Inv, RowsAgree, Row
<1>3. /\ row \in Store!Request
      /\ row.receipt = old.receipt /\ row.debt = old.debt /\ row.state = state
      /\ row.final = old.final /\ row.transactionHash = old.transactionHash
      /\ row.evidence = old.evidence
  BY <1>2 DEF Store!Request
<1>4. PICK o, r : o = old /\ r = row
  OBVIOUS
<1>5. RowAgrees(scope, o)'
  BY <1>2, <1>4, RowKept
<1>6. RowAgrees(scope, r)'
  <2>1. r.receipt.invocation = i
    BY <1>3, <1>4 DEF Row
  <2> QED
    BY <1>3, <1>4, <1>5, <2>1 DEF RowAgrees, KeepsDebt, Store!Failed
<1>7. RowOutlives(old, row)
  BY <1>3 DEF RowOutlives, Store!VerifiedNotSubmitted, Store!Failed
<1> QED
  BY <1>1, <1>3, <1>4, <1>6, <1>7, PutInv DEF Row

LEMMA Opened ==
    ASSUME Inv, Grows, NEW task \in Tab \X {"call", "recovery"}, Store!SaveRequestWrite(task)
    PROVE  RowsAgree' /\ OutcomesKept /\ SavesShrink /\ UNCHANGED invocations
<1> DEFINE save == saving[task]
           scope == Store!ScopeOf(save.receipt)
           row == Store!NewRow(save)
<1>1. /\ saving \in [Tab \X {"call", "recovery"} ->
                       [receipt : Store!Receipt, debt : Store!Debt] \cup {None}]
      /\ requests \in [Store!Scope -> Store!Request \cup {None}]
      /\ save \in [receipt : Store!Receipt, debt : Store!Debt]
  BY StoreTypes DEF Store!TypeOK, Store!SaveRequestWrite
<1>2. /\ save # None
      /\ requests' = [requests EXCEPT ![scope] = IF @ = None THEN row ELSE @]
      /\ saving' = [saving EXCEPT ![task] = None]
      /\ UNCHANGED invocations
  BY DEF Store!SaveRequestWrite
<1>3. scope \in Store!Scope
  BY <1>1 DEF Store!ScopeOf, Store!Scope, Store!Receipt
<1>4. /\ row.receipt = save.receipt /\ row.debt = save.debt
      /\ row.state = IF save.receipt.archived THEN "archived" ELSE "active"
      /\ row.final = None /\ row.evidence = None
  BY DEF Store!NewRow
<1>5. SavesShrink
  BY <1>1, <1>2 DEF SavesShrink
<1>6. OutcomesKept
  BY <1>1, <1>2, <1>3 DEF OutcomesKept, OutcomeKept, RowOutlives
<1>7. RowsAgree'
  <2>1. CASE requests[scope] # None
    BY <1>1, <1>2, <1>3, <2>1, RowsFrame DEF RowsShrink
  <2>2. CASE requests[scope] = None
    <3>0. PICK s \in Store!Scope : s = scope
      BY <1>3
    <3>1. PICK r, x : r = row /\ x = save.receipt
      OBVIOUS
    <3>2. Genuine(x)' /\ KeepsDebt(save)
      BY <1>2, <3>1, GenuineKept DEF Inv, SavesAgree
    <3>3. s = Store!ScopeOf(x)
      BY <3>0, <3>1
    <3>4. x.archived => Accepted(s)'
      BY <3>2, <3>3 DEF Genuine, Accepted, Store!ScopeOf
    <3>5. RowAgrees(s, r)'
      BY <1>4, <3>1, <3>2, <3>3, <3>4
         DEF RowAgrees, KeepsDebt, Store!Failed, Store!IsNotSubmitted
    <3>6. requests'[s] = r /\ \A s2 \in Store!Scope : s2 # s => requests'[s2] = requests[s2]
      BY <1>1, <1>2, <1>3, <2>2, <3>0, <3>1
    <3> QED
      BY <3>5, <3>6, RowsPut
  <2> QED
    BY <2>1, <2>2
<1> QED
  BY <1>2, <1>5, <1>6, <1>7

LEMMA Abandoned ==
    ASSUME NEW tasks \in SUBSET (Tab \X {"call", "recovery"}), Store!Abandon(tasks)
    PROVE  SavesShrink /\ UNCHANGED <<requests, invocations>>
<1> QED
  BY DEF Store!Abandon, SavesShrink

\* An update that is not a refusal.
LEMMA Updated ==
    ASSUME Inv, NEW i \in Invocation, NEW state \in {"created", "unknown"},
           NEW requestId \in RequestId \cup {None}, Store!UpdateInvocation(i, state, requestId)
    PROVE  InvocationsKept /\ UNCHANGED <<requests, saving>>
<1> DEFINE old == invocations[i]
           row == [old EXCEPT !.state = state,
                              !.requestId = IF requestId = None THEN @ ELSE requestId]
<1>1. /\ invocations \in [Invocation -> Store!PreparedInvocation \cup {None}]
      /\ old # None
      /\ UNCHANGED <<requests, saving>>
  BY StoreTypes DEF Store!TypeOK, Store!UpdateInvocation
<1>2. invocations' = [invocations EXCEPT ![i] = row]
  BY <1>1 DEF Store!UpdateInvocation
<1>3. row \in Store!PreparedInvocation
  BY <1>1 DEF Store!PreparedInvocation
<1>4. row # None
  BY <1>3, StoreAssumption DEF Store!RecoveryAssumption
<1>5. row.session = old.session /\ row.debt = old.debt /\ row.state = state
  BY <1>1 DEF Store!PreparedInvocation
<1> QED
  BY <1>1, <1>2, <1>4, <1>5 DEF InvocationsKept

LEMMA TriedUpdate ==
    ASSUME Inv, NEW i \in Invocation, NEW state \in {"created", "unknown"},
           NEW requestId \in RequestId \cup {None}, TryUpdate(i, state, requestId)
    PROVE  InvocationsKept /\ UNCHANGED <<requests, saving>>
<1> QED
  BY Updated DEF TryUpdate, storeVars, InvocationsKept

------------------------------------------------------------------------------
(* The steps.                                                              *)

Rest ==
    /\ NotInvokedIsTrue
    /\ DeskAgrees /\ InvocationsAgree
    /\ CallsKnow /\ OneCallEach
    /\ ReceiptsAreGenuine /\ SavesAgree /\ RowsAgree
    /\ RecoveriesKnow
    /\ ToldIsSaved

\* What a step that sends and admits nothing leaves as it is.
LEMMA SentSame ==
    ASSUME Inv, Grows, InvocationsKept, UNCHANGED <<posted, desk>>
    PROVE  NotInvokedIsTrue' /\ DeskAgrees' /\ InvocationsAgree'
<1>1. NoNewEntry
  BY DEF NoNewEntry
<1> QED
  BY <1>1, NotInvokedFrame, DeskFrame, InvocationsFrame DEF Grows

LEMMA Refused ==
    ASSUME Inv, NEW i \in Invocation, TryUpdate(i, "not-invoked", None)
    PROVE  /\ \A j \in Invocation : j # i => invocations'[j] = invocations[j]
           /\ invocations'[i] # None <=> invocations[i] # None
           /\ invocations[i] # None => /\ invocations'[i].session = invocations[i].session
                                       /\ invocations'[i].debt = invocations[i].debt
           /\ UNCHANGED <<requests, saving>>
<1>1. CASE UNCHANGED storeVars
  BY <1>1 DEF storeVars
<1>2. CASE Store!UpdateInvocation(i, "not-invoked", None)
  <2> DEFINE old == invocations[i]
             row == [old EXCEPT !.state = "not-invoked", !.requestId = @]
  <2>1. /\ invocations \in [Invocation -> Store!PreparedInvocation \cup {None}]
        /\ old # None
        /\ UNCHANGED <<requests, saving>>
    BY <1>2, StoreTypes DEF Store!TypeOK, Store!UpdateInvocation
  <2>2. invocations' = [invocations EXCEPT ![i] = row]
    BY <1>2, <2>1 DEF Store!UpdateInvocation
  <2>3. row \in Store!PreparedInvocation
    BY <2>1 DEF Store!PreparedInvocation
  <2>4. row # None
    BY <2>3, StoreAssumption DEF Store!RecoveryAssumption
  <2>5. row.session = old.session /\ row.debt = old.debt
    BY <2>1 DEF Store!PreparedInvocation
  <2> QED
    BY <2>1, <2>2, <2>4, <2>5
<1> QED
  BY <1>1, <1>2 DEF TryUpdate

LEMMA StoreSame ==
    ASSUME UNCHANGED storeVars
    PROVE  InvocationsKept /\ SavesShrink /\ UNCHANGED <<requests, invocations, saving>>
<1> QED
  BY DEF storeVars, InvocationsKept, SavesShrink

LEMMA CallEnds ==
    ASSUME Inv, Grows, InvocationsKept, UNCHANGED posted, NEW tab \in Tab,
           calls' = [calls EXCEPT ![tab] = None]
    PROVE  CallsKnow' /\ OneCallEach'
<1> QED
  BY CallsFrame DEF CallsShrink, Inv, TypeOK

LEMMA CallMoves ==
    ASSUME Inv, Grows, InvocationsKept, UNCHANGED posted, NEW tab \in Tab, calls[tab] # None,
           NEW step \in {"saving", "unsaved", "linking", "polling"},
           calls[tab].step # "hook", desk[calls[tab].invocation] # None,
           calls' = [calls EXCEPT ![tab] = [calls[tab] EXCEPT !.step = step]]
    PROVE  CallsKnow' /\ OneCallEach'
<1> DEFINE i == calls[tab].invocation
           call == [calls[tab] EXCEPT !.step = step]
<1>1. calls[tab] \in Call /\ i \in Invocation /\ CallAgrees(calls[tab])
  BY CallFacts
<1>2. call \in Call /\ call.invocation = i /\ call.step = step
  BY <1>1 DEF Call
<1>3. i \in prepared' /\ i \in posted' /\ desk'[i] # None
  BY <1>1 DEF CallAgrees, Grows, EntryKept
<1>4. PICK c : c = call
  OBVIOUS
<1>5. CallAgrees(c)'
  BY <1>2, <1>3, <1>4 DEF CallAgrees
<1> QED
  BY <1>2, <1>4, <1>5, CallsPut

\* Prepare makes a new invocation.
LEMMA PrepareInv ==
    ASSUME Inv, Grows, TypeOK', NEW tab \in Tab, NEW j \in Invocation, NEW subject \in Subject,
           Prepare(tab, j, subject)
    PROVE  Rest'
<1> DEFINE call == [step |-> "hook", invocation |-> j, outcome |-> None]
<1>1. /\ calls \in [Tab -> Call \cup {None}]
      /\ invocations \in [Invocation -> Store!PreparedInvocation \cup {None}]
      /\ \A i \in Invocation : invocations[i] # None => i \in prepared
  BY StoreTypes DEF Inv, TypeOK, Store!TypeOK
<1>2. /\ calls[tab] = None /\ calls' = [calls EXCEPT ![tab] = call]
      /\ j \notin prepared /\ prepared' = prepared \cup {j}
      /\ UNCHANGED <<requests, saving, receipts, desk, posted, told, recovery, accepted>>
      /\ invocations'[j].debt = IF session \in V1Session THEN "required" ELSE "waived"
  BY DEF Prepare, SetCall, Store!PrepareInvocation
<1>3. PICK debt \in Store!Debt : invocations' = [invocations EXCEPT ![j] =
        [ session |-> session, subject |-> subject, debt |-> debt,
          state |-> "prepared", requestId |-> None, mobileRequest |-> FALSE ]]
  BY DEF Prepare, Store!PrepareInvocation
<1>4. /\ invocations'[j].session = session /\ invocations'[j].state = "prepared"
      /\ \A i \in Invocation : i # j => invocations'[i] = invocations[i]
  BY <1>1, <1>3
<1>5. j \notin posted /\ desk[j] = None /\ invocations[j] = None
  BY <1>1, <1>2 DEF Inv, DeskAgrees
<1>6. RowsAgree' /\ OutcomesKept
  BY <1>2, RowsSame
<1>7. SavesAgree'
  BY <1>2, SavesFrame DEF SavesShrink
<1>8. ReceiptsAreGenuine'
  BY <1>2, ReceiptsFrame
<1>9. RecoveriesKnow'
  BY <1>2, RecoveriesFrame
<1>10. ToldIsSaved'
  BY <1>2, <1>6, ToldStays
<1>11. NotInvokedIsTrue'
  BY <1>2, <1>4, <1>5 DEF Inv, NotInvokedIsTrue
<1>12. DeskAgrees'
  BY <1>2, DeskFrame DEF NoNewEntry
<1>13. InvocationsAgree'
  BY <1>2, <1>4, <1>5 DEF Inv, InvocationsAgree, Accepted, DeskScope
<1>14. ASSUME NEW t \in Tab, NEW c, calls'[t] = c, c # None
       PROVE  CallAgrees(c)' /\ (t # tab => c = calls[t] /\ c.invocation # j)
  <2>1. CASE t = tab
    <3>1. c.invocation = j /\ c.step = "hook"
      BY <1>1, <1>2, <1>14, <2>1
    <3> QED
      BY <1>2, <1>4, <1>5, <2>1, <3>1 DEF CallAgrees
  <2>2. CASE t # tab
    <3>1. c = calls[t]
      BY <1>1, <1>2, <1>14, <2>2
    <3>2. CallAgrees(c) /\ c.invocation \in Invocation
      BY <1>14, <3>1, CallFacts
    <3>3. c.invocation # j
      BY <1>2, <3>2 DEF CallAgrees
    <3> QED
      BY <1>2, <1>4, <3>1, <3>2, <3>3 DEF CallAgrees
  <2> QED
    BY <2>1, <2>2
<1>15. CallsKnow'
  BY <1>14 DEF CallsKnow, CallAgrees
<1>16. OneCallEach'
  <2>1. calls'[tab].invocation = j
    BY <1>1, <1>2
  <2>2. ASSUME NEW t \in Tab, NEW u \in Tab, calls'[t] # None, calls'[u] # None, t # u
        PROVE  calls'[t].invocation # calls'[u].invocation
    BY <1>14, <2>1, <2>2 DEF Inv, OneCallEach
  <2> QED
    BY <2>2 DEF OneCallEach
<1> QED
  BY <1>6, <1>7, <1>8, <1>9, <1>10, <1>11, <1>12, <1>13, <1>15, <1>16 DEF Rest

LEMMA RefuseInv ==
    ASSUME Inv, Grows, NEW tab \in Tab, Refuse(tab)
    PROVE  Rest'
<1> DEFINE i == calls[tab].invocation
<1>1. calls \in [Tab -> Call \cup {None}]
  BY DEF Inv, TypeOK
<1>2. /\ calls[tab] # None /\ calls' = [calls EXCEPT ![tab] = None]
      /\ UNCHANGED <<receipts, desk, posted, told, recovery, accepted>>
      /\ TryUpdate(i, "not-invoked", None)
      /\ calls[tab].step = "hook"
  BY DEF Refuse, InCall, SetCall
<1>3. i \in Invocation /\ i \notin posted
  BY <1>2, CallFacts DEF CallAgrees
<1>4. /\ \A j \in Invocation : j # i => invocations'[j] = invocations[j]
      /\ invocations'[i] # None <=> invocations[i] # None
      /\ invocations[i] # None => /\ invocations'[i].session = invocations[i].session
                                  /\ invocations'[i].debt = invocations[i].debt
      /\ UNCHANGED <<requests, saving>>
  BY <1>2, <1>3, Refused
<1>5. RowsAgree' /\ OutcomesKept
  BY <1>4, RowsSame
<1>6. SavesAgree'
  BY <1>4, SavesFrame DEF SavesShrink
<1>7. ReceiptsAreGenuine'
  BY <1>2, ReceiptsFrame
<1>8. RecoveriesKnow'
  BY <1>2, RecoveriesFrame
<1>9. ToldIsSaved'
  BY <1>2, <1>5, ToldStays
<1>10. NotInvokedIsTrue'
  BY <1>2, <1>3, <1>4 DEF Inv, NotInvokedIsTrue
<1>11. DeskAgrees'
  BY <1>2, DeskFrame DEF NoNewEntry, Grows
<1>12. InvocationsAgree'
  BY <1>2, <1>4 DEF Inv, InvocationsAgree, Accepted, DeskScope
<1>13. ASSUME NEW t \in Tab, NEW c, calls'[t] = c, c # None
       PROVE  CallAgrees(c)'
  <2>1. t # tab /\ c = calls[t]
    BY <1>1, <1>2, <1>13
  <2>2. CallAgrees(c) /\ c.invocation \in Invocation
    BY <1>13, <2>1, CallFacts
  <2>3. c.invocation # i
    BY <1>2, <1>13, <2>1 DEF Inv, OneCallEach
  <2> QED
    BY <1>2, <1>4, <2>2, <2>3 DEF CallAgrees, Grows
<1>14. CallsKnow'
  BY <1>13 DEF CallsKnow, CallAgrees
<1>15. OneCallEach'
  BY <1>1, <1>2 DEF Inv, OneCallEach
<1> QED
  BY <1>5, <1>6, <1>7, <1>8, <1>9, <1>10, <1>11, <1>12, <1>14, <1>15 DEF Rest

LEMMA PostInv ==
    ASSUME Inv, Grows, NEW tab \in Tab, Post(tab)
    PROVE  Rest'
<1> DEFINE i == calls[tab].invocation
           call == [calls[tab] EXCEPT !.step = "posting"]
<1>1. calls \in [Tab -> Call \cup {None}]
  BY DEF Inv, TypeOK
<1>2. /\ calls[tab] # None /\ calls' = [calls EXCEPT ![tab] = call]
      /\ posted' = posted \cup {i}
      /\ UNCHANGED <<storeVars, receipts, desk, told, recovery, accepted>>
      /\ calls[tab].step = "hook"
  BY DEF Post, InCall, SetCall, CallStep
<1>3. /\ i \in Invocation /\ i \in prepared
      /\ invocations[i] # None => invocations[i].state # "not-invoked"
      /\ calls[tab] \in Call
  BY <1>2, CallFacts DEF CallAgrees
<1>4. InvocationsKept /\ SavesShrink /\ UNCHANGED <<requests, invocations, saving, prepared>>
  BY <1>2, StoreSame DEF storeVars
<1>5. RowsAgree' /\ OutcomesKept
  BY <1>4, RowsSame
<1>6. SavesAgree'
  BY <1>4, SavesFrame
<1>7. ReceiptsAreGenuine'
  BY <1>2, ReceiptsFrame
<1>8. RecoveriesKnow'
  BY <1>2, RecoveriesFrame
<1>9. ToldIsSaved'
  BY <1>2, <1>5, ToldStays
<1>10. NotInvokedIsTrue'
  BY <1>2, <1>3, <1>4 DEF Inv, NotInvokedIsTrue
<1>11. DeskAgrees'
  BY <1>2, <1>3, <1>4, DeskFrame DEF NoNewEntry
<1>12. InvocationsAgree'
  BY <1>2, <1>4, InvocationsFrame DEF NoNewEntry
<1>13. call.invocation = i /\ call.step = "posting" /\ call \in Call
  BY <1>3 DEF Call
<1>14. ASSUME NEW t \in Tab, NEW c, calls'[t] = c, c # None
       PROVE  CallAgrees(c)' /\ c.invocation = calls[t].invocation /\ calls[t] # None
  <2>1. CASE t = tab
    <3>1. c.invocation = i /\ c.step = "posting"
      BY <1>1, <1>2, <1>13, <1>14, <2>1
    <3> QED
      BY <1>2, <1>3, <1>4, <2>1, <3>1 DEF CallAgrees
  <2>2. CASE t # tab
    <3>1. c = calls[t]
      BY <1>1, <1>2, <1>14, <2>2
    <3>2. CallAgrees(c) /\ c.invocation \in Invocation
      BY <1>14, <3>1, CallFacts
    <3>3. c.invocation # i
      BY <1>2, <1>14, <2>2, <3>1 DEF Inv, OneCallEach
    <3> QED
      BY <1>2, <1>4, <1>14, <3>1, <3>2, <3>3 DEF CallAgrees
  <2> QED
    BY <2>1, <2>2
<1>15. CallsKnow'
  BY <1>14 DEF CallsKnow, CallAgrees
<1>16. OneCallEach'
  BY <1>14 DEF Inv, OneCallEach
<1> QED
  BY <1>5, <1>6, <1>7, <1>8, <1>9, <1>10, <1>11, <1>12, <1>15, <1>16 DEF Rest

LEMMA CallRest ==
    ASSUME Inv, Grows, InvocationsKept, UNCHANGED <<posted, desk, recovery>>,
           CallsKnow', OneCallEach', RowsAgree', SavesAgree', ReceiptsAreGenuine', ToldIsSaved'
    PROVE  Rest'
<1>1. RecoveriesKnow'
  BY RecoveriesFrame
<1> QED
  BY <1>1, SentSame DEF Rest

\* A step of a call that changes neither row, save, receipt nor what was told.
LEMMA CallQuiet ==
    ASSUME Inv, Grows, InvocationsKept,
           UNCHANGED <<posted, desk, recovery, requests, saving, receipts, told>>,
           CallsKnow', OneCallEach'
    PROVE  Rest'
<1>1. RowsAgree' /\ ToldIsSaved'
  BY RowsSame, ToldStays
<1>2. SavesAgree'
  BY SavesFrame DEF SavesShrink
<1>3. ReceiptsAreGenuine'
  BY ReceiptsFrame
<1> QED
  BY <1>1, <1>2, <1>3, CallRest

LEMMA AdmittedIsGenuine ==
    ASSUME Inv, Grows, NEW i \in Invocation, desk[i] # None
    PROVE  Genuine(ReceiptOf(i)) /\ \A r : r = ReceiptOf(i) => Genuine(r)'
<1>1. Genuine(ReceiptOf(i))
  BY DEF Genuine, ReceiptOf
<1> QED
  BY <1>1, GenuineKept

LEMMA PostAnsweredInv ==
    ASSUME Inv, Grows, NEW tab \in Tab, PostAnswered(tab)
    PROVE  Rest'
<1> DEFINE i == calls[tab].invocation
           task == <<tab, "call">>
<1>1. /\ calls[tab] # None /\ calls[tab].step = "posting" /\ desk[i] # None
      /\ UNCHANGED <<desk, posted, told, recovery>>
  BY DEF PostAnswered, InCall, SetCall, CallStep
<1>2. i \in Invocation
  BY <1>1, CallFacts
<1>3. CASE CallStep(tab, "unsaved") /\ UNCHANGED <<storeVars, receipts>>
  <2>1. InvocationsKept /\ UNCHANGED <<requests, saving>>
    BY <1>3, StoreSame
  <2>2. CallsKnow' /\ OneCallEach'
    BY <1>1, <1>3, <2>1, CallMoves DEF CallStep, SetCall
  <2> QED
    BY <1>1, <1>3, <2>1, <2>2, CallQuiet
<1>4. CASE /\ Keep(tab, ReceiptOf(i))
           /\ Store!SaveRequestRead(task, ReceiptOf(i))
           /\ CallStep(tab, "saving")
  <2>1. InvocationsKept /\ UNCHANGED requests
    BY <1>4 DEF Store!SaveRequestRead, InvocationsKept
  <2>2. CallsKnow' /\ OneCallEach'
    BY <1>1, <1>4, <2>1, CallMoves DEF CallStep, SetCall
  <2>3. PICK r \in DeskReceipt : r = ReceiptOf(i)
    BY <1>1, <1>2, DeskFacts
  <2>4. Genuine(r)'
    BY <1>1, <1>2, <2>3, AdmittedIsGenuine
  <2>5. ReceiptsAreGenuine'
    BY <1>4, <2>3, <2>4, ReceiptsKeep
  <2>6. SavesAgree'
    BY <1>4, <2>3, <2>4, SavesPut
  <2>7. RowsAgree' /\ ToldIsSaved'
    BY <1>1, <2>1, RowsSame, ToldStays
  <2> QED
    BY <1>1, <2>1, <2>2, <2>5, <2>6, <2>7, CallRest
<1> QED
  BY <1>3, <1>4 DEF PostAnswered, CallTask

LEMMA SaveCallInv ==
    ASSUME Inv, Grows, NEW tab \in Tab, SaveCall(tab)
    PROVE  Rest'
<1> DEFINE task == <<tab, "call">>
<1>1. /\ calls[tab] # None /\ calls[tab].step = "saving"
      /\ UNCHANGED <<desk, posted, told, recovery, receipts>>
  BY DEF SaveCall, InCall, SetCall, CallStep
<1>2. desk[calls[tab].invocation] # None
  BY <1>1, CallFacts DEF CallAgrees
<1>3. RowsAgree' /\ OutcomesKept /\ SavesShrink /\ UNCHANGED invocations
  <2>1. CASE Store!SaveRequestWrite(task)
    BY <2>1, Opened
  <2>2. CASE Store!Abandon({task})
    <3>1. {task} \in SUBSET (Tab \X {"call", "recovery"})
      OBVIOUS
    <3> QED
      BY <2>2, <3>1, Abandoned, RowsSame
  <2> QED
    BY <2>1, <2>2 DEF SaveCall, CallTask
<1>4. InvocationsKept
  BY <1>3 DEF InvocationsKept
<1>5. CallsKnow' /\ OneCallEach'
  <2>1. CallStep(tab, "linking") \/ CallStep(tab, "unsaved")
    BY DEF SaveCall
  <2> QED
    BY <1>1, <1>2, <1>4, <2>1, CallMoves DEF CallStep, SetCall
<1>6. SavesAgree'
  BY <1>3, SavesFrame
<1>7. ReceiptsAreGenuine'
  BY <1>1, ReceiptsFrame
<1>8. ToldIsSaved'
  BY <1>1, <1>3, ToldStays
<1> QED
  BY <1>1, <1>3, <1>4, <1>5, <1>6, <1>7, <1>8, CallRest

LEMMA LinkCallInv ==
    ASSUME Inv, Grows, NEW tab \in Tab, LinkCall(tab)
    PROVE  Rest'
<1> DEFINE i == calls[tab].invocation
<1>1. /\ calls[tab] # None /\ calls[tab].step = "linking"
      /\ Store!UpdateInvocation(i, "created", desk[i].requestId)
      /\ UNCHANGED <<desk, posted, told, recovery, receipts>>
  BY DEF LinkCall, InCall, SetCall, CallStep
<1>2. i \in Invocation /\ desk[i] # None /\ desk[i].requestId \in RequestId
  BY <1>1, CallFacts, DeskFacts DEF CallAgrees
<1>3. InvocationsKept /\ UNCHANGED <<requests, saving>>
  BY <1>1, <1>2, Updated
<1>4. CallsKnow' /\ OneCallEach'
  BY <1>1, <1>2, <1>3, CallMoves DEF LinkCall, CallStep, SetCall
<1> QED
  BY <1>1, <1>3, <1>4, CallQuiet

LEMMA CallFailsInv ==
    ASSUME Inv, Grows, NEW tab \in Tab,
           PostFails(tab) \/ RecordingFails(tab) \/ PollFails(tab)
    PROVE  Rest'
<1> DEFINE i == calls[tab].invocation
<1>1. /\ calls[tab] # None /\ calls' = [calls EXCEPT ![tab] = None]
      /\ UNCHANGED <<desk, posted, told, recovery, receipts>>
  BY DEF PostFails, RecordingFails, PollFails, InCall, SetCall
<1>2. i \in Invocation /\ CallAgrees(calls[tab])
  BY <1>1, CallFacts
<1>3. InvocationsKept /\ UNCHANGED <<requests, saving>>
  <2>1. CASE PostFails(tab)
    BY <1>2, <2>1, TriedUpdate DEF PostFails
  <2>2. CASE RecordingFails(tab)
    <3>1. desk[i] # None
      BY <1>2, <2>2 DEF RecordingFails, InCall, CallAgrees
    <3> QED
      BY <1>2, <2>2, <3>1, DeskFacts, TriedUpdate DEF RecordingFails
  <2>3. CASE PollFails(tab)
    BY <2>3, StoreSame DEF PollFails
  <2> QED
    BY <2>1, <2>2, <2>3
<1>4. CallsKnow' /\ OneCallEach'
  BY <1>1, <1>3, CallEnds
<1> QED
  BY <1>1, <1>3, <1>4, CallQuiet

LEMMA PollAnsweredInv ==
    ASSUME Inv, Grows, NEW tab \in Tab, PollAnswered(tab)
    PROVE  Rest'
<1> DEFINE i == calls[tab].invocation
           outcome == desk[i].answer.outcome
           call == [calls[tab] EXCEPT !.step = "completing", !.outcome = outcome]
<1>1. /\ calls[tab] # None /\ calls[tab].step = "polling" /\ outcome # None
      /\ calls' = [calls EXCEPT ![tab] = call]
      /\ UNCHANGED <<storeVars, desk, posted, told, recovery, receipts>>
  BY DEF PollAnswered, InCall, SetCall
<1>2. calls[tab] \in Call /\ i \in Invocation /\ CallAgrees(calls[tab]) /\ desk[i] # None
  BY <1>1, CallFacts DEF CallAgrees
<1>3. InvocationsKept /\ UNCHANGED <<requests, saving, prepared>>
  BY <1>1, StoreSame DEF storeVars
<1>4. outcome \in Outcome
  BY <1>1, <1>2, DeskFacts DEF Answer
<1>5. /\ call \in Call /\ call.invocation = i /\ call.step = "completing"
      /\ call.outcome = outcome
  BY <1>2, <1>4 DEF Call
<1>6. PICK c : c = call
  OBVIOUS
<1>7. CallAgrees(c)'
  BY <1>1, <1>2, <1>3, <1>5, <1>6 DEF CallAgrees
<1>8. CallsKnow' /\ OneCallEach'
  BY <1>1, <1>3, <1>5, <1>6, <1>7, CallsPut
<1> QED
  BY <1>1, <1>3, <1>8, CallQuiet

\* An outcome of Desk is saved, and told or not.
LEMMA OutcomeSaved ==
    ASSUME Inv, Grows, NEW scope \in Store!Scope, NEW outcome \in Outcome,
           SaveOutcome(scope, outcome),
           NEW i \in Invocation, desk[i] # None, DeskScope(i) = scope,
           desk[i].answer.outcome = outcome,
           told' \in {told, told \cup {<<scope, outcome>>}}
    PROVE  RowsAgree' /\ ToldIsSaved' /\ UNCHANGED <<invocations, saving>>
<1>1. outcome # None
  BY OutcomeIsPresent
<1>2. /\ RowsAgree' /\ OutcomesKept /\ UNCHANGED <<invocations, saving>>
      /\ requests'[scope] # None /\ SavedAs(requests'[scope], outcome)
  <2>1. CASE outcome = Store!NotSubmitted
    BY <2>1, ProofSaved DEF SaveOutcome, SavedAs
  <2>2. CASE outcome # Store!NotSubmitted
    BY <1>1, <2>2, FinalSaved DEF SaveOutcome, SavedAs
  <2> QED
    BY <2>1, <2>2
<1>3. /\ desk'[i] # None /\ DeskScope(i)' = scope
      /\ desk'[i].answer.outcome = outcome
  BY <1>1 DEF Grows, EntryKept, DeskScope
<1>4. ToldHolds(scope, outcome)'
  BY <1>2, <1>3 DEF ToldHolds, Row, SavedAs, DeskScope
<1>5. ToldIsSaved'
  BY <1>2, <1>4, ToldFrame
<1> QED
  BY <1>2, <1>5

LEMMA CompleteCallInv ==
    ASSUME Inv, Grows, NEW tab \in Tab, CompleteCall(tab)
    PROVE  Rest'
<1> DEFINE i == calls[tab].invocation
           outcome == calls[tab].outcome
<1>1. /\ calls[tab] # None /\ calls[tab].step = "completing"
      /\ calls' = [calls EXCEPT ![tab] = None]
      /\ UNCHANGED <<desk, posted, recovery, receipts>>
  BY DEF CompleteCall, InCall, SetCall
<1>2. /\ calls[tab] \in Call /\ i \in Invocation /\ desk[i] # None
      /\ outcome = desk[i].answer.outcome /\ outcome # None
  BY <1>1, CallFacts DEF CallAgrees
<1>3. CASE UNCHANGED <<storeVars, told>>
  <2>1. InvocationsKept /\ UNCHANGED <<requests, saving>>
    BY <1>3, StoreSame
  <2>2. CallsKnow' /\ OneCallEach'
    BY <1>1, <2>1, CallEnds
  <2> QED
    BY <1>1, <1>3, <2>1, <2>2, CallQuiet
<1>4. CASE /\ SaveOutcome(DeskScope(i), outcome)
           /\ IF outcome = Store!NotSubmitted THEN told' = told
                                              ELSE Tell(DeskScope(i), outcome)
  <2>1. PICK scope \in Store!Scope : scope = DeskScope(i)
    BY <1>2, DeskFacts
  <2>2. PICK o \in Outcome : o = outcome
    BY <1>2 DEF Call
  <2>3. told' \in {told, told \cup {<<scope, o>>}}
    BY <1>4, <2>1, <2>2 DEF Tell
  <2>4. RowsAgree' /\ ToldIsSaved' /\ UNCHANGED <<invocations, saving>>
    BY <1>2, <1>4, <2>1, <2>2, <2>3, OutcomeSaved
  <2>5. InvocationsKept /\ SavesShrink
    BY <2>4 DEF InvocationsKept, SavesShrink
  <2>6. CallsKnow' /\ OneCallEach'
    BY <1>1, <2>5, CallEnds
  <2>7. SavesAgree' /\ ReceiptsAreGenuine'
    BY <1>1, <2>5, SavesFrame, ReceiptsFrame
  <2> QED
    BY <1>1, <2>4, <2>5, <2>6, <2>7, CallRest
<1> QED
  BY <1>3, <1>4 DEF CompleteCall

LEMMA CallInv ==
    ASSUME Inv, Grows, TypeOK', NEW tab \in Tab, CallNext(tab)
    PROVE  Rest'
<1> QED
  BY PrepareInv, RefuseInv, PostInv, PostAnsweredInv, SaveCallInv, LinkCallInv, CallFailsInv,
     PollAnsweredInv, CompleteCallInv DEF CallNext

\* The recovery operations send nothing, and leave the calls alone.
LEMMA RecoveryRest ==
    ASSUME Inv, Grows, InvocationsKept, UNCHANGED <<posted, desk, calls>>,
           RowsAgree', SavesAgree', ReceiptsAreGenuine', RecoveriesKnow', ToldIsSaved'
    PROVE  Rest'
<1>1. CallsKnow' /\ OneCallEach'
  BY CallsFrame DEF CallsShrink
<1> QED
  BY <1>1, SentSame DEF Rest

\* One that changes neither row, save, receipt nor what was told.
LEMMA RecoveryQuiet ==
    ASSUME Inv, Grows, InvocationsKept,
           UNCHANGED <<posted, desk, calls, requests, saving, receipts, told>>,
           RecoveriesKnow'
    PROVE  Rest'
<1>1. RowsAgree' /\ ToldIsSaved'
  BY RowsSame, ToldStays
<1>2. SavesAgree'
  BY SavesFrame DEF SavesShrink
<1>3. ReceiptsAreGenuine'
  BY ReceiptsFrame
<1> QED
  BY <1>1, <1>2, <1>3, RecoveryRest

LEMMA RecoveryEnds ==
    ASSUME Inv, Grows, NEW tab \in Tab, recovery' = [recovery EXCEPT ![tab] = None]
    PROVE  RecoveriesKnow'
<1> QED
  BY RecoveriesFrame DEF Inv, TypeOK

\* What a step of an operation must know of the request it works on.
Knows(step, i, scope) ==
    /\ step \in {"lookup", "saving", "linking"} => i \in Invocation
    /\ step \in {"saving", "linking"} => desk[i] # None
    /\ step \in {"reading", "revalidating", "acknowledging", "accepting"} =>
         /\ scope \in Store!Scope
         /\ i \in Invocation
         /\ desk[i] # None
         /\ DeskScope(i) = scope
    /\ step = "accepting" /\ scope[1] \in V1Session => desk[i].retention # "held"
    /\ step \in {"clearing", "marking"} => scope \in Store!Scope /\ Accepted(scope)

LEMMA RecoveryStarts ==
    ASSUME Inv, Grows, NEW tab \in Tab,
           NEW step \in {"migrating", "lookup", "reading", "revalidating", "acknowledging",
                         "accepting", "marking"},
           NEW i \in Invocation \cup {None}, NEW scope \in Store!Scope \cup {None},
           Start(tab, step, i, scope), Knows(step, i, scope)'
    PROVE  RecoveriesKnow'
<1> DEFINE operation == [ step |-> step, invocation |-> i, scope |-> scope,
                          session |-> session, answer |-> None ]
<1>1. operation \in Recovery
  BY DEF Recovery, Inv, TypeOK
<1>2. PICK o \in Recovery : o = operation
  BY <1>1
<1>3. o.step = step /\ o.invocation = i /\ o.scope = scope
  BY <1>2
<1>4. RecoveryAgrees(o)'
  BY <1>3 DEF RecoveryAgrees, Knows, Accepted, DeskScope
<1>5. recovery' = [recovery EXCEPT ![tab] = o]
  BY <1>2 DEF Start, SetRecovery
<1> QED
  BY <1>4, <1>5, RecoveriesPut

LEMMA RecoveryMoves ==
    ASSUME Inv, Grows, NEW tab \in Tab, recovery[tab] # None,
           NEW step \in {"saving", "linking", "acknowledging", "accepting", "clearing"},
           NEW i, NEW scope, i = recovery[tab].invocation, scope = recovery[tab].scope,
           RecoveryStep(tab, step), Knows(step, i, scope)'
    PROVE  RecoveriesKnow'
<1> DEFINE operation == [recovery[tab] EXCEPT !.step = step]
<1>1. operation \in Recovery /\ recovery[tab] \in Recovery
  BY RecoveryFacts DEF Recovery
<1>2. PICK o \in Recovery : o = operation
  BY <1>1
<1>3. o.step = step /\ o.invocation = i /\ o.scope = scope
  BY <1>1, <1>2 DEF Recovery
<1>4. RecoveryAgrees(o)'
  BY <1>3 DEF RecoveryAgrees, Knows, Accepted, DeskScope
<1>5. recovery' = [recovery EXCEPT ![tab] = o]
  BY <1>2 DEF RecoveryStep, SetRecovery
<1> QED
  BY <1>4, <1>5, RecoveriesPut

LEMMA MigrateInv ==
    ASSUME Inv, Grows, NEW tab \in Tab, NEW receipt \in receipts[tab], Migrate(tab, receipt)
    PROVE  Rest'
<1>1. /\ Start(tab, "migrating", None, None)
      /\ Store!SaveRequestRead(<<tab, "recovery">>, receipt)
      /\ UNCHANGED <<posted, desk, calls, requests, invocations, receipts, told>>
  BY DEF Migrate, Start, SetRecovery, RecoveryTask, history, Store!SaveRequestRead
<1>2. receipt \in DeskReceipt
  BY DEF Inv, TypeOK
<1>3. Genuine(receipt)'
  BY GenuineKept DEF Inv, ReceiptsAreGenuine
<1>4. SavesAgree'
  BY <1>1, <1>2, <1>3, SavesPut
<1>5. RecoveriesKnow'
  BY <1>1, RecoveryStarts DEF Knows
<1>6. RowsAgree' /\ ToldIsSaved' /\ ReceiptsAreGenuine'
  BY <1>1, RowsSame, ToldStays, ReceiptsFrame
<1>7. InvocationsKept
  BY <1>1 DEF InvocationsKept
<1> QED
  BY <1>1, <1>4, <1>5, <1>6, <1>7, RecoveryRest

\* Migrated and SaveLookup open the row; RecoveryFails abandons it.
LEMMA OpenInv ==
    ASSUME Inv, Grows, NEW tab \in Tab,
           Store!SaveRequestWrite(<<tab, "recovery">>) \/ Store!Abandon({<<tab, "recovery">>}),
           UNCHANGED <<posted, desk, calls, receipts, told>>, RecoveriesKnow'
    PROVE  Rest'
<1> DEFINE task == <<tab, "recovery">>
<1>1. RowsAgree' /\ OutcomesKept /\ SavesShrink /\ UNCHANGED invocations
  <2>1. CASE Store!SaveRequestWrite(task)
    BY <2>1, Opened
  <2>2. CASE Store!Abandon({task})
    <3>1. {task} \in SUBSET (Tab \X {"call", "recovery"})
      OBVIOUS
    <3> QED
      BY <2>2, <3>1, Abandoned, RowsSame
  <2> QED
    BY <2>1, <2>2
<1>2. InvocationsKept
  BY <1>1 DEF InvocationsKept
<1>3. SavesAgree' /\ ReceiptsAreGenuine' /\ ToldIsSaved'
  BY <1>1, SavesFrame, ReceiptsFrame, ToldStays
<1> QED
  BY <1>1, <1>2, <1>3, RecoveryRest

LEMMA OpensInv ==
    ASSUME Inv, Grows, NEW tab \in Tab,
           Migrated(tab) \/ SaveLookup(tab) \/ RecoveryFails(tab)
    PROVE  Rest'
<1>1. CASE Migrated(tab) \/ RecoveryFails(tab)
  <2>1. RecoveriesKnow'
    BY <1>1, RecoveryEnds DEF Migrated, RecoveryFails, SetRecovery
  <2> QED
    BY <1>1, <2>1, OpenInv
       DEF Migrated, RecoveryFails, SetRecovery, RecoveryTask, history
<1>2. CASE SaveLookup(tab)
  <2>1. PICK i, scope : i = recovery[tab].invocation /\ scope = recovery[tab].scope
    OBVIOUS
  <2>2. i \in Invocation /\ desk[i] # None /\ recovery[tab] # None
    BY <1>2, <2>1, RecoveryFacts DEF SaveLookup, InRecovery, RecoveryAgrees
  <2>3. Knows("linking", i, scope)'
    BY <2>2 DEF Knows, Grows, EntryKept
  <2>4. RecoveriesKnow'
    BY <1>2, <2>1, <2>2, <2>3, RecoveryMoves DEF SaveLookup
  <2> QED
    BY <1>2, <2>4, OpenInv
       DEF SaveLookup, RecoveryStep, SetRecovery, RecoveryTask, history
<1> QED
  BY <1>1, <1>2

LEMMA LookupInv ==
    ASSUME Inv, Grows, NEW tab \in Tab, LookupAnswered(tab)
    PROVE  Rest'
<1> DEFINE task == <<tab, "recovery">>
<1>1. PICK i, scope : i = recovery[tab].invocation /\ scope = recovery[tab].scope
  OBVIOUS
<1>2. /\ recovery[tab] # None /\ i \in Invocation /\ desk[i] # None
      /\ Keep(tab, ReceiptOf(i)) /\ Store!SaveRequestRead(task, ReceiptOf(i))
      /\ RecoveryStep(tab, "saving")
      /\ UNCHANGED <<posted, desk, calls, told, requests, invocations>>
  BY <1>1, RecoveryFacts
     DEF LookupAnswered, InRecovery, RecoveryAgrees, RecoveryStep, SetRecovery, RecoveryTask,
         history, Store!SaveRequestRead
<1>3. PICK r \in DeskReceipt : r = ReceiptOf(i)
  BY <1>2, DeskFacts
<1>4. Genuine(r)'
  BY <1>2, <1>3, AdmittedIsGenuine
<1>5. ReceiptsAreGenuine'
  BY <1>2, <1>3, <1>4, ReceiptsKeep
<1>6. SavesAgree'
  BY <1>2, <1>3, <1>4, SavesPut
<1>7. Knows("saving", i, scope)'
  BY <1>2 DEF Knows, Grows, EntryKept
<1>8. RecoveriesKnow'
  BY <1>1, <1>2, <1>7, RecoveryMoves
<1>9. RowsAgree' /\ ToldIsSaved'
  BY <1>2, RowsSame, ToldStays
<1>10. InvocationsKept
  BY <1>2 DEF InvocationsKept
<1> QED
  BY <1>2, <1>5, <1>6, <1>8, <1>9, <1>10, RecoveryRest

LEMMA LinkLookupInv ==
    ASSUME Inv, Grows, NEW tab \in Tab, LinkLookup(tab)
    PROVE  Rest'
<1> DEFINE i == recovery[tab].invocation
<1>1. /\ i \in Invocation /\ desk[i] # None /\ desk[i].requestId \in RequestId
      /\ Store!UpdateInvocation(i, "created", desk[i].requestId)
      /\ recovery' = [recovery EXCEPT ![tab] = None]
      /\ UNCHANGED <<posted, desk, calls, receipts, told>>
  BY RecoveryFacts, DeskFacts
     DEF LinkLookup, InRecovery, RecoveryAgrees, SetRecovery, history
<1>2. InvocationsKept /\ UNCHANGED <<requests, saving>>
  BY <1>1, Updated
<1> QED
  BY <1>1, <1>2, RecoveryEnds, RecoveryQuiet

\* A final has another status than a proof.
LEMMA NotSubmittedIsNoFinal == Store!NotSubmitted \notin Store!Final
<1>1. \A final \in Store!Final : final.status \in {"rejected", "approved"}
  BY DEF Store!Final, Store!FinalsOf, Store!Rejected, Store!Submitted, Store!Signed
<1> QED
  BY <1>1, ProofIsEvidence

\* What a row says of the request it belongs to.
LEMMA RowEntry ==
    ASSUME Inv, NEW scope \in Store!Scope, NEW row, row = Row(scope), row # None
    PROVE  /\ row \in Store!Request /\ RowAgrees(scope, row)
           /\ row.receipt.invocation \in Invocation
           /\ desk[row.receipt.invocation] # None
           /\ DeskScope(row.receipt.invocation) = scope
           /\ scope[1] = row.receipt.session
<1>1. row \in Store!Request /\ RowAgrees(scope, row)
  BY StoreTypes DEF Row, Store!TypeOK, Inv, RowsAgree
<1> QED
  BY <1>1 DEF RowAgrees, Genuine, DeskScope, Store!ScopeOf

LEMMA EntryNames ==
    ASSUME Inv, Grows, NEW i \in Invocation, desk[i] # None
    PROVE  desk'[i] # None /\ DeskScope(i)' = DeskScope(i)
<1> QED
  BY DEF Grows, EntryKept, DeskScope

\* The operations that only start, or only read.
LEMMA StartLookupInv ==
    ASSUME Inv, Grows, NEW tab \in Tab, NEW i \in Invocation, StartLookup(tab, i)
    PROVE  Rest'
<1>1. RecoveriesKnow'
  <2>1. Knows("lookup", i, None)'
    BY DEF Knows
  <2> QED
    BY <2>1, RecoveryStarts DEF StartLookup
<1>2. /\ UNCHANGED <<posted, desk, calls, receipts, told>>
      /\ UNCHANGED storeVars
  BY DEF StartLookup, Start, SetRecovery, history
<1> QED
  BY <1>1, <1>2, StoreSame, RecoveryQuiet

LEMMA StartReadInv ==
    ASSUME Inv, Grows, NEW tab \in Tab, NEW scope \in Store!Scope, StartRead(tab, scope)
    PROVE  Rest'
<1>1. PICK row : row = Row(scope)
  OBVIOUS
<1>2. PICK i : i = row.receipt.invocation
  OBVIOUS
<1>3. row # None /\ Start(tab, "reading", i, scope)
  BY <1>1, <1>2 DEF StartRead, Exact
<1>4. i \in Invocation /\ desk[i] # None /\ DeskScope(i) = scope
  BY <1>1, <1>2, <1>3, RowEntry
<1>5. Knows("reading", i, scope)'
  BY <1>4, EntryNames DEF Knows
<1>6. RecoveriesKnow'
  BY <1>3, <1>4, <1>5, RecoveryStarts
<1>7. /\ UNCHANGED <<posted, desk, calls, receipts, told>>
      /\ UNCHANGED storeVars
  BY DEF StartRead, Start, SetRecovery, history
<1> QED
  BY <1>6, <1>7, StoreSame, RecoveryQuiet

\* What owes nothing to Desk waives it, and so is not of a v1 session.
LEMMA StartAcknowledgeInv ==
    ASSUME Inv, Grows, NEW tab \in Tab, NEW scope \in Store!Scope,
           StartAcknowledge(tab, scope)
    PROVE  Rest'
<1>1. PICK row : row = Row(scope)
  OBVIOUS
<1>2. PICK i : i = row.receipt.invocation
  OBVIOUS
<1>3. PICK step : step = IF ~Owed(row) THEN "accepting"
                         ELSE IF Store!Failed(row) THEN "revalidating" ELSE "acknowledging"
  OBVIOUS
<1>4. row # None /\ Start(tab, step, i, scope)
  BY <1>1, <1>2, <1>3 DEF StartAcknowledge, Exact
<1>5. /\ row \in Store!Request /\ RowAgrees(scope, row)
      /\ i \in Invocation /\ desk[i] # None /\ DeskScope(i) = scope
      /\ scope[1] = row.receipt.session
  BY <1>1, <1>2, <1>4, RowEntry
<1>6. step = "accepting" => scope[1] \notin V1Session
  <2> SUFFICES ASSUME step = "accepting" PROVE scope[1] \notin V1Session
    OBVIOUS
  <2>1. ~Owed(row)
    BY <1>3
  <2>2. None \notin Invocation
    BY StoreAssumption DEF Store!RecoveryAssumption
  <2>3. row.debt = "waived"
    BY <1>2, <1>5, <2>1, <2>2 DEF Owed, Store!Request, Store!Debt
  <2> QED
    BY <1>5, <2>3 DEF RowAgrees, KeepsDebt
<1>7. Knows(step, i, scope)'
  BY <1>3, <1>5, <1>6, EntryNames DEF Knows
<1>8. RecoveriesKnow'
  BY <1>3, <1>4, <1>5, <1>7, RecoveryStarts
<1>9. /\ UNCHANGED <<posted, desk, calls, receipts, told>>
      /\ UNCHANGED storeVars
  BY DEF StartAcknowledge, Start, SetRecovery, history
<1> QED
  BY <1>8, <1>9, StoreSame, RecoveryQuiet

LEMMA ReplayInv ==
    ASSUME Inv, Grows, NEW tab \in Tab, NEW scope \in Store!Scope, Replay(tab, scope)
    PROVE  Rest'
<1>1. PICK outcome : outcome = IF Row(scope).final # None THEN Row(scope).final
                                                         ELSE Store!NotSubmitted
  OBVIOUS
<1>2. /\ Row(scope) # None /\ Store!Settled(Row(scope))
      /\ told' = told \cup {<<scope, outcome>>}
      /\ UNCHANGED <<storeVars, recovery, calls, receipts, desk, posted, accepted>>
  BY <1>1 DEF Replay, Exact, Tell, tabVars
<1>3. PICK i \in Invocation : /\ desk[i] # None /\ DeskScope(i) = scope
                              /\ desk[i].answer.outcome = outcome
  BY <1>1, <1>2, RowOutcome
<1>4. outcome \in Outcome
  BY <1>1, <1>2, RowOutcome
<1>5. SavedAs(Row(scope), outcome)
  <2>1. CASE Row(scope).final # None
    <3>1. RowAgrees(scope, Row(scope)) /\ Row(scope).final = outcome
      BY <1>1, <1>2, <2>1 DEF Inv, RowsAgree
    <3>2. Row(scope) \in Store!Request
      BY <1>2, StoreTypes DEF Row, Store!TypeOK
    <3>3. Row(scope).final \in Store!Final
      BY <2>1, <3>2 DEF Store!Request
    <3>4. Row(scope).final # Store!NotSubmitted
      BY <3>3, NotSubmittedIsNoFinal
    <3> QED
      BY <3>1, <3>4 DEF SavedAs
  <2>2. CASE Row(scope).final = None
    BY <1>1, <1>2, <2>2 DEF SavedAs, Store!Settled
  <2> QED
    BY <2>1, <2>2
<1>6. ToldHolds(scope, outcome)'
  <2>1. UNCHANGED <<desk, requests, accepted>>
    BY <1>2 DEF storeVars
  <2> QED
    BY <1>2, <1>3, <1>5, <2>1 DEF ToldHolds, DeskScope, Row, Accepted, SavedAs
<1>7. InvocationsKept /\ SavesShrink /\ UNCHANGED <<requests, saving>>
  BY <1>2, StoreSame
<1>8. RowsAgree' /\ OutcomesKept
  BY <1>7, RowsSame
<1>9. ToldIsSaved'
  BY <1>2, <1>4, <1>6, <1>8, ToldFrame
<1>10. RecoveriesKnow' /\ SavesAgree' /\ ReceiptsAreGenuine'
  BY <1>2, <1>7, RecoveriesFrame, SavesFrame, ReceiptsFrame
<1> QED
  BY <1>2, <1>7, <1>8, <1>9, <1>10, RecoveryRest

LEMMA ReadAnsweredInv ==
    ASSUME Inv, Grows, NEW tab \in Tab, ReadAnswered(tab)
    PROVE  Rest'
<1>1. PICK i : i = recovery[tab].invocation
  OBVIOUS
<1>2. PICK answer : answer = desk[i].answer
  OBVIOUS
<1>3. PICK o : o = [recovery[tab] EXCEPT !.step = "read", !.answer = answer]
  OBVIOUS
<1>4. /\ recovery[tab] # None /\ recovery[tab].step = "reading"
      /\ recovery' = [recovery EXCEPT ![tab] = o]
      /\ UNCHANGED <<posted, desk, calls, receipts, told>>
      /\ UNCHANGED storeVars
  BY <1>1, <1>2, <1>3 DEF ReadAnswered, InRecovery, SetRecovery, history
<1>5. recovery[tab] \in Recovery /\ RecoveryAgrees(recovery[tab])
  BY <1>4, RecoveryFacts
<1>6. i \in Invocation /\ desk[i] # None /\ answer \in Answer
  BY <1>1, <1>2, <1>4, <1>5, DeskFacts DEF RecoveryAgrees
<1>7. /\ o \in Recovery /\ o.step = "read" /\ o.invocation = i /\ o.answer = answer
      /\ o.scope = recovery[tab].scope
  BY <1>1, <1>3, <1>5, <1>6 DEF Recovery
<1>8. o.scope \in Store!Scope /\ DeskScope(i) = o.scope
  BY <1>1, <1>4, <1>5, <1>7 DEF RecoveryAgrees
<1>9. RecoveryAgrees(o)'
  BY <1>2, <1>4, <1>6, <1>7, <1>8 DEF RecoveryAgrees, DeskScope
<1>10. RecoveriesKnow'
  BY <1>4, <1>7, <1>9, RecoveriesPut
<1> QED
  BY <1>4, <1>10, StoreSame, RecoveryQuiet

LEMMA SaveReadInv ==
    ASSUME Inv, Grows, NEW tab \in Tab, SaveRead(tab)
    PROVE  Rest'
<1> DEFINE i == recovery[tab].invocation
           answer == recovery[tab].answer
<1>1. /\ recovery[tab] # None /\ recovery[tab].step = "read"
      /\ recovery' = [recovery EXCEPT ![tab] = None]
      /\ UNCHANGED <<posted, desk, calls, receipts>>
  BY DEF SaveRead, InRecovery, SetRecovery
<1>2. PICK scope \in Store!Scope : scope = recovery[tab].scope
  BY <1>1, RecoveryFacts DEF RecoveryAgrees
<1>3. /\ i \in Invocation /\ desk[i] # None /\ DeskScope(i) = scope /\ answer \in Answer
      /\ answer.outcome # None => desk[i].answer.outcome = answer.outcome
  BY <1>1, <1>2, RecoveryFacts DEF RecoveryAgrees
<1>4. RowsAgree' /\ ToldIsSaved' /\ UNCHANGED <<invocations, saving>>
  <2>1. CASE answer.outcome # None
    <3>1. PICK outcome \in Outcome : outcome = answer.outcome
      BY <1>3, <2>1 DEF Answer
    <3>2. SaveOutcome(scope, outcome) /\ told' = told \cup {<<scope, outcome>>}
      BY <1>2, <2>1, <3>1 DEF SaveRead, Tell
    <3> QED
      BY <1>3, <2>1, <3>1, <3>2, OutcomeSaved
  <2>2. CASE /\ answer.tx # None /\ told' = told
             /\ Store!SaveTransactionHash(scope, answer.tx)
    <3>1. answer.tx \in Tx
      BY <1>3, <2>2 DEF Answer
    <3> QED
      BY <2>2, <3>1, HashSaved, ToldStays
  <2>3. CASE UNCHANGED storeVars /\ told' = told
    BY <2>3, StoreSame, RowsSame, ToldStays
  <2> QED
    BY <1>2, <2>1, <2>2, <2>3 DEF SaveRead
<1>5. InvocationsKept /\ SavesShrink
  BY <1>4 DEF InvocationsKept, SavesShrink
<1>6. RecoveriesKnow' /\ SavesAgree' /\ ReceiptsAreGenuine'
  BY <1>1, <1>5, RecoveryEnds, SavesFrame, ReceiptsFrame
<1> QED
  BY <1>1, <1>4, <1>5, <1>6, RecoveryRest

LEMMA RevalidateInv ==
    ASSUME Inv, Grows, NEW tab \in Tab, Revalidate(tab)
    PROVE  Rest'
<1>1. PICK i, scope : i = recovery[tab].invocation /\ scope = recovery[tab].scope
  OBVIOUS
<1>2. /\ recovery[tab] # None /\ recovery[tab].step = "revalidating"
      /\ desk[i].answer.outcome = Store!NotSubmitted
      /\ Store!SaveExternalRecovery(scope, Store!NotSubmitted)
      /\ RecoveryStep(tab, "acknowledging")
      /\ UNCHANGED <<posted, desk, calls, receipts, told>>
  BY <1>1 DEF Revalidate, InRecovery, RecoveryStep, SetRecovery, history
<1>3. scope \in Store!Scope /\ i \in Invocation /\ desk[i] # None /\ DeskScope(i) = scope
  BY <1>1, <1>2, RecoveryFacts DEF RecoveryAgrees
<1>4. RowsAgree' /\ OutcomesKept /\ UNCHANGED <<invocations, saving>>
  BY <1>2, <1>3, ProofSaved
<1>5. Knows("acknowledging", i, scope)'
  BY <1>3, EntryNames DEF Knows
<1>6. RecoveriesKnow'
  BY <1>1, <1>2, <1>5, RecoveryMoves
<1>7. InvocationsKept /\ SavesShrink
  BY <1>4 DEF InvocationsKept, SavesShrink
<1>8. ToldIsSaved' /\ SavesAgree' /\ ReceiptsAreGenuine'
  BY <1>2, <1>4, <1>7, ToldStays, SavesFrame, ReceiptsFrame
<1> QED
  BY <1>2, <1>4, <1>6, <1>7, <1>8, RecoveryRest

LEMMA DeskAcknowledgesInv ==
    ASSUME Inv, Grows, NEW tab \in Tab, DeskAcknowledges(tab)
    PROVE  Rest'
<1>1. PICK i, scope : i = recovery[tab].invocation /\ scope = recovery[tab].scope
  OBVIOUS
<1>2. /\ recovery[tab] # None /\ recovery[tab].step = "acknowledging"
      /\ desk' = [desk EXCEPT ![i].retention = "acknowledged"]
      /\ RecoveryStep(tab, "accepting")
      /\ UNCHANGED <<posted, calls, receipts, told>>
      /\ UNCHANGED storeVars
  BY <1>1 DEF DeskAcknowledges, InRecovery, RecoveryStep, SetRecovery, history
<1>3. scope \in Store!Scope /\ i \in Invocation /\ desk[i] # None /\ DeskScope(i) = scope
  BY <1>1, <1>2, RecoveryFacts DEF RecoveryAgrees
<1>4. desk \in [Invocation -> DeskEntry \cup {None}] /\ desk[i] \in DeskEntry
  BY <1>3, DeskFacts DEF Inv, TypeOK
<1>5. NoNewEntry
  BY <1>2, <1>3, <1>4 DEF NoNewEntry
<1>6. InvocationsKept /\ SavesShrink /\ UNCHANGED <<requests, saving, prepared>>
  BY <1>2, StoreSame DEF storeVars
<1>7. NotInvokedIsTrue'
  BY <1>2, <1>6, NotInvokedFrame
<1>8. DeskAgrees' /\ InvocationsAgree'
  BY <1>2, <1>5, <1>6, DeskFrame, InvocationsFrame
<1>9. CallsKnow' /\ OneCallEach'
  BY <1>2, <1>6, CallsFrame DEF CallsShrink
<1>10. RowsAgree' /\ ToldIsSaved' /\ SavesAgree' /\ ReceiptsAreGenuine'
  BY <1>2, <1>6, RowsSame, ToldStays, SavesFrame, ReceiptsFrame
<1>11. desk'[i].retention # "held"
  BY <1>2, <1>3, <1>4 DEF DeskEntry
<1>12. Knows("accepting", i, scope)'
  BY <1>3, <1>11, EntryNames DEF Knows
<1>13. RecoveriesKnow'
  BY <1>1, <1>2, <1>12, RecoveryMoves
<1> QED
  BY <1>7, <1>8, <1>9, <1>10, <1>13 DEF Rest

LEMMA AcceptInv ==
    ASSUME Inv, Grows, NEW tab \in Tab, Accept(tab)
    PROVE  Rest'
<1>1. PICK i, scope : i = recovery[tab].invocation /\ scope = recovery[tab].scope
  OBVIOUS
<1>2. /\ recovery[tab] # None /\ recovery[tab].step = "accepting"
      /\ Row(scope) # None
      /\ IF Row(scope).state = "acknowledged" THEN UNCHANGED storeVars
                                              ELSE Store!Transition(scope, "acknowledged")
      /\ accepted' = accepted \cup {<<scope, "acknowledged">>}
      /\ RecoveryStep(tab, "clearing")
      /\ UNCHANGED <<posted, desk, calls, receipts, told>>
  BY <1>1 DEF Accept, InRecovery, RecoveryStep, SetRecovery
<1>3. /\ scope \in Store!Scope /\ i \in Invocation /\ desk[i] # None /\ DeskScope(i) = scope
      /\ scope[1] \in V1Session => desk[i].retention # "held"
  BY <1>1, <1>2, RecoveryFacts DEF RecoveryAgrees
<1>4. Row(scope).receipt.invocation = i
  BY <1>2, <1>3, RowOfEntry
<1>5. Accepted(scope)'
  BY <1>2 DEF Accepted
<1>6. RowsAgree' /\ OutcomesKept /\ UNCHANGED <<invocations, saving>>
  <2>1. CASE UNCHANGED storeVars
    BY <2>1, StoreSame, RowsSame
  <2>2. CASE Store!Transition(scope, "acknowledged")
    <3>1. scope[1] \in V1Session => desk'[i].retention # "held"
      BY <1>2, <1>3
    <3> QED
      BY <1>3, <1>4, <1>5, <2>2, <3>1, Transitioned
  <2> QED
    BY <1>2, <2>1, <2>2
<1>7. InvocationsKept /\ SavesShrink
  BY <1>6 DEF InvocationsKept, SavesShrink
<1>8. ToldIsSaved' /\ SavesAgree' /\ ReceiptsAreGenuine'
  BY <1>2, <1>6, <1>7, ToldStays, SavesFrame, ReceiptsFrame
<1>9. Knows("clearing", i, scope)'
  BY <1>3, <1>5 DEF Knows, Accepted
<1>10. RecoveriesKnow'
  BY <1>1, <1>2, <1>9, RecoveryMoves
<1> QED
  BY <1>2, <1>6, <1>7, <1>8, <1>10, RecoveryRest

LEMMA ArchiveInv ==
    ASSUME Inv, Grows, NEW tab \in Tab, NEW scope \in Store!Scope, Archive(tab, scope)
    PROVE  Rest'
<1>1. /\ Row(scope) # None /\ Store!Transition(scope, "archived")
      /\ accepted' = accepted \cup {<<scope, "archived">>}
      /\ Start(tab, "marking", None, scope)
      /\ UNCHANGED <<posted, desk, calls, receipts, told>>
  BY DEF Archive, Exact, Start, SetRecovery
<1>2. PICK i \in Invocation : i = Row(scope).receipt.invocation
  BY <1>1, RowEntry
<1>3. Accepted(scope)'
  BY <1>1 DEF Accepted
<1>4. RowsAgree' /\ OutcomesKept /\ UNCHANGED <<invocations, saving>>
  BY <1>1, <1>2, <1>3, Transitioned
<1>5. InvocationsKept /\ SavesShrink
  BY <1>4 DEF InvocationsKept, SavesShrink
<1>6. ToldIsSaved' /\ SavesAgree' /\ ReceiptsAreGenuine'
  BY <1>1, <1>4, <1>5, ToldStays, SavesFrame, ReceiptsFrame
<1>7. Knows("marking", None, scope)'
  BY <1>3 DEF Knows, Accepted
<1>8. RecoveriesKnow'
  BY <1>1, <1>7, RecoveryStarts
<1> QED
  BY <1>1, <1>4, <1>5, <1>6, <1>8, RecoveryRest

LEMMA ClearInv ==
    ASSUME Inv, Grows, NEW tab \in Tab, Clear(tab)
    PROVE  Rest'
<1>1. receipts \in [Tab -> SUBSET DeskReceipt]
  BY DEF Inv, TypeOK
<1>2. /\ recovery' = [recovery EXCEPT ![tab] = None]
      /\ UNCHANGED <<posted, desk, calls, told>>
      /\ UNCHANGED storeVars
  BY DEF Clear, SetRecovery, history
<1>3. \A t \in Tab : receipts'[t] \subseteq receipts[t]
  BY <1>1 DEF Clear
<1>4. InvocationsKept /\ SavesShrink /\ UNCHANGED <<requests, saving>>
  BY <1>2, StoreSame
<1>5. /\ RowsAgree' /\ ToldIsSaved' /\ SavesAgree'
      /\ ReceiptsAreGenuine' /\ RecoveriesKnow'
  BY <1>2, <1>3, <1>4, RowsSame, ToldStays, SavesFrame, ReceiptsFrame, RecoveryEnds
<1> QED
  BY <1>2, <1>4, <1>5, RecoveryRest

LEMMA MarkInv ==
    ASSUME Inv, Grows, NEW tab \in Tab, Mark(tab)
    PROVE  Rest'
<1>1. receipts \in [Tab -> SUBSET DeskReceipt]
  BY DEF Inv, TypeOK
<1>2. /\ recovery' = [recovery EXCEPT ![tab] = None]
      /\ UNCHANGED <<posted, desk, calls, told, accepted>>
      /\ UNCHANGED storeVars
  BY DEF Mark, SetRecovery, history
<1>3. PICK scope : scope = recovery[tab].scope
  OBVIOUS
<1>4. Accepted(scope)
  BY <1>3, RecoveryFacts DEF Mark, InRecovery, RecoveryAgrees
<1>5. ASSUME NEW t \in Tab, NEW r \in receipts'[t] PROVE Genuine(r)'
  <2>1. PICK old \in receipts[t] :
          \/ r = old
          \/ r = [old EXCEPT !.archived = TRUE] /\ Store!ScopeOf(old) = scope
    BY <1>1, <1>3, <1>5 DEF Mark
  <2>2. old \in DeskReceipt /\ Genuine(old)
    BY <1>1, <2>1 DEF Inv, ReceiptsAreGenuine
  <2>3. r.session = old.session /\ r.requestId = old.requestId /\ r.invocation = old.invocation
    BY <2>1, <2>2 DEF DeskReceipt
  <2>4. r.archived => Accepted(Store!ScopeOf(r))
    BY <1>4, <2>1, <2>2, <2>3 DEF Genuine, Store!ScopeOf
  <2>5. Genuine(r)
    BY <2>2, <2>3, <2>4 DEF Genuine
  <2> QED
    BY <2>5, GenuineKept
<1>6. ReceiptsAreGenuine'
  BY <1>5 DEF ReceiptsAreGenuine
<1>7. InvocationsKept /\ SavesShrink /\ UNCHANGED <<requests, saving>>
  BY <1>2, StoreSame
<1>8. RowsAgree' /\ ToldIsSaved' /\ SavesAgree' /\ RecoveriesKnow'
  BY <1>2, <1>7, RowsSame, ToldStays, SavesFrame, RecoveryEnds
<1> QED
  BY <1>2, <1>6, <1>7, <1>8, RecoveryRest

LEMMA RecoveryInv ==
    ASSUME Inv, Grows, NEW tab \in Tab, RecoveryNext(tab)
    PROVE  Rest'
<1> QED
  BY MigrateInv, OpensInv, StartLookupInv, LookupInv, LinkLookupInv, ReplayInv, StartReadInv,
     StartAcknowledgeInv, ArchiveInv, ReadAnsweredInv, SaveReadInv, RevalidateInv,
     DeskAcknowledgesInv, AcceptInv, ClearInv, MarkInv DEF RecoveryNext

\* What is expired was accepted, and so was the invocation deleted with it.
LEMMA PruneInv ==
    ASSUME Inv, Grows, Store!Prune,
           UNCHANGED <<recovery, calls, receipts, desk, posted, told, accepted>>
    PROVE  Rest'
<1>1. /\ requests' = [scope \in Store!Scope |->
           IF scope \in Store!ExpiredScopes THEN None ELSE requests[scope]]
      /\ invocations' = [i \in Invocation |->
           IF \E scope \in Store!ExpiredScopes : Store!Completes(requests[scope], i)
           THEN None ELSE invocations[i]]
      /\ UNCHANGED <<prepared, saving>>
  BY DEF Store!Prune
<1>2. ASSUME NEW scope \in Store!ExpiredScopes
      PROVE  /\ scope \in Store!Scope /\ requests[scope] # None
             /\ requests[scope].state # "active" /\ Accepted(scope)
  <2>1. /\ scope \in Store!Scope /\ requests[scope] # None
        /\ requests[scope].state # "active"
    BY DEF Store!ExpiredScopes, Store!Expired
  <2>2. RowAgrees(scope, requests[scope])
    BY <2>1 DEF Inv, RowsAgree, Row
  <2> QED
    BY <2>1, <2>2 DEF RowAgrees
<1>3. RowsShrink
  BY <1>1 DEF RowsShrink
<1>4. OutcomesKept
  BY <1>1, <1>2 DEF OutcomesKept, OutcomeKept, RowOutlives
<1>5. ASSUME NEW i \in Invocation
      PROVE  /\ invocations'[i] \in {None, invocations[i]}
             /\ desk[i] # None /\ ~Accepted(DeskScope(i)) => invocations'[i] = invocations[i]
  <2>1. ASSUME NEW scope \in Store!ExpiredScopes, Store!Completes(requests[scope], i),
               desk[i] # None
        PROVE  Accepted(DeskScope(i))
    <3>1. RowAgrees(scope, requests[scope]) /\ requests[scope].receipt.invocation = i
      BY <1>2, <2>1 DEF Inv, RowsAgree, Row, Store!Completes
    <3>2. DeskScope(i) = scope
      BY <3>1 DEF RowAgrees, Genuine, DeskScope, Store!ScopeOf
    <3> QED
      BY <1>2, <3>2
  <2> QED
    BY <1>1, <2>1
<1>6. NotInvokedIsTrue'
  BY <1>5 DEF Inv, NotInvokedIsTrue
<1>7. InvocationsAgree'
  BY <1>5 DEF Inv, InvocationsAgree, Accepted, DeskScope
<1>8. DeskAgrees'
  BY <1>1, DeskFrame DEF NoNewEntry
<1>9. CallsKnow' /\ OneCallEach'
  <2>1. ASSUME NEW tab \in Tab, calls[tab] # None PROVE CallAgrees(calls[tab])'
    <3>1. CallAgrees(calls[tab]) /\ calls[tab].invocation \in Invocation
      BY <2>1, CallFacts
    <3> QED
      BY <1>1, <1>5, <3>1 DEF CallAgrees
  <2> QED
    BY <2>1 DEF Inv, CallsKnow, OneCallEach
<1>10. RowsAgree' /\ ToldIsSaved' /\ SavesAgree' /\ ReceiptsAreGenuine' /\ RecoveriesKnow'
  BY <1>1, <1>3, <1>4, RowsFrame, ToldStays, SavesFrame, ReceiptsFrame, RecoveriesFrame
     DEF SavesShrink
<1> QED
  BY <1>6, <1>7, <1>8, <1>9, <1>10 DEF Rest

\* A step that changes the session, or the clock, alone.
LEMMA OutsideInv ==
    ASSUME Inv, Grows, UNCHANGED <<requests, invocations, prepared, saving>>,
           UNCHANGED <<tabVars, desk, posted, history>>
    PROVE  Rest'
<1>1. InvocationsKept /\ SavesShrink
  BY DEF InvocationsKept, SavesShrink
<1>2. UNCHANGED <<receipts, calls, recovery, told, accepted>>
  BY DEF tabVars, history
<1>3. NotInvokedIsTrue' /\ DeskAgrees' /\ InvocationsAgree'
  BY <1>1, SentSame
<1>4. CallsKnow' /\ OneCallEach'
  BY <1>1, <1>2, CallsFrame DEF CallsShrink
<1>5. RowsAgree' /\ ToldIsSaved' /\ SavesAgree' /\ ReceiptsAreGenuine' /\ RecoveriesKnow'
  BY <1>1, <1>2, RowsSame, ToldStays, SavesFrame, ReceiptsFrame, RecoveriesFrame
<1> QED
  BY <1>3, <1>4, <1>5 DEF Rest

LEMMA LeaveTabInv ==
    ASSUME Inv, Grows, NEW tab \in Tab, LeaveTab(tab)
    PROVE  Rest'
<1>1. {<<tab, "call">>, <<tab, "recovery">>} \in SUBSET (Tab \X {"call", "recovery"})
  OBVIOUS
<1>2. SavesShrink /\ UNCHANGED <<requests, invocations>>
  BY <1>1, Abandoned DEF LeaveTab, CallTask, RecoveryTask
<1>3. /\ calls' = [calls EXCEPT ![tab] = None]
      /\ recovery' = [recovery EXCEPT ![tab] = None]
      /\ UNCHANGED <<posted, desk, told>>
  BY DEF LeaveTab, history
<1>4. \A t \in Tab : receipts'[t] \subseteq receipts[t]
  BY DEF LeaveTab, Inv, TypeOK
<1>5. InvocationsKept
  BY <1>2 DEF InvocationsKept
<1>6. NotInvokedIsTrue' /\ DeskAgrees' /\ InvocationsAgree'
  BY <1>3, <1>5, SentSame
<1>7. CallsKnow' /\ OneCallEach'
  BY <1>3, <1>5, CallEnds
<1>8. RowsAgree' /\ ToldIsSaved' /\ SavesAgree' /\ ReceiptsAreGenuine' /\ RecoveriesKnow'
  BY <1>2, <1>3, <1>4, RowsSame, ToldStays, SavesFrame, ReceiptsFrame, RecoveryEnds
<1> QED
  BY <1>6, <1>7, <1>8 DEF Rest

\* Desk admits, identifies, decides and forgets.
LEMMA DeskInv == ASSUME Inv, Grows, DeskNext PROVE Rest'
<1>1. PICK i \in Invocation : \/ Admit(i) \/ Forget(i)
                              \/ \E tx \in Tx : Identify(i, tx)
                              \/ \E outcome \in Outcome : Decide(i, outcome)
  BY DEF DeskNext
<1>2. UNCHANGED <<storeVars, receipts, calls, recovery, posted, told, accepted>>
  BY <1>1 DEF Admit, Forget, Identify, Decide, tabVars, history
<1>3. InvocationsKept /\ SavesShrink /\ UNCHANGED <<requests, invocations, saving, prepared>>
  BY <1>2, StoreSame DEF storeVars
<1>4. NotInvokedIsTrue' /\ CallsKnow' /\ OneCallEach'
  BY <1>2, <1>3, NotInvokedFrame, CallsFrame DEF CallsShrink
<1>5. RowsAgree' /\ ToldIsSaved' /\ SavesAgree' /\ ReceiptsAreGenuine' /\ RecoveriesKnow'
  BY <1>2, <1>3, RowsSame, ToldStays, SavesFrame, ReceiptsFrame, RecoveriesFrame
<1>6. DeskAgrees' /\ InvocationsAgree'
  <2>0. desk \in [Invocation -> DeskEntry \cup {None}]
    BY DEF Inv, TypeOK
  <2>1. CASE Admit(i)
    <3>1. PICK entry : /\ desk' = [desk EXCEPT ![i] = entry]
                       /\ \A j \in Invocation :
                            desk[j] # None => desk[j].requestId # entry.requestId
      <4>1. PICK requestId \in RequestId :
              /\ \A j \in Invocation : desk[j] # None => desk[j].requestId # requestId
              /\ desk' = [desk EXCEPT ![i] =
                   [ session |-> invocations[i].session, requestId |-> requestId,
                     subject |-> invocations[i].subject, answer |-> Nothing,
                     indexed |-> invocations[i].session \in V1Session,
                     retention |-> "held" ]]
        BY <2>1 DEF Admit
      <4>2. PICK entry :
              entry = [ session |-> invocations[i].session, requestId |-> requestId,
                        subject |-> invocations[i].subject, answer |-> Nothing,
                        indexed |-> invocations[i].session \in V1Session,
                        retention |-> "held" ]
        OBVIOUS
      <4>3. entry.requestId = requestId
        BY <4>2
      <4>4. desk' = [desk EXCEPT ![i] = entry]
        BY <4>1, <4>2
      <4> QED
        BY <4>1, <4>3, <4>4
    <3>2. i \in posted /\ invocations[i] # None
      BY <2>1 DEF Admit
    <3>3. desk'[i] = entry /\ \A j \in Invocation : j # i => desk'[j] = desk[j]
      BY <2>0, <3>1
    <3>4. DeskAgrees'
      BY <1>2, <1>3, <3>1, <3>2, <3>3 DEF Inv, DeskAgrees
    <3>5. ASSUME NEW j \in Invocation, desk'[j] # None, ~Accepted(DeskScope(j))'
          PROVE  invocations[j] # None
      <4>1. CASE j = i
        BY <3>2, <4>1
      <4>2. CASE j # i
        BY <1>2, <3>3, <3>5, <4>2 DEF Inv, InvocationsAgree, Accepted, DeskScope
      <4> QED
        BY <4>1, <4>2
    <3>6. InvocationsAgree'
      BY <1>3, <3>5 DEF Inv, InvocationsAgree
    <3> QED
      BY <3>4, <3>6
  <2>2. CASE ~Admit(i)
    <3>1. NoNewEntry
      BY <1>1, <2>0, <2>2 DEF NoNewEntry, Forget, Identify, Decide
    <3> QED
      BY <1>2, <1>3, <3>1, DeskFrame, InvocationsFrame
  <2> QED
    BY <2>1, <2>2
<1> QED
  BY <1>4, <1>5, <1>6 DEF Rest

LEMMA RestInv == ASSUME Inv, [Next]_vars PROVE Rest'
<1>1. Grows /\ TypeOK'
  BY StepGrows, TypeInv
<1>2. ASSUME NEW s \in Session, Connect(s) PROVE Rest'
  BY <1>1, <1>2, OutsideInv DEF Connect, storeVars
<1>3. CASE Disconnect
  BY <1>1, <1>3, OutsideInv DEF Disconnect, storeVars
<1>4. CASE Maintain
  <2>1. CASE Store!Prune
    BY <1>1, <1>4, <2>1, PruneInv DEF Maintain, tabVars, history
  <2>2. CASE Store!Tick
    BY <1>1, <1>4, <2>2, OutsideInv DEF Maintain, Store!Tick
  <2> QED
    BY <1>4, <2>1, <2>2 DEF Maintain
<1>5. CASE UNCHANGED vars
  BY <1>1, <1>5, OutsideInv DEF vars, storeVars
<1> QED
  BY <1>1, <1>2, <1>3, <1>4, <1>5, CallInv, RecoveryInv, LeaveTabInv, DeskInv DEF Next

------------------------------------------------------------------------------
(* The theorems.                                                           *)

LEMMA InitInv == Init => Inv
<1> SUFFICES ASSUME Init PROVE Inv
  OBVIOUS
<1>1. TypeOK
  BY DEF Init, TypeOK
<1>2. StoreProofs!Inv
  BY StoreStarts DEF Init
<1>3. /\ requests = [scope \in Store!Scope |-> None]
      /\ invocations = [i \in Invocation |-> None]
      /\ prepared = {}
      /\ saving = [task \in Tab \X {"call", "recovery"} |-> None]
  BY DEF Init, Store!Init
<1>4. NotInvokedIsTrue /\ DeskAgrees /\ InvocationsAgree
  BY <1>3 DEF Init, NotInvokedIsTrue, DeskAgrees, InvocationsAgree
<1>5. CallsKnow /\ OneCallEach /\ ReceiptsAreGenuine /\ RecoveriesKnow /\ ToldIsSaved
  BY DEF Init, CallsKnow, OneCallEach, ReceiptsAreGenuine, RecoveriesKnow, ToldIsSaved
<1>6. SavesAgree /\ RowsAgree
  BY <1>3 DEF SavesAgree, RowsAgree, Row
<1> QED
  BY <1>1, <1>2, <1>4, <1>5, <1>6 DEF Inv

LEMMA NextInv == Inv /\ [Next]_vars => Inv'
<1> SUFFICES ASSUME Inv, [Next]_vars PROVE Inv'
  OBVIOUS
<1>1. StoreProofs!Inv'
  BY StepUsesStore, StoreContinues DEF Inv
<1> QED
  BY <1>1, TypeInv, RestInv DEF Rest, Inv

\* The invariant holds in every reachable state, for any number of tabs,
\* sessions, requests and invocations.
THEOREM InvariantHolds == Spec => []Inv
<1> QED
  BY InitInv, NextInv, PTL DEF Spec

\* Every variable keeps its type.
THEOREM TypeCorrect == Spec => []TypeOK
<1>1. Inv => TypeOK
  BY DEF Inv
<1> QED
  BY <1>1, InvariantHolds, PTL

\* No tab records "not-invoked", the only proof that nothing was dispatched,
\* of a request that was sent, however its call and the lookups of the other
\* tabs interleave.
THEOREM NeverInvoked == Spec => []NotInvokedIsTrue
<1>1. Inv => NotInvokedIsTrue
  BY DEF Inv
<1> QED
  BY <1>1, InvariantHolds, PTL

\* What the dapp was told is what Desk decided, and stays readable in the
\* record until the dapp accepts it.
THEOREM Told == Spec => []ToldIsSaved
<1>1. Inv => ToldIsSaved
  BY DEF Inv
<1> QED
  BY <1>1, InvariantHolds, PTL

\* A request of a v1 session is hidden as acknowledged only once Desk has
\* acknowledged it: no failure between the two leaves Desk in debt.
THEOREM DeskFirst == Spec => []DeskAcknowledgedFirst
<1>1. Inv => DeskAcknowledgedFirst
  <2> SUFFICES ASSUME Inv, NEW scope \in Store!Scope, Row(scope) # None,
                      Row(scope).state = "acknowledged", scope[1] \in V1Session
               PROVE  /\ desk[Row(scope).receipt.invocation] # None
                      /\ desk[Row(scope).receipt.invocation].retention # "held"
    BY DEF DeskAcknowledgedFirst
  <2> QED
    BY DEF Inv, RowsAgree, RowAgrees, Genuine
<1> QED
  BY <1>1, InvariantHolds, PTL

\* The invocation of an admitted request that was not accepted is kept, and
\* nothing on the way to its record makes it "not-invoked": a lookup can find
\* the request again.
THEOREM Recoverable == Spec => []AdmissionIsRecoverable
<1>1. Inv => AdmissionIsRecoverable
  BY DEF Inv, AdmissionIsRecoverable, InvocationsAgree, NotInvokedIsTrue, DeskAgrees
<1> QED
  BY <1>1, InvariantHolds, PTL

\* What a row says of its transaction is consistent, and no row waives an
\* acknowledgement that its invocation owed, whatever the calls, reads and
\* replays of all tabs save: what DurableRecovery promises holds here too.
THEOREM RecordsAgree == Spec => [](Store!OutcomeAgrees /\ Store!DebtKept)
<1>1. ASSUME Inv PROVE Store!OutcomeAgrees
  BY <1>1, StoreFacts DEF Inv, Store!OutcomeAgrees, Row
<1>2. ASSUME Inv PROVE Store!DebtKept
  <2>1. StoreProofs!DebtKept
    BY <1>2 DEF Inv, StoreProofs!Inv, StoreProofs!DebtKept, StoreProofs!WaiverOf
  <2> QED
    BY <2>1, SameData DEF StoreProofs!DebtKept, Store!DebtKept
<1>3. Inv => Store!OutcomeAgrees /\ Store!DebtKept
  BY <1>1, <1>2
<1> QED
  BY <1>3, InvariantHolds, PTL

\* Open work is never deleted: whatever a tab prunes between two steps of the
\* calls and reads of the others had been delivered.
THEOREM OpenWorkKept == Spec => Store!UnknownWorkSurvives
<1> DEFINE A == /\ \A scope \in Store!Scope :
                     requests[scope] # None /\ requests'[scope] = None =>
                       requests[scope].state # "active"
                /\ \A i \in Invocation :
                     invocations[i] # None /\ invocations'[i] = None =>
                       \E scope \in Store!Scope : /\ requests[scope] # None
                                                  /\ requests[scope].receipt.invocation = i
                                                  /\ requests'[scope] = None
<1>1. ASSUME Inv, [Next]_vars
      PROVE  StoreProofs!DeletesDelivered
  <2>1. [StoreProofs!Next]_(StoreProofs!vars)
    BY <1>1, StepUsesStore, SameSteps
  <2> QED
    BY <1>1, <2>1, SameAssumptions, StoreProofs!StepDeletesDelivered
       DEF Inv, StoreProofs!StepDeletesDelivered, StoreProofs!EvidenceAssumption,
           StoreProofs!RecoveryAssumption, StoreProofs!EntryAssumption
<1>2. Inv /\ [Next]_vars => [A]_(Store!vars)
  BY <1>1, SameData DEF StoreProofs!DeletesDelivered
<1> QED
  BY <1>2, InvariantHolds, PTL DEF Spec, Store!UnknownWorkSurvives
==============================================================================
