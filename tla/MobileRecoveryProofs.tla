------------------------- MODULE MobileRecoveryProofs -------------------------
(***************************************************************************)
(* The requests to Infer Wallet, proved for any number of tabs, sessions,  *)
(* invocations and requests.                                               *)
(*                                                                         *)
(* As for the desktop bridge, the invariant of the durable store is one    *)
(* conjunct of the invariant and needs no second proof.  The argument for  *)
(* the rest is that almost everything only grows (Grows): what was sent,   *)
(* what the relay created, what the wallet decided, the rows with their    *)
(* outcomes, and the link of an invocation to its request.  Whatever a     *)
(* receipt, a save, a call, a grant or a recovery operation knows of such  *)
(* facts is therefore still true when the answer it waits for comes, in    *)
(* whatever order; each action is proved for what it adds.                 *)
(***************************************************************************)
EXTENDS MobileRecovery, TLAPS

StoreProofs ==
    INSTANCE DurableRecoveryProofs WITH
        DesktopSession <- {},
        Receipts <- MobileReceipt,
        Task <- Tab \X {"call", "recovery"}

------------------------------------------------------------------------------
(* The store of the proofs is the store of the model.                      *)

LEMMA SameData ==
    /\ StoreProofs!Scope = Store!Scope
    /\ StoreProofs!Receipt = Store!Receipt
    /\ StoreProofs!Evidence = Store!Evidence
    /\ StoreProofs!HashText = Store!HashText
    /\ StoreProofs!Debt = Store!Debt
    /\ StoreProofs!PreparedInvocation = Store!PreparedInvocation
<1> QED
  BY DEF StoreProofs!Scope, Store!Scope, StoreProofs!Receipt, Store!Receipt,
         StoreProofs!Evidence, Store!Evidence, StoreProofs!HashText, Store!HashText,
         StoreProofs!Debt, Store!Debt,
         StoreProofs!PreparedInvocation, Store!PreparedInvocation

LEMMA SameFinals ==
    /\ \A subject : StoreProofs!FinalsOf(subject) = Store!FinalsOf(subject)
    /\ StoreProofs!Final = Store!Final
<1>1. ASSUME NEW subject
      PROVE  StoreProofs!FinalsOf(subject) = Store!FinalsOf(subject)
  BY SameData
     DEF StoreProofs!FinalsOf, Store!FinalsOf, StoreProofs!Rejected, Store!Rejected,
         StoreProofs!Submitted, Store!Submitted, StoreProofs!Signed, Store!Signed
<1> QED
  BY <1>1 DEF StoreProofs!Final, Store!Final

LEMMA SameEvidence ==
    StoreProofs!AcceptedEvidence = Store!AcceptedEvidence
<1> QED
  BY SameData
     DEF StoreProofs!AcceptedEvidence, Store!AcceptedEvidence,
         StoreProofs!ValidEvidence, Store!ValidEvidence,
         StoreProofs!NotSubmitted, Store!NotSubmitted,
         StoreProofs!Identified, Store!Identified, StoreProofs!Accepted, Store!Accepted,
         StoreProofs!Committed, Store!Committed

LEMMA SameRows == StoreProofs!Request = Store!Request
<1> QED
  BY SameData, SameFinals, SameEvidence DEF StoreProofs!Request, Store!Request

LEMMA SameRowTests ==
    ASSUME NEW row
    PROVE  /\ StoreProofs!Failed(row) = Store!Failed(row)
           /\ StoreProofs!Settled(row) = Store!Settled(row)
           /\ StoreProofs!VerifiedNotSubmitted(row) = Store!VerifiedNotSubmitted(row)
           /\ StoreProofs!Expired(row) = Store!Expired(row)
           /\ \A final : StoreProofs!CanSaveFinal(row, final) = Store!CanSaveFinal(row, final)
           /\ \A tx : StoreProofs!CanSaveHash(row, tx) = Store!CanSaveHash(row, tx)
           /\ \A state : StoreProofs!CanTransition(row, state) = Store!CanTransition(row, state)
<1> QED
  BY DEF StoreProofs!Failed, Store!Failed, StoreProofs!IsNotSubmitted, Store!IsNotSubmitted,
         StoreProofs!Settled, Store!Settled, StoreProofs!Expired, Store!Expired,
         StoreProofs!VerifiedNotSubmitted, Store!VerifiedNotSubmitted,
         StoreProofs!CanSaveFinal, Store!CanSaveFinal,
         StoreProofs!CanSaveHash, Store!CanSaveHash,
         StoreProofs!SubmissionOf, Store!SubmissionOf,
         StoreProofs!CanTransition, Store!CanTransition

LEMMA SameMerge ==
    ASSUME NEW row, NEW next
    PROVE  /\ StoreProofs!CanSaveRecovery(row, next) = Store!CanSaveRecovery(row, next)
           /\ StoreProofs!WithRecovery(row, next) = Store!WithRecovery(row, next)
           /\ StoreProofs!Merge(row.evidence, next) = Store!Merge(row.evidence, next)
           /\ StoreProofs!Mergeable(row.evidence, next) = Store!Mergeable(row.evidence, next)
<1> USE DEF StoreProofs!IsNotSubmitted, Store!IsNotSubmitted,
            StoreProofs!Identified, Store!Identified, StoreProofs!Accepted, Store!Accepted,
            StoreProofs!Committed, Store!Committed
<1>1. StoreProofs!Merge(row.evidence, next) = Store!Merge(row.evidence, next)
  BY DEF StoreProofs!Merge, Store!Merge,
         StoreProofs!StalePending, Store!StalePending,
         StoreProofs!KeepEstablished, Store!KeepEstablished
<1>2. StoreProofs!Mergeable(row.evidence, next) = Store!Mergeable(row.evidence, next)
  BY DEF StoreProofs!Mergeable, Store!Mergeable,
         StoreProofs!SameReceipt, Store!SameReceipt
<1>3. \A h : StoreProofs!Submitted(h) = Store!Submitted(h)
  BY DEF StoreProofs!Submitted, Store!Submitted
<1>4. StoreProofs!CanSaveRecovery(row, next) = Store!CanSaveRecovery(row, next)
  BY <1>1, <1>2, <1>3 DEF StoreProofs!CanSaveRecovery, Store!CanSaveRecovery
<1>5. StoreProofs!WithRecovery(row, next) = Store!WithRecovery(row, next)
  BY <1>1, <1>3 DEF StoreProofs!WithRecovery, Store!WithRecovery
<1> QED
  BY <1>1, <1>2, <1>4, <1>5

LEMMA SameRequestSteps == Store!RequestNext => StoreProofs!RequestNext
<1> SUFFICES ASSUME Store!RequestNext PROVE StoreProofs!RequestNext
  OBVIOUS
<1>1. ASSUME NEW task \in Tab \X {"call", "recovery"}, NEW receipt \in MobileReceipt,
             Store!SaveRequestRead(task, receipt)
      PROVE  StoreProofs!SaveRequestRead(task, receipt)
  BY <1>1 DEF StoreProofs!SaveRequestRead, Store!SaveRequestRead,
              StoreProofs!DebtOf, Store!DebtOf, StoreProofs!BoundTo, Store!BoundTo
<1>2. ASSUME NEW task \in Tab \X {"call", "recovery"}, Store!SaveRequestWrite(task)
      PROVE  StoreProofs!SaveRequestWrite(task)
  BY <1>2 DEF StoreProofs!SaveRequestWrite, Store!SaveRequestWrite,
              StoreProofs!NewRow, Store!NewRow, StoreProofs!ScopeOf, Store!ScopeOf
<1>3. ASSUME NEW tasks, Store!Abandon(tasks)
      PROVE  StoreProofs!Abandon(tasks)
  BY <1>3 DEF StoreProofs!Abandon, Store!Abandon
<1>4. ASSUME NEW scope, NEW row, Store!Put(scope, row)
      PROVE  StoreProofs!Put(scope, row)
  BY <1>4 DEF StoreProofs!Put, Store!Put
<1>5. ASSUME NEW scope, NEW final, Store!SaveFinal(scope, final)
      PROVE  StoreProofs!SaveFinal(scope, final)
  BY <1>4, <1>5, SameFinals, SameRowTests DEF StoreProofs!SaveFinal, Store!SaveFinal
<1>6. ASSUME NEW scope, NEW next, Store!SaveExternalRecovery(scope, next)
      PROVE  StoreProofs!SaveExternalRecovery(scope, next)
  BY <1>4, <1>6, SameMerge DEF StoreProofs!SaveExternalRecovery, Store!SaveExternalRecovery
<1>7. ASSUME NEW scope, NEW tx, Store!SaveTransactionHash(scope, tx)
      PROVE  StoreProofs!SaveTransactionHash(scope, tx)
  BY <1>4, <1>7, SameRowTests
     DEF StoreProofs!SaveTransactionHash, Store!SaveTransactionHash
<1>8. ASSUME NEW scope, NEW state, Store!Transition(scope, state)
      PROVE  StoreProofs!Transition(scope, state)
  BY <1>4, <1>8, SameRowTests DEF StoreProofs!Transition, Store!Transition
<1> QED
  BY <1>1, <1>2, <1>3, <1>5, <1>6, <1>7, <1>8, SameData, SameFinals, SameEvidence
     DEF Store!RequestNext, StoreProofs!RequestNext

LEMMA SameInvocationSteps == Store!InvocationNext => StoreProofs!InvocationNext
<1> SUFFICES ASSUME Store!InvocationNext PROVE StoreProofs!InvocationNext
  OBVIOUS
<1>1. ASSUME NEW i, NEW s, NEW subject, Store!PrepareInvocation(i, s, subject)
      PROVE  StoreProofs!PrepareInvocation(i, s, subject)
  BY <1>1, SameData DEF StoreProofs!PrepareInvocation, Store!PrepareInvocation
<1>2. ASSUME NEW i, Store!SaveMobileEnvelope(i)
      PROVE  StoreProofs!SaveMobileEnvelope(i)
  BY <1>2 DEF StoreProofs!SaveMobileEnvelope, Store!SaveMobileEnvelope
<1>3. ASSUME NEW i, NEW state, NEW requestId, Store!UpdateInvocation(i, state, requestId)
      PROVE  StoreProofs!UpdateInvocation(i, state, requestId)
  BY <1>3 DEF StoreProofs!UpdateInvocation, Store!UpdateInvocation
<1> QED
  BY <1>1, <1>2, <1>3 DEF Store!InvocationNext, StoreProofs!InvocationNext

LEMMA SameSteps == [Store!Next]_storeVars => [StoreProofs!Next]_(StoreProofs!vars)
<1>1. Store!Prune => StoreProofs!Prune
  BY SameData, SameRowTests
     DEF StoreProofs!Prune, Store!Prune, StoreProofs!ExpiredScopes, Store!ExpiredScopes,
         StoreProofs!Completes, Store!Completes, StoreProofs!BoundTo, Store!BoundTo
<1>2. Store!Tick => StoreProofs!Tick
  BY DEF StoreProofs!Tick, Store!Tick
<1> QED
  BY <1>1, <1>2, SameRequestSteps, SameInvocationSteps
     DEF Store!Next, StoreProofs!Next, storeVars, StoreProofs!vars

LEMMA SameAssumptions ==
    /\ StoreProofs!EvidenceAssumption
    /\ StoreProofs!RecoveryAssumption
    /\ StoreProofs!EntryAssumption
<1>1. StoreProofs!EvidenceAssumption
  BY StoreAssumption, SameData DEF StoreProofs!EvidenceAssumption, Store!EvidenceAssumption
<1>2. StoreProofs!RecoveryAssumption
  BY StoreAssumption, SameData, SameRows, SameFinals
     DEF StoreProofs!RecoveryAssumption, Store!RecoveryAssumption
<1>3. StoreProofs!EntryAssumption
  BY StoreAssumption, SameData, SameFinals
     DEF StoreProofs!EntryAssumption, Store!EntryAssumption,
         StoreProofs!Ledger!Entry, Store!Ledger!Entry
<1> QED
  BY <1>1, <1>2, <1>3

\* The invariant of the store, proved of it for every step.
LEMMA StoreStarts == Store!Init => StoreProofs!Inv
<1>1. Store!Init => StoreProofs!Init
  BY SameData DEF Store!Init, StoreProofs!Init
<1> QED
  BY <1>1, SameAssumptions, StoreProofs!InitInv
     DEF StoreProofs!InitInv, StoreProofs!EvidenceAssumption,
         StoreProofs!RecoveryAssumption, StoreProofs!EntryAssumption

LEMMA StoreContinues == StoreProofs!Inv /\ [Store!Next]_storeVars => StoreProofs!Inv'
<1> QED
  BY SameSteps, SameAssumptions, StoreProofs!NextInv
     DEF StoreProofs!NextInv, StoreProofs!EvidenceAssumption,
         StoreProofs!RecoveryAssumption, StoreProofs!EntryAssumption

LEMMA StoreFacts ==
    ASSUME StoreProofs!Inv
    PROVE  /\ Store!TypeOK
           /\ \A i \in Invocation : invocations[i] # None => i \in prepared
           /\ \A scope \in Store!Scope : Row(scope) # None => Store!RowAgrees(Row(scope))
<1>1. Store!TypeOK
  BY SameData, SameRows
     DEF StoreProofs!Inv, StoreProofs!TypeOK, Store!TypeOK
<1>2. \A i \in Invocation : invocations[i] # None => i \in prepared
  BY DEF StoreProofs!Inv
<1>3. ASSUME NEW row, StoreProofs!RowAgrees(row)
      PROVE  Store!RowAgrees(row)
  BY <1>3, SameRowTests
     DEF StoreProofs!RowAgrees, Store!RowAgrees, StoreProofs!SubmissionOf, Store!SubmissionOf,
         StoreProofs!Identified, Store!Identified
<1>4. \A scope \in Store!Scope : Row(scope) # None => Store!RowAgrees(Row(scope))
  BY <1>3, SameData DEF StoreProofs!Inv, StoreProofs!OutcomeAgrees, Row
<1> QED
  BY <1>1, <1>2, <1>4

------------------------------------------------------------------------------
(* The inductive invariant.                                                *)

\* A receipt names a request that the relay created for its invocation.
Genuine(r) ==
    /\ r.invocation \in Invocation
    /\ relay[r.invocation] # None
    /\ Store!ScopeOf(r) = RelayScope(r.invocation)

\* An answer of the wallet to a grant claims no more than what happened.
Redelivered(answer, i) ==
    IF answer \in Snapshots THEN Truthful(answer, wallet[i])
                            ELSE answer # None /\ answer = wallet[i]

RelayAgrees ==
    /\ \A i \in Invocation :
         /\ relay[i] # None => i \in posted
         /\ wallet[i] # None => relay[i] # None
         /\ relay[i] # None /\ relay[i].status = "answered" => wallet[i] # None
    /\ \A i, j \in Invocation :
         relay[i] # None /\ relay[j] # None /\ relay[i].requestId = relay[j].requestId => i = j

\* What was sent can be looked up.
PostedIsSealed ==
    \A i \in posted : /\ invocations[i] # None
                      /\ invocations[i].mobileRequest
                      /\ invocations[i].state # "not-invoked"

\* An invocation and the request that the relay created for it
LinksAgree ==
    \A i \in Invocation :
      invocations[i] # None =>
        /\ relay[i] # None => relay[i].session = invocations[i].session
        /\ invocations[i].requestId # None =>
             relay[i] # None /\ relay[i].requestId = invocations[i].requestId

CallAgrees(call, save) ==
    LET i == call.invocation IN
    /\ call.step \in {"hook", "sealed"} =>
         /\ i \notin posted
         /\ invocations[i] # None
         /\ invocations[i].state # "not-invoked"
    /\ call.step = "sealed" => invocations[i].mobileRequest
    /\ call.step \notin {"hook", "sealed"} => i \in posted
    /\ call.step \notin {"hook", "sealed", "posting"} => relay[i] # None
    /\ call.step = "saving" /\ save # None => Store!ScopeOf(save.receipt) = RelayScope(i)
    /\ call.step \in {"linking", "launching"} => Row(RelayScope(i)) # None
    /\ call.step = "completing" /\ call.outcome # None => call.outcome = wallet[i]

CallsKnow ==
    \A tab \in Tab : calls[tab] # None => CallAgrees(calls[tab], saving[<<tab, "call">>])

OneCallEach ==
    \A tab, tab2 \in Tab :
      calls[tab] # None /\ calls[tab2] # None /\ tab # tab2 =>
        calls[tab].invocation # calls[tab2].invocation

GrantsAgree ==
    \A i \in Invocation, s \in Session :
      grants[<<i, s>>] # None /\ grants[<<i, s>>].status = "fulfilled" =>
        Redelivered(grants[<<i, s>>].payload, i)

ReceiptsAreGenuine == \A tab \in Tab : \A r \in receipts[tab] : Genuine(r)

SavesAreGenuine ==
    \A task \in Tab \X {"call", "recovery"} :
      saving[task] # None => Genuine(saving[task].receipt)

RowAgrees(scope, row) ==
    LET i == row.receipt.invocation IN
    /\ Genuine(row.receipt)
    /\ Store!ScopeOf(row.receipt) = scope
    /\ row.final # None => wallet[i] # None /\ SameOutcome(wallet[i], row.final)
    /\ row.evidence # None => Truthful(row.evidence, wallet[i])

RowsAgree == \A scope \in Store!Scope : Row(scope) # None => RowAgrees(scope, Row(scope))

SavedAs(row, outcome) ==
    IF outcome = Store!NotSubmitted THEN Store!VerifiedNotSubmitted(row)
                                    ELSE row.final = outcome

\* An outcome that may be told: what happened, and saved.
Tellable(scope, outcome) ==
    /\ \E i \in Invocation : /\ relay[i] # None
                             /\ RelayScope(i) = scope
                             /\ wallet[i] # None
                             /\ SameOutcome(wallet[i], outcome)
    /\ Row(scope) # None
    /\ SavedAs(Row(scope), outcome)

RecoveryAgrees(operation) ==
    LET i == operation.invocation
        scope == operation.scope
    IN
    /\ operation.step \in {"lookup", "saving", "linking", "relaunching"} => i \in Invocation
    /\ operation.step \in {"saving", "linking", "relaunching"} => relay[i] # None
    /\ operation.step = "relaunching" => Row(RelayScope(i)) # None
    /\ operation.step \in {"asking", "read", "minting", "minted", "granted", "saved"} =>
         /\ scope \in Store!Scope
         /\ operation.session \in Session
         /\ i \in Invocation
         /\ relay[i] # None
         /\ RelayScope(i) = scope
    /\ operation.step = "read" =>
         operation.answer # None /\ operation.answer = wallet[i]
    /\ operation.step \in {"granted", "saved"} => Redelivered(operation.answer, i)
    /\ operation.step = "saved" /\ OutcomeOf(operation.answer) # None =>
         Tellable(scope, OutcomeOf(operation.answer))
    /\ operation.step \in {"accepting", "clearing", "marking"} => scope \in Store!Scope

RecoveriesKnow ==
    \A tab \in Tab : recovery[tab] # None => RecoveryAgrees(recovery[tab])

LaunchedAgrees == \A i \in launched : relay[i] # None /\ Row(RelayScope(i)) # None

ToldAgrees ==
    \A scope \in Store!Scope, outcome \in Outcome :
      <<scope, outcome>> \in told => Tellable(scope, outcome)

Inv ==
    /\ TypeOK
    /\ StoreProofs!Inv
    /\ RelayAgrees /\ PostedIsSealed /\ LinksAgree
    /\ CallsKnow /\ OneCallEach
    /\ GrantsAgree
    /\ ReceiptsAreGenuine /\ SavesAreGenuine /\ RowsAgree
    /\ RecoveriesKnow
    /\ LaunchedAgrees /\ ToldAgrees

LEMMA StoreTypes ==
    ASSUME Inv
    PROVE  /\ Store!TypeOK
           /\ \A i \in Invocation : invocations[i] # None => i \in prepared
           /\ \A scope \in Store!Scope :
                Row(scope) # None => Row(scope) \in Store!Request /\ Store!RowAgrees(Row(scope))
<1> QED
  BY StoreFacts DEF Inv, Store!TypeOK, Row

------------------------------------------------------------------------------
(* Every step is one of the store, none of them a prune.                   *)

StoreNext == Store!RequestNext \/ Store!InvocationNext

LEMMA StoreActions ==
    /\ \A i \in Invocation, s \in Session, subject \in Subject :
         Store!PrepareInvocation(i, s, subject) => StoreNext
    /\ \A i \in Invocation : Store!SaveMobileEnvelope(i) => StoreNext
    /\ \A i \in Invocation, state \in {"created", "unknown", "not-invoked"},
          requestId \in RequestId \cup {None} :
         Store!UpdateInvocation(i, state, requestId) => StoreNext
    /\ \A task \in Tab \X {"call", "recovery"}, receipt \in MobileReceipt :
         Store!SaveRequestRead(task, receipt) => StoreNext
    /\ \A task \in Tab \X {"call", "recovery"} : Store!SaveRequestWrite(task) => StoreNext
    /\ \A tasks \in SUBSET (Tab \X {"call", "recovery"}) : Store!Abandon(tasks) => StoreNext
    /\ \A scope \in Store!Scope, final \in Store!Final : Store!SaveFinal(scope, final) => StoreNext
    /\ \A scope \in Store!Scope, next \in Snapshots :
         Store!SaveExternalRecovery(scope, next) => StoreNext
    /\ \A scope \in Store!Scope, state \in {"acknowledged", "archived"} :
         Store!Transition(scope, state) => StoreNext
<1> QED
  BY SnapshotAssumption DEF StoreNext, Store!InvocationNext, Store!RequestNext

\* What a tab in a call, or an operation of its recovery, works with.
LEMMA CallFacts ==
    ASSUME Inv, NEW tab \in Tab, calls[tab] # None
    PROVE  /\ calls[tab] \in Call
           /\ calls[tab].invocation \in Invocation
           /\ CallAgrees(calls[tab], saving[<<tab, "call">>])
           /\ calls[tab].invocation \in prepared
<1>1. /\ calls[tab] \in Call
      /\ calls[tab].invocation \in Invocation
      /\ CallAgrees(calls[tab], saving[<<tab, "call">>])
  BY DEF Inv, TypeOK, CallsKnow, Call
<1>2. invocations[calls[tab].invocation] # None
  BY <1>1 DEF CallAgrees, Inv, PostedIsSealed
<1> QED
  BY <1>1, <1>2, StoreTypes

LEMMA RecoveryFacts ==
    ASSUME Inv, NEW tab \in Tab, recovery[tab] # None
    PROVE  recovery[tab] \in Recovery /\ RecoveryAgrees(recovery[tab])
<1> QED
  BY DEF Inv, TypeOK, RecoveriesKnow

LEMMA RelayFacts ==
    ASSUME Inv, NEW i \in Invocation, relay[i] # None
    PROVE  /\ relay[i] \in RelayEntry
           /\ relay[i].session \in Session /\ relay[i].requestId \in RequestId
           /\ RelayScope(i) \in Store!Scope
           /\ ReceiptOf(i) \in MobileReceipt
           /\ i \in posted
           /\ invocations[i] # None
<1> QED
  BY DEF Inv, TypeOK, RelayEntry, RelayScope, Store!Scope, ReceiptOf, MobileReceipt,
         RelayAgrees, PostedIsSealed

LEMMA RowFacts ==
    ASSUME Inv, NEW scope \in Store!Scope, Row(scope) # None
    PROVE  LET i == Row(scope).receipt.invocation IN
           /\ Row(scope) \in Store!Request /\ RowAgrees(scope, Row(scope))
           /\ i \in Invocation /\ relay[i] # None /\ RelayScope(i) = scope
<1> QED
  BY StoreTypes DEF Inv, RowsAgree, RowAgrees, Genuine

LEMMA ProofIsEvidence ==
    /\ Store!NotSubmitted \in Store!AcceptedEvidence
    /\ Store!NotSubmitted # None
    /\ Store!IsNotSubmitted(Store!NotSubmitted)
    /\ ~Store!Identified(Store!NotSubmitted)
    /\ Store!NotSubmitted.status = "not-submitted"
<1>1. Store!NotSubmitted \in Store!Evidence
  BY DEF Store!NotSubmitted, Store!Evidence
<1>2. Store!NotSubmitted # None
  BY <1>1, StoreAssumption DEF Store!EvidenceAssumption
<1> QED
  BY <1>1, <1>2
     DEF Store!AcceptedEvidence, Store!ValidEvidence, Store!NotSubmitted,
         Store!IsNotSubmitted, Store!Identified

\* Evidence and finals are told apart by their fields.
LEMMA EvidenceIsNoFinal == Store!AcceptedEvidence \cap Store!Final = {}
<1>1. ASSUME NEW e \in Store!AcceptedEvidence, e \in Store!Final PROVE FALSE
  <2>1. "chainStatus" \in DOMAIN e
    BY DEF Store!AcceptedEvidence, Store!Evidence
  <2>2. "chainStatus" \notin DOMAIN e
    BY <1>1 DEF Store!Final, Store!FinalsOf, Store!Rejected, Store!Submitted, Store!Signed
  <2> QED
    BY <2>1, <2>2
<1> QED
  BY <1>1

LEMMA FinalsArePresent == None \notin Store!Final
<1> QED
  BY StoreAssumption DEF Store!RecoveryAssumption

\* Every outcome is a final or the failure before the broadcast.
LEMMA OutcomeKinds ==
    /\ Outcome \subseteq Store!Final \cup {Store!NotSubmitted}
    /\ None \notin Outcome
<1>1. Outcome \subseteq Store!Final \cup {Store!NotSubmitted}
  BY DEF Outcome, Outcomes, Store!Final
<1> QED
  BY <1>1, ProofIsEvidence, FinalsArePresent

LEMMA TryUpdateStep ==
    ASSUME NEW i \in Invocation, NEW state \in {"created", "unknown", "not-invoked"},
           NEW requestId \in RequestId \cup {None}, TryUpdate(i, state, requestId)
    PROVE  [StoreNext]_storeVars
<1> QED
  BY StoreActions DEF TryUpdate

\* What is saved as a final passed the check that it is one of the request.
LEMMA SavedFinalIsFinal ==
    ASSUME Inv, NEW scope \in Store!Scope, NEW final, Store!SaveFinal(scope, final)
    PROVE  final \in Store!Final
<1>1. requests[scope].receipt.subject \in Subject
  BY StoreTypes DEF Store!SaveFinal, Row, Store!Request, Store!Receipt
<1> QED
  BY <1>1 DEF Store!SaveFinal, Store!Final

LEMMA CallUsesStore ==
    ASSUME Inv, NEW tab \in Tab, CallNext(tab)
    PROVE  [StoreNext]_storeVars
<1> DEFINE i == calls[tab].invocation
           task == <<tab, "call">>
<1> USE DEF InCall
<1>0. task \in Tab \X {"call", "recovery"} /\ {task} \in SUBSET (Tab \X {"call", "recovery"})
  OBVIOUS
<1>1. ASSUME NEW j \in Invocation, NEW subject \in Subject, Prepare(tab, j, subject)
      PROVE  StoreNext
  BY <1>1, StoreActions DEF Prepare, Inv, TypeOK
<1>2. CASE Seal(tab)
  BY <1>2, CallFacts, StoreActions DEF Seal
<1>3. CASE Refuse(tab)
  BY <1>3, CallFacts, TryUpdateStep DEF Refuse
<1>4. CASE Post(tab) \/ Launch(tab)
  BY <1>4 DEF Post, Launch
<1>5. CASE PostFails(tab)
  BY <1>5, CallFacts, TryUpdateStep DEF PostFails
<1>6. CASE PostAnswered(tab)
  BY <1>0, <1>6, CallFacts, RelayFacts, StoreActions DEF PostAnswered, CallTask
<1>7. CASE SaveCall(tab)
  BY <1>0, <1>7, StoreActions DEF SaveCall, CallTask
<1>8. CASE LinkCall(tab)
  <2>1. i \in Invocation /\ relay[i] # None
    BY <1>8, CallFacts DEF LinkCall, CallAgrees
  <2> QED
    BY <1>8, <2>1, RelayFacts, StoreActions DEF LinkCall
<1>9. CASE RecordingFails(tab)
  <2>1. i \in Invocation /\ relay[i] # None
    BY <1>9, CallFacts DEF RecordingFails, CallAgrees
  <2> QED
    BY <1>9, <2>1, RelayFacts, TryUpdateStep DEF RecordingFails
<1>10. CASE PollFinal(tab) \/ PollAgain(tab) \/ PollFails(tab) \/ Awake(tab)
  BY <1>10 DEF PollFinal, PollAgain, PollFails, Awake
<1>11. CASE CompleteCall(tab)
  <2>1. i \in Invocation /\ relay[i] # None
    BY <1>11, CallFacts DEF CompleteCall, CallAgrees
  <2>2. RelayScope(i) \in Store!Scope
    BY <2>1, RelayFacts
  <2> QED
    BY <1>11, <2>2, SavedFinalIsFinal, StoreActions DEF CompleteCall
<1> QED
  BY <1>1, <1>2, <1>3, <1>4, <1>5, <1>6, <1>7, <1>8, <1>9, <1>10, <1>11 DEF CallNext

LEMMA RecoveryUsesStore ==
    ASSUME Inv, NEW tab \in Tab, RecoveryNext(tab)
    PROVE  [StoreNext]_storeVars
<1> DEFINE i == recovery[tab].invocation
           task == <<tab, "recovery">>
<1> USE DEF InRecovery
<1>0. task \in Tab \X {"call", "recovery"} /\ {task} \in SUBSET (Tab \X {"call", "recovery"})
  OBVIOUS
<1>1. ASSUME NEW receipt \in receipts[tab], Migrate(tab, receipt)
      PROVE  StoreNext
  BY <1>0, <1>1, StoreActions DEF Migrate, RecoveryTask, Inv, TypeOK
<1>2. CASE Migrated(tab) \/ SaveLookup(tab)
  BY <1>0, <1>2, StoreActions DEF Migrated, SaveLookup, RecoveryTask
<1>3. ASSUME NEW j \in Invocation, StartLookup(tab, j) \/ StartRelaunch(tab, j)
      PROVE  UNCHANGED storeVars
  BY <1>3 DEF StartLookup, StartRelaunch
<1>4. CASE LookupAnswered(tab)
  <2>1. i \in Invocation /\ relay[i] # None
    BY <1>4, RecoveryFacts DEF LookupAnswered, RecoveryAgrees
  <2> QED
    BY <1>0, <1>4, <2>1, RelayFacts, StoreActions DEF LookupAnswered, RecoveryTask
<1>5. CASE LinkLookup(tab)
  <2>1. i \in Invocation /\ relay[i] # None
    BY <1>5, RecoveryFacts DEF LinkLookup, RecoveryAgrees
  <2> QED
    BY <1>5, <2>1, RelayFacts, StoreActions DEF LinkLookup
<1>6. ASSUME NEW scope \in Store!Scope,
             \/ Replay(tab, scope) \/ StartRead(tab, scope)
             \/ StartAcknowledge(tab, scope) \/ Archive(tab, scope)
      PROVE  [StoreNext]_storeVars
  BY <1>6, StoreActions DEF Replay, StartRead, StartAcknowledge, Archive
<1>7. CASE SaveRead(tab) \/ SaveGranted(tab)
  <2>1. recovery[tab].scope \in Store!Scope
    BY <1>7, RecoveryFacts DEF SaveRead, SaveGranted, RecoveryAgrees
  <2> QED
    BY <1>7, <2>1, SavedFinalIsFinal, StoreActions DEF SaveRead, SaveGranted
<1>8. CASE Accept(tab)
  <2>1. recovery[tab].scope \in Store!Scope
    BY <1>8, RecoveryFacts DEF Accept, RecoveryAgrees
  <2> QED
    BY <1>8, <2>1, StoreActions DEF Accept
<1>9. CASE \/ Relaunch(tab) \/ StatusAnswered(tab) \/ Mint(tab) \/ GrantAnswered(tab)
           \/ TellGranted(tab) \/ Clear(tab) \/ Mark(tab)
  BY <1>9 DEF Relaunch, StatusAnswered, Mint, GrantAnswered, TellGranted, Clear, Mark
<1>10. CASE RecoveryFails(tab)
  BY <1>0, <1>10, StoreActions DEF RecoveryFails, RecoveryTask
<1> QED
  BY <1>1, <1>2, <1>3, <1>4, <1>5, <1>6, <1>7, <1>8, <1>9, <1>10 DEF RecoveryNext

LEMMA StepUsesStore ==
    ASSUME Inv, [Next]_vars
    PROVE  [StoreNext]_storeVars
<1>1. ASSUME NEW tab \in Tab, LeaveTab(tab)
      PROVE  StoreNext
  BY <1>1, StoreActions DEF LeaveTab, CallTask, RecoveryTask
<1>2. CASE (\E s \in Session : Connect(s)) \/ Disconnect \/ RemoteNext
  BY <1>2 DEF Connect, Disconnect, RemoteNext, Admit, Decide, Deliver, Close, Fulfil,
              CloseGrant, RemoteStep
<1>3. CASE \E tab \in Tab : DeadlinePasses(tab)
  BY <1>3 DEF DeadlinePasses
<1>4. CASE UNCHANGED vars
  BY <1>4 DEF vars
<1> QED
  BY <1>1, <1>2, <1>3, <1>4, CallUsesStore, RecoveryUsesStore DEF Next

------------------------------------------------------------------------------
(* Types.                                                                  *)

\* What the relay's answer decodes to is an outcome.
LEMMA DecodedIsOutcome ==
    ASSUME Inv, NEW i \in Invocation
    PROVE  /\ DecodedResult(i) \in Outcome \cup {None}
           /\ DecodedResult(i) # None => DecodedResult(i) = wallet[i]
<1> QED
  BY DEF DecodedResult, Inv, TypeOK

LEMMA CallTypes ==
    ASSUME Inv, NEW tab \in Tab, CallNext(tab) \/ DeadlinePasses(tab)
    PROVE  TypeOK'
<1> DEFINE i == calls[tab].invocation
           Same == UNCHANGED <<session, recovery, remote, accepted>>
<1> USE DEF InCall, SetCall, CallStep, remote
<1>0. TypeOK
  BY DEF Inv
<1>1. ASSUME NEW call \in Call \cup {None}, calls' = [calls EXCEPT ![tab] = call], Same,
             UNCHANGED <<receipts, posted, told>>, launched' \subseteq Invocation
      PROVE  TypeOK'
  BY <1>0, <1>1 DEF TypeOK
<1>2. ASSUME NEW step \in {"hook", "sealed", "posting", "saving", "unsaved", "linking",
                           "launching", "polling", "sleeping", "last", "completing"},
             calls[tab] # None
      PROVE  [calls[tab] EXCEPT !.step = step] \in Call
  BY <1>2, CallFacts DEF Call
<1>3. launched \subseteq Invocation
  BY <1>0 DEF TypeOK
<1>4. ASSUME NEW j \in Invocation, NEW subject \in Subject, Prepare(tab, j, subject)
      PROVE  TypeOK'
  <2>1. [step |-> "hook", invocation |-> j, outcome |-> None, late |-> FALSE] \in Call
    BY DEF Call
  <2> QED
    BY <1>1, <1>3, <1>4, <2>1 DEF Prepare
<1>5. CASE Refuse(tab) \/ PostFails(tab) \/ RecordingFails(tab) \/ PollFails(tab)
  BY <1>1, <1>3, <1>5 DEF Refuse, PostFails, RecordingFails, PollFails
<1>6. CASE Seal(tab) \/ SaveCall(tab) \/ LinkCall(tab)
  BY <1>1, <1>2, <1>3, <1>6 DEF Seal, SaveCall, LinkCall
<1>7. CASE PollAgain(tab) \/ Awake(tab)
  <2>1. PICK step \in {"sleeping", "polling", "last"} :
          calls' = [calls EXCEPT ![tab] = [calls[tab] EXCEPT !.step = step]]
    BY <1>7 DEF PollAgain, Awake
  <2>2. Same /\ UNCHANGED <<receipts, posted, told, launched>> /\ calls[tab] # None
    BY <1>7 DEF PollAgain, Awake
  <2> QED
    BY <1>1, <1>2, <1>3, <2>1, <2>2
<1>8. CASE Post(tab)
  BY <1>0, <1>2, <1>8, CallFacts DEF Post, TypeOK
<1>9. CASE PostAnswered(tab)
  <2>1. relay[i] # None /\ calls[tab] # None
    BY <1>9 DEF PostAnswered
  <2>2. receipts' \in [Tab -> SUBSET MobileReceipt]
    <3>1. ReceiptOf(i) \in MobileReceipt
      BY <2>1, CallFacts, RelayFacts
    <3> QED
      BY <1>0, <1>9, <3>1 DEF PostAnswered, Keep, TypeOK
  <2>3. calls' \in [Tab -> Call \cup {None}]
    BY <1>0, <1>2, <1>9, <2>1 DEF PostAnswered, TypeOK
  <2> QED
    BY <1>0, <1>9, <2>2, <2>3 DEF PostAnswered, TypeOK
<1>10. CASE Launch(tab)
  <2>1. i \in Invocation /\ launched' \in {launched, launched \cup {i}}
    BY <1>10, CallFacts DEF Launch
  <2>2. launched' \subseteq Invocation
    BY <1>3, <2>1
  <2> QED
    BY <1>1, <1>2, <1>10, <2>2 DEF Launch
<1>11. CASE PollFinal(tab)
  <2> DEFINE call == [calls[tab] EXCEPT !.step = "completing", !.outcome = DecodedResult(i)]
  <2>1. calls[tab] \in Call /\ i \in Invocation
    BY <1>11, CallFacts DEF PollFinal
  <2>2. DecodedResult(i) \in Outcome \cup {None}
    BY <2>1, DecodedIsOutcome
  <2>3. call \in Call
    BY <2>1, <2>2 DEF Call
  <2> QED
    BY <1>1, <1>3, <1>11, <2>3 DEF PollFinal
<1>12. CASE CompleteCall(tab)
  <2> DEFINE outcome == calls[tab].outcome
  <2>1. calls[tab] \in Call /\ i \in Invocation /\ relay[i] # None
    BY <1>12, CallFacts DEF CompleteCall, CallAgrees
  <2>2. RelayScope(i) \in Store!Scope /\ outcome \in Outcome \cup {None}
    BY <2>1, RelayFacts DEF Call
  <2>3. told' = told \/ (outcome # None /\ told' = told \cup {<<RelayScope(i), outcome>>})
    BY <1>12 DEF CompleteCall, Tell
  <2>4. told' \subseteq Store!Scope \X Outcome
    BY <1>0, <2>2, <2>3 DEF TypeOK
  <2>5. calls' = [calls EXCEPT ![tab] = None] /\ UNCHANGED <<receipts, posted, launched>> /\ Same
    BY <1>12 DEF CompleteCall
  <2> QED
    BY <1>0, <2>4, <2>5 DEF TypeOK
<1>13. CASE DeadlinePasses(tab)
  <2>1. [calls[tab] EXCEPT !.late = TRUE] \in Call
    BY <1>13, CallFacts DEF DeadlinePasses, Call
  <2> QED
    BY <1>1, <1>3, <1>13, <2>1 DEF DeadlinePasses
<1> QED
  BY <1>4, <1>5, <1>6, <1>7, <1>8, <1>9, <1>10, <1>11, <1>12, <1>13 DEF CallNext

\* What a row says of its request's outcome can be told.
LEMMA RowOutcome ==
    ASSUME Inv, NEW scope \in Store!Scope, Row(scope) # None, Store!Settled(Row(scope))
    PROVE  LET outcome == IF Row(scope).final # None THEN Row(scope).final
                                                     ELSE Store!NotSubmitted IN
           outcome \in Outcome /\ Tellable(scope, outcome)
<1>1. PICK row : row = Row(scope)
  OBVIOUS
<1>2. PICK i : i = row.receipt.invocation
  OBVIOUS
<1>3. PICK outcome : outcome = IF row.final # None THEN row.final ELSE Store!NotSubmitted
  OBVIOUS
<1>4. /\ row \in Store!Request /\ RowAgrees(scope, row)
      /\ i \in Invocation /\ relay[i] # None /\ RelayScope(i) = scope
  BY <1>1, <1>2, RowFacts
<1>5. CASE row.final # None
  <2>1. row.final \in Store!Final
    BY <1>4, <1>5 DEF Store!Request
  <2>2. outcome # Store!NotSubmitted
    BY <1>3, <1>5, <2>1, ProofIsEvidence, EvidenceIsNoFinal
  <2>3. wallet[i] # None /\ SameOutcome(wallet[i], outcome)
    BY <1>2, <1>3, <1>4, <1>5 DEF RowAgrees
  <2>4. outcome \in Outcome
    BY <1>3, <1>5, <2>1 DEF Store!Final, Outcome, Outcomes
  <2>5. SavedAs(Row(scope), outcome)
    BY <1>1, <1>3, <1>5, <2>2 DEF SavedAs
  <2> QED
    BY <1>1, <1>3, <1>4, <2>3, <2>4, <2>5 DEF Tellable
<1>6. CASE row.final = None
  <2>1. outcome = Store!NotSubmitted /\ Store!VerifiedNotSubmitted(row)
    BY <1>1, <1>3, <1>6 DEF Store!Settled
  <2>2. row.evidence = Store!NotSubmitted /\ row.evidence # None
    BY <1>4, <2>1
       DEF Store!VerifiedNotSubmitted, Store!Failed, Store!IsNotSubmitted, Store!Request,
           Store!AcceptedEvidence, Store!ValidEvidence
  <2>3. wallet[i] = Store!NotSubmitted
    BY <1>2, <1>4, <2>2 DEF RowAgrees, Truthful
  <2>4. wallet[i] \in Outcome
    BY <1>4, <2>3, ProofIsEvidence DEF Inv, TypeOK
  <2> QED
    BY <1>1, <1>3, <1>4, <2>1, <2>3, <2>4, ProofIsEvidence
       DEF Tellable, SavedAs, SameOutcome
<1> QED
  BY <1>5, <1>6

LEMMA TellableIsOutcome ==
    ASSUME Inv, NEW scope \in Store!Scope, NEW outcome, outcome # None,
           Tellable(scope, outcome)
    PROVE  outcome \in Outcome
<1>1. Row(scope) # None /\ SavedAs(Row(scope), outcome)
  BY DEF Tellable
<1>2. CASE outcome = Store!NotSubmitted
  <2>1. Store!Settled(Row(scope)) /\ Row(scope).final = None
    BY <1>1, <1>2 DEF SavedAs, Store!Settled, Store!VerifiedNotSubmitted
  <2> QED
    BY <1>1, <1>2, <2>1, RowOutcome
<1>3. CASE outcome # Store!NotSubmitted
  <2>1. Store!Settled(Row(scope)) /\ Row(scope).final = outcome
    BY <1>1, <1>3 DEF SavedAs, Store!Settled
  <2> QED
    BY <1>1, <2>1, RowOutcome
<1> QED
  BY <1>2, <1>3

LEMMA RecoveryTypes ==
    ASSUME Inv, NEW tab \in Tab, RecoveryNext(tab)
    PROVE  TypeOK'
<1> DEFINE i == recovery[tab].invocation
           scope == recovery[tab].scope
           Same == UNCHANGED <<session, calls, relay, wallet, posted>>
<1> USE DEF InRecovery, SetRecovery, RecoveryStep
<1>0. TypeOK
  BY DEF Inv
<1>1. ASSUME NEW operation \in Recovery \cup {None},
             recovery' = [recovery EXCEPT ![tab] = operation], Same,
             UNCHANGED <<receipts, grants, launched, told>>,
             accepted' \subseteq Store!Scope \X {"acknowledged", "archived"}
      PROVE  TypeOK'
  BY <1>0, <1>1 DEF TypeOK
<1>2. ASSUME NEW step \in {"migrating", "lookup", "saving", "linking", "relaunching", "asking",
                           "read", "minting", "minted", "granted", "saved", "accepting",
                           "clearing", "marking"},
             recovery[tab] # None
      PROVE  [recovery[tab] EXCEPT !.step = step] \in Recovery
  BY <1>2, RecoveryFacts DEF Recovery
<1>3. ASSUME NEW step \in {"migrating", "lookup", "relaunching", "asking", "minting",
                           "accepting", "marking"},
             NEW j \in Invocation \cup {None}, NEW s \in Store!Scope \cup {None},
             Start(tab, step, j, s), UNCHANGED <<receipts, grants, launched, told>>,
             accepted' \subseteq Store!Scope \X {"acknowledged", "archived"}
      PROVE  TypeOK'
  <2>1. [step |-> step, invocation |-> j, scope |-> s, session |-> session,
         answer |-> None] \in Recovery
    BY <1>0 DEF Recovery, TypeOK
  <2> QED
    BY <1>1, <1>3, <2>1 DEF Start
<1>4. accepted \subseteq Store!Scope \X {"acknowledged", "archived"}
  BY <1>0 DEF TypeOK
<1>5. ASSUME NEW receipt \in receipts[tab], Migrate(tab, receipt)
      PROVE  TypeOK'
  BY <1>3, <1>4, <1>5 DEF Migrate, history
<1>6. CASE Migrated(tab) \/ LinkLookup(tab) \/ RecoveryFails(tab)
  BY <1>1, <1>4, <1>6 DEF Migrated, LinkLookup, RecoveryFails, history
<1>7. ASSUME NEW j \in Invocation, StartLookup(tab, j)
      PROVE  TypeOK'
  BY <1>3, <1>4, <1>7 DEF StartLookup, history
<1>8. ASSUME NEW j \in Invocation, StartRelaunch(tab, j)
      PROVE  TypeOK'
  <2>1. <<invocations[j].session, invocations[j].requestId>> \in Store!Scope
    BY <1>8, StoreTypes DEF StartRelaunch, Store!TypeOK, Store!PreparedInvocation, Store!Scope
  <2> QED
    BY <1>3, <1>4, <1>8, <2>1 DEF StartRelaunch, history
<1>9. CASE LookupAnswered(tab)
  <2>1. i \in Invocation /\ relay[i] # None /\ recovery[tab] # None
    BY <1>9, RecoveryFacts DEF LookupAnswered, RecoveryAgrees
  <2>2. receipts' \in [Tab -> SUBSET MobileReceipt]
    <3>1. ReceiptOf(i) \in MobileReceipt
      BY <2>1, RelayFacts
    <3> QED
      BY <1>0, <1>9, <3>1 DEF LookupAnswered, Keep, TypeOK
  <2>3. recovery' \in [Tab -> Recovery \cup {None}]
    BY <1>0, <1>2, <1>9, <2>1 DEF LookupAnswered, TypeOK
  <2> QED
    BY <1>0, <1>9, <2>2, <2>3 DEF LookupAnswered, TypeOK, history
<1>10. CASE SaveLookup(tab)
  BY <1>1, <1>2, <1>4, <1>10 DEF SaveLookup, history
<1>11. CASE Relaunch(tab)
  <2>1. i \in Invocation
    BY <1>11, RecoveryFacts DEF Relaunch, RecoveryAgrees
  <2> QED
    BY <1>0, <1>11, <2>1 DEF Relaunch, TypeOK, history
<1>12. ASSUME NEW s \in Store!Scope, Replay(tab, s)
       PROVE  TypeOK'
  <2> DEFINE outcome == IF Row(s).final # None THEN Row(s).final ELSE Store!NotSubmitted
  <2>1. outcome \in Outcome
    BY <1>12, RowOutcome DEF Replay, Exact
  <2>2. told' = told \cup {<<s, outcome>>}
    BY <1>12 DEF Replay, Tell
  <2> QED
    BY <1>0, <1>12, <2>1, <2>2 DEF Replay, TypeOK, tabVars, remote
<1>13. ASSUME NEW s \in Store!Scope, StartRead(tab, s) \/ StartAcknowledge(tab, s)
       PROVE  TypeOK'
  <2>1. Row(s) # None
    BY <1>13 DEF StartRead, StartAcknowledge, Exact
  <2>2. Row(s).receipt.invocation \in Invocation
    BY <2>1, RowFacts
  <2> QED
    BY <1>3, <1>4, <1>13, <2>2 DEF StartRead, StartAcknowledge, history
<1>14. ASSUME NEW s \in Store!Scope, Archive(tab, s)
       PROVE  TypeOK'
  BY <1>3, <1>4, <1>14 DEF Archive
<1>15. CASE StatusAnswered(tab)
  <2>1. recovery[tab] \in Recovery /\ i \in Invocation
    BY <1>15, RecoveryFacts DEF StatusAnswered, RecoveryAgrees
  <2>2. DecodedResult(i) \in Outcome \cup {None}
    BY <2>1, DecodedIsOutcome
  <2>3. /\ [recovery[tab] EXCEPT !.step = "read", !.answer = DecodedResult(i)] \in Recovery
        /\ [recovery[tab] EXCEPT !.step = "minting"] \in Recovery
    BY <2>1, <2>2 DEF Recovery
  <2> QED
    BY <1>1, <1>4, <1>15, <2>3 DEF StatusAnswered, history
<1>16. CASE SaveRead(tab)
  <2>1. scope \in Store!Scope /\ i \in Invocation /\ recovery[tab].answer \in Outcome
    BY <1>0, <1>16, RecoveryFacts DEF SaveRead, RecoveryAgrees, TypeOK
  <2>2. told' = told \cup {<<scope, recovery[tab].answer>>}
    BY <1>16 DEF SaveRead, Tell
  <2> QED
    BY <1>0, <1>16, <2>1, <2>2 DEF SaveRead, TypeOK
<1>17. CASE Mint(tab)
  <2>1. <<i, recovery[tab].session>> \in Invocation \X Session /\ recovery[tab] # None
    BY <1>17, RecoveryFacts DEF Mint, RecoveryAgrees
  <2>2. [status |-> "pending", payload |-> None] \in Grant
    BY DEF Grant
  <2>3. grants' \in [Invocation \X Session -> Grant \cup {None}]
    BY <1>0, <1>17, <2>1, <2>2 DEF Mint, TypeOK
  <2>4. recovery' \in [Tab -> Recovery \cup {None}]
    BY <1>0, <1>2, <1>17, <2>1 DEF Mint, TypeOK
  <2> QED
    BY <1>0, <1>17, <2>3, <2>4 DEF Mint, TypeOK, history
<1>18. CASE GrantAnswered(tab)
  <2> DEFINE key == <<i, recovery[tab].session>>
             operation == [recovery[tab] EXCEPT !.step = "granted",
                                                !.answer = grants[key].payload]
  <2>1. key \in Invocation \X Session /\ recovery[tab] \in Recovery
    BY <1>18, RecoveryFacts DEF GrantAnswered, RecoveryAgrees
  <2>2. grants[key].payload \in Payload \cup {None}
    BY <1>0, <1>18, <2>1 DEF GrantAnswered, TypeOK, Grant
  <2>3. operation \in Recovery
    BY <2>1, <2>2 DEF Recovery
  <2> QED
    BY <1>1, <1>4, <1>18, <2>3 DEF GrantAnswered, history
<1>19. CASE SaveGranted(tab)
  BY <1>1, <1>2, <1>4, <1>19 DEF SaveGranted, history
<1>20. CASE TellGranted(tab)
  <2> DEFINE outcome == OutcomeOf(recovery[tab].answer)
  <2>1. scope \in Store!Scope /\ (outcome # None => Tellable(scope, outcome))
    BY <1>20, RecoveryFacts DEF TellGranted, RecoveryAgrees
  <2>2. told' = told \/ (outcome # None /\ told' = told \cup {<<scope, outcome>>})
    BY <1>20 DEF TellGranted, Tell
  <2>3. told' \subseteq Store!Scope \X Outcome
    BY <1>0, <2>1, <2>2, TellableIsOutcome DEF TypeOK
  <2> QED
    BY <1>0, <1>20, <2>3 DEF TellGranted, TypeOK
<1>21. CASE Accept(tab)
  <2>1. scope \in Store!Scope /\ recovery[tab] # None
    BY <1>21, RecoveryFacts DEF Accept, RecoveryAgrees
  <2>2. accepted' \subseteq Store!Scope \X {"acknowledged", "archived"}
    BY <1>4, <1>21, <2>1 DEF Accept
  <2>3. [recovery[tab] EXCEPT !.step = "clearing"] \in Recovery
    BY <1>2, <2>1
  <2> QED
    BY <1>1, <1>21, <2>2, <2>3 DEF Accept
<1>22. CASE Clear(tab)
  <2>1. receipts' \in [Tab -> SUBSET MobileReceipt]
    BY <1>0, <1>22 DEF Clear, TypeOK
  <2> QED
    BY <1>0, <1>22, <2>1 DEF Clear, TypeOK, history
<1>23. CASE Mark(tab)
  <2>1. \A r \in MobileReceipt : [r EXCEPT !.archived = TRUE] \in MobileReceipt
    BY DEF MobileReceipt
  <2>2. receipts' \in [Tab -> SUBSET MobileReceipt]
    BY <1>0, <1>23, <2>1 DEF Mark, TypeOK
  <2> QED
    BY <1>0, <1>23, <2>2 DEF Mark, TypeOK, history
<1> QED
  BY <1>5, <1>6, <1>7, <1>8, <1>9, <1>10, <1>11, <1>12, <1>13, <1>14, <1>15, <1>16, <1>17,
     <1>18, <1>19, <1>20, <1>21, <1>22, <1>23 DEF RecoveryNext

LEMMA RemoteTypes == ASSUME Inv, RemoteNext PROVE TypeOK'
<1> USE DEF RemoteStep, tabVars, history
<1>0. TypeOK
  BY DEF Inv
<1>1. PICK i \in Invocation : \/ Admit(i) \/ Deliver(i) \/ Close(i)
                              \/ \E outcome \in Outcome : Decide(i, outcome)
                              \/ \E s \in Session : Fulfil(i, s) \/ CloseGrant(i, s)
  BY DEF RemoteNext
<1>2. ASSUME NEW entry \in RelayEntry, relay' = [relay EXCEPT ![i] = entry],
             UNCHANGED <<wallet, grants>>, RemoteStep
      PROVE  TypeOK'
  BY <1>0, <1>2 DEF TypeOK
<1>3. CASE Admit(i)
  <2>1. PICK requestId \in RequestId :
          relay' = [relay EXCEPT ![i] =
            [ session |-> invocations[i].session, requestId |-> requestId,
              subject |-> invocations[i].subject, status |-> "pending" ]]
    BY <1>3 DEF Admit
  <2>2. invocations[i] \in Store!PreparedInvocation
    BY <1>3, StoreTypes DEF Admit, Store!TypeOK
  <2>3. [ session |-> invocations[i].session, requestId |-> requestId,
          subject |-> invocations[i].subject, status |-> "pending" ] \in RelayEntry
    BY <2>2 DEF RelayEntry, Store!PreparedInvocation
  <2> QED
    BY <1>2, <1>3, <2>1, <2>3 DEF Admit
<1>4. CASE Deliver(i) \/ Close(i)
  <2>1. PICK status \in {"answered", "closed"} : relay' = [relay EXCEPT ![i].status = status]
    BY <1>4 DEF Deliver, Close
  <2>2. [relay[i] EXCEPT !.status = status] \in RelayEntry
    BY <1>4, RelayFacts DEF Deliver, Close, RelayEntry
  <2> QED
    BY <1>2, <1>4, <2>1, <2>2 DEF Deliver, Close
<1>5. ASSUME NEW outcome \in Outcome, Decide(i, outcome)
      PROVE  TypeOK'
  BY <1>0, <1>5 DEF Decide, TypeOK
<1>6. ASSUME NEW s \in Session, Fulfil(i, s)
      PROVE  TypeOK'
  <2>1. PICK payload \in Redelivers(i, s) :
          grants' = [grants EXCEPT ![<<i, s>>] = [status |-> "fulfilled", payload |-> payload]]
    BY <1>6 DEF Fulfil
  <2>2. payload \in Payload
    BY <1>0, OutcomeKinds DEF Redelivers, Payload, TypeOK
  <2>3. [status |-> "fulfilled", payload |-> payload] \in Grant
    BY <2>2 DEF Grant
  <2>4. grants' \in [Invocation \X Session -> Grant \cup {None}]
    BY <1>0, <2>1, <2>3 DEF TypeOK
  <2> QED
    BY <1>0, <1>6, <2>4 DEF Fulfil, TypeOK
<1>7. ASSUME NEW s \in Session, CloseGrant(i, s)
      PROVE  TypeOK'
  BY <1>0, <1>7 DEF CloseGrant, TypeOK
<1> QED
  BY <1>1, <1>3, <1>4, <1>5, <1>6, <1>7

LEMMA TypeInv == ASSUME Inv, [Next]_vars PROVE TypeOK'
<1> USE DEF tabVars, remote, history
<1>0. TypeOK
  BY DEF Inv
<1>1. ASSUME NEW s \in Session, Connect(s) PROVE TypeOK'
  BY <1>0, <1>1 DEF Connect, TypeOK
<1>2. CASE Disconnect
  BY <1>0, <1>2 DEF Disconnect, TypeOK
<1>3. ASSUME NEW tab \in Tab, LeaveTab(tab) PROVE TypeOK'
  BY <1>0, <1>3 DEF LeaveTab, TypeOK
<1>4. CASE UNCHANGED vars
  BY <1>0, <1>4 DEF vars, TypeOK
<1> QED
  BY <1>1, <1>2, <1>3, <1>4, CallTypes, RecoveryTypes, RemoteTypes DEF Next

------------------------------------------------------------------------------
(* What no step takes back: what was sent, created by the relay, decided by *)
(* the wallet, recorded with its outcome, and linked.                       *)

RowGrew(row, row2) ==
    /\ row2 # None
    /\ row2.receipt = row.receipt
    /\ row.final # None => row2.final = row.final
    /\ Store!VerifiedNotSubmitted(row) => Store!VerifiedNotSubmitted(row2)

EntryGrew(entry, entry2) ==
    /\ entry2 # None
    /\ entry2.session = entry.session
    /\ entry.mobileRequest => entry2.mobileRequest
    /\ entry.requestId # None => entry2.requestId = entry.requestId

RowsGrew ==
    \A scope \in Store!Scope :
      requests[scope] # None => RowGrew(requests[scope], requests'[scope])

EntriesGrew ==
    \A i \in Invocation :
      invocations[i] # None => EntryGrew(invocations[i], invocations'[i])

RelayGrew ==
    \A i \in Invocation :
      relay[i] # None => /\ relay'[i] # None
                         /\ relay'[i].session = relay[i].session
                         /\ relay'[i].requestId = relay[i].requestId

WalletGrew == \A i \in Invocation : wallet[i] # None => wallet'[i] = wallet[i]

Grows == posted \subseteq posted' /\ RelayGrew /\ WalletGrew /\ RowsGrew /\ EntriesGrew

\* The rows.
LEMMA PutGrows ==
    ASSUME Inv, NEW scope \in Store!Scope, NEW row \in Store!Request, Store!Put(scope, row),
           requests[scope] # None, RowGrew(requests[scope], row)
    PROVE  RowsGrew
<1>1. requests \in [Store!Scope -> Store!Request \cup {None}] /\ now \in Nat
  BY StoreTypes DEF Store!TypeOK
<1>2. /\ [row EXCEPT !.updatedAt = now] \in Store!Request
      /\ None \notin Store!Request
      /\ RowGrew(requests[scope], [row EXCEPT !.updatedAt = now])
  BY <1>1, StoreAssumption
     DEF Store!RecoveryAssumption, Store!Request, RowGrew, Store!VerifiedNotSubmitted,
         Store!Failed
<1>3. requests' = [requests EXCEPT
        ![scope] = IF row = @ THEN @ ELSE [row EXCEPT !.updatedAt = now]]
  BY DEF Store!Put
<1>4. ASSUME NEW s \in Store!Scope, requests[s] # None
      PROVE  RowGrew(requests[s], requests'[s])
  <2>1. CASE requests'[s] = requests[s]
    BY <1>4, <2>1 DEF RowGrew
  <2>2. CASE requests'[s] # requests[s]
    BY <1>1, <1>2, <1>3, <2>2
  <2> QED
    BY <2>1, <2>2
<1> QED
  BY <1>4 DEF RowsGrew

LEMMA MergedRow ==
    ASSUME Inv, NEW row \in Store!Request, Store!RowAgrees(row),
           NEW next \in Store!AcceptedEvidence, Store!CanSaveRecovery(row, next)
    PROVE  Store!WithRecovery(row, next) \in Store!Request
<1>1. StoreProofs!RowAgrees(row)
  BY SameRowTests
     DEF StoreProofs!RowAgrees, Store!RowAgrees, StoreProofs!SubmissionOf, Store!SubmissionOf,
         StoreProofs!Identified, Store!Identified
<1>2. /\ row \in StoreProofs!Request
      /\ next \in StoreProofs!AcceptedEvidence
      /\ StoreProofs!CanSaveRecovery(row, next)
  BY SameRows, SameEvidence, SameMerge
<1>3. StoreProofs!WithRecovery(row, next) \in StoreProofs!Request
  BY <1>1, <1>2, SameAssumptions, StoreProofs!RecoveryAgrees
     DEF StoreProofs!EvidenceAssumption, StoreProofs!RecoveryAssumption,
         StoreProofs!EntryAssumption
<1> QED
  BY <1>3, SameRows, SameMerge

LEMMA MergedRowGrew ==
    ASSUME Inv, NEW row \in Store!Request, Store!RowAgrees(row),
           NEW next \in Store!AcceptedEvidence, Store!CanSaveRecovery(row, next)
    PROVE  RowGrew(row, Store!WithRecovery(row, next))
<1> DEFINE e == Store!Merge(row.evidence, next)
           f == Store!Submitted([tx |-> e.transactionHash, lowerCase |-> TRUE])
           row2 == Store!WithRecovery(row, next)
<1>1. row2 = [row EXCEPT
        !.evidence = e,
        !.transactionHash = IF Store!Identified(e) THEN e.transactionHash ELSE @,
        !.final = IF e.status = "approved" THEN f ELSE @]
  BY DEF Store!WithRecovery
<1>2. row2 # None
  BY MergedRow, StoreAssumption DEF Store!RecoveryAssumption
<1>3. row2.receipt = row.receipt
  BY <1>1 DEF Store!Request
<1>4. row.final # None => row2.final = row.final
  BY <1>1 DEF Store!Request, Store!CanSaveRecovery
<1>5. ASSUME Store!VerifiedNotSubmitted(row)
      PROVE  Store!VerifiedNotSubmitted(row2)
  <2>1. /\ row.evidence # None /\ row.evidence.status = "not-submitted"
        /\ row.evidence = Store!NotSubmitted
        /\ row.final = None /\ row.transactionHash = None
    BY <1>5 DEF Store!VerifiedNotSubmitted, Store!Failed, Store!IsNotSubmitted, Store!Request,
                Store!AcceptedEvidence, Store!ValidEvidence
  <2>2. e = Store!NotSubmitted
    BY <2>1 DEF Store!Merge
  <2> QED
    BY <1>1, <2>1, <2>2, ProofIsEvidence
       DEF Store!VerifiedNotSubmitted, Store!Failed, Store!Request
<1> QED
  BY <1>2, <1>3, <1>4, <1>5 DEF RowGrew

LEMMA RequestStepGrows == ASSUME Inv, Store!RequestNext PROVE RowsGrew
<1>0. /\ requests \in [Store!Scope -> Store!Request \cup {None}]
      /\ saving \in [Tab \X {"call", "recovery"} ->
                      [receipt : Store!Receipt, debt : Store!Debt] \cup {None}]
  BY StoreTypes DEF Store!TypeOK
<1>1. UNCHANGED requests => RowsGrew
  BY DEF RowsGrew, RowGrew
<1>2. ASSUME NEW task \in Tab \X {"call", "recovery"}, Store!SaveRequestWrite(task)
      PROVE  RowsGrew
  <2>1. \A scope \in Store!Scope : requests[scope] # None => requests'[scope] = requests[scope]
    BY <1>0, <1>2 DEF Store!SaveRequestWrite
  <2> QED
    BY <2>1 DEF RowsGrew, RowGrew
<1>3. ASSUME NEW scope \in Store!Scope,
             \/ \E final \in Store!Final : Store!SaveFinal(scope, final)
             \/ \E next \in Store!AcceptedEvidence : Store!SaveExternalRecovery(scope, next)
             \/ \E tx \in Tx : Store!SaveTransactionHash(scope, tx)
             \/ \E state \in {"acknowledged", "archived"} : Store!Transition(scope, state)
      PROVE  RowsGrew
  <2> DEFINE row == requests[scope]
  <2>1. row # None /\ row \in Store!Request /\ Store!RowAgrees(row)
    BY <1>3, StoreTypes
       DEF Store!SaveFinal, Store!SaveExternalRecovery, Store!SaveTransactionHash,
           Store!Transition, Row
  <2>2. None \notin Store!Request
    BY StoreAssumption DEF Store!RecoveryAssumption
  <2>3. ASSUME NEW final \in Store!Final, Store!SaveFinal(scope, final)
        PROVE  RowsGrew
    <3>1. [row EXCEPT !.final = final] \in Store!Request
      BY <2>1 DEF Store!Request
    <3>2. RowGrew(row, [row EXCEPT !.final = final])
      BY <2>1, <2>2, <2>3, <3>1
         DEF RowGrew, Store!SaveFinal, Store!CanSaveFinal, Store!VerifiedNotSubmitted,
             Store!Request
    <3> QED
      BY <2>1, <2>3, <3>1, <3>2, PutGrows DEF Store!SaveFinal
  <2>4. ASSUME NEW next \in Store!AcceptedEvidence, Store!SaveExternalRecovery(scope, next)
        PROVE  RowsGrew
    BY <2>1, <2>4, MergedRow, MergedRowGrew, PutGrows DEF Store!SaveExternalRecovery
  <2>5. ASSUME NEW tx \in Tx, Store!SaveTransactionHash(scope, tx)
        PROVE  RowsGrew
    <3>1. [row EXCEPT !.transactionHash = tx] \in Store!Request
      BY <2>1 DEF Store!Request
    <3>2. RowGrew(row, [row EXCEPT !.transactionHash = tx])
      BY <2>1, <2>2, <2>5, <3>1
         DEF RowGrew, Store!SaveTransactionHash, Store!CanSaveHash,
             Store!VerifiedNotSubmitted, Store!Request
    <3> QED
      BY <2>1, <2>5, <3>1, <3>2, PutGrows DEF Store!SaveTransactionHash
  <2>6. ASSUME NEW state \in {"acknowledged", "archived"}, Store!Transition(scope, state)
        PROVE  RowsGrew
    <3>1. [row EXCEPT !.state = state] \in Store!Request
      BY <2>1 DEF Store!Request
    <3>2. RowGrew(row, [row EXCEPT !.state = state])
      BY <2>1, <2>2, <3>1
         DEF RowGrew, Store!VerifiedNotSubmitted, Store!Failed, Store!Request
    <3> QED
      BY <2>1, <2>6, <3>1, <3>2, PutGrows DEF Store!Transition
  <2> QED
    BY <1>3, <2>3, <2>4, <2>5, <2>6
<1> QED
  BY <1>1, <1>2, <1>3 DEF Store!RequestNext, Store!SaveRequestRead, Store!Abandon

\* The links.
LEMMA InvocationStepGrows == ASSUME Inv, Store!InvocationNext PROVE EntriesGrew
<1>0. /\ invocations \in [Invocation -> Store!PreparedInvocation \cup {None}]
      /\ \A i \in Invocation : invocations[i] # None => i \in prepared
      /\ None \notin Store!PreparedInvocation
  BY StoreTypes, StoreAssumption DEF Store!TypeOK, Store!RecoveryAssumption
<1>1. ASSUME NEW i \in Invocation, NEW entry \in Store!PreparedInvocation,
             invocations' = [invocations EXCEPT ![i] = entry],
             invocations[i] # None => EntryGrew(invocations[i], entry)
      PROVE  EntriesGrew
  BY <1>0, <1>1 DEF EntriesGrew, EntryGrew
<1>2. PICK i \in Invocation :
        \/ \E s \in Session, subject \in Subject : Store!PrepareInvocation(i, s, subject)
        \/ Store!SaveMobileEnvelope(i)
        \/ \E state \in {"created", "unknown", "not-invoked"},
              requestId \in RequestId \cup {None} : Store!UpdateInvocation(i, state, requestId)
  BY DEF Store!InvocationNext
<1>3. ASSUME NEW s \in Session, NEW subject \in Subject,
             Store!PrepareInvocation(i, s, subject)
      PROVE  EntriesGrew
  <2>1. PICK debt \in Store!Debt :
          invocations' = [invocations EXCEPT ![i] =
            [ session |-> s, subject |-> subject, debt |-> debt, state |-> "prepared",
              requestId |-> None, mobileRequest |-> FALSE ]]
    BY <1>3 DEF Store!PrepareInvocation
  <2>2. [ session |-> s, subject |-> subject, debt |-> debt, state |-> "prepared",
          requestId |-> None, mobileRequest |-> FALSE ] \in Store!PreparedInvocation
    BY DEF Store!PreparedInvocation
  <2>3. invocations[i] = None
    BY <1>0, <1>3 DEF Store!PrepareInvocation
  <2> QED
    BY <1>1, <2>1, <2>2, <2>3
<1>4. CASE Store!SaveMobileEnvelope(i)
  <2> DEFINE entry == [invocations[i] EXCEPT !.mobileRequest = TRUE]
  <2>1. invocations' = [invocations EXCEPT ![i] = entry] /\ invocations[i] # None
    BY <1>4 DEF Store!SaveMobileEnvelope
  <2>2. entry \in Store!PreparedInvocation /\ EntryGrew(invocations[i], entry)
    BY <1>0, <2>1 DEF Store!PreparedInvocation, EntryGrew
  <2> QED
    BY <1>1, <2>1, <2>2
<1>5. ASSUME NEW state \in {"created", "unknown", "not-invoked"},
             NEW requestId \in RequestId \cup {None},
             Store!UpdateInvocation(i, state, requestId)
      PROVE  EntriesGrew
  <2> DEFINE entry == [invocations[i] EXCEPT
                         !.state = state,
                         !.requestId = IF requestId = None THEN @ ELSE requestId]
  <2>1. /\ invocations' = [invocations EXCEPT ![i] = entry] /\ invocations[i] # None
        /\ invocations[i].requestId # None => requestId \in {None, invocations[i].requestId}
    BY <1>0, <1>5 DEF Store!UpdateInvocation
  <2>2. entry \in Store!PreparedInvocation /\ EntryGrew(invocations[i], entry)
    BY <1>0, <2>1 DEF Store!PreparedInvocation, EntryGrew
  <2> QED
    BY <1>1, <2>1, <2>2
<1> QED
  BY <1>2, <1>3, <1>4, <1>5

LEMMA StoreGrows == ASSUME Inv, [StoreNext]_storeVars PROVE RowsGrew /\ EntriesGrew
<1>1. Store!RequestNext => UNCHANGED invocations
  BY DEF Store!RequestNext, Store!SaveRequestRead, Store!SaveRequestWrite, Store!Abandon,
         Store!SaveFinal, Store!SaveExternalRecovery, Store!SaveTransactionHash,
         Store!Transition, Store!Put
<1>2. Store!InvocationNext => UNCHANGED requests
  BY DEF Store!InvocationNext, Store!PrepareInvocation, Store!SaveMobileEnvelope,
         Store!UpdateInvocation
<1>3. /\ UNCHANGED requests => RowsGrew
      /\ UNCHANGED invocations => EntriesGrew
  BY DEF RowsGrew, RowGrew, EntriesGrew, EntryGrew
<1> QED
  BY <1>1, <1>2, <1>3, RequestStepGrows, InvocationStepGrows DEF StoreNext, storeVars

\* The relay and the wallet.
LEMMA RemoteGrows == ASSUME Inv, RemoteNext PROVE RelayGrew /\ WalletGrew
<1>1. PICK i \in Invocation : \/ Admit(i) \/ Deliver(i) \/ Close(i)
                              \/ \E outcome \in Outcome : Decide(i, outcome)
                              \/ \E s \in Session : Fulfil(i, s) \/ CloseGrant(i, s)
  BY DEF RemoteNext
<1>2. TypeOK /\ TypeOK'
  BY RemoteTypes DEF Inv
<1>3. CASE Admit(i)
  BY <1>2, <1>3 DEF Admit, RelayGrew, WalletGrew, TypeOK
<1>4. CASE Deliver(i) \/ Close(i)
  <2>1. PICK status \in {"answered", "closed"} : relay' = [relay EXCEPT ![i].status = status]
    BY <1>4 DEF Deliver, Close
  <2>2. relay[i] \in RelayEntry /\ [relay[i] EXCEPT !.status = status] \in RelayEntry
    BY <1>4, RelayFacts DEF Deliver, Close, RelayEntry
  <2> QED
    BY <1>2, <1>4, <2>1, <2>2, EntryAssumption
       DEF Deliver, Close, RelayGrew, WalletGrew, TypeOK, RelayEntry
<1>5. CASE \E outcome \in Outcome : Decide(i, outcome)
  BY <1>2, <1>5 DEF Decide, RelayGrew, WalletGrew, TypeOK
<1>6. CASE \E s \in Session : Fulfil(i, s) \/ CloseGrant(i, s)
  BY <1>6 DEF Fulfil, CloseGrant, RelayGrew, WalletGrew
<1> QED
  BY <1>1, <1>3, <1>4, <1>5, <1>6

LEMMA LocalSteps ==
    ASSUME [Next]_vars, ~RemoteNext
    PROVE  UNCHANGED <<relay, wallet>> /\ posted \subseteq posted'
<1> USE DEF remote
<1>1. ASSUME NEW tab \in Tab, CallNext(tab) \/ DeadlinePasses(tab)
      PROVE  UNCHANGED <<relay, wallet>> /\ posted \subseteq posted'
  BY <1>1 DEF CallNext, Prepare, Seal, Refuse, Post, PostFails, PostAnswered, SaveCall,
              LinkCall, RecordingFails, Launch, PollFinal, PollAgain, PollFails, Awake,
              CompleteCall, DeadlinePasses, SetCall, CallStep
<1>2. ASSUME NEW tab \in Tab, RecoveryNext(tab)
      PROVE  UNCHANGED <<relay, wallet, posted>>
  BY <1>2 DEF RecoveryNext, Migrate, Migrated, StartLookup, LookupAnswered, SaveLookup,
              LinkLookup, StartRelaunch, Relaunch, Replay, StartRead, StatusAnswered,
              SaveRead, Mint, GrantAnswered, SaveGranted, TellGranted, StartAcknowledge,
              Accept, Clear, Archive, Mark, RecoveryFails, Start, RecoveryStep, SetRecovery
<1>3. ASSUME \/ \E tab \in Tab : LeaveTab(tab)
             \/ \E s \in Session : Connect(s)
             \/ Disconnect \/ UNCHANGED vars
      PROVE  UNCHANGED <<relay, wallet, posted>>
  BY <1>3 DEF LeaveTab, Connect, Disconnect, vars
<1> QED
  BY <1>1, <1>2, <1>3 DEF Next

LEMMA StepGrows == ASSUME Inv, [Next]_vars PROVE Grows
<1>1. RowsGrew /\ EntriesGrew
  BY StepUsesStore, StoreGrows
<1>2. CASE RemoteNext
  <2>1. UNCHANGED posted
    BY <1>2 DEF RemoteNext, Admit, Deliver, Close, Decide, Fulfil, CloseGrant, RemoteStep
  <2> QED
    BY <1>1, <1>2, <2>1, RemoteGrows DEF Grows
<1>3. CASE ~RemoteNext
  BY <1>1, <1>3, LocalSteps DEF Grows, RelayGrew, WalletGrew
<1> QED
  BY <1>2, <1>3

------------------------------------------------------------------------------
(* What is known of such facts stays true.                                 *)

LEMMA GenuineKept ==
    ASSUME Inv, Grows, NEW r, Genuine(r)
    PROVE  Genuine(r)'
<1> QED
  BY DEF Genuine, Grows, RelayGrew, RelayScope, Store!ScopeOf

LEMMA TruthfulKept ==
    ASSUME Inv, Grows, NEW i \in Invocation, NEW e, Truthful(e, wallet[i])
    PROVE  Truthful(e, wallet'[i])
<1>1. CASE wallet[i] = None
  BY <1>1, ProofIsEvidence DEF Truthful
<1>2. CASE wallet[i] # None
  BY <1>2 DEF Grows, WalletGrew
<1> QED
  BY <1>1, <1>2

LEMMA RedeliveredKept ==
    ASSUME Inv, Grows, NEW i \in Invocation, NEW answer, Redelivered(answer, i)
    PROVE  Redelivered(answer, i)'
<1>1. CASE answer \in Snapshots
  BY <1>1, TruthfulKept DEF Redelivered
<1>2. CASE answer \notin Snapshots
  BY <1>2 DEF Redelivered, Grows, WalletGrew
<1> QED
  BY <1>1, <1>2

LEMMA RowAgreesKept ==
    ASSUME Inv, Grows, NEW scope \in Store!Scope, NEW row, RowAgrees(scope, row)
    PROVE  RowAgrees(scope, row)'
<1> DEFINE i == row.receipt.invocation
<1>1. i \in Invocation /\ Genuine(row.receipt)'
  BY GenuineKept DEF RowAgrees, Genuine
<1>2. row.final # None => wallet'[i] # None /\ SameOutcome(wallet'[i], row.final)
  BY <1>1 DEF RowAgrees, Grows, WalletGrew
<1>3. row.evidence # None => Truthful(row.evidence, wallet'[i])
  BY <1>1, TruthfulKept DEF RowAgrees
<1> QED
  BY <1>1, <1>2, <1>3 DEF RowAgrees

LEMMA TellableKept ==
    ASSUME Inv, Grows, NEW scope \in Store!Scope, NEW outcome, outcome # None,
           Tellable(scope, outcome)
    PROVE  Tellable(scope, outcome)'
<1>1. PICK i \in Invocation : /\ relay[i] # None
                              /\ RelayScope(i) = scope
                              /\ wallet[i] # None
                              /\ SameOutcome(wallet[i], outcome)
  BY DEF Tellable
<1>2. /\ relay'[i] # None /\ RelayScope(i)' = scope
      /\ wallet'[i] # None /\ SameOutcome(wallet'[i], outcome)
  BY <1>1 DEF Grows, RelayGrew, WalletGrew, RelayScope
<1>3. Row(scope) # None /\ SavedAs(Row(scope), outcome)
  BY DEF Tellable
<1>4. Row(scope)' # None /\ SavedAs(Row(scope)', outcome)
  BY <1>3 DEF SavedAs, Grows, RowsGrew, RowGrew, Row
<1>5. SameOutcome(wallet[i], outcome)'
  BY <1>2 DEF SameOutcome
<1> QED
  BY <1>2, <1>4, <1>5 DEF Tellable

LEMMA RequestKept ==
    ASSUME Inv, Grows, NEW i \in Invocation, relay[i] # None
    PROVE  /\ relay'[i] # None
           /\ RelayScope(i)' = RelayScope(i)
           /\ Row(RelayScope(i)) # None => Row(RelayScope(i))' # None
<1>1. relay'[i] # None /\ RelayScope(i)' = RelayScope(i) /\ RelayScope(i) \in Store!Scope
  BY RelayFacts DEF Grows, RelayGrew, RelayScope
<1>2. Row(RelayScope(i)) # None => requests'[RelayScope(i)] # None
  BY <1>1 DEF Grows, RowsGrew, RowGrew, Row
<1>3. Row(RelayScope(i))' = requests'[RelayScope(i)']
  BY DEF Row
<1> QED
  BY <1>1, <1>2, <1>3

------------------------------------------------------------------------------
(* Which actions change what.                                              *)

LEMMA CallChanges ==
    ASSUME NEW tab \in Tab, CallNext(tab) \/ DeadlinePasses(tab)
    PROVE  /\ \E call : calls' = [calls EXCEPT ![tab] = call]
           /\ UNCHANGED <<session, recovery, relay, wallet, grants, accepted>>
           /\ UNCHANGED posted \/ Post(tab)
           /\ UNCHANGED receipts \/ PostAnswered(tab)
           /\ UNCHANGED saving \/ PostAnswered(tab) \/ SaveCall(tab)
           /\ UNCHANGED requests \/ SaveCall(tab) \/ CompleteCall(tab)
           /\ \/ UNCHANGED invocations
              \/ \E i \in Invocation, subject \in Subject : Prepare(tab, i, subject)
              \/ Seal(tab) \/ Refuse(tab) \/ PostFails(tab) \/ LinkCall(tab)
              \/ RecordingFails(tab)
           /\ UNCHANGED launched \/ Launch(tab)
           /\ UNCHANGED told \/ CompleteCall(tab)
<1> USE DEF SetCall, CallStep, remote, storeVars, TryUpdate, Store!PrepareInvocation,
            Store!SaveMobileEnvelope, Store!UpdateInvocation, Store!SaveRequestRead,
            Store!SaveRequestWrite, Store!Abandon, Store!SaveFinal, Store!Put
<1>1. CASE \E i \in Invocation, subject \in Subject : Prepare(tab, i, subject)
  BY <1>1 DEF Prepare
<1>2. CASE Seal(tab) \/ Refuse(tab) \/ Post(tab) \/ PostFails(tab)
  BY <1>2 DEF Seal, Refuse, Post, PostFails
<1>3. CASE PostAnswered(tab) \/ SaveCall(tab) \/ LinkCall(tab)
  BY <1>3 DEF PostAnswered, SaveCall, LinkCall
<1>4. CASE RecordingFails(tab) \/ Launch(tab) \/ PollFinal(tab) \/ PollAgain(tab)
  BY <1>4 DEF RecordingFails, Launch, PollFinal, PollAgain
<1>5. CASE PollFails(tab) \/ Awake(tab) \/ CompleteCall(tab) \/ DeadlinePasses(tab)
  BY <1>5 DEF PollFails, Awake, CompleteCall, DeadlinePasses
<1> QED
  BY <1>1, <1>2, <1>3, <1>4, <1>5 DEF CallNext

LEMMA RecoveryChanges ==
    ASSUME NEW tab \in Tab, RecoveryNext(tab)
    PROVE  /\ recovery' = recovery \/ \E operation :
                                        recovery' = [recovery EXCEPT ![tab] = operation]
           /\ UNCHANGED <<session, calls, relay, wallet, posted>>
           /\ UNCHANGED grants \/ Mint(tab)
           /\ UNCHANGED receipts \/ LookupAnswered(tab) \/ Clear(tab) \/ Mark(tab)
           /\ \/ UNCHANGED saving
              \/ \E receipt \in receipts[tab] : Migrate(tab, receipt)
              \/ Migrated(tab) \/ LookupAnswered(tab) \/ SaveLookup(tab)
              \/ RecoveryFails(tab)
           /\ \/ UNCHANGED requests
              \/ Migrated(tab) \/ SaveLookup(tab) \/ SaveRead(tab) \/ SaveGranted(tab)
              \/ Accept(tab) \/ \E scope \in Store!Scope : Archive(tab, scope)
           /\ UNCHANGED invocations \/ LinkLookup(tab)
           /\ UNCHANGED launched \/ Relaunch(tab)
           /\ \/ UNCHANGED told
              \/ SaveRead(tab) \/ TellGranted(tab)
              \/ \E scope \in Store!Scope : Replay(tab, scope)
<1> USE DEF SetRecovery, RecoveryStep, Start, remote, history, tabVars, storeVars,
            Store!UpdateInvocation, Store!SaveRequestRead, Store!SaveRequestWrite,
            Store!Abandon, Store!SaveFinal, Store!SaveExternalRecovery, Store!Transition,
            Store!Put
<1>1. CASE \/ \E receipt \in receipts[tab] : Migrate(tab, receipt)
           \/ Migrated(tab) \/ LookupAnswered(tab) \/ SaveLookup(tab) \/ LinkLookup(tab)
  BY <1>1 DEF Migrate, Migrated, LookupAnswered, SaveLookup, LinkLookup
<1>2. CASE \E i \in Invocation : StartLookup(tab, i) \/ StartRelaunch(tab, i)
  BY <1>2 DEF StartLookup, StartRelaunch
<1>3. CASE \E scope \in Store!Scope : \/ Replay(tab, scope) \/ StartRead(tab, scope)
                                      \/ StartAcknowledge(tab, scope) \/ Archive(tab, scope)
  BY <1>3 DEF Replay, StartRead, StartAcknowledge, Archive
<1>4. CASE Relaunch(tab) \/ StatusAnswered(tab) \/ SaveRead(tab)
  BY <1>4 DEF Relaunch, StatusAnswered, SaveRead
<1>5. CASE Mint(tab) \/ GrantAnswered(tab) \/ SaveGranted(tab) \/ TellGranted(tab)
  BY <1>5 DEF Mint, GrantAnswered, SaveGranted, TellGranted
<1>6. CASE Accept(tab) \/ Clear(tab) \/ Mark(tab) \/ RecoveryFails(tab)
  BY <1>6 DEF Accept, Clear, Mark, RecoveryFails
<1> QED
  BY <1>1, <1>2, <1>3, <1>4, <1>5, <1>6 DEF RecoveryNext

LEMMA RemoteChanges ==
    ASSUME RemoteNext
    PROVE  UNCHANGED <<storeVars, session, tabVars, posted, launched, history>>
<1> QED
  BY DEF RemoteNext, Admit, Deliver, Close, Decide, Fulfil, CloseGrant, RemoteStep

\* The steps that are left change nothing but the session and their own tab.
LEMMA OtherChanges ==
    ASSUME \/ \E tab \in Tab : LeaveTab(tab)
           \/ \E s \in Session : Connect(s)
           \/ Disconnect \/ UNCHANGED vars
    PROVE  /\ UNCHANGED <<requests, invocations, remote, posted, launched, history>>
           /\ \/ UNCHANGED <<saving, tabVars>>
              \/ \E tab \in Tab : LeaveTab(tab)
<1> QED
  BY DEF LeaveTab, Connect, Disconnect, vars, storeVars, Store!Abandon

------------------------------------------------------------------------------
(* The invocations.                                                        *)

LEMMA UpdatedEntry ==
    ASSUME Inv, NEW j \in Invocation, NEW state \in {"created", "unknown", "not-invoked"},
           NEW requestId \in RequestId \cup {None}, TryUpdate(j, state, requestId),
           NEW i \in Invocation, invocations'[i] # invocations[i]
    PROVE  /\ i = j
           /\ invocations[i] # None
           /\ invocations'[i].state = state
           /\ invocations'[i].requestId =
                IF requestId = None THEN invocations[i].requestId ELSE requestId
<1>1. invocations \in [Invocation -> Store!PreparedInvocation \cup {None}]
  BY StoreTypes DEF Store!TypeOK
<1>2. /\ invocations[j] # None
      /\ invocations' = [invocations EXCEPT
           ![j].state = state,
           ![j].requestId = IF requestId = None THEN @ ELSE requestId]
  BY DEF TryUpdate, Store!UpdateInvocation, storeVars
<1>3. i = j
  BY <1>1, <1>2
<1> QED
  BY <1>1, <1>2, <1>3 DEF Store!PreparedInvocation

\* An entry is made by Prepare; otherwise it comes to name the request of its
\* invocation only, and to be "not-invoked" only by a call that sent nothing.
LEMMA EntryChanges ==
    ASSUME Inv, [Next]_vars, NEW i \in Invocation, invocations'[i] # invocations[i]
    PROVE  \/ /\ invocations[i] = None /\ i \notin prepared
              /\ invocations'[i].requestId = None
           \/ /\ invocations[i] # None
              /\ \/ invocations'[i].requestId = invocations[i].requestId
                 \/ /\ relay[i] # None
                    /\ invocations'[i].requestId = relay[i].requestId
              /\ \/ invocations'[i].state # "not-invoked"
                 \/ \E tab \in Tab : Refuse(tab) /\ calls[tab].invocation = i
<1> DEFINE New == /\ invocations[i] = None /\ i \notin prepared
                  /\ invocations'[i].requestId = None
           Changed == /\ invocations[i] # None
                      /\ \/ invocations'[i].requestId = invocations[i].requestId
                         \/ /\ relay[i] # None
                            /\ invocations'[i].requestId = relay[i].requestId
                      /\ \/ invocations'[i].state # "not-invoked"
                         \/ \E tab \in Tab : Refuse(tab) /\ calls[tab].invocation = i
<1>0. /\ invocations \in [Invocation -> Store!PreparedInvocation \cup {None}]
      /\ \A j \in Invocation : invocations[j] # None => j \in prepared
  BY StoreTypes DEF Store!TypeOK
<1>1. ASSUME NEW tab \in Tab, CallNext(tab)
      PROVE  New \/ Changed
  <2> DEFINE j == calls[tab].invocation
  <2>1. ASSUME NEW k \in Invocation, NEW subject \in Subject, Prepare(tab, k, subject)
        PROVE  New
    <3>1. k \notin prepared /\ \E debt : invocations' = [invocations EXCEPT ![k] =
            [ session |-> session, subject |-> subject, debt |-> debt, state |-> "prepared",
              requestId |-> None, mobileRequest |-> FALSE ]]
      BY <2>1 DEF Prepare, Store!PrepareInvocation
    <3>2. i = k
      BY <1>0, <3>1
    <3> QED
      BY <1>0, <3>1, <3>2
  <2>2. CASE Seal(tab)
    <3>1. /\ j \in Invocation /\ invocations[j] # None /\ invocations[j].state = "prepared"
          /\ invocations' = [invocations EXCEPT ![j].mobileRequest = TRUE]
      BY <2>2, CallFacts DEF Seal, InCall, Store!SaveMobileEnvelope
    <3>2. i = j
      BY <1>0, <3>1
    <3>3. invocations'[i] = [invocations[i] EXCEPT !.mobileRequest = TRUE]
      BY <1>0, <3>1, <3>2
    <3> QED
      BY <1>0, <3>1, <3>2, <3>3 DEF Store!PreparedInvocation
  <2>3. CASE Refuse(tab)
    <3>1. j \in Invocation /\ TryUpdate(j, "not-invoked", None)
      BY <2>3, CallFacts DEF Refuse, InCall
    <3> QED
      BY <2>3, <3>1, UpdatedEntry
  <2>4. CASE PostFails(tab)
    <3>1. j \in Invocation /\ TryUpdate(j, "unknown", None)
      BY <2>4, CallFacts DEF PostFails, InCall
    <3> QED
      BY <3>1, UpdatedEntry
  <2>5. CASE LinkCall(tab) \/ RecordingFails(tab)
    <3>1. j \in Invocation /\ relay[j] # None
      BY <2>5, CallFacts DEF LinkCall, RecordingFails, InCall, CallAgrees
    <3>2. relay[j].requestId \in RequestId /\ relay[j].requestId # None
      BY <3>1, RelayFacts, StoreAssumption DEF Store!RecoveryAssumption
    <3>3. PICK state \in {"created", "unknown"} : TryUpdate(j, state, relay[j].requestId)
      BY <2>5 DEF LinkCall, RecordingFails, TryUpdate
    <3> QED
      BY <3>1, <3>2, <3>3, UpdatedEntry
  <2> QED
    BY <1>1, <2>1, <2>2, <2>3, <2>4, <2>5, CallChanges
<1>2. ASSUME NEW tab \in Tab, RecoveryNext(tab)
      PROVE  New \/ Changed
  <2> DEFINE j == recovery[tab].invocation
  <2>1. LinkLookup(tab)
    BY <1>2, RecoveryChanges
  <2>2. j \in Invocation /\ relay[j] # None
    BY <2>1, RecoveryFacts DEF LinkLookup, InRecovery, RecoveryAgrees
  <2>3. relay[j].requestId \in RequestId /\ relay[j].requestId # None
    BY <2>2, RelayFacts, StoreAssumption DEF Store!RecoveryAssumption
  <2>4. TryUpdate(j, "created", relay[j].requestId)
    BY <2>1 DEF LinkLookup, TryUpdate
  <2> QED
    BY <2>2, <2>3, <2>4, UpdatedEntry
<1>3. ASSUME \/ \E tab \in Tab : DeadlinePasses(tab) \/ LeaveTab(tab)
             \/ \E s \in Session : Connect(s)
             \/ Disconnect \/ RemoteNext \/ UNCHANGED vars
      PROVE  UNCHANGED invocations
  BY <1>3, RemoteChanges, OtherChanges DEF DeadlinePasses, storeVars
<1> HIDE DEF New, Changed
<1>4. New \/ Changed
  BY <1>1, <1>2, <1>3 DEF Next
<1> QED
  BY <1>4 DEF New, Changed

LEMMA PostedIsSealedInv == ASSUME Inv, Grows, [Next]_vars PROVE PostedIsSealed'
<1>1. ASSUME NEW tab \in Tab, Refuse(tab)
      PROVE  posted' = posted /\ calls[tab].invocation \notin posted
  BY <1>1, CallFacts DEF Refuse, InCall, CallAgrees
<1>2. ASSUME NEW i \in posted'
      PROVE  i \in Invocation /\ invocations[i] # None /\ invocations[i].mobileRequest
             /\ invocations[i].state # "not-invoked"
  <2>1. CASE i \in posted
    BY <2>1 DEF Inv, TypeOK, PostedIsSealed
  <2>2. CASE i \notin posted
    <3>1. PICK tab \in Tab : Post(tab)
      BY <2>2, CallChanges, RecoveryChanges, RemoteChanges, OtherChanges DEF Next
    <3>2. i = calls[tab].invocation
      BY <2>2, <3>1 DEF Post
    <3> QED
      BY <3>1, <3>2, CallFacts DEF Post, InCall, CallAgrees
  <2> QED
    BY <2>1, <2>2
<1>3. ASSUME NEW i \in posted'
      PROVE  invocations'[i] # None /\ invocations'[i].mobileRequest
             /\ invocations'[i].state # "not-invoked"
  <2>1. invocations'[i] # None /\ invocations'[i].mobileRequest
    BY <1>2, <1>3 DEF Grows, EntriesGrew, EntryGrew
  <2>2. invocations'[i].state # "not-invoked"
    BY <1>1, <1>2, <1>3, EntryChanges
  <2> QED
    BY <2>1, <2>2
<1> QED
  BY <1>3 DEF PostedIsSealed

------------------------------------------------------------------------------
(* The relay, the wallet, and the links to them.                           *)

LEMMA Admitted ==
    ASSUME Inv, [Next]_vars, NEW i \in Invocation, relay[i] = None, relay'[i] # None
    PROVE  /\ Admit(i)
           /\ relay'[i].session = invocations[i].session
           /\ relay'[i].status = "pending"
           /\ \A j \in Invocation :
                j # i => /\ relay'[j] = relay[j]
                         /\ relay[j] # None => relay[j].requestId # relay'[i].requestId
<1>1. relay \in [Invocation -> RelayEntry \cup {None}]
  BY DEF Inv, TypeOK
<1>2. PICK k \in Invocation : Admit(k) \/ Deliver(k) \/ Close(k)
  BY LocalSteps DEF RemoteNext, Decide, Fulfil, CloseGrant
<1>3. i = k
  BY <1>1, <1>2 DEF Admit, Deliver, Close
<1>4. Admit(i)
  BY <1>1, <1>2, <1>3 DEF Deliver, Close
<1>5. PICK requestId \in RequestId :
        /\ \A j \in Invocation : relay[j] # None => relay[j].requestId # requestId
        /\ relay' = [relay EXCEPT ![i] =
             [ session |-> invocations[i].session, requestId |-> requestId,
               subject |-> invocations[i].subject, status |-> "pending" ]]
  BY <1>4 DEF Admit
<1> QED
  BY <1>1, <1>4, <1>5

LEMMA RelayAgreesInv == ASSUME Inv, Grows, [Next]_vars PROVE RelayAgrees'
<1>0. relay \in [Invocation -> RelayEntry \cup {None}] /\ RelayAgrees
      /\ wallet \in [Invocation -> Outcome \cup {None}]
  BY DEF Inv, TypeOK
<1>1. ASSUME NEW i \in Invocation, relay'[i] # None
      PROVE  i \in posted'
  <2>1. CASE relay[i] # None
    BY <1>0, <2>1 DEF RelayAgrees, Grows
  <2>2. CASE relay[i] = None
    BY <1>1, <2>2, Admitted DEF Admit, Grows
  <2> QED
    BY <2>1, <2>2
<1>2. ASSUME NEW i \in Invocation, wallet'[i] # None
      PROVE  relay'[i] # None
  <2>1. CASE wallet[i] # None
    BY <1>0, <2>1 DEF RelayAgrees, Grows, RelayGrew
  <2>2. CASE wallet[i] = None
    <3>1. PICK j \in Invocation : \E outcome \in Outcome : Decide(j, outcome)
      BY <1>2, <2>2, LocalSteps DEF RemoteNext, Admit, Deliver, Close, Fulfil, CloseGrant
    <3>2. i = j
      BY <1>0, <1>2, <2>2, <3>1 DEF Decide
    <3> QED
      BY <3>1, <3>2 DEF Decide
  <2> QED
    BY <2>1, <2>2
<1>3. ASSUME NEW i \in Invocation, relay'[i] # None, relay'[i].status = "answered"
      PROVE  wallet'[i] # None
  <2>1. relay[i] # None
    BY <1>3, Admitted
  <2>2. CASE relay[i].status = "answered"
    BY <1>0, <2>1, <2>2 DEF RelayAgrees, Grows, WalletGrew
  <2>3. CASE relay[i].status # "answered"
    <3>1. PICK j \in Invocation : Admit(j) \/ Deliver(j) \/ Close(j)
      BY <1>3, <2>3, LocalSteps DEF RemoteNext, Decide, Fulfil, CloseGrant
    <3>2. Deliver(i)
      <4>1. i = j
        BY <1>0, <1>3, <2>3, <3>1 DEF Admit, Deliver, Close
      <4>2. ~Admit(j)
        BY <2>1, <4>1 DEF Admit
      <4>3. ~Close(j)
        BY <1>0, <1>3, <2>1, <4>1 DEF Close, RelayEntry
      <4> QED
        BY <3>1, <4>1, <4>2, <4>3
    <3> QED
      BY <3>2 DEF Deliver
  <2> QED
    BY <2>2, <2>3
<1>4. ASSUME NEW i \in Invocation, NEW j \in Invocation, relay'[i] # None, relay'[j] # None,
             relay'[i].requestId = relay'[j].requestId
      PROVE  i = j
  <2>1. CASE relay[i] # None /\ relay[j] # None
    BY <1>0, <1>4, <2>1 DEF RelayAgrees, Grows, RelayGrew
  <2>2. CASE relay[i] = None \/ relay[j] = None
    BY <1>4, <2>2, Admitted
  <2> QED
    BY <2>1, <2>2
<1> QED
  BY <1>1, <1>2, <1>3, <1>4 DEF RelayAgrees

LEMMA LinksAgreeInv == ASSUME Inv, Grows, [Next]_vars PROVE LinksAgree'
<1>1. ASSUME NEW i \in Invocation, invocations'[i] # None, relay'[i] # None
      PROVE  relay'[i].session = invocations'[i].session
  <2>1. CASE relay[i] # None
    <3>1. invocations[i] # None /\ relay[i].session = invocations[i].session
      BY <2>1, RelayFacts DEF Inv, LinksAgree
    <3> QED
      BY <2>1, <3>1 DEF Grows, RelayGrew, EntriesGrew, EntryGrew
  <2>2. CASE relay[i] = None
    BY <1>1, <2>2, Admitted DEF Admit, RemoteStep, storeVars
  <2> QED
    BY <2>1, <2>2
<1>2. ASSUME NEW i \in Invocation, invocations'[i] # None, invocations'[i].requestId # None
      PROVE  relay'[i] # None /\ relay'[i].requestId = invocations'[i].requestId
  <2>1. relay[i] # None /\ relay[i].requestId = invocations'[i].requestId
    BY <1>2, EntryChanges DEF Inv, LinksAgree
  <2> QED
    BY <2>1 DEF Grows, RelayGrew
<1> QED
  BY <1>1, <1>2 DEF LinksAgree

LEMMA GrantsAgreeInv == ASSUME Inv, Grows, [Next]_vars PROVE GrantsAgree'
<1>0. grants \in [Invocation \X Session -> Grant \cup {None}] /\ GrantsAgree
  BY DEF Inv, TypeOK
<1> SUFFICES ASSUME NEW i \in Invocation, NEW s \in Session, grants'[<<i, s>>] # None,
                    grants'[<<i, s>>].status = "fulfilled",
                    NEW answer, answer = grants'[<<i, s>>].payload
             PROVE  Redelivered(answer, i)'
  BY DEF GrantsAgree, Redelivered
<1>1. CASE grants'[<<i, s>>] = grants[<<i, s>>]
  <2>1. Redelivered(answer, i)
    BY <1>0, <1>1 DEF GrantsAgree
  <2> QED
    BY <2>1, RedeliveredKept
<1>2. ASSUME NEW tab \in Tab, RecoveryNext(tab), grants'[<<i, s>>] # grants[<<i, s>>]
      PROVE  FALSE
  <2> DEFINE key == <<recovery[tab].invocation, recovery[tab].session>>
  <2>1. Mint(tab)
    BY <1>2, RecoveryChanges
  <2>2. key \in Invocation \X Session
    BY <2>1, RecoveryFacts DEF Mint, InRecovery, RecoveryAgrees
  <2>3. grants' = [grants EXCEPT ![key] =
          IF @ = None THEN [status |-> "pending", payload |-> None] ELSE @]
    BY <2>1 DEF Mint
  <2> QED
    BY <1>0, <1>2, <2>2, <2>3
<1>3. ASSUME RemoteNext, grants'[<<i, s>>] # grants[<<i, s>>]
      PROVE  answer \in Redelivers(i, s)
  <2>1. PICK j \in Invocation, t \in Session : Fulfil(j, t) \/ CloseGrant(j, t)
    BY <1>3 DEF RemoteNext, Admit, Deliver, Close, Decide
  <2>2. j = i /\ t = s
    BY <1>0, <1>3, <2>1 DEF Fulfil, CloseGrant
  <2>3. Fulfil(i, s)
    BY <1>0, <2>1, <2>2 DEF CloseGrant
  <2> QED
    BY <1>0, <2>3 DEF Fulfil
<1>4. ASSUME NEW payload \in Redelivers(i, s)
      PROVE  Redelivered(payload, i)
  <2>1. CASE s \in Capable /\ Recoverable(relay[i].subject)
    BY <1>4, <2>1 DEF Redelivers, Redelivered
  <2>2. CASE ~(s \in Capable /\ Recoverable(relay[i].subject))
    <3>1. payload = wallet[i] /\ payload # None /\ payload # Store!NotSubmitted
      BY <1>4, <2>2 DEF Redelivers
    <3>2. payload \in Store!Final
      BY <3>1, OutcomeKinds DEF Inv, TypeOK
    <3>3. payload \notin Snapshots
      BY <3>2, EvidenceIsNoFinal, SnapshotAssumption
    <3> QED
      BY <3>1, <3>3 DEF Redelivered
  <2> QED
    BY <2>1, <2>2
<1>5. CASE grants'[<<i, s>>] # grants[<<i, s>>]
  <2>1. RemoteNext
    BY <1>2, <1>5, CallChanges, OtherChanges DEF Next, remote
  <2>2. answer \in Redelivers(i, s)
    BY <1>3, <1>5, <2>1
  <2> QED
    BY <1>4, <2>2, RedeliveredKept
<1> QED
  BY <1>1, <1>5

------------------------------------------------------------------------------
(* The calls.                                                              *)

\* A call that waits knows what it knew.
LEMMA CallKept ==
    ASSUME Inv, Grows, NEW call \in Call, NEW save, NEW save2 \in {None, save},
           CallAgrees(call, save),
           call.step \in {"hook", "sealed"} =>
             /\ call.invocation \notin posted'
             /\ invocations'[call.invocation].state # "not-invoked"
    PROVE  CallAgrees(call, save2)'
<1> DEFINE i == call.invocation
<1>0. i \in Invocation
  BY DEF Call
<1>1. call.step \in {"hook", "sealed"} =>
        /\ i \notin posted'
        /\ invocations'[i] # None
        /\ invocations'[i].state # "not-invoked"
        /\ call.step = "sealed" => invocations'[i].mobileRequest
  BY <1>0 DEF CallAgrees, Grows, EntriesGrew, EntryGrew
<1>2. call.step \notin {"hook", "sealed"} => i \in posted'
  BY DEF CallAgrees, Grows
<1>3. relay[i] # None =>
        /\ relay'[i] # None
        /\ RelayScope(i)' = RelayScope(i)
        /\ Row(RelayScope(i)) # None => Row(RelayScope(i))' # None
  BY <1>0, RequestKept
<1>4. call.step \notin {"hook", "sealed", "posting"} => relay'[i] # None
  BY <1>3 DEF CallAgrees
<1>5. call.step = "saving" /\ save2 # None => Store!ScopeOf(save2.receipt) = RelayScope(i)'
  BY <1>3 DEF CallAgrees
<1>6. call.step \in {"linking", "launching"} => Row(RelayScope(i))' # None
  BY <1>3 DEF CallAgrees
<1>7. call.step = "completing" /\ call.outcome # None => call.outcome = wallet'[i]
  BY <1>0 DEF CallAgrees, Grows, WalletGrew
<1> QED
  BY <1>1, <1>2, <1>4, <1>5, <1>6, <1>7 DEF CallAgrees, Store!ScopeOf

\* Only the call's own steps touch what it saves.
LEMMA CallSaves ==
    ASSUME Inv, [Next]_vars, NEW tab \in Tab, ~PostAnswered(tab)
    PROVE  saving'[<<tab, "call">>] \in {None, saving[<<tab, "call">>]}
<1> DEFINE task == <<tab, "call">>
<1>0. saving \in [Tab \X {"call", "recovery"} ->
                   [receipt : Store!Receipt, debt : Store!Debt] \cup {None}]
  BY StoreTypes DEF Store!TypeOK
<1>1. ASSUME NEW t \in Tab, CallNext(t) \/ DeadlinePasses(t)
      PROVE  saving'[task] \in {None, saving[task]}
  <2>1. CASE SaveCall(t)
    BY <1>0, <2>1 DEF SaveCall, CallTask, Store!SaveRequestWrite, Store!Abandon
  <2>2. CASE PostAnswered(t)
    BY <1>0, <2>2 DEF PostAnswered, CallTask, Store!SaveRequestRead, storeVars
  <2> QED
    BY <1>1, <2>1, <2>2, CallChanges
<1>2. ASSUME NEW t \in Tab, RecoveryNext(t)
      PROVE  saving'[task] \in {None, saving[task]}
  <2>1. CASE (\E receipt \in receipts[t] : Migrate(t, receipt)) \/ LookupAnswered(t)
    BY <1>0, <2>1 DEF Migrate, LookupAnswered, RecoveryTask, Store!SaveRequestRead
  <2>2. CASE Migrated(t) \/ SaveLookup(t) \/ RecoveryFails(t)
    BY <1>0, <2>2
       DEF Migrated, SaveLookup, RecoveryFails, RecoveryTask, Store!SaveRequestWrite,
           Store!Abandon
  <2> QED
    BY <1>2, <2>1, <2>2, RecoveryChanges
<1>3. ASSUME NEW t \in Tab, LeaveTab(t)
      PROVE  saving'[task] \in {None, saving[task]}
  BY <1>0, <1>3 DEF LeaveTab, Store!Abandon
<1> QED
  BY <1>1, <1>2, <1>3, RemoteChanges, OtherChanges DEF Next, storeVars

\* A call that did not send is neither sent nor refused by another call.
LEMMA CallUndisturbed ==
    ASSUME Inv, Grows, [Next]_vars, NEW tab \in Tab, calls[tab] # None,
           calls'[tab] = calls[tab], calls[tab].step \in {"hook", "sealed"}
    PROVE  /\ calls[tab].invocation \notin posted'
           /\ invocations'[calls[tab].invocation].state # "not-invoked"
<1> DEFINE i == calls[tab].invocation
<1>0. /\ i \in Invocation /\ i \notin posted
      /\ invocations[i] # None /\ invocations[i].state # "not-invoked"
      /\ calls \in [Tab -> Call \cup {None}]
  BY CallFacts DEF CallAgrees, Inv, TypeOK
<1>1. ASSUME NEW t \in Tab, Post(t) \/ Refuse(t)
      PROVE  calls[t].invocation # i
  <2>1. calls[t] # None /\ t # tab
    BY <1>0, <1>1, EntryAssumption
       DEF Post, Refuse, InCall, SetCall, CallStep, Call
  <2> QED
    BY <2>1 DEF Inv, OneCallEach
<1>2. i \notin posted'
  <2>1. ASSUME NEW t \in Tab, Post(t)
        PROVE  i \notin posted'
    BY <1>0, <1>1, <2>1 DEF Post
  <2> QED
    BY <1>0, <2>1, CallChanges, RecoveryChanges, RemoteChanges, OtherChanges DEF Next
<1>3. invocations'[i].state # "not-invoked"
  BY <1>0, <1>1, EntryChanges
<1> QED
  BY <1>2, <1>3

\* What the steps of a call add.
LEMMA PrepareAgrees ==
    ASSUME Inv, Grows, NEW tab \in Tab, NEW i \in Invocation, NEW subject \in Subject,
           Prepare(tab, i, subject), NEW call, call = calls'[tab], NEW save
    PROVE  /\ CallAgrees(call, save)'
           /\ call.invocation = i
           /\ i \notin prepared
<1>1. call = [step |-> "hook", invocation |-> i, outcome |-> None, late |-> FALSE]
  BY DEF Prepare, SetCall, Inv, TypeOK
<1>2. i \notin prepared /\ posted' = posted
  BY DEF Prepare, Store!PrepareInvocation
<1>3. i \notin posted
  BY <1>2, StoreTypes DEF Inv, PostedIsSealed
<1>4. invocations'[i].state = "prepared" /\ invocations'[i] # None
  <2>1. PICK debt \in Store!Debt : invocations' = [invocations EXCEPT ![i] =
          [ session |-> session, subject |-> subject, debt |-> debt, state |-> "prepared",
            requestId |-> None, mobileRequest |-> FALSE ]]
    BY DEF Prepare, Store!PrepareInvocation
  <2>2. session \in Session
    BY DEF Prepare, Inv, TypeOK
  <2>3. [ session |-> session, subject |-> subject, debt |-> debt, state |-> "prepared",
          requestId |-> None, mobileRequest |-> FALSE ] \in Store!PreparedInvocation
    BY <2>2 DEF Store!PreparedInvocation
  <2> QED
    BY <2>1, <2>3, StoreTypes, StoreAssumption DEF Store!TypeOK, Store!RecoveryAssumption
<1> QED
  BY <1>1, <1>2, <1>3, <1>4 DEF CallAgrees

LEMMA SaveOpensRow ==
    ASSUME Inv, NEW task \in Tab \X {"call", "recovery"}, Store!SaveRequestWrite(task)
    PROVE  /\ saving[task] # None
           /\ Store!ScopeOf(saving[task].receipt) \in Store!Scope
           /\ requests'[Store!ScopeOf(saving[task].receipt)] # None
<1> DEFINE save == saving[task]
           scope == Store!ScopeOf(save.receipt)
<1>1. /\ requests \in [Store!Scope -> Store!Request \cup {None}]
      /\ save \in [receipt : Store!Receipt, debt : Store!Debt]
      /\ now \in Nat
      /\ None \notin Store!Request
  BY StoreTypes, StoreAssumption
     DEF Store!TypeOK, Store!SaveRequestWrite, Store!RecoveryAssumption
<1>2. scope \in Store!Scope
  BY <1>1 DEF Store!Receipt, Store!ScopeOf, Store!Scope
<1>3. Store!NewRow(save) \in Store!Request
  BY <1>1 DEF Store!NewRow, Store!Request
<1> QED
  BY <1>1, <1>2, <1>3 DEF Store!SaveRequestWrite

LEMMA CallMovesAgree ==
    ASSUME Inv, Grows, NEW tab \in Tab, CallNext(tab) \/ DeadlinePasses(tab), calls[tab] # None,
           NEW i, i = calls[tab].invocation,
           NEW call, call = calls'[tab], call # None,
           NEW save, save = saving'[<<tab, "call">>]
    PROVE  CallAgrees(call, save)' /\ call.invocation = i
<1> DEFINE task == <<tab, "call">>
<1> USE DEF InCall, SetCall, CallStep
<1>0. /\ calls[tab] \in Call /\ i \in Invocation
      /\ CallAgrees(calls[tab], saving[task])
      /\ calls \in [Tab -> Call \cup {None}]
  BY CallFacts DEF Inv, TypeOK
<1>1. relay[i] # None =>
        /\ relay'[i] # None
        /\ RelayScope(i)' = RelayScope(i)
        /\ Row(RelayScope(i)) # None => Row(RelayScope(i))' # None
  BY <1>0, RequestKept
<1>2. i \in posted => i \in posted'
  BY DEF Grows
<1>3. ASSUME NEW step, call = [calls[tab] EXCEPT !.step = step]
      PROVE  call.invocation = i /\ call.step = step
  BY <1>0, <1>3 DEF Call
<1>4. CASE Seal(tab)
  <2>1. call = [calls[tab] EXCEPT !.step = "sealed"] /\ UNCHANGED posted
    BY <1>0, <1>4 DEF Seal
  <2>2. /\ invocations[i] # None /\ invocations[i].state = "prepared"
        /\ invocations' = [invocations EXCEPT ![i].mobileRequest = TRUE]
    BY <1>4 DEF Seal, Store!SaveMobileEnvelope
  <2>3. invocations'[i].state = "prepared" /\ invocations'[i].mobileRequest
    BY <1>0, <2>2, StoreTypes DEF Store!TypeOK, Store!PreparedInvocation
  <2>4. invocations'[i] # None
    BY <1>0, <2>2 DEF Grows, EntriesGrew, EntryGrew
  <2> QED
    BY <1>0, <1>3, <1>4, <2>1, <2>3, <2>4 DEF CallAgrees, Seal
<1>5. CASE Post(tab)
  <2>1. call = [calls[tab] EXCEPT !.step = "posting"] /\ i \in posted'
    BY <1>0, <1>5 DEF Post
  <2> QED
    BY <1>3, <2>1 DEF CallAgrees
<1>6. CASE PostAnswered(tab)
  <2>1. i \in posted' /\ relay[i] # None
    BY <1>0, <1>2, <1>6 DEF PostAnswered, CallAgrees
  <2>2. CASE call = [calls[tab] EXCEPT !.step = "unsaved"]
    BY <1>1, <1>3, <2>1, <2>2 DEF CallAgrees
  <2>3. CASE /\ call = [calls[tab] EXCEPT !.step = "saving"]
             /\ Store!SaveRequestRead(CallTask(tab), ReceiptOf(i))
    <3>1. save.receipt = ReceiptOf(i)
      BY <2>3, StoreTypes DEF Store!SaveRequestRead, Store!TypeOK, CallTask
    <3>2. Store!ScopeOf(ReceiptOf(i)) = RelayScope(i)
      BY DEF ReceiptOf, RelayScope, Store!ScopeOf
    <3>3. call.step = "saving" /\ call.invocation = i
      BY <1>3, <2>3
    <3> QED
      BY <1>1, <2>1, <3>1, <3>2, <3>3 DEF CallAgrees, Store!ScopeOf
  <2> QED
    BY <1>0, <1>6, <2>2, <2>3 DEF PostAnswered
<1>7. CASE SaveCall(tab)
  <2>1. i \in posted' /\ relay[i] # None
    BY <1>0, <1>2, <1>7 DEF SaveCall, CallAgrees
  <2>2. CASE call = [calls[tab] EXCEPT !.step = "unsaved"]
    BY <1>1, <1>3, <2>1, <2>2 DEF CallAgrees
  <2>3. CASE call = [calls[tab] EXCEPT !.step = "linking"] /\ Store!SaveRequestWrite(task)
    <3>1. task \in Tab \X {"call", "recovery"}
      OBVIOUS
    <3>2. Store!ScopeOf(saving[task].receipt) = RelayScope(i)
      BY <1>0, <1>7, <3>1, <2>3, SaveOpensRow DEF SaveCall, CallAgrees
    <3>3. Row(RelayScope(i))' # None
      BY <1>1, <2>1, <2>3, <3>1, <3>2, SaveOpensRow DEF Row
    <3>4. call.step = "linking" /\ call.invocation = i
      BY <1>3, <2>3
    <3> QED
      BY <1>1, <2>1, <3>3, <3>4 DEF CallAgrees
  <2> QED
    BY <1>0, <1>7, <2>2, <2>3 DEF SaveCall, CallTask
<1>8. CASE LinkCall(tab)
  <2>1. call = [calls[tab] EXCEPT !.step = "launching"]
    BY <1>0, <1>8 DEF LinkCall
  <2>2. i \in posted' /\ relay'[i] # None /\ Row(RelayScope(i))' # None
    BY <1>0, <1>1, <1>2, <1>8 DEF LinkCall, CallAgrees
  <2>3. call.step = "launching" /\ call.invocation = i
    BY <1>3, <2>1
  <2> QED
    BY <2>2, <2>3 DEF CallAgrees
<1>9. CASE Launch(tab) \/ PollAgain(tab) \/ Awake(tab)
  <2>1. PICK step \in {"polling", "sleeping", "last"} :
          call = [calls[tab] EXCEPT !.step = step]
    BY <1>0, <1>9 DEF Launch, PollAgain, Awake
  <2>2. i \in posted' /\ relay'[i] # None
    BY <1>0, <1>1, <1>2, <1>9 DEF Launch, PollAgain, Awake, CallAgrees
  <2>3. call.step = step /\ call.invocation = i
    BY <1>3, <2>1
  <2> QED
    BY <2>1, <2>2, <2>3 DEF CallAgrees
<1>10. CASE DeadlinePasses(tab)
  <2>1. call = [calls[tab] EXCEPT !.late = TRUE]
    BY <1>0, <1>10 DEF DeadlinePasses
  <2>2. i \in posted' /\ relay'[i] # None
    BY <1>0, <1>1, <1>2, <1>10 DEF DeadlinePasses, CallAgrees
  <2>3. call.step \in {"polling", "sleeping"} /\ call.invocation = i
    BY <1>0, <1>10, <2>1 DEF DeadlinePasses, Call
  <2> QED
    BY <2>2, <2>3 DEF CallAgrees
<1>11. CASE PollFinal(tab)
  <2>1. call = [calls[tab] EXCEPT !.step = "completing", !.outcome = DecodedResult(i)]
    BY <1>0, <1>11 DEF PollFinal
  <2>2. i \in posted' /\ relay'[i] # None
    BY <1>0, <1>1, <1>2, <1>11 DEF PollFinal, CallAgrees
  <2>3. call.step = "completing" /\ call.invocation = i /\ call.outcome = DecodedResult(i)
    BY <1>0, <2>1 DEF Call
  <2>4. DecodedResult(i) # None => DecodedResult(i) = wallet'[i]
    BY <1>0, DecodedIsOutcome DEF Grows, WalletGrew
  <2> QED
    BY <2>2, <2>3, <2>4 DEF CallAgrees
<1>12. CASE Refuse(tab) \/ PostFails(tab) \/ RecordingFails(tab) \/ PollFails(tab)
            \/ CompleteCall(tab)
  BY <1>0, <1>12 DEF Refuse, PostFails, RecordingFails, PollFails, CompleteCall
<1>13. ~\E j \in Invocation, subject \in Subject : Prepare(tab, j, subject)
  BY DEF Prepare
<1> QED
  BY <1>4, <1>5, <1>6, <1>7, <1>8, <1>9, <1>10, <1>11, <1>12, <1>13 DEF CallNext

\* A tab whose call changes makes a step of it, or is left.
LEMMA CallSteps ==
    ASSUME Inv, [Next]_vars, NEW tab \in Tab, calls'[tab] # calls[tab], calls'[tab] # None
    PROVE  CallNext(tab) \/ DeadlinePasses(tab)
<1>0. calls \in [Tab -> Call \cup {None}]
  BY DEF Inv, TypeOK
<1>1. ASSUME NEW t \in Tab, t # tab, CallNext(t) \/ DeadlinePasses(t)
      PROVE  FALSE
  BY <1>0, <1>1, CallChanges
<1>2. ASSUME NEW t \in Tab, LeaveTab(t)
      PROVE  FALSE
  BY <1>0, <1>2 DEF LeaveTab
<1> QED
  BY <1>1, <1>2, RecoveryChanges, RemoteChanges, OtherChanges DEF Next, tabVars

LEMMA CallsKnowInv == ASSUME Inv, Grows, [Next]_vars PROVE CallsKnow'
<1> SUFFICES ASSUME NEW tab \in Tab, NEW call, call = calls'[tab], call # None,
                    NEW save, save = saving'[<<tab, "call">>]
             PROVE  CallAgrees(call, save)'
  BY DEF CallsKnow, CallAgrees
<1>1. CASE calls'[tab] = calls[tab]
  <2>1. call \in Call /\ CallAgrees(call, saving[<<tab, "call">>])
    BY <1>1, CallFacts
  <2>2. ~PostAnswered(tab)
    <3>1. PostAnswered(tab) =>
            /\ calls[tab].step = "posting"
            /\ \E step \in {"saving", "unsaved"} :
                 calls'[tab] = [calls[tab] EXCEPT !.step = step]
      BY DEF PostAnswered, InCall, CallStep, SetCall, Inv, TypeOK
    <3> QED
      BY <1>1, <2>1, <3>1 DEF Call
  <2>3. save \in {None, saving[<<tab, "call">>]}
    BY <2>2, CallSaves
  <2> QED
    BY <1>1, <2>1, <2>3, CallKept, CallUndisturbed
<1>2. CASE calls'[tab] # calls[tab]
  <2>1. CallNext(tab) \/ DeadlinePasses(tab)
    BY <1>2, CallSteps
  <2>2. CASE calls[tab] = None
    <3>1. PICK i \in Invocation, subject \in Subject : Prepare(tab, i, subject)
      BY <2>1, <2>2
         DEF CallNext, DeadlinePasses, InCall, Seal, Refuse, Post, PostFails, PostAnswered,
             SaveCall, LinkCall, RecordingFails, Launch, PollFinal, PollAgain, PollFails,
             Awake, CompleteCall
    <3> QED
      BY <3>1, PrepareAgrees
  <2> QED
    BY <2>1, <2>2, CallMovesAgree
<1> QED
  BY <1>1, <1>2

LEMMA OneCallEachInv == ASSUME Inv, Grows, [Next]_vars PROVE OneCallEach'
<1>0. calls \in [Tab -> Call \cup {None}]
  BY DEF Inv, TypeOK
<1> DEFINE Same(tab) == calls[tab] # None /\ calls'[tab].invocation = calls[tab].invocation
           New(tab) == \E i \in Invocation, subject \in Subject : Prepare(tab, i, subject)
<1>1. ASSUME NEW tab \in Tab, calls'[tab] # None
      PROVE  Same(tab) \/ New(tab)
  <2>1. CASE calls'[tab] = calls[tab]
    BY <1>1, <2>1
  <2>2. CASE calls'[tab] # calls[tab]
    <3>1. CallNext(tab) \/ DeadlinePasses(tab)
      BY <1>1, <2>2, CallSteps
    <3>2. CASE calls[tab] # None
      BY <1>1, <3>1, <3>2, CallMovesAgree
    <3>3. CASE calls[tab] = None
      BY <3>1, <3>3
         DEF CallNext, DeadlinePasses, InCall, Seal, Refuse, Post, PostFails, PostAnswered,
             SaveCall, LinkCall, RecordingFails, Launch, PollFinal, PollAgain, PollFails,
             Awake, CompleteCall
    <3> QED
      BY <3>2, <3>3
  <2> QED
    BY <2>1, <2>2
<1>2. ASSUME NEW tab \in Tab, New(tab), NEW tab2 \in Tab, tab2 # tab, calls'[tab2] # None
      PROVE  calls'[tab].invocation # calls'[tab2].invocation
  <2>1. calls'[tab2] = calls[tab2]
    BY <1>0, <1>2 DEF Prepare, SetCall
  <2>2. calls'[tab2].invocation \in prepared
    BY <1>2, <2>1, CallFacts
  <2>3. calls'[tab].invocation \notin prepared
    BY <1>2, PrepareAgrees
  <2> QED
    BY <2>2, <2>3
<1>3. ASSUME NEW tab \in Tab, NEW tab2 \in Tab, Same(tab), Same(tab2), tab2 # tab
      PROVE  calls'[tab].invocation # calls'[tab2].invocation
  BY <1>3 DEF Inv, OneCallEach
<1> HIDE DEF Same, New
<1> QED
  BY <1>1, <1>2, <1>3 DEF OneCallEach

------------------------------------------------------------------------------
(* The receipts of the tabs and the saves under way.                       *)

LEMMA RelayReceipt ==
    ASSUME Inv, NEW i \in Invocation, relay[i] # None
    PROVE  Genuine(ReceiptOf(i))
<1> QED
  BY DEF Genuine, ReceiptOf, RelayScope, Store!ScopeOf

LEMMA ReceiptsInv == ASSUME Inv, Grows, [Next]_vars PROVE ReceiptsAreGenuine'
<1>0. /\ receipts \in [Tab -> SUBSET MobileReceipt]
      /\ \A tab \in Tab : \A r \in receipts[tab] : Genuine(r)
  BY DEF Inv, TypeOK, ReceiptsAreGenuine
<1> SUFFICES ASSUME NEW tab \in Tab, NEW r \in receipts'[tab]
             PROVE  Genuine(r)
  BY GenuineKept DEF ReceiptsAreGenuine
<1>1. ASSUME NEW i \in Invocation, relay[i] # None, NEW t \in Tab, Keep(t, ReceiptOf(i))
      PROVE  Genuine(r)
  <2>1. r \in receipts[tab] \/ r = ReceiptOf(i)
    BY <1>0, <1>1 DEF Keep
  <2> QED
    BY <1>0, <1>1, <2>1, RelayReceipt
<1>2. ASSUME NEW t \in Tab, CallNext(t) \/ DeadlinePasses(t)
      PROVE  Genuine(r)
  <2>1. CASE UNCHANGED receipts
    BY <1>0, <2>1
  <2>2. CASE PostAnswered(t) /\ ~UNCHANGED receipts
    <3>1. calls[t].invocation \in Invocation /\ relay[calls[t].invocation] # None
      BY <2>2, CallFacts DEF PostAnswered, InCall
    <3> QED
      BY <1>1, <2>2, <3>1 DEF PostAnswered
  <2> QED
    BY <1>2, <2>1, <2>2, CallChanges
<1>3. ASSUME NEW t \in Tab, RecoveryNext(t)
      PROVE  Genuine(r)
  <2>1. CASE UNCHANGED receipts
    BY <1>0, <2>1
  <2>2. CASE LookupAnswered(t)
    <3>1. recovery[t].invocation \in Invocation /\ relay[recovery[t].invocation] # None
      BY <2>2, RecoveryFacts DEF LookupAnswered, InRecovery, RecoveryAgrees
    <3> QED
      BY <1>1, <2>2, <3>1 DEF LookupAnswered
  <2>3. CASE Clear(t)
    BY <1>0, <2>3 DEF Clear
  <2>4. CASE Mark(t)
    <3>1. PICK r0 \in receipts[tab] : r = r0 \/ r = [r0 EXCEPT !.archived = TRUE]
      BY <1>0, <2>4 DEF Mark
    <3>2. Genuine(r0) /\ r0 \in MobileReceipt
      BY <1>0
    <3> QED
      BY <3>1, <3>2 DEF Genuine, MobileReceipt, Store!ScopeOf
  <2> QED
    BY <1>3, <2>1, <2>2, <2>3, <2>4, RecoveryChanges
<1>4. ASSUME NEW t \in Tab, LeaveTab(t)
      PROVE  Genuine(r)
  BY <1>0, <1>4 DEF LeaveTab
<1> QED
  BY <1>0, <1>2, <1>3, <1>4, RemoteChanges, OtherChanges DEF Next, tabVars

LEMMA SavesInv == ASSUME Inv, Grows, [Next]_vars PROVE SavesAreGenuine'
<1>0. /\ saving \in [Tab \X {"call", "recovery"} ->
                      [receipt : Store!Receipt, debt : Store!Debt] \cup {None}]
      /\ \A task \in Tab \X {"call", "recovery"} :
           saving[task] # None => Genuine(saving[task].receipt)
  BY StoreTypes DEF Store!TypeOK, Inv, SavesAreGenuine
<1> SUFFICES ASSUME NEW task \in Tab \X {"call", "recovery"}, NEW save,
                    save = saving'[task], save # None
             PROVE  Genuine(save.receipt)
  BY GenuineKept DEF SavesAreGenuine, Genuine
<1>1. ASSUME NEW t \in Tab \X {"call", "recovery"}, NEW receipt, Genuine(receipt),
             Store!SaveRequestRead(t, receipt)
      PROVE  Genuine(save.receipt)
  BY <1>0, <1>1 DEF Store!SaveRequestRead
<1>2. ASSUME NEW t \in Tab, CallNext(t) \/ DeadlinePasses(t)
      PROVE  Genuine(save.receipt)
  <2>1. CASE UNCHANGED saving
    BY <1>0, <2>1
  <2>2. CASE PostAnswered(t) /\ ~UNCHANGED saving
    <3>1. Genuine(ReceiptOf(calls[t].invocation))
      BY <2>2, CallFacts, RelayReceipt DEF PostAnswered, InCall
    <3>2. Store!SaveRequestRead(<<t, "call">>, ReceiptOf(calls[t].invocation))
      BY <2>2 DEF PostAnswered, CallTask, storeVars
    <3> QED
      BY <1>1, <3>1, <3>2
  <2>3. CASE SaveCall(t)
    BY <1>0, <2>3 DEF SaveCall, CallTask, Store!SaveRequestWrite, Store!Abandon
  <2> QED
    BY <1>2, <2>1, <2>2, <2>3, CallChanges
<1>3. ASSUME NEW t \in Tab, RecoveryNext(t)
      PROVE  Genuine(save.receipt)
  <2>1. CASE UNCHANGED saving
    BY <1>0, <2>1
  <2>2. ASSUME NEW receipt \in receipts[t], Migrate(t, receipt)
        PROVE  Genuine(save.receipt)
    <3>1. Genuine(receipt)
      BY DEF Inv, ReceiptsAreGenuine
    <3> QED
      BY <1>1, <2>2, <3>1 DEF Migrate, RecoveryTask
  <2>3. CASE LookupAnswered(t)
    <3>1. recovery[t].invocation \in Invocation /\ relay[recovery[t].invocation] # None
      BY <2>3, RecoveryFacts DEF LookupAnswered, InRecovery, RecoveryAgrees
    <3> QED
      BY <1>1, <2>3, <3>1, RelayReceipt DEF LookupAnswered, RecoveryTask
  <2>4. CASE Migrated(t) \/ SaveLookup(t) \/ RecoveryFails(t)
    BY <1>0, <2>4
       DEF Migrated, SaveLookup, RecoveryFails, RecoveryTask, Store!SaveRequestWrite,
           Store!Abandon
  <2> QED
    BY <1>3, <2>1, <2>2, <2>3, <2>4, RecoveryChanges
<1>4. ASSUME NEW t \in Tab, LeaveTab(t)
      PROVE  Genuine(save.receipt)
  BY <1>0, <1>4 DEF LeaveTab, Store!Abandon
<1> QED
  BY <1>0, <1>2, <1>3, <1>4, RemoteChanges, OtherChanges DEF Next, storeVars

------------------------------------------------------------------------------
(* The rows: what each write adds to one.                                  *)

LEMMA RowsOpened ==
    ASSUME Inv, Grows, NEW task \in Tab \X {"call", "recovery"}, Store!SaveRequestWrite(task)
    PROVE  RowsAgree'
<1> DEFINE save == saving[task]
           opened == Store!ScopeOf(save.receipt)
<1>0. requests \in [Store!Scope -> Store!Request \cup {None}]
  BY StoreTypes DEF Store!TypeOK
<1> SUFFICES ASSUME NEW scope \in Store!Scope, NEW row, row = requests'[scope], row # None
             PROVE  RowAgrees(scope, row)
  BY RowAgreesKept DEF RowsAgree, Row, RowAgrees, Genuine
<1>1. CASE row = requests[scope]
  BY <1>1 DEF Inv, RowsAgree, Row
<1>2. CASE row # requests[scope]
  <2>1. scope = opened /\ row = Store!NewRow(save)
    BY <1>0, <1>2 DEF Store!SaveRequestWrite
  <2>2. Genuine(save.receipt)
    BY SaveOpensRow DEF Inv, SavesAreGenuine
  <2> QED
    BY <2>1, <2>2 DEF Store!NewRow, RowAgrees
<1> QED
  BY <1>1, <1>2

LEMMA RowsPut ==
    ASSUME Inv, Grows, NEW scope \in Store!Scope, NEW row \in Store!Request,
           Store!Put(scope, row), RowAgrees(scope, row)
    PROVE  RowsAgree'
<1>0. requests \in [Store!Scope -> Store!Request \cup {None}]
  BY StoreTypes DEF Store!TypeOK
<1> SUFFICES ASSUME NEW s \in Store!Scope, NEW row2, row2 = requests'[s], row2 # None
             PROVE  RowAgrees(s, row2)
  BY RowAgreesKept DEF RowsAgree, Row, RowAgrees, Genuine
<1>1. CASE row2 = requests[s]
  BY <1>1 DEF Inv, RowsAgree, Row
<1>2. CASE row2 # requests[s]
  <2>1. s = scope /\ row2 = [row EXCEPT !.updatedAt = now]
    BY <1>0, <1>2 DEF Store!Put
  <2> QED
    BY <2>1 DEF RowAgrees, Store!Request
<1> QED
  BY <1>1, <1>2

\* A put row, whatever its stamp, has the outcome that was put.
LEMMA PutOutcome ==
    ASSUME Inv, NEW scope \in Store!Scope, NEW row \in Store!Request, Store!Put(scope, row)
    PROVE  /\ requests'[scope] # None
           /\ requests'[scope].final = row.final
           /\ Store!VerifiedNotSubmitted(row) =>
                Store!VerifiedNotSubmitted(requests'[scope])
<1>1. /\ requests \in [Store!Scope -> Store!Request \cup {None}]
      /\ None \notin Store!Request /\ now \in Nat
  BY StoreTypes, StoreAssumption DEF Store!TypeOK, Store!RecoveryAssumption
<1>2. requests'[scope] \in {row, [row EXCEPT !.updatedAt = now]}
  BY <1>1 DEF Store!Put
<1> QED
  BY <1>1, <1>2 DEF Store!Request, Store!VerifiedNotSubmitted, Store!Failed

\* The request ids of the relay are unique: a row's invocation is the one of
\* its request.
LEMMA RowInvocation ==
    ASSUME Inv, NEW i \in Invocation, relay[i] # None, Row(RelayScope(i)) # None
    PROVE  Row(RelayScope(i)).receipt.invocation = i
<1>1. RelayScope(i) \in Store!Scope
  BY RelayFacts
<1> QED
  BY <1>1, RowFacts DEF Inv, RelayAgrees, RelayScope

LEMMA FinalSaved ==
    ASSUME Inv, Grows, NEW i \in Invocation, relay[i] # None,
           NEW scope, scope = RelayScope(i), NEW outcome, outcome # None,
           outcome = wallet[i], Store!SaveFinal(scope, outcome)
    PROVE  RowsAgree' /\ Tellable(scope, outcome)'
<1> DEFINE row == requests[scope]
           row2 == [row EXCEPT !.final = outcome]
<1>1. scope \in Store!Scope /\ row # None
  BY RelayFacts DEF Store!SaveFinal
<1>2. /\ row \in Store!Request /\ RowAgrees(scope, row)
      /\ row.receipt.invocation = i
  BY <1>1, RowFacts, RowInvocation DEF Row
<1>3. outcome \in Store!Final /\ outcome # Store!NotSubmitted
  BY <1>1, SavedFinalIsFinal, ProofIsEvidence, EvidenceIsNoFinal
<1>4. row2 \in Store!Request /\ Store!Put(scope, row2) /\ row2.final = outcome
  BY <1>2, <1>3 DEF Store!Request, Store!SaveFinal
<1>5. SameOutcome(wallet[i], outcome)
  BY DEF SameOutcome
<1>6. RowAgrees(scope, row2)
  BY <1>2, <1>5 DEF RowAgrees, Store!Request
<1>7. RowsAgree'
  BY <1>1, <1>4, <1>6, RowsPut
<1>8. requests'[scope] # None /\ requests'[scope].final = outcome
  BY <1>1, <1>4, PutOutcome
<1>9. /\ relay'[i] # None /\ RelayScope(i)' = scope
      /\ wallet'[i] # None /\ SameOutcome(wallet'[i], outcome)
  BY <1>5, RequestKept DEF Grows, WalletGrew
<1>10. Tellable(scope, outcome)'
  BY <1>3, <1>8, <1>9 DEF Tellable, SavedAs, Row, SameOutcome
<1> QED
  BY <1>7, <1>10

LEMMA TransitionSaved ==
    ASSUME Inv, Grows, NEW scope \in Store!Scope, NEW state \in {"acknowledged", "archived"},
           Store!Transition(scope, state)
    PROVE  RowsAgree'
<1> DEFINE row == requests[scope]
           row2 == [row EXCEPT !.state = state]
<1>1. row # None /\ Store!Put(scope, row2)
  BY DEF Store!Transition
<1>2. row \in Store!Request /\ RowAgrees(scope, row)
  BY <1>1, RowFacts DEF Row
<1>3. row2 \in Store!Request /\ RowAgrees(scope, row2)
  BY <1>2 DEF Store!Request, RowAgrees
<1> QED
  BY <1>1, <1>3, RowsPut

\* The evidence that a row retains is merged from answers of the wallet.
LEMMA TruthfulMerge ==
    ASSUME Inv, NEW i \in Invocation, NEW previous, NEW next,
           Truthful(next, wallet[i]),
           previous # None => /\ previous \in Store!AcceptedEvidence
                              /\ Truthful(previous, wallet[i]),
           next \in Store!AcceptedEvidence
    PROVE  Truthful(Store!Merge(previous, next), wallet[i])
<1> DEFINE e == Store!Merge(previous, next)
<1>0. next \in Store!Evidence /\ (previous # None => previous \in Store!Evidence)
  BY DEF Store!AcceptedEvidence
<1>1. CASE e \in {next, previous} /\ (e = previous => previous # None)
  BY <1>1
<1>2. CASE /\ previous # None /\ previous.status # "not-submitted"
           /\ e = Store!StalePending(previous)
  <2>1. e.status # "not-submitted" /\ e.transactionHash = previous.transactionHash
    BY <1>0, <1>2 DEF Store!StalePending, Store!Evidence
  <2> QED
    BY <1>2, <2>1, ProofIsEvidence DEF Truthful, Store!Identified
<1>3. CASE next.status # "not-submitted" /\ e = Store!KeepEstablished(previous, next)
  <2>1. e.status # "not-submitted" /\ e.transactionHash = next.transactionHash
    BY <1>0, <1>3 DEF Store!KeepEstablished, Store!Evidence
  <2> QED
    BY <2>1, ProofIsEvidence DEF Truthful, Store!Identified
<1> QED
  BY <1>1, <1>2, <1>3 DEF Store!Merge

LEMMA MergedEvidence ==
    ASSUME Inv, NEW row \in Store!Request, NEW next \in Store!AcceptedEvidence,
           Store!CanSaveRecovery(row, next)
    PROVE  Store!Merge(row.evidence, next) \in Store!AcceptedEvidence
<1>1. /\ row.evidence \in StoreProofs!AcceptedEvidence \cup {None}
      /\ next \in StoreProofs!AcceptedEvidence
      /\ StoreProofs!Mergeable(row.evidence, next)
  BY SameEvidence, SameMerge DEF Store!Request, Store!CanSaveRecovery
<1>2. StoreProofs!Merge(row.evidence, next) \in StoreProofs!AcceptedEvidence
  BY <1>1, SameAssumptions, StoreProofs!MergeIsValid
     DEF StoreProofs!EvidenceAssumption, StoreProofs!RecoveryAssumption,
         StoreProofs!EntryAssumption
<1> QED
  BY <1>2, SameEvidence, SameMerge

\* An approval by evidence is the submission that the wallet made.
LEMMA ApprovalIsTrue ==
    ASSUME Inv, NEW i \in Invocation, NEW e \in Store!AcceptedEvidence, e.status = "approved",
           Truthful(e, wallet[i])
    PROVE  LET final == Store!Submitted([tx |-> e.transactionHash, lowerCase |-> TRUE]) IN
           /\ wallet[i] # None /\ SameOutcome(wallet[i], final)
           /\ Store!Identified(e)
           /\ final # None /\ final # Store!NotSubmitted
<1> DEFINE text == [tx |-> e.transactionHash, lowerCase |-> TRUE]
           final == Store!Submitted(text)
<1>1. Store!Identified(e) /\ e.transactionHash \in Tx
  BY ProofIsEvidence
     DEF Store!AcceptedEvidence, Store!ValidEvidence, Store!Evidence, Store!Identified
<1>2. text \in Store!HashText /\ text # None
  <2>1. text \in Store!HashText
    BY <1>1 DEF Store!HashText
  <2>2. None \notin Store!HashText
    BY StoreAssumption DEF Store!RecoveryAssumption
  <2> QED
    BY <2>1, <2>2
<1>3. /\ wallet[i] # None /\ wallet[i] # Store!NotSubmitted
      /\ wallet[i].hash # None /\ wallet[i].hash.tx = e.transactionHash
  BY <1>1 DEF Truthful, Store!SubmissionOf
<1>4. final.hash = text /\ final.status = "approved"
  BY DEF Store!Submitted
<1>5. final \in Store!Final
  <2>1. wallet[i] \in Store!Final
    BY <1>3, OutcomeKinds DEF Inv, TypeOK
  <2>2. PICK subject \in Subject : wallet[i] \in Store!FinalsOf(subject)
    BY <2>1 DEF Store!Final
  <2>3. subject \in SubmitSubject
    BY <1>3, <2>2 DEF Store!FinalsOf, Store!Rejected, Store!Signed
  <2> QED
    BY <1>2, <2>3 DEF Store!Final, Store!FinalsOf
<1>6. final # None /\ final # Store!NotSubmitted
  BY <1>5, FinalsArePresent, ProofIsEvidence, EvidenceIsNoFinal
<1> QED
  BY <1>1, <1>2, <1>3, <1>4, <1>6 DEF SameOutcome

LEMMA EvidenceSaved ==
    ASSUME Inv, Grows, NEW i \in Invocation, relay[i] # None,
           NEW scope, scope = RelayScope(i), NEW next \in Snapshots,
           Truthful(next, wallet[i]), Store!SaveExternalRecovery(scope, next)
    PROVE  /\ RowsAgree'
           /\ OutcomeOf(next) # None => Tellable(scope, OutcomeOf(next))'
<1> DEFINE row == requests[scope]
           e == Store!Merge(row.evidence, next)
           row2 == Store!WithRecovery(row, next)
           approval == Store!Submitted([tx |-> e.transactionHash, lowerCase |-> TRUE])
<1>0. next \in Store!AcceptedEvidence /\ next \in Store!Evidence /\ next # None
  BY SnapshotAssumption, StoreAssumption
     DEF Store!AcceptedEvidence, Store!EvidenceAssumption
<1>1. /\ scope \in Store!Scope /\ row # None
      /\ Store!CanSaveRecovery(row, next) /\ Store!Put(scope, row2)
  BY RelayFacts DEF Store!SaveExternalRecovery
<1>2. /\ row \in Store!Request /\ RowAgrees(scope, row) /\ Store!RowAgrees(row)
      /\ row.receipt.invocation = i
  BY <1>1, RowFacts, RowInvocation, StoreTypes DEF Row
<1>3. row2 \in Store!Request /\ e \in Store!AcceptedEvidence
  BY <1>0, <1>1, <1>2, MergedRow, MergedEvidence
<1>4. row2 = [row EXCEPT
        !.evidence = e,
        !.transactionHash = IF Store!Identified(e) THEN e.transactionHash ELSE @,
        !.final = IF e.status = "approved" THEN approval ELSE @]
  BY DEF Store!WithRecovery
<1>5. Truthful(e, wallet[i])
  BY <1>0, <1>2, TruthfulMerge DEF RowAgrees, Store!Request
<1>6. RowAgrees(scope, row2)
  <2>1. row2.receipt = row.receipt /\ row2.evidence = e
    BY <1>2, <1>4 DEF Store!Request
  <2>2. row2.final # None => wallet[i] # None /\ SameOutcome(wallet[i], row2.final)
    <3>1. CASE e.status = "approved"
      BY <1>2, <1>3, <1>4, <1>5, <3>1, ApprovalIsTrue DEF Store!Request
    <3>2. CASE e.status # "approved"
      BY <1>2, <1>4, <3>2 DEF Store!Request, RowAgrees
    <3> QED
      BY <3>1, <3>2
  <2> QED
    BY <1>2, <1>5, <2>1, <2>2 DEF RowAgrees
<1>7. RowsAgree'
  BY <1>1, <1>3, <1>6, RowsPut
<1>8. RelayScope(i)' = scope /\ relay'[i] # None
  BY RequestKept
<1>9. ASSUME next = Store!NotSubmitted
      PROVE  Tellable(scope, next)'
  <2>1. e = Store!NotSubmitted
    BY <1>0, <1>1, <1>2, <1>9, ProofIsEvidence
       DEF Store!CanSaveRecovery, Store!Mergeable, Store!Merge, Store!IsNotSubmitted,
           Store!Request, Store!AcceptedEvidence, Store!ValidEvidence
  <2>2. row.final = None /\ row.transactionHash = None
    BY <1>1, <2>1, ProofIsEvidence DEF Store!CanSaveRecovery, Store!Identified
  <2>3. Store!VerifiedNotSubmitted(row2)
    BY <1>2, <1>4, <2>1, <2>2, ProofIsEvidence
       DEF Store!VerifiedNotSubmitted, Store!Failed, Store!Request
  <2>4. requests'[scope] # None /\ Store!VerifiedNotSubmitted(requests'[scope])
    BY <1>1, <1>3, <2>3, PutOutcome
  <2>5. wallet'[i] = Store!NotSubmitted
    BY <1>5, <2>1, ProofIsEvidence DEF Truthful, Grows, WalletGrew
  <2> QED
    BY <1>8, <1>9, <2>4, <2>5, ProofIsEvidence DEF Tellable, SavedAs, Row, SameOutcome
<1>10. ASSUME next.status = "approved"
       PROVE  Tellable(scope, Store!Submitted([tx |-> next.transactionHash,
                                               lowerCase |-> TRUE]))'
  <2> DEFINE final == Store!Submitted([tx |-> next.transactionHash, lowerCase |-> TRUE])
  <2>1. e.status = "approved" /\ e.transactionHash = next.transactionHash
    <3>1. Store!Identified(next)
      BY <1>0, <1>10, ApprovalIsTrue
    <3>2. row.evidence # None => row.evidence.status # "not-submitted"
      BY <1>0, <1>1, <1>10
         DEF Store!CanSaveRecovery, Store!Mergeable, Store!IsNotSubmitted
    <3>3. e \in {next, Store!KeepEstablished(row.evidence, next)}
      BY <1>10, <3>1, <3>2 DEF Store!Merge
    <3> QED
      BY <1>0, <1>10, <3>3 DEF Store!KeepEstablished, Store!Evidence
  <2>2. row2.final = final
    BY <1>2, <1>4, <2>1 DEF Store!Request
  <2>3. /\ wallet[i] # None /\ SameOutcome(wallet[i], final)
        /\ final # Store!NotSubmitted
    BY <1>0, <1>10, ApprovalIsTrue
  <2>4. requests'[scope] # None /\ requests'[scope].final = final
    BY <1>1, <1>3, <2>2, PutOutcome
  <2>5. wallet'[i] # None /\ SameOutcome(wallet'[i], final)
    BY <2>3 DEF Grows, WalletGrew
  <2> QED
    BY <1>8, <2>3, <2>4, <2>5 DEF Tellable, SavedAs, Row, SameOutcome
<1>11. OutcomeOf(next) # None => Tellable(scope, OutcomeOf(next))'
  BY <1>9, <1>10 DEF OutcomeOf
<1> QED
  BY <1>7, <1>11

LEMMA RowsInv == ASSUME Inv, Grows, [Next]_vars PROVE RowsAgree'
<1>1. ASSUME UNCHANGED requests
      PROVE  RowsAgree'
  <2> SUFFICES ASSUME NEW scope \in Store!Scope, NEW row, row = requests[scope], row # None
               PROVE  RowAgrees(scope, row)
    BY <1>1, RowAgreesKept DEF RowsAgree, Row, RowAgrees, Genuine
  <2> QED
    BY DEF Inv, RowsAgree, Row
<1>2. ASSUME NEW tab \in Tab, CallNext(tab) \/ DeadlinePasses(tab)
      PROVE  RowsAgree'
  <2>1. CASE SaveCall(tab) /\ ~UNCHANGED requests
    <3>1. Store!SaveRequestWrite(<<tab, "call">>)
      BY <2>1 DEF SaveCall, CallTask, Store!Abandon
    <3> QED
      BY <3>1, RowsOpened
  <2>2. CASE CompleteCall(tab) /\ ~UNCHANGED requests
    <3> DEFINE i == calls[tab].invocation
               outcome == calls[tab].outcome
    <3>1. i \in Invocation /\ relay[i] # None /\ (outcome # None => outcome = wallet[i])
      BY <2>2, CallFacts DEF CompleteCall, InCall, CallAgrees
    <3>2. outcome # None /\ Store!SaveFinal(RelayScope(i), outcome)
      BY <2>2 DEF CompleteCall, storeVars
    <3> QED
      BY <3>1, <3>2, FinalSaved
  <2> QED
    BY <1>1, <1>2, <2>1, <2>2, CallChanges
<1>3. ASSUME NEW tab \in Tab, RecoveryNext(tab)
      PROVE  RowsAgree'
  <2> DEFINE i == recovery[tab].invocation
             scope == recovery[tab].scope
             answer == recovery[tab].answer
  <2>1. CASE Migrated(tab) \/ SaveLookup(tab)
    BY <2>1, RowsOpened DEF Migrated, SaveLookup, RecoveryTask
  <2>2. CASE SaveRead(tab)
    <3>1. /\ i \in Invocation /\ relay[i] # None /\ scope = RelayScope(i)
          /\ answer # None /\ answer = wallet[i]
      BY <2>2, RecoveryFacts DEF SaveRead, InRecovery, RecoveryAgrees
    <3> QED
      BY <2>2, <3>1, FinalSaved DEF SaveRead
  <2>3. CASE SaveGranted(tab)
    <3>1. /\ i \in Invocation /\ relay[i] # None /\ scope = RelayScope(i)
          /\ Redelivered(answer, i)
      BY <2>3, RecoveryFacts DEF SaveGranted, InRecovery, RecoveryAgrees
    <3>2. CASE answer \in Snapshots
      BY <2>3, <3>1, <3>2, EvidenceSaved DEF SaveGranted, Redelivered
    <3>3. CASE answer \notin Snapshots
      BY <2>3, <3>1, <3>3, FinalSaved DEF SaveGranted, Redelivered
    <3> QED
      BY <3>2, <3>3
  <2>4. CASE Accept(tab) /\ ~UNCHANGED requests
    <3>1. scope \in Store!Scope /\ Store!Transition(scope, "acknowledged")
      BY <2>4, RecoveryFacts DEF Accept, InRecovery, RecoveryAgrees, storeVars
    <3> QED
      BY <3>1, TransitionSaved
  <2>5. ASSUME NEW s \in Store!Scope, Archive(tab, s)
        PROVE  RowsAgree'
    BY <2>5, TransitionSaved DEF Archive
  <2> QED
    BY <1>1, <1>3, <2>1, <2>2, <2>3, <2>4, <2>5, RecoveryChanges
<1> QED
  BY <1>1, <1>2, <1>3, RemoteChanges, OtherChanges DEF Next, storeVars

------------------------------------------------------------------------------
(* What the dapp was told, and what the wallet app was opened for.         *)

LEMMA ToldInv == ASSUME Inv, Grows, [Next]_vars PROVE ToldAgrees'
<1>0. ToldAgrees
  BY DEF Inv
<1> SUFFICES ASSUME NEW scope \in Store!Scope, NEW outcome \in Outcome,
                    <<scope, outcome>> \in told'
             PROVE  Tellable(scope, outcome)'
  BY DEF ToldAgrees
<1>1. ASSUME Tellable(scope, outcome)
      PROVE  Tellable(scope, outcome)'
  BY <1>1, TellableKept, OutcomeKinds
<1>2. CASE <<scope, outcome>> \in told
  BY <1>0, <1>1, <1>2 DEF ToldAgrees
<1>3. ASSUME NEW tab \in Tab, CallNext(tab) \/ DeadlinePasses(tab),
             <<scope, outcome>> \notin told
      PROVE  Tellable(scope, outcome)'
  <2> DEFINE i == calls[tab].invocation
  <2>1. CompleteCall(tab)
    BY <1>3, CallChanges
  <2>2. i \in Invocation /\ relay[i] # None
        /\ (calls[tab].outcome # None => calls[tab].outcome = wallet[i])
    BY <2>1, CallFacts DEF CompleteCall, InCall, CallAgrees
  <2>3. /\ calls[tab].outcome # None /\ scope = RelayScope(i) /\ outcome = calls[tab].outcome
        /\ Store!SaveFinal(scope, outcome)
    BY <1>3, <2>1 DEF CompleteCall, Tell
  <2> QED
    BY <2>2, <2>3, FinalSaved
<1>4. ASSUME NEW tab \in Tab, RecoveryNext(tab), <<scope, outcome>> \notin told
      PROVE  Tellable(scope, outcome)'
  <2> DEFINE i == recovery[tab].invocation
             answer == recovery[tab].answer
  <2>1. CASE SaveRead(tab)
    <3>1. /\ i \in Invocation /\ relay[i] # None /\ recovery[tab].scope = RelayScope(i)
          /\ answer # None /\ answer = wallet[i]
      BY <2>1, RecoveryFacts DEF SaveRead, InRecovery, RecoveryAgrees
    <3>2. /\ scope = recovery[tab].scope /\ outcome = answer
          /\ Store!SaveFinal(scope, outcome)
      BY <1>4, <2>1 DEF SaveRead, Tell
    <3> QED
      BY <3>1, <3>2, FinalSaved
  <2>2. CASE TellGranted(tab)
    <3>1. /\ OutcomeOf(answer) # None => Tellable(recovery[tab].scope, OutcomeOf(answer))
      BY <2>2, RecoveryFacts DEF TellGranted, InRecovery, RecoveryAgrees
    <3>2. OutcomeOf(answer) # None /\ scope = recovery[tab].scope /\ outcome = OutcomeOf(answer)
      BY <1>4, <2>2 DEF TellGranted, Tell
    <3> QED
      BY <1>1, <3>1, <3>2
  <2>3. ASSUME NEW s \in Store!Scope, Replay(tab, s)
        PROVE  Tellable(scope, outcome)'
    <3>1. /\ s = scope
          /\ outcome = IF Row(s).final # None THEN Row(s).final ELSE Store!NotSubmitted
      BY <1>4, <2>3 DEF Replay, Tell
    <3> QED
      BY <1>1, <2>3, <3>1, RowOutcome DEF Replay, Exact
  <2> QED
    BY <1>4, <2>1, <2>2, <2>3, RecoveryChanges
<1> QED
  BY <1>2, <1>3, <1>4, RemoteChanges, OtherChanges DEF Next, history

LEMMA LaunchedInv == ASSUME Inv, Grows, [Next]_vars PROVE LaunchedAgrees'
<1> SUFFICES ASSUME NEW i \in launched'
             PROVE  i \in Invocation /\ relay[i] # None /\ Row(RelayScope(i)) # None
  BY RequestKept DEF LaunchedAgrees
<1>1. CASE i \in launched
  BY <1>1 DEF Inv, TypeOK, LaunchedAgrees
<1>2. ASSUME NEW tab \in Tab, CallNext(tab) \/ DeadlinePasses(tab), i \notin launched
      PROVE  i \in Invocation /\ relay[i] # None /\ Row(RelayScope(i)) # None
  <2>1. Launch(tab)
    BY <1>2, CallChanges
  <2>2. i = calls[tab].invocation
    BY <1>2, <2>1 DEF Launch
  <2> QED
    BY <2>1, <2>2, CallFacts DEF Launch, InCall, CallAgrees
<1>3. ASSUME NEW tab \in Tab, RecoveryNext(tab), i \notin launched
      PROVE  i \in Invocation /\ relay[i] # None /\ Row(RelayScope(i)) # None
  <2>1. Relaunch(tab)
    BY <1>3, RecoveryChanges
  <2>2. i = recovery[tab].invocation
    BY <1>3, <2>1 DEF Relaunch
  <2> QED
    BY <2>1, <2>2, RecoveryFacts DEF Relaunch, InRecovery, RecoveryAgrees
<1> QED
  BY <1>1, <1>2, <1>3, RemoteChanges, OtherChanges DEF Next

------------------------------------------------------------------------------
(* The recovery operations.                                                *)

LEMMA OperationKept ==
    ASSUME Inv, Grows, NEW operation, RecoveryAgrees(operation)
    PROVE  RecoveryAgrees(operation)'
<1> DEFINE i == operation.invocation
           scope == operation.scope
           step == operation.step
<1>1. i \in Invocation /\ relay[i] # None =>
        /\ relay'[i] # None
        /\ RelayScope(i)' = RelayScope(i)
        /\ Row(RelayScope(i)) # None => Row(RelayScope(i))' # None
  BY RequestKept
<1>2. /\ step \in {"lookup", "saving", "linking", "relaunching"} => i \in Invocation
      /\ step \in {"saving", "linking", "relaunching"} => relay'[i] # None
      /\ step = "relaunching" => Row(RelayScope(i))' # None
  BY <1>1 DEF RecoveryAgrees
<1>3. step \in {"asking", "read", "minting", "minted", "granted", "saved"} =>
        /\ scope \in Store!Scope
        /\ operation.session \in Session
        /\ i \in Invocation
        /\ relay'[i] # None
        /\ RelayScope(i)' = scope
  BY <1>1 DEF RecoveryAgrees
<1>4. step = "read" => operation.answer # None /\ operation.answer = wallet'[i]
  BY DEF RecoveryAgrees, Grows, WalletGrew
<1>5. step \in {"granted", "saved"} => Redelivered(operation.answer, i)'
  BY RedeliveredKept DEF RecoveryAgrees
<1>6. step = "saved" /\ OutcomeOf(operation.answer) # None =>
        Tellable(scope, OutcomeOf(operation.answer))'
  BY TellableKept DEF RecoveryAgrees
<1>7. step \in {"accepting", "clearing", "marking"} => scope \in Store!Scope
  BY DEF RecoveryAgrees
<1> QED
  BY <1>2, <1>3, <1>4, <1>5, <1>6, <1>7 DEF RecoveryAgrees

\* What the start of an operation knows.
LEMMA StartsAgree ==
    ASSUME Inv, Grows, NEW tab \in Tab, RecoveryNext(tab), recovery[tab] = None,
           NEW operation, operation = recovery'[tab], operation # None
    PROVE  RecoveryAgrees(operation)
<1> USE DEF Start, SetRecovery
<1>0. recovery \in [Tab -> Recovery \cup {None}] /\ session \in Session \cup {None}
  BY DEF Inv, TypeOK
<1>1. ASSUME NEW receipt \in receipts[tab], Migrate(tab, receipt)
      PROVE  RecoveryAgrees(operation)
  BY <1>0, <1>1 DEF Migrate, RecoveryAgrees
<1>2. ASSUME NEW i \in Invocation, StartLookup(tab, i)
      PROVE  RecoveryAgrees(operation)
  BY <1>0, <1>2 DEF StartLookup, RecoveryAgrees
<1>3. ASSUME NEW i \in Invocation, StartRelaunch(tab, i)
      PROVE  RecoveryAgrees(operation)
  <2>1. /\ relay[i] # None
        /\ RelayScope(i) = <<invocations[i].session, invocations[i].requestId>>
    BY <1>3 DEF StartRelaunch, Inv, LinksAgree, RelayScope
  <2>2. Row(RelayScope(i)) # None
    BY <1>3, <2>1 DEF StartRelaunch, Exact
  <2>3. operation.step = "relaunching" /\ operation.invocation = i
    BY <1>0, <1>3 DEF StartRelaunch
  <2> QED
    BY <2>1, <2>2, <2>3 DEF RecoveryAgrees
<1>4. ASSUME NEW scope \in Store!Scope, StartRead(tab, scope)
      PROVE  RecoveryAgrees(operation)
  <2>1. Row(scope) # None /\ session \in Session
    BY <1>0, <1>4 DEF StartRead, Exact, SameAccount
  <2>2. /\ operation.step \in {"asking", "minting"}
        /\ operation.invocation = Row(scope).receipt.invocation
        /\ operation.scope = scope /\ operation.session = session
    BY <1>0, <1>4 DEF StartRead
  <2> QED
    BY <2>1, <2>2, RowFacts DEF RecoveryAgrees
<1>5. ASSUME NEW scope \in Store!Scope, StartAcknowledge(tab, scope) \/ Archive(tab, scope)
      PROVE  RecoveryAgrees(operation)
  BY <1>0, <1>5 DEF StartAcknowledge, Archive, RecoveryAgrees
<1>6. ASSUME NEW scope \in Store!Scope, Replay(tab, scope)
      PROVE  FALSE
  BY <1>6 DEF Replay, tabVars
<1> QED
  BY <1>1, <1>2, <1>3, <1>4, <1>5, <1>6
     DEF RecoveryNext, InRecovery, Migrated, LookupAnswered, SaveLookup, LinkLookup, Relaunch,
         StatusAnswered, SaveRead, Mint, GrantAnswered, SaveGranted, TellGranted, Accept,
         Clear, Mark, RecoveryFails

\* A saved answer can be told.
LEMMA GrantedIsTellable ==
    ASSUME Inv, Grows, NEW tab \in Tab, SaveGranted(tab),
           NEW scope, scope = recovery[tab].scope,
           NEW answer, answer = recovery[tab].answer, OutcomeOf(answer) # None
    PROVE  Tellable(scope, OutcomeOf(answer))'
<1>1. PICK i \in Invocation : /\ relay[i] # None /\ scope = RelayScope(i)
                              /\ Redelivered(answer, i)
  BY RecoveryFacts DEF SaveGranted, InRecovery, RecoveryAgrees
<1>2. CASE answer \in Snapshots
  BY <1>1, <1>2, EvidenceSaved DEF SaveGranted, Redelivered
<1>3. CASE answer \notin Snapshots
  BY <1>1, <1>3, FinalSaved DEF SaveGranted, Redelivered, OutcomeOf
<1> QED
  BY <1>2, <1>3

\* What the next step of an operation knows.
LEMMA MovesAgree ==
    ASSUME Inv, Grows, NEW tab \in Tab, RecoveryNext(tab),
           NEW old, old = recovery[tab], old # None,
           NEW operation, operation = recovery'[tab], operation # None
    PROVE  RecoveryAgrees(operation)'
<1> DEFINE i == old.invocation
           scope == old.scope
<1> USE DEF InRecovery, RecoveryStep, SetRecovery
<1>0. /\ old \in Recovery /\ RecoveryAgrees(old) /\ RecoveryAgrees(old)'
      /\ recovery \in [Tab -> Recovery \cup {None}]
  BY RecoveryFacts, OperationKept DEF Inv, TypeOK
<1>1. ASSUME NEW step, operation = [old EXCEPT !.step = step]
      PROVE  /\ operation.step = step /\ operation.invocation = i
             /\ operation.scope = scope /\ operation.session = old.session
             /\ operation.answer = old.answer
  BY <1>0, <1>1 DEF Recovery
<1>2. CASE LookupAnswered(tab)
  <2>1. operation = [old EXCEPT !.step = "saving"]
    BY <1>0, <1>2 DEF LookupAnswered
  <2>2. i \in Invocation /\ relay[i] # None /\ relay'[i] # None
    BY <1>0, <1>2, RequestKept DEF LookupAnswered, RecoveryAgrees
  <2>3. operation.step = "saving" /\ operation.invocation = i
    BY <1>1, <2>1
  <2> QED
    BY <2>2, <2>3 DEF RecoveryAgrees
<1>3. CASE SaveLookup(tab)
  <2>1. operation = [old EXCEPT !.step = "linking"]
    BY <1>0, <1>3 DEF SaveLookup
  <2>2. operation.step = "linking" /\ operation.invocation = i
    BY <1>1, <2>1
  <2> QED
    BY <1>0, <1>3, <2>2 DEF SaveLookup, RecoveryAgrees
<1>4. CASE StatusAnswered(tab)
  <2>1. i \in Invocation /\ i = recovery[tab].invocation
    BY <1>0, <1>4 DEF StatusAnswered, RecoveryAgrees
  <2>2. CASE operation = [old EXCEPT !.step = "minting"]
    <3>1. /\ operation.step = "minting" /\ operation.invocation = i
          /\ operation.scope = scope /\ operation.session = old.session
      BY <1>1, <2>2
    <3> QED
      BY <1>0, <1>4, <3>1 DEF StatusAnswered, RecoveryAgrees
  <2>3. CASE /\ DecodedResult(i) # None
             /\ operation = [old EXCEPT !.step = "read", !.answer = DecodedResult(i)]
    <3>1. /\ operation.step = "read" /\ operation.invocation = i
          /\ operation.scope = scope /\ operation.session = old.session
          /\ operation.answer = DecodedResult(i)
      BY <1>0, <2>3 DEF Recovery
    <3>2. operation.answer # None /\ operation.answer = wallet'[i]
      BY <2>1, <2>3, <3>1, DecodedIsOutcome DEF Grows, WalletGrew
    <3> QED
      BY <1>0, <1>4, <3>1, <3>2 DEF StatusAnswered, RecoveryAgrees
  <2> QED
    BY <1>0, <1>4, <2>1, <2>2, <2>3 DEF StatusAnswered
<1>5. CASE Mint(tab)
  <2>1. operation = [old EXCEPT !.step = "minted"]
    BY <1>0, <1>5 DEF Mint
  <2>2. /\ operation.step = "minted" /\ operation.invocation = i
        /\ operation.scope = scope /\ operation.session = old.session
    BY <1>1, <2>1
  <2> QED
    BY <1>0, <1>5, <2>2 DEF Mint, RecoveryAgrees
<1>6. CASE GrantAnswered(tab)
  <2> DEFINE key == <<i, old.session>>
  <2>1. i \in Invocation /\ old.session \in Session
    BY <1>0, <1>6 DEF GrantAnswered, RecoveryAgrees
  <2>2. Redelivered(grants[key].payload, i)
    BY <1>6, <2>1 DEF GrantAnswered, Inv, GrantsAgree
  <2>3. /\ operation.step = "granted" /\ operation.invocation = i
        /\ operation.scope = scope /\ operation.session = old.session
        /\ operation.answer = grants[key].payload
    BY <1>0, <1>6 DEF GrantAnswered, Recovery
  <2>4. Redelivered(operation.answer, i)'
    BY <2>1, <2>2, <2>3, RedeliveredKept
  <2> QED
    BY <1>0, <1>6, <2>3, <2>4 DEF GrantAnswered, RecoveryAgrees
<1>7. CASE SaveGranted(tab)
  <2>1. operation = [old EXCEPT !.step = "saved"]
    BY <1>0, <1>7 DEF SaveGranted
  <2>2. /\ operation.step = "saved" /\ operation.invocation = i
        /\ operation.scope = scope /\ operation.session = old.session
        /\ operation.answer = old.answer
    BY <1>1, <2>1
  <2>3. OutcomeOf(operation.answer) # None => Tellable(scope, OutcomeOf(operation.answer))'
    BY <1>7, <2>2, GrantedIsTellable
  <2>4. Redelivered(operation.answer, i)'
    BY <1>0, <1>7, <2>2 DEF SaveGranted, RecoveryAgrees
  <2> QED
    BY <1>0, <1>7, <2>2, <2>3, <2>4 DEF SaveGranted, RecoveryAgrees
<1>8. CASE Accept(tab)
  <2>1. operation = [old EXCEPT !.step = "clearing"]
    BY <1>0, <1>8 DEF Accept
  <2>2. operation.step = "clearing" /\ operation.scope = scope
    BY <1>1, <2>1
  <2> QED
    BY <1>0, <1>8, <2>2 DEF Accept, RecoveryAgrees
<1>9. CASE \/ Migrated(tab) \/ LinkLookup(tab) \/ Relaunch(tab) \/ SaveRead(tab)
           \/ TellGranted(tab) \/ Clear(tab) \/ Mark(tab) \/ RecoveryFails(tab)
  BY <1>0, <1>9
     DEF Migrated, LinkLookup, Relaunch, SaveRead, TellGranted, Clear, Mark, RecoveryFails
<1>10. CASE recovery'[tab] = recovery[tab]
  BY <1>0, <1>10
<1> QED
  BY <1>2, <1>3, <1>4, <1>5, <1>6, <1>7, <1>8, <1>9, <1>10
     DEF RecoveryNext, Migrate, StartLookup, StartRelaunch, StartRead, StartAcknowledge,
         Archive, Replay, Exact, Start, tabVars

LEMMA RecoverySteps ==
    ASSUME Inv, [Next]_vars, NEW tab \in Tab, recovery'[tab] # recovery[tab],
           recovery'[tab] # None
    PROVE  RecoveryNext(tab)
<1>0. recovery \in [Tab -> Recovery \cup {None}]
  BY DEF Inv, TypeOK
<1>1. ASSUME NEW t \in Tab, t # tab, RecoveryNext(t)
      PROVE  FALSE
  BY <1>0, <1>1, RecoveryChanges
<1>2. ASSUME NEW t \in Tab, LeaveTab(t)
      PROVE  FALSE
  BY <1>0, <1>2 DEF LeaveTab
<1> QED
  BY <1>1, <1>2, CallChanges, RemoteChanges, OtherChanges DEF Next, tabVars

LEMMA RecoveriesInv == ASSUME Inv, Grows, [Next]_vars PROVE RecoveriesKnow'
<1> SUFFICES ASSUME NEW tab \in Tab, NEW operation, operation = recovery'[tab],
                    operation # None
             PROVE  RecoveryAgrees(operation)'
  BY DEF RecoveriesKnow, RecoveryAgrees
<1>1. CASE recovery'[tab] = recovery[tab]
  BY <1>1, RecoveryFacts, OperationKept
<1>2. CASE recovery'[tab] # recovery[tab]
  <2>1. RecoveryNext(tab)
    BY <1>2, RecoverySteps
  <2>2. CASE recovery[tab] = None
    BY <2>1, <2>2, StartsAgree, OperationKept
  <2>3. CASE recovery[tab] # None
    BY <2>1, <2>3, MovesAgree
  <2> QED
    BY <2>2, <2>3
<1> QED
  BY <1>1, <1>2

------------------------------------------------------------------------------
(* The invariant holds.                                                    *)

LEMMA InitInv == Init => Inv
<1> SUFFICES ASSUME Init PROVE Inv
  OBVIOUS
<1> USE DEF Init
<1>1. TypeOK
  BY MobileAssumption DEF TypeOK
<1>2. StoreProofs!Inv
  BY StoreStarts
<1>3. /\ \A i \in Invocation : invocations[i] = None /\ relay[i] = None /\ wallet[i] = None
      /\ \A scope \in Store!Scope : requests[scope] = None
      /\ \A task \in Tab \X {"call", "recovery"} : saving[task] = None
  BY DEF Store!Init
<1>4. RelayAgrees /\ PostedIsSealed /\ LinksAgree
  BY <1>3 DEF RelayAgrees, PostedIsSealed, LinksAgree
<1>5. CallsKnow /\ OneCallEach /\ GrantsAgree
  BY DEF CallsKnow, OneCallEach, GrantsAgree
<1>6. ReceiptsAreGenuine /\ SavesAreGenuine /\ RowsAgree
  BY <1>3 DEF ReceiptsAreGenuine, SavesAreGenuine, RowsAgree, Row
<1>7. RecoveriesKnow /\ LaunchedAgrees /\ ToldAgrees
  BY DEF RecoveriesKnow, LaunchedAgrees, ToldAgrees
<1> QED
  BY <1>1, <1>2, <1>4, <1>5, <1>6, <1>7 DEF Inv

LEMMA NextInv == Inv /\ [Next]_vars => Inv'
<1> SUFFICES ASSUME Inv, [Next]_vars PROVE Inv'
  OBVIOUS
<1>1. Grows
  BY StepGrows
<1>2. StoreProofs!Inv'
  <2>1. [Store!Next]_storeVars
    BY StepUsesStore DEF StoreNext, Store!Next
  <2> QED
    BY <2>1, StoreContinues DEF Inv
<1> QED
  BY <1>1, <1>2, TypeInv, RelayAgreesInv, PostedIsSealedInv, LinksAgreeInv, CallsKnowInv,
     OneCallEachInv, GrantsAgreeInv, ReceiptsInv, SavesInv, RowsInv, RecoveriesInv,
     LaunchedInv, ToldInv
     DEF Inv

\* The invariant above holds in every behaviour of the relay's requests.
THEOREM InvariantHolds == Spec => []Inv
<1> QED
  BY InitInv, NextInv, PTL DEF Spec

\* Every variable keeps its type.
THEOREM TypeCorrect == Spec => []TypeOK
<1>1. Inv => TypeOK
  BY DEF Inv
<1> QED
  BY <1>1, InvariantHolds, PTL

\* "not-invoked", the adapter's proof that nothing was dispatched, is never
\* recorded of an invocation whose creation request was sent.
THEOREM NeverInvoked == Spec => []NotInvokedIsTrue
<1>1. Inv => NotInvokedIsTrue
  BY DEF Inv, PostedIsSealed, NotInvokedIsTrue
<1> QED
  BY <1>1, InvariantHolds, PTL

\* Whatever way an outcome comes to the dapp, it is what became of the request
\* in the wallet, and the record repeats it until the dapp accepts it.
THEOREM Told == Spec => []ToldIsTrue
<1>1. Inv => ToldIsTrue
  BY DEF Inv, ToldAgrees, Tellable, SavedAs, ToldIsTrue
<1> QED
  BY <1>1, InvariantHolds, PTL

\* The wallet app is opened for recorded requests only.
THEOREM Launched == Spec => []LaunchedIsRecorded
<1>1. Inv => LaunchedIsRecorded
  BY DEF Inv, LaunchedAgrees, LaunchedIsRecorded
<1> QED
  BY <1>1, InvariantHolds, PTL

\* A request of the relay that the dapp did not accept can be looked up by its
\* invocation.
THEOREM RecordedForLookup == Spec => []AdmissionIsRecoverable
<1>1. Inv => AdmissionIsRecoverable
  BY DEF Inv, RelayAgrees, PostedIsSealed, AdmissionIsRecoverable
<1> QED
  BY <1>1, InvariantHolds, PTL

\* What a row says of its transaction stays consistent, whatever the calls, the
\* lookups and the grants save, in any order.
THEOREM RecordsAgree == Spec => []Store!OutcomeAgrees
<1>1. Inv => Store!OutcomeAgrees
  BY StoreFacts DEF Inv, Store!OutcomeAgrees, Row
<1> QED
  BY <1>1, InvariantHolds, PTL
==============================================================================
