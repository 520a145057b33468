--------------------------- MODULE DurableRecovery ---------------------------
(***************************************************************************)
(* The recovery records of src/durableRecovery.ts for requests sent to an  *)
(* external wallet (Infer Desk over the desktop bridge, Infer Wallet over  *)
(* the mobile relay): the IndexedDB stores "requests" and "invocations".   *)
(*                                                                         *)
(* Every operation is one IndexedDB transaction and therefore one atomic   *)
(* step, whichever tab runs it; an operation that aborts changes nothing.  *)
(* saveDurableRequest is the exception: it reads the invocation in one     *)
(* transaction and writes the request in a second one.                     *)
(*                                                                         *)
(* One browser origin is modelled (IndexedDB is partitioned by origin).    *)
(* A row's random id is not modelled: rows are named by their unique       *)
(* scopeKey, and an operation on the id of a pruned row aborts.            *)
(* Injected invocations are in InjectedRecovery.                           *)
(***************************************************************************)
EXTENDS ExternalTransactionRecovery, Naturals

CONSTANTS
    Session,           \* wallet sessions (transport and sessionId)
    DesktopSession,    \* those of the desktop bridge, the others are mobile
    RequestId,         \* ids a wallet gives to admitted requests
    Subject,           \* account, network, chain, endpoint, method, commitment
    SubmitSubject,     \* subjects whose method is signAndSubmitTransaction
    CommittedSubject,  \* subjects that carry a requestCommitment
    Invocation,        \* ids given to invocations before dispatch
    Output,            \* outputs of the two sign-only methods
    Receipts,          \* request receipts the tabs may hold
    Task,              \* asynchronous tasks of the tabs of the origin
    AckTombstone,      \* ACK_TOMBSTONE_MS, in clock ticks
    ArchiveAge,        \* ARCHIVE_MS, in clock ticks
    MaxClock           \* bound on the modelled clock

VARIABLES
    requests,     \* [Scope -> Request or None], the store "requests"
    invocations,  \* [Invocation -> PreparedInvocation or None]
    prepared,     \* history: ids ever prepared (ids are random, never reused)
    saving,       \* per task, a saveDurableRequest between its transactions
    now           \* Date.now()

vars == <<requests, invocations, prepared, saving, now>>

------------------------------------------------------------------------------
(* Data                                                                    *)

Scope == Session \X RequestId          \* durableScopeKey

Receipt ==                             \* DurablePending
    [ session : Session, requestId : RequestId, subject : Subject,
      invocation : Invocation \cup {None}, archived : BOOLEAN ]

ScopeOf(receipt) == <<receipt.session, receipt.requestId>>

\* A transaction hash as text: wallets may spell it with capital letters.
HashText == [ tx : Tx, lowerCase : BOOLEAN ]

Rejected == [ status |-> "rejected", hash |-> None, output |-> None ]

Submitted(hash) == [ status |-> "approved", hash |-> hash, output |-> None ]

Signed(output) == [ status |-> "approved", hash |-> None, output |-> output ]

\* serializeStoredFinal keeps the spelling of an approved hash.
FinalsOf(subject) ==
    {Rejected} \cup
    IF subject \in SubmitSubject THEN {Submitted(h) : h \in HashText}
                                 ELSE {Signed(o) : o \in Output}

Final == UNION {FinalsOf(subject) : subject \in Subject}

\* The final is an approved submission of tx, whatever its spelling.
SubmissionOf(final, tx) == final.hash # None /\ final.hash.tx = tx

Debt == {"absent", "waived", "required"}   \* remoteAcknowledgementRequired

Request ==                             \* DurableRequest
    [ receipt : Receipt, state : {"active", "acknowledged", "archived"},
      final : Final \cup {None}, transactionHash : Tx \cup {None},
      evidence : AcceptedEvidence \cup {None}, debt : Debt, updatedAt : Nat ]

PreparedInvocation ==                  \* DurableInvocation
    [ session : Session, subject : Subject, debt : Debt,
      state : {"prepared", "created", "unknown", "not-invoked"},
      requestId : RequestId \cup {None}, mobileRequest : BOOLEAN ]

ASSUME RecoveryAssumption ==
    /\ DesktopSession \subseteq Session
    /\ SubmitSubject \subseteq Subject
    /\ CommittedSubject \subseteq Subject
    /\ Receipts \subseteq Receipt
    /\ AckTombstone \in Nat /\ ArchiveAge \in Nat /\ MaxClock \in Nat
    /\ None \notin Request \cup PreparedInvocation \cup Final \cup HashText
    /\ None \notin Invocation \cup RequestId \cup Output
    /\ None \notin [receipt : Receipt, debt : Debt]

TypeOK ==
    /\ requests \in [Scope -> Request \cup {None}]
    /\ invocations \in [Invocation -> PreparedInvocation \cup {None}]
    /\ prepared \subseteq Invocation
    /\ saving \in [Task -> [receipt : Receipt, debt : Debt] \cup {None}]
    /\ now \in Nat

Init ==
    /\ requests = [scope \in Scope |-> None]
    /\ invocations = [i \in Invocation |-> None]
    /\ prepared = {}
    /\ saving = [task \in Task |-> None]
    /\ now = 0

------------------------------------------------------------------------------
(* What one row permits                                                    *)

Failed(row) == IsNotSubmitted(row.evidence)

\* verifiedExternalNotSubmitted
VerifiedNotSubmitted(row) ==
    row.final = None /\ row.transactionHash = None /\ Failed(row)

Settled(row) == row.final # None \/ VerifiedNotSubmitted(row)

\* Mutant: the hash that recovery established is not compared.
CanSaveFinalOfAnyHash(row, final) ==
    /\ row.state = "active"
    /\ ~Failed(row)
    /\ row.final \in {None, final}

\* saveDurableFinal
CanSaveFinal(row, final) ==
    /\ row.state = "active"
    /\ ~Failed(row)
    /\ row.final \in {None, final}
    /\ row.transactionHash # None => SubmissionOf(final, row.transactionHash)

\* saveDurableExternalTransactionRecovery: next is merged into what the row
\* retains; a final is compared with the evidence letter by letter.
CanSaveRecovery(row, next) ==
    LET evidence == Merge(row.evidence, next) IN
    /\ row.state = "active"
    /\ row.receipt.subject \in SubmitSubject \cap CommittedSubject
    /\ Mergeable(row.evidence, next)
    /\ row.transactionHash # None => evidence.transactionHash = row.transactionHash
    /\ row.final # None =>
         /\ Identified(evidence)
         /\ row.final = Submitted([tx |-> evidence.transactionHash, lowerCase |-> TRUE])

WithRecovery(row, next) ==
    LET evidence == Merge(row.evidence, next) IN
    [row EXCEPT
        !.evidence = evidence,
        !.transactionHash = IF Identified(evidence) THEN evidence.transactionHash ELSE @,
        !.final = IF evidence.status = "approved"
                  THEN Submitted([tx |-> evidence.transactionHash, lowerCase |-> TRUE])
                  ELSE @]

\* saveDurableTransactionHash, whose own spelling is lowered first
CanSaveHash(row, tx) ==
    /\ row.receipt.subject \in SubmitSubject \cap CommittedSubject
    /\ ~Failed(row)
    /\ row.transactionHash \in {None, tx}
    /\ row.final # None => SubmissionOf(row.final, tx)

\* Mutant: what is settled may be archived as uncertain.
CanTransitionSettled(row, state) ==
    /\ row.state = "active"
    /\ state = "acknowledged" => Settled(row)

\* transitionDurableRequest, its repetitions of a completed transition left out
CanTransition(row, state) ==
    /\ row.state = "active"
    /\ \/ state = "acknowledged" /\ Settled(row)
       \/ state = "archived" /\ ~Settled(row)

\* Mutant: whatever has an outcome expires, delivered or not.
ExpiredWhenSettled(row) ==
    \/ /\ Settled(row)
       /\ now > row.updatedAt + AckTombstone
    \/ /\ row.state = "archived"
       /\ now > row.updatedAt + ArchiveAge

\* pruneDurableEvidence
Expired(row) ==
    \/ /\ row.state = "acknowledged"
       /\ Settled(row)
       /\ now > row.updatedAt + AckTombstone
    \/ /\ row.state = "archived"
       /\ now > row.updatedAt + ArchiveAge

------------------------------------------------------------------------------
(* The store "requests"                                                    *)

\* A row changes only by a put that stamps it; a put of an equal row is none.
Put(scope, row) ==
    /\ requests' = [requests EXCEPT
         ![scope] = IF row = @ THEN @ ELSE [row EXCEPT !.updatedAt = now]]
    /\ UNCHANGED <<invocations, prepared, saving, now>>

\* boundInvocation: the invocation is the one this receipt came from.
BoundTo(invocation, receipt) ==
    /\ invocation # None
    /\ invocation.session = receipt.session
    /\ invocation.subject = receipt.subject

\* Mutant: without an invocation there is no obligation.
DebtOfMissing(receipt) ==
    IF receipt.invocation # None /\ BoundTo(invocations[receipt.invocation], receipt)
    THEN invocations[receipt.invocation].debt
    ELSE "waived"

DebtOf(receipt) ==
    IF receipt.invocation = None THEN "absent"
    ELSE IF BoundTo(invocations[receipt.invocation], receipt)
         THEN invocations[receipt.invocation].debt
         ELSE "absent"

\* A tab comes to hold a receipt when the wallet admits a prepared invocation,
\* or has kept it in sessionStorage since; old receipts name no invocation.
SaveRequestRead(task, receipt) ==
    /\ saving[task] = None
    /\ receipt.invocation # None => receipt.invocation \in prepared
    /\ saving' = [saving EXCEPT ![task] =
         [ receipt |-> receipt, debt |-> DebtOf(receipt) ]]
    /\ UNCHANGED <<requests, invocations, prepared, now>>

NewRow(save) ==
    [ receipt |-> save.receipt,
      state |-> IF save.receipt.archived THEN "archived" ELSE "active",
      final |-> None, transactionHash |-> None, evidence |-> None,
      debt |-> save.debt, updatedAt |-> now ]

\* An existing row is returned, or the transaction aborts if the row differs
\* in what sameScope compares: either way it stays as it is.
SaveRequestWrite(task) ==
    /\ saving[task] # None
    /\ LET scope == ScopeOf(saving[task].receipt) IN
         requests' = [requests EXCEPT
           ![scope] = IF @ = None THEN NewRow(saving[task]) ELSE @]
    /\ saving' = [saving EXCEPT ![task] = None]
    /\ UNCHANGED <<invocations, prepared, now>>

\* A tab with these tasks is closed or reloaded between the two transactions,
\* or the second one fails.
Abandon(tasks) ==
    /\ saving' = [task \in Task |-> IF task \in tasks THEN None ELSE saving[task]]
    /\ UNCHANGED <<requests, invocations, prepared, now>>

SaveFinal(scope, final) ==
    LET row == requests[scope] IN
    /\ row # None
    /\ final \in FinalsOf(row.receipt.subject)
    /\ CanSaveFinal(row, final)
    /\ Put(scope, [row EXCEPT !.final = final])

SaveExternalRecovery(scope, next) ==
    LET row == requests[scope] IN
    /\ row # None
    /\ CanSaveRecovery(row, next)
    /\ Put(scope, WithRecovery(row, next))

SaveTransactionHash(scope, tx) ==
    LET row == requests[scope] IN
    /\ row # None
    /\ CanSaveHash(row, tx)
    /\ Put(scope, [row EXCEPT !.transactionHash = tx])

Transition(scope, state) ==
    LET row == requests[scope] IN
    /\ row # None
    /\ CanTransition(row, state)
    /\ Put(scope, [row EXCEPT !.state = state])

------------------------------------------------------------------------------
(* The store "invocations"                                                 *)

PrepareInvocation(i, session, subject) ==
    /\ i \notin prepared
    /\ \E debt \in Debt :
         /\ debt = "absent" <=> session \notin DesktopSession
         /\ invocations' = [invocations EXCEPT ![i] =
              [ session |-> session, subject |-> subject, debt |-> debt,
                state |-> "prepared", requestId |-> None, mobileRequest |-> FALSE ]]
    /\ prepared' = prepared \cup {i}
    /\ UNCHANGED <<requests, saving, now>>

SaveMobileEnvelope(i) ==
    LET row == invocations[i] IN
    /\ row # None
    /\ row.session \notin DesktopSession
    /\ row.state = "prepared"
    /\ ~row.mobileRequest
    /\ invocations' = [invocations EXCEPT ![i].mobileRequest = TRUE]
    /\ UNCHANGED <<requests, prepared, saving, now>>

\* updateDurableInvocation; the wallet's id is passed with "created" always,
\* with "unknown" once it is known, with "not-invoked" never.
UpdateInvocation(i, state, requestId) ==
    LET row == invocations[i] IN
    /\ row # None
    /\ row.state \in {"prepared", "unknown", state}
    /\ state = "created" => requestId # None
    /\ state = "not-invoked" => requestId = None
    /\ row.requestId # None => requestId \in {None, row.requestId}
    /\ invocations' = [invocations EXCEPT
         ![i].state = state,
         ![i].requestId = IF requestId = None THEN @ ELSE requestId]
    /\ UNCHANGED <<requests, prepared, saving, now>>

------------------------------------------------------------------------------
(* Both stores in one transaction: pruneDurableEvidence                    *)

Completes(row, i) ==
    /\ row.receipt.invocation = i
    /\ BoundTo(invocations[i], row.receipt)
    /\ invocations[i].requestId = row.receipt.requestId

ExpiredScopes == {scope \in Scope : requests[scope] # None /\ Expired(requests[scope])}

Prune ==
    /\ requests' = [scope \in Scope |->
         IF scope \in ExpiredScopes THEN None ELSE requests[scope]]
    /\ invocations' = [i \in Invocation |->
         IF \E scope \in ExpiredScopes : Completes(requests[scope], i)
         THEN None ELSE invocations[i]]
    /\ UNCHANGED <<prepared, saving, now>>

Tick ==
    /\ now < MaxClock
    /\ now' = now + 1
    /\ UNCHANGED <<requests, invocations, prepared, saving>>

------------------------------------------------------------------------------
RequestNext ==
    \/ \E task \in Task : \/ \E receipt \in Receipts : SaveRequestRead(task, receipt)
                         \/ SaveRequestWrite(task)
    \/ \E tasks \in SUBSET Task : Abandon(tasks)
    \/ \E scope \in Scope :
         \/ \E final \in Final : SaveFinal(scope, final)
         \/ \E next \in AcceptedEvidence : SaveExternalRecovery(scope, next)
         \/ \E tx \in Tx : SaveTransactionHash(scope, tx)
         \/ \E state \in {"acknowledged", "archived"} : Transition(scope, state)

InvocationNext ==
    \E i \in Invocation :
      \/ \E session \in Session, subject \in Subject : PrepareInvocation(i, session, subject)
      \/ SaveMobileEnvelope(i)
      \/ \E state \in {"created", "unknown", "not-invoked"},
            requestId \in RequestId \cup {None} : UpdateInvocation(i, state, requestId)

Next == RequestNext \/ InvocationNext \/ Prune \/ Tick

Spec == Init /\ [][Next]_vars

------------------------------------------------------------------------------
(* Properties                                                              *)

\* The facts a row records about its operation never contradict each other,
\* though six operations of several tabs write them in any order: evidence,
\* hash and final name one transaction; non-submission excludes both others;
\* only settled rows are acknowledged and only open ones archived.
RowAgrees(row) ==
    /\ row.final # None /\ row.transactionHash # None =>
         SubmissionOf(row.final, row.transactionHash)
    /\ row.evidence # None =>
         /\ Identified(row.evidence) => row.transactionHash = row.evidence.transactionHash
         /\ row.evidence.status = "approved" => row.final # None
    /\ Failed(row) => row.final = None /\ row.transactionHash = None
    /\ row.state = "acknowledged" => Settled(row)
    /\ row.state = "archived" => ~Settled(row)

OutcomeAgrees ==
    \A scope \in Scope : requests[scope] # None => RowAgrees(requests[scope])

\* A recorded obligation to acknowledge at the wallet is never turned into a
\* waiver: a row that waives it was made from an invocation that did, even
\* when the invocation is read in an earlier transaction, from a receipt of a
\* closed tab, or after a prune (docs/api-reference.md: "A disappeared or
\* downgraded peer cannot clear a recorded obligation").
DebtKept ==
    \A scope \in Scope :
      LET row == requests[scope] IN
      row # None /\ row.debt = "waived" =>
        /\ row.receipt.invocation \in prepared
        /\ invocations[row.receipt.invocation] # None =>
             invocations[row.receipt.invocation].debt = "waived"

\* Unknown work survives (pruneDurableEvidence): the request whose outcome is
\* open and which nobody archived is never deleted, and an invocation only
\* together with the request it led to.
UnknownWorkSurvives ==
    [][ /\ \A scope \in Scope :
             requests[scope] # None /\ requests'[scope] = None =>
               requests[scope].state # "active"
        /\ \A i \in Invocation :
             invocations[i] # None /\ invocations'[i] = None =>
               \E scope \in Scope : /\ requests[scope] # None
                                    /\ requests[scope].receipt.invocation = i
                                    /\ requests'[scope] = None ]_vars

\* The store is a ledger of operations.  A final names its transaction, and so
\* does a hash saved before any final.
FinalTx(final) == IF final = None \/ final.hash = None THEN None ELSE final.hash.tx

EntryOf(row) ==
    [ answer |-> row.final,
      tx |-> IF row.transactionHash # None THEN row.transactionHash ELSE FinalTx(row.final),
      proof |-> IF Failed(row) THEN "not-submitted" ELSE "none",
      delivery |-> row.state ]

Ledger ==
    INSTANCE OperationLedger WITH
        Op <- Scope, Answer <- Final, TxOf <- FinalTx,
        ledger <- [scope \in Scope |->
          IF requests[scope] = None THEN None ELSE EntryOf(requests[scope])]

ASSUME EntryAssumption == None \notin Ledger!Entry

\* Every behaviour of the store, read through EntryOf, is one of the ledger.
ImplementsLedger == Ledger!LedgerSpec
==============================================================================
