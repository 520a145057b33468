--------------------------- MODULE DesktopRecovery ---------------------------
(***************************************************************************)
(* Requests to Infer Desk over the desktop bridge, from the signing call   *)
(* of a tab to the acknowledgement of its outcome:                         *)
(*                                                                         *)
(*   bridge.ts    startDurableDesktopRequest, pollDurableDesktopResult,    *)
(*                completeDesktopResult, lookupDesktopInvocation,          *)
(*                readResultForSession, acknowledgeDesktopResult           *)
(*   recovery.ts  migrateCurrentTab, reconcileRecoverableInvocation,       *)
(*                readRecoverableRequest, acknowledgeRecoverableRequest,   *)
(*                archiveRecoverableRequest                                *)
(*   desktopRequests.ts  the receipts each tab keeps in sessionStorage     *)
(*                                                                         *)
(* Every await is a step boundary.  The records are those of               *)
(* DurableRecovery, changed only through its operations; several tabs of   *)
(* one origin share them and the connected session (localStorage).  A tab  *)
(* runs one signing call and one recovery operation at a time: the reads   *)
(* of one record are deduplicated by inFlight.  Infer Desk is external; it *)
(* is as the adapter and docs/integration-contract.md use it.              *)
(***************************************************************************)
EXTENDS Naturals, FiniteSets

CONSTANTS
    Tx, ChainVersion, None, Session, RequestId, Subject, SubmitSubject,
    CommittedSubject, Invocation, Output, AckTombstone, ArchiveAge, MaxClock,
    Tab,         \* tabs of the origin
    V1Session,   \* sessions with contract version 1 and invocation lookup
    Account,     \* account, network and chain a session is approved for
    AccountOf    \* [Session -> Account]

ASSUME DesktopAssumption ==
    /\ V1Session \subseteq Session
    /\ AccountOf \in [Session -> Account]
    /\ None \notin Session

VARIABLES
    requests, invocations, prepared, saving, now,  \* see DurableRecovery
    session,   \* readExternalSession(): the connected session, or None
    receipts,  \* per tab, receipts in its sessionStorage
    calls,     \* per tab, the signing call in progress, or None
    recovery,  \* per tab, the recovery operation in progress, or None
    desk,      \* [Invocation -> what Infer Desk holds for it, or None]
    posted,    \* invocations whose creation request was sent
    told,      \* history: outcomes given to the dapp, by record
    accepted   \* history: records the dapp acknowledged or archived

storeVars == <<requests, invocations, prepared, saving, now>>
tabVars == <<receipts, calls, recovery>>
history == <<told, accepted>>
vars == <<storeVars, session, tabVars, desk, posted, history>>

DeskReceipt ==
    [ session : Session, requestId : RequestId, subject : Subject,
      invocation : Invocation \cup {None}, archived : BOOLEAN ]

Store ==
    INSTANCE DurableRecovery WITH
        DesktopSession <- Session,
        Receipts <- DeskReceipt,
        Task <- Tab \X {"call", "recovery"}

ASSUME StoreAssumption ==
    Store!EvidenceAssumption /\ Store!RecoveryAssumption /\ Store!EntryAssumption

------------------------------------------------------------------------------
(* Data                                                                    *)

\* What Desk can answer: a final, or a proof that nothing was broadcast.
Outcomes(subject) ==
    Store!FinalsOf(subject) \cup
    IF subject \in SubmitSubject \cap CommittedSubject THEN {Store!NotSubmitted} ELSE {}

Outcome == UNION {Outcomes(subject) : subject \in Subject}

\* What one read of Desk returned: its outcome, or a pending request and the
\* transaction it is identified with so far.
Answer == [ outcome : Outcome \cup {None}, tx : Tx \cup {None} ]

DeskEntry ==
    [ session : Session, requestId : RequestId, subject : Subject, answer : Answer,
      indexed : BOOLEAN,    \* admitted with its invocation id
      retention : {"held", "acknowledged", "pruned"} ]

Call ==
    [ step : {"hook", "posting", "saving", "unsaved", "linking", "polling", "completing"},
      invocation : Invocation, outcome : Outcome \cup {None} ]

Recovery ==
    [ step : {"migrating", "lookup", "saving", "linking", "reading", "read",
              "revalidating", "acknowledging", "accepting", "clearing", "marking"},
      invocation : Invocation \cup {None}, scope : Store!Scope \cup {None},
      session : Session \cup {None}, answer : Answer \cup {None} ]

ASSUME EntryAssumption == None \notin DeskEntry

Nothing == [ outcome |-> None, tx |-> None ]

TypeOK ==
    /\ session \in Session \cup {None}
    /\ receipts \in [Tab -> SUBSET DeskReceipt]
    /\ calls \in [Tab -> Call \cup {None}]
    /\ recovery \in [Tab -> Recovery \cup {None}]
    /\ desk \in [Invocation -> DeskEntry \cup {None}]
    /\ posted \subseteq Invocation
    /\ told \subseteq Store!Scope \X Outcome
    /\ accepted \subseteq Store!Scope \X {"acknowledged", "archived"}

Init ==
    /\ Store!Init
    /\ session = None
    /\ receipts = [tab \in Tab |-> {}]
    /\ calls = [tab \in Tab |-> None]
    /\ recovery = [tab \in Tab |-> None]
    /\ desk = [i \in Invocation |-> None]
    /\ posted = {}
    /\ told = {}
    /\ accepted = {}

Row(scope) == requests[scope]

Accepted(scope) == \E how \in {"acknowledged", "archived"} : <<scope, how>> \in accepted

\* sameScope, together with sameBridgeOrigin
SameAccount(s) == session # None /\ AccountOf[session] = AccountOf[s]

\* sessionStorage has one receipt per request id.
Keep(tab, receipt) ==
    receipts' = [receipts EXCEPT ![tab] =
        {r \in @ : r.requestId # receipt.requestId} \cup {receipt}]

\* Mutant: the id is taken from the invocation, before the two are linked.
ReceiptOfInvocation(i) ==
    [ session |-> desk[i].session, requestId |-> invocations[i].requestId,
      subject |-> desk[i].subject, invocation |-> i, archived |-> FALSE ]

ReceiptOf(i) ==
    [ session |-> desk[i].session, requestId |-> desk[i].requestId,
      subject |-> desk[i].subject, invocation |-> i, archived |-> FALSE ]

DeskScope(i) == <<desk[i].session, desk[i].requestId>>

\* serializeStoredFinal and saveDurableFinal, or for a non-submission
\* saveDurableExternalTransactionRecovery
SaveOutcome(scope, outcome) ==
    IF outcome = Store!NotSubmitted THEN Store!SaveExternalRecovery(scope, outcome)
                                    ELSE Store!SaveFinal(scope, outcome)

Tell(scope, outcome) == told' = told \cup {<<scope, outcome>>}

\* An update whose failure the caller swallows.
TryUpdate(i, state, requestId) ==
    Store!UpdateInvocation(i, state, requestId) \/ UNCHANGED storeVars

------------------------------------------------------------------------------
(* The signing call of a tab                                               *)

InCall(tab, step) == calls[tab] # None /\ calls[tab].step = step

SetCall(tab, call) ==
    /\ calls' = [calls EXCEPT ![tab] = call]
    /\ UNCHANGED <<session, recovery, accepted>>

CallStep(tab, step) == SetCall(tab, [calls[tab] EXCEPT !.step = step])

CallTask(tab) == <<tab, "call">>

\* prepareDurableInvocation: nothing was sent yet.
Prepare(tab, i, subject) ==
    /\ calls[tab] = None
    /\ session # None
    /\ Store!PrepareInvocation(i, session, subject)
    /\ invocations'[i].debt = IF session \in V1Session THEN "required" ELSE "waived"
    /\ SetCall(tab, [step |-> "hook", invocation |-> i, outcome |-> None])
    /\ UNCHANGED <<receipts, desk, posted, told>>

\* onInvocationPrepared throws, or a fence refuses the session.
Refuse(tab) ==
    /\ InCall(tab, "hook")
    /\ TryUpdate(calls[tab].invocation, "not-invoked", None)
    /\ SetCall(tab, None)
    /\ UNCHANGED <<receipts, desk, posted, told>>

Post(tab) ==
    /\ InCall(tab, "hook")
    /\ posted' = posted \cup {calls[tab].invocation}
    /\ CallStep(tab, "posting")
    /\ UNCHANGED <<storeVars, receipts, desk, told>>

\* Mutant: an unanswered POST is taken for one that was never sent.
PostFailsNotInvoked(tab) ==
    /\ InCall(tab, "posting")
    /\ TryUpdate(calls[tab].invocation, "not-invoked", None)
    /\ SetCall(tab, None)
    /\ UNCHANGED <<receipts, desk, posted, told>>

\* The POST fails or times out: Desk may have admitted it, or may still.
PostFails(tab) ==
    /\ InCall(tab, "posting")
    /\ TryUpdate(calls[tab].invocation, "unknown", None)
    /\ SetCall(tab, None)
    /\ UNCHANGED <<receipts, desk, posted, told>>

\* saveDesktopRequest, which may find sessionStorage full, and the first
\* transaction of saveDurableRequest
PostAnswered(tab) ==
    LET i == calls[tab].invocation IN
    /\ InCall(tab, "posting")
    /\ desk[i] # None
    /\ \/ /\ Keep(tab, ReceiptOf(i))
          /\ Store!SaveRequestRead(CallTask(tab), ReceiptOf(i))
          /\ CallStep(tab, "saving")
       \/ CallStep(tab, "unsaved") /\ UNCHANGED <<storeVars, receipts>>
    /\ UNCHANGED <<desk, posted, told>>

SaveCall(tab) ==
    /\ InCall(tab, "saving")
    /\ \/ Store!SaveRequestWrite(CallTask(tab)) /\ CallStep(tab, "linking")
       \/ Store!Abandon({CallTask(tab)}) /\ CallStep(tab, "unsaved")
    /\ UNCHANGED <<receipts, desk, posted, told>>

LinkCall(tab) ==
    LET i == calls[tab].invocation IN
    /\ InCall(tab, "linking")
    /\ Store!UpdateInvocation(i, "created", desk[i].requestId)
    /\ CallStep(tab, "polling")
    /\ UNCHANGED <<receipts, desk, posted, told>>

\* Mutant: a receipt that was not recorded is taken for a refusal.
RecordingFailsNotInvoked(tab) ==
    LET i == calls[tab].invocation IN
    /\ InCall(tab, "unsaved") \/ InCall(tab, "linking")
    /\ TryUpdate(i, "not-invoked", None)
    /\ SetCall(tab, None)
    /\ UNCHANGED <<receipts, desk, posted, told>>

\* The receipt could not be fully recorded.
RecordingFails(tab) ==
    LET i == calls[tab].invocation IN
    /\ InCall(tab, "unsaved") \/ InCall(tab, "linking")
    /\ TryUpdate(i, "unknown", desk[i].requestId)
    /\ SetCall(tab, None)
    /\ UNCHANGED <<receipts, desk, posted, told>>

\* pollDurableDesktopResult sees a terminal status ...
PollAnswered(tab) ==
    LET entry == desk[calls[tab].invocation] IN
    /\ InCall(tab, "polling")
    /\ entry.answer.outcome # None
    /\ entry.retention # "pruned"
    /\ SetCall(tab, [calls[tab] EXCEPT !.step = "completing",
                                       !.outcome = entry.answer.outcome])
    /\ UNCHANGED <<storeVars, receipts, desk, posted, told>>

\* ... or gives up, as does a throwing onRequestCreated.
PollFails(tab) ==
    /\ InCall(tab, "polling")
    /\ SetCall(tab, None)
    /\ UNCHANGED <<storeVars, receipts, desk, posted, told>>

\* Mutant: the dapp is told before the outcome is saved.
CompleteCallUnsaved(tab) ==
    LET scope == DeskScope(calls[tab].invocation)
        outcome == calls[tab].outcome
    IN
    /\ InCall(tab, "completing")
    /\ SaveOutcome(scope, outcome) \/ UNCHANGED storeVars
    /\ IF outcome = Store!NotSubmitted THEN told' = told ELSE Tell(scope, outcome)
    /\ SetCall(tab, None)
    /\ UNCHANGED <<receipts, desk, posted>>

\* completeDesktopResult: an outcome is given to the dapp only once saved, and
\* a non-submission only by recovery.
CompleteCall(tab) ==
    LET scope == DeskScope(calls[tab].invocation)
        outcome == calls[tab].outcome
    IN
    /\ InCall(tab, "completing")
    /\ \/ /\ SaveOutcome(scope, outcome)
          /\ IF outcome = Store!NotSubmitted THEN told' = told ELSE Tell(scope, outcome)
       \/ UNCHANGED <<storeVars, told>>
    /\ SetCall(tab, None)
    /\ UNCHANGED <<receipts, desk, posted>>

CallNext(tab) ==
    \/ \E i \in Invocation, subject \in Subject : Prepare(tab, i, subject)
    \/ Refuse(tab) \/ Post(tab) \/ PostFails(tab) \/ PostAnswered(tab)
    \/ SaveCall(tab) \/ LinkCall(tab) \/ RecordingFails(tab)
    \/ PollAnswered(tab) \/ PollFails(tab) \/ CompleteCall(tab)

------------------------------------------------------------------------------
(* Recovery operations of a tab                                            *)

InRecovery(tab, step) == recovery[tab] # None /\ recovery[tab].step = step

SetRecovery(tab, operation) ==
    /\ recovery' = [recovery EXCEPT ![tab] = operation]
    /\ UNCHANGED <<session, calls, posted>>

RecoveryStep(tab, step) == SetRecovery(tab, [recovery[tab] EXCEPT !.step = step])

\* An operation reads the session once, when it starts.
Start(tab, step, i, scope) ==
    /\ recovery[tab] = None
    /\ SetRecovery(tab, [ step |-> step, invocation |-> i, scope |-> scope,
                          session |-> session, answer |-> None ])

RecoveryTask(tab) == <<tab, "recovery">>

\* Any step may fail: a lost or refused answer, an aborted or failed save.
RecoveryFails(tab) ==
    /\ recovery[tab] # None
    /\ Store!Abandon({RecoveryTask(tab)})
    /\ SetRecovery(tab, None)
    /\ UNCHANGED <<receipts, desk, history>>

\* migrateCurrentTab, the start of every list, read, acknowledgement and
\* archive: save what this tab holds for the connected session.
MissingRows(tab) ==
    {r \in receipts[tab] : r.session = session /\ Row(Store!ScopeOf(r)) = None}

Migrate(tab, receipt) ==
    /\ receipt \in MissingRows(tab)
    /\ Start(tab, "migrating", None, None)
    /\ Store!SaveRequestRead(RecoveryTask(tab), receipt)
    /\ UNCHANGED <<receipts, desk, history>>

Migrated(tab) ==
    /\ InRecovery(tab, "migrating")
    /\ Store!SaveRequestWrite(RecoveryTask(tab))
    /\ SetRecovery(tab, None)
    /\ UNCHANGED <<receipts, desk, history>>

\* Mutant: only an invocation known to be uncertain is looked up.
StartLookupOfUnknown(tab, i) ==
    /\ invocations[i] # None
    /\ invocations[i].state = "unknown"
    /\ session \in V1Session
    /\ SameAccount(invocations[i].session)
    /\ Start(tab, "lookup", i, None)
    /\ UNCHANGED <<storeVars, receipts, desk, history>>

\* reconcileRecoverableInvocation, for an invocation without its record: the
\* read of a linked one is StartRead.
Linked(i) ==
    /\ invocations[i].requestId # None
    /\ Row(<<invocations[i].session, invocations[i].requestId>>) # None

StartLookup(tab, i) ==
    /\ invocations[i] # None
    /\ invocations[i].state # "not-invoked"
    /\ ~Linked(i)
    /\ session \in V1Session
    /\ SameAccount(invocations[i].session)
    /\ Start(tab, "lookup", i, None)
    /\ UNCHANGED <<storeVars, receipts, desk, history>>

\* lookupDesktopInvocation stores the receipt of the admission it found.
LookupAnswered(tab) ==
    LET i == recovery[tab].invocation IN
    /\ InRecovery(tab, "lookup")
    /\ desk[i] # None
    /\ desk[i].indexed
    /\ desk[i].retention # "pruned"
    /\ Keep(tab, ReceiptOf(i))
    /\ Store!SaveRequestRead(RecoveryTask(tab), ReceiptOf(i))
    /\ RecoveryStep(tab, "saving")
    /\ UNCHANGED <<desk, history>>

SaveLookup(tab) ==
    /\ InRecovery(tab, "saving")
    /\ Store!SaveRequestWrite(RecoveryTask(tab))
    /\ RecoveryStep(tab, "linking")
    /\ UNCHANGED <<receipts, desk, history>>

LinkLookup(tab) ==
    LET i == recovery[tab].invocation IN
    /\ InRecovery(tab, "linking")
    /\ Store!UpdateInvocation(i, "created", desk[i].requestId)
    /\ SetRecovery(tab, None)
    /\ UNCHANGED <<receipts, desk, history>>

\* exactRecord: the tab's receipts were migrated and the record exists.
Exact(tab, scope) ==
    /\ recovery[tab] = None
    /\ MissingRows(tab) = {}
    /\ Row(scope) # None

\* readRecoverableRequest replays a saved outcome without the wallet ...
Replay(tab, scope) ==
    /\ Exact(tab, scope)
    /\ Store!Settled(Row(scope))
    /\ Tell(scope, IF Row(scope).final # None THEN Row(scope).final
                                             ELSE Store!NotSubmitted)
    /\ UNCHANGED <<storeVars, session, tabVars, desk, posted, accepted>>

\* ... and otherwise asks Desk, as a session of the same account.
StartRead(tab, scope) ==
    /\ Exact(tab, scope)
    /\ ~Store!Settled(Row(scope))
    /\ SameAccount(scope[1])
    /\ Start(tab, "reading", Row(scope).receipt.invocation, scope)
    /\ UNCHANGED <<storeVars, receipts, desk, history>>

\* Desk answers for an invocation it knows; without one, only the original
\* session can name the request.
Readable(i, reader) ==
    /\ desk[i] # None
    /\ desk[i].retention # "pruned"
    /\ desk[i].indexed \/ reader = desk[i].session

\* Without invocation lookup, the original session reads its own request.
LegacyRead(tab) ==
    /\ recovery[tab].session \notin V1Session
    /\ recovery[tab].session = recovery[tab].scope[1]

ReadAnswered(tab) ==
    LET i == recovery[tab].invocation IN
    /\ InRecovery(tab, "reading")
    /\ Readable(i, recovery[tab].session)
    /\ SetRecovery(tab, [recovery[tab] EXCEPT !.step = "read", !.answer = desk[i].answer])
    /\ UNCHANGED <<storeVars, receipts, desk, history>>

\* The answer counts only for the session that asked, but the rejection of a
\* legacy read; only /read-result names the transaction of a pending request.
SaveRead(tab) ==
    LET scope == recovery[tab].scope
        answer == recovery[tab].answer
    IN
    /\ InRecovery(tab, "read")
    /\ \/ session = recovery[tab].session
       \/ LegacyRead(tab) /\ answer.outcome = Store!Rejected
    /\ \/ /\ answer.outcome # None
          /\ SaveOutcome(scope, answer.outcome)
          /\ Tell(scope, answer.outcome)
       \/ /\ answer.outcome = None
          /\ IF answer.tx # None /\ ~LegacyRead(tab)
             THEN Store!SaveTransactionHash(scope, answer.tx)
             ELSE UNCHANGED storeVars
          /\ told' = told
    /\ SetRecovery(tab, None)
    /\ UNCHANGED <<receipts, desk, accepted>>

\* Mutant: only a non-submission is acknowledged at Desk.
OwedIfFailed(row) == Store!Failed(row)

\* acknowledgeRecoverableRequest: what the row still owes to Desk
Owed(row) ==
    \/ Store!Failed(row)
    \/ row.debt = "required"
    \/ row.debt = "absent" /\ row.receipt.invocation # None

StartAcknowledge(tab, scope) ==
    LET row == Row(scope) IN
    /\ Exact(tab, scope)
    /\ Store!Settled(row)
    /\ row.state = "active"
    /\ Owed(row) => session \in V1Session /\ SameAccount(scope[1])
    /\ Start(tab, IF ~Owed(row) THEN "accepting"
                  ELSE IF Store!Failed(row) THEN "revalidating" ELSE "acknowledging",
             row.receipt.invocation, scope)
    /\ UNCHANGED <<storeVars, receipts, desk, history>>

\* A non-submission is read again first, and saved again.
Revalidate(tab) ==
    LET i == recovery[tab].invocation IN
    /\ InRecovery(tab, "revalidating")
    /\ Readable(i, recovery[tab].session)
    /\ desk[i].answer.outcome = Store!NotSubmitted
    /\ session = recovery[tab].session
    /\ Store!SaveExternalRecovery(recovery[tab].scope, Store!NotSubmitted)
    /\ RecoveryStep(tab, "acknowledging")
    /\ UNCHANGED <<receipts, desk, history>>

\* POST /acknowledge-result, in the order of its arrival at Desk
DeskAcknowledges(tab) ==
    LET i == recovery[tab].invocation IN
    /\ InRecovery(tab, "acknowledging")
    /\ desk[i] # None
    /\ desk[i].indexed
    /\ desk[i].retention # "pruned"
    /\ desk[i].answer.outcome # None
    /\ desk' = [desk EXCEPT ![i].retention = "acknowledged"]
    /\ RecoveryStep(tab, "accepting")
    /\ UNCHANGED <<storeVars, receipts, history>>

\* The local delivery; another tab may have made it meanwhile.
Accept(tab) ==
    LET scope == recovery[tab].scope IN
    /\ InRecovery(tab, "accepting")
    /\ Row(scope) # None
    /\ Store!Failed(Row(scope)) => session = recovery[tab].session
    /\ IF Row(scope).state = "acknowledged" THEN UNCHANGED storeVars
                                            ELSE Store!Transition(scope, "acknowledged")
    /\ accepted' = accepted \cup {<<scope, "acknowledged">>}
    /\ RecoveryStep(tab, "clearing")
    /\ UNCHANGED <<receipts, desk, told>>

\* clearPendingDesktopBridgeRequest, of the original session's tab only
Clear(tab) ==
    LET scope == recovery[tab].scope IN
    /\ InRecovery(tab, "clearing")
    /\ receipts' = [receipts EXCEPT ![tab] =
         IF recovery[tab].session = scope[1]
         THEN {r \in @ : r.requestId # scope[2]} ELSE @]
    /\ SetRecovery(tab, None)
    /\ UNCHANGED <<storeVars, desk, history>>

\* archiveRecoverableRequest
Archive(tab, scope) ==
    /\ Exact(tab, scope)
    /\ Store!Transition(scope, "archived")
    /\ accepted' = accepted \cup {<<scope, "archived">>}
    /\ Start(tab, "marking", None, scope)
    /\ UNCHANGED <<receipts, desk, told>>

\* archivePendingDesktopBridgeRequest
Mark(tab) ==
    LET scope == recovery[tab].scope IN
    /\ InRecovery(tab, "marking")
    /\ receipts' = [receipts EXCEPT ![tab] =
         {IF session = scope[1] /\ Store!ScopeOf(r) = scope
          THEN [r EXCEPT !.archived = TRUE] ELSE r : r \in @}]
    /\ SetRecovery(tab, None)
    /\ UNCHANGED <<storeVars, desk, history>>

RecoveryNext(tab) ==
    \/ \E receipt \in receipts[tab] : Migrate(tab, receipt)
    \/ Migrated(tab)
    \/ \E i \in Invocation : StartLookup(tab, i)
    \/ LookupAnswered(tab) \/ SaveLookup(tab) \/ LinkLookup(tab)
    \/ \E scope \in Store!Scope :
         Replay(tab, scope) \/ StartRead(tab, scope)
           \/ StartAcknowledge(tab, scope) \/ Archive(tab, scope)
    \/ ReadAnswered(tab) \/ SaveRead(tab)
    \/ Revalidate(tab) \/ DeskAcknowledges(tab) \/ Accept(tab)
    \/ Clear(tab) \/ Mark(tab) \/ RecoveryFails(tab)

------------------------------------------------------------------------------
(* Sessions, tabs, the store's maintenance, and Infer Desk                 *)

\* connectOnce publishes a session, a new one or one that was cleared: that of a
\* health read before (getBridgeSession), or one a lookup has found again.
Connect(s) ==
    /\ s # session
    /\ session' = s
    /\ UNCHANGED <<storeVars, tabVars, desk, posted, history>>

Disconnect ==
    /\ session # None
    /\ session' = None
    /\ UNCHANGED <<storeVars, tabVars, desk, posted, history>>

\* A reload keeps the tab's sessionStorage, closing the tab does not.
LeaveTab(tab) ==
    /\ calls[tab] # None \/ recovery[tab] # None \/ receipts[tab] # {}
    /\ Store!Abandon({CallTask(tab), RecoveryTask(tab)})
    /\ calls' = [calls EXCEPT ![tab] = None]
    /\ recovery' = [recovery EXCEPT ![tab] = None]
    /\ \E kept \in {receipts[tab], {}} : receipts' = [receipts EXCEPT ![tab] = kept]
    /\ UNCHANGED <<session, desk, posted, history>>

\* pruneDurableEvidence, run by each new client, and the passing of time
Maintain ==
    /\ Store!Prune \/ Store!Tick
    /\ UNCHANGED <<session, tabVars, desk, posted, history>>

\* Desk admits a request when its POST arrives, however late.
Admit(i) ==
    /\ i \in posted
    /\ desk[i] = None
    /\ invocations[i] # None
    /\ \E requestId \in RequestId :
         /\ \A j \in Invocation : desk[j] # None => desk[j].requestId # requestId
         /\ desk' = [desk EXCEPT ![i] =
              [ session |-> invocations[i].session, requestId |-> requestId,
                subject |-> invocations[i].subject, answer |-> Nothing,
                indexed |-> invocations[i].session \in V1Session,
                retention |-> "held" ]]
    /\ UNCHANGED <<storeVars, session, tabVars, posted, history>>

\* A submission is identified before it is broadcast.
Identify(i, tx) ==
    /\ desk[i] # None
    /\ desk[i].subject \in SubmitSubject
    /\ desk[i].answer = Nothing
    /\ desk' = [desk EXCEPT ![i].answer.tx = tx]
    /\ UNCHANGED <<storeVars, session, tabVars, posted, history>>

Decide(i, outcome) ==
    /\ desk[i] # None
    /\ desk[i].answer.outcome = None
    /\ outcome \in Outcomes(desk[i].subject)
    /\ desk[i].answer.tx # None =>
         outcome # Store!NotSubmitted /\ Store!SubmissionOf(outcome, desk[i].answer.tx)
    /\ desk' = [desk EXCEPT ![i].answer.outcome = outcome]
    /\ UNCHANGED <<storeVars, session, tabVars, posted, history>>

\* Desk drops a result some time after its acknowledgement.
Forget(i) ==
    /\ desk[i] # None
    /\ desk[i].retention = "acknowledged"
    /\ desk' = [desk EXCEPT ![i].retention = "pruned"]
    /\ UNCHANGED <<storeVars, session, tabVars, posted, history>>

DeskNext ==
    \E i \in Invocation :
      \/ Admit(i) \/ Forget(i)
      \/ \E tx \in Tx : Identify(i, tx)
      \/ \E outcome \in Outcome : Decide(i, outcome)

Next ==
    \/ \E tab \in Tab : CallNext(tab) \/ RecoveryNext(tab) \/ LeaveTab(tab)
    \/ \E s \in Session : Connect(s)
    \/ Disconnect
    \/ Maintain
    \/ DeskNext

Spec == Init /\ [][Next]_vars

\* Every request to Desk has a timeout and every IndexedDB transaction ends, so
\* that a started operation ends.  One that fails is tried again at the next
\* wake of the coordinator or by the dapp; neither Desk nor the store fails for
\* ever, and the tab is not closed for ever.  Desk, or its user, decides every
\* request.
Fairness ==
    /\ \A tab \in Tab :
         /\ WF_vars(RecoveryFails(tab))
         /\ SF_vars(\/ \E receipt \in receipts[tab] : Migrate(tab, receipt)
                    \/ \E i \in Invocation : StartLookup(tab, i)
                    \/ \E scope \in Store!Scope : StartRead(tab, scope))
         /\ SF_vars(LookupAnswered(tab) \/ ReadAnswered(tab))
         /\ SF_vars(Migrated(tab) \/ SaveLookup(tab) \/ SaveRead(tab))
         /\ SF_vars(LinkLookup(tab))
    /\ \A i \in Invocation :
         WF_vars(\E outcome \in Outcome : Decide(i, outcome))

FairSpec == Spec /\ Fairness

------------------------------------------------------------------------------
(* Properties                                                              *)

\* "not-invoked" is the adapter's only proof that nothing was dispatched
\* (docs/integration-contract.md): no tab, however its call and the lookups
\* of other tabs interleave, records it of a request that was sent.
NotInvokedIsTrue ==
    \A i \in Invocation :
      invocations[i] # None /\ invocations[i].state = "not-invoked" => i \notin posted

\* What the dapp was told is what Desk decided, and a later read of the same
\* record repeats it: it was saved before, by the tab that told it or by
\* another one, until the dapp accepts it.
ToldIsSaved ==
    \A scope \in Store!Scope, outcome \in Outcome :
      <<scope, outcome>> \in told =>
        /\ \E i \in Invocation : /\ desk[i] # None
                                 /\ DeskScope(i) = scope
                                 /\ desk[i].answer.outcome = outcome
        /\ ~Accepted(scope) =>
             /\ Row(scope) # None
             /\ IF outcome = Store!NotSubmitted THEN Store!VerifiedNotSubmitted(Row(scope))
                                                ELSE Row(scope).final = outcome

\* A delivery is final for the browser only after it is for Desk: a request of
\* a v1 session is hidden as acknowledged only when Desk acknowledged it, in
\* whichever session, by whichever tab and after whatever failures.
DeskAcknowledgedFirst ==
    \A scope \in Store!Scope :
      LET row == Row(scope) IN
      row # None /\ row.state = "acknowledged" /\ scope[1] \in V1Session =>
        /\ desk[row.receipt.invocation] # None
        /\ desk[row.receipt.invocation].retention # "held"

\* An admitted request that was not accepted can be found again: its
\* invocation outlives its record, and no failure on the way to the record
\* makes the adapter believe that nothing was dispatched.
AdmissionIsRecoverable ==
    \A i \in Invocation :
      desk[i] # None /\ ~Accepted(DeskScope(i)) =>
        invocations[i] # None /\ invocations[i].state # "not-invoked"

\* A request that Desk admitted, which it stays, is settled in the browser,
\* whichever step of its call, of a lookup or of a read is lost, once sessions
\* are no longer replaced for ever: unless it is archived first or no session
\* of its account with invocation lookup is connected.
AdmissionIsSettled ==
    <>[][session' = session]_session =>
      \A i \in Invocation : []<>
        (desk[i] # None /\ desk[i].indexed =>
          \/ Accepted(DeskScope(i))
          \/ Row(DeskScope(i)) # None /\ Store!Settled(Row(DeskScope(i)))
          \/ session \notin V1Session
          \/ ~SameAccount(desk[i].session))
==============================================================================
