---------------------------- MODULE MobileRecovery ----------------------------
(***************************************************************************)
(* Requests to Infer Wallet over the mobile relay, from the signing call   *)
(* of a tab to the acknowledgement of its outcome:                         *)
(*                                                                         *)
(*   mobileRelay.ts  startRequest, waitForRequestOutcome,                  *)
(*                   completeMobileResult, reconcileMobileRelay-           *)
(*                   InvocationReceipt, relaunchMobileRelayInvocation,     *)
(*                   readMobileRelayRequestOnce, mintReadGrant,            *)
(*                   getReadGrant                                          *)
(*   recovery.ts     the mobile branches of migrateCurrentTab, reconcile-  *)
(*                   RecoverableInvocation, readRecoverableRequest,        *)
(*                   acknowledgeRecoverableRequest, archive..., and        *)
(*                   performAuthorizedMobileRead                           *)
(*   mobileRequests.ts, mobileSocket.ts                                    *)
(*                                                                         *)
(* Every await is a step boundary.  The records are those of               *)
(* DurableRecovery.  The relay keeps a request until it is answered or     *)
(* closed (expired, cancelled, revoked, failed); the wallet executes it on *)
(* its own, so that a closed request may have been executed.  A session of *)
(* the same account reads the wallet's result through a read grant.  The   *)
(* relay and the wallet are external, modelled as the adapter uses them.   *)
(* The pruning of accepted records is composed in DesktopRecovery only.    *)
(***************************************************************************)
EXTENDS Naturals, FiniteSets

CONSTANTS
    Tx, ChainVersion, None, Session, RequestId, Subject, SubmitSubject,
    CommittedSubject, Invocation, Output, AckTombstone, ArchiveAge, MaxClock,
    Tab,         \* tabs of the origin
    Capable,     \* sessions with durableExternalSubmissionRecovery
    Account,     \* account, network, chain and relay of a session
    AccountOf,   \* [Session -> Account]
    Snapshots    \* evidence of a submission the wallet may answer with

ASSUME MobileAssumption ==
    /\ Capable \subseteq Session
    /\ AccountOf \in [Session -> Account]
    /\ None \notin Session

VARIABLES
    requests, invocations, prepared, saving, now,  \* see DurableRecovery
    session,   \* readExternalSession(): the connected session, or None
    receipts,  \* per tab, receipts in its sessionStorage
    calls,     \* per tab, the signing call in progress, or None
    recovery,  \* per tab, the recovery operation in progress, or None
    relay,     \* [Invocation -> the relay's request, or None]
    wallet,    \* [Invocation -> what became of it in the wallet, or None]
    grants,    \* [Invocation \X Session -> the read grant, or None]
    posted,    \* invocations whose creation request was sent
    launched,  \* history: invocations the wallet app was opened for
    told,      \* history: outcomes given to the dapp, by record
    accepted   \* history: records the dapp acknowledged or archived

storeVars == <<requests, invocations, prepared, saving, now>>
tabVars == <<receipts, calls, recovery>>
remote == <<relay, wallet, grants>>
history == <<told, accepted>>
vars == <<storeVars, session, tabVars, remote, posted, launched, history>>

MobileReceipt ==
    [ session : Session, requestId : RequestId, subject : Subject,
      invocation : Invocation, archived : BOOLEAN ]

Store ==
    INSTANCE DurableRecovery WITH
        DesktopSession <- {},
        Receipts <- MobileReceipt,
        Task <- Tab \X {"call", "recovery"}

ASSUME StoreAssumption ==
    Store!EvidenceAssumption /\ Store!RecoveryAssumption /\ Store!EntryAssumption

ASSUME SnapshotAssumption == Snapshots \subseteq Store!AcceptedEvidence

------------------------------------------------------------------------------
(* Data                                                                    *)

\* What becomes of a request in the wallet: a final, or its execution fails
\* before the transaction is broadcast.
Outcomes(subject) ==
    Store!FinalsOf(subject) \cup
    IF subject \in SubmitSubject THEN {Store!NotSubmitted} ELSE {}

Outcome == UNION {Outcomes(subject) : subject \in Subject}

RelayEntry ==
    [ session : Session, requestId : RequestId, subject : Subject,
      status : {"pending", "answered", "closed"} ]

\* What a grant redelivers: evidence of a submission, or the sealed result.
Payload == Snapshots \cup Store!Final

\* A grant that was denied or has expired is no more.
Grant == [ status : {"pending", "fulfilled"}, payload : Payload \cup {None} ]

Call ==
    [ step : {"hook", "sealed", "posting", "saving", "unsaved", "linking", "launching",
              "polling", "sleeping", "last", "completing"},
      invocation : Invocation, outcome : Outcome \cup {None},
      late : BOOLEAN ]    \* the smaller of the two deadlines has passed

Recovery ==
    [ step : {"migrating", "lookup", "saving", "linking", "relaunching", "asking", "read",
              "minting", "minted", "granted", "saved", "accepting", "clearing", "marking"},
      invocation : Invocation \cup {None}, scope : Store!Scope \cup {None},
      session : Session \cup {None}, answer : Outcome \cup Payload \cup {None} ]

ASSUME EntryAssumption == None \notin RelayEntry \cup Grant \cup Call \cup Recovery

TypeOK ==
    /\ session \in Session \cup {None}
    /\ receipts \in [Tab -> SUBSET MobileReceipt]
    /\ calls \in [Tab -> Call \cup {None}]
    /\ recovery \in [Tab -> Recovery \cup {None}]
    /\ relay \in [Invocation -> RelayEntry \cup {None}]
    /\ wallet \in [Invocation -> Outcome \cup {None}]
    /\ grants \in [Invocation \X Session -> Grant \cup {None}]
    /\ posted \subseteq Invocation
    /\ launched \subseteq Invocation
    /\ told \subseteq Store!Scope \X Outcome
    /\ accepted \subseteq Store!Scope \X {"acknowledged", "archived"}

Init ==
    /\ Store!Init
    /\ session \in Session \cup {None}
    /\ receipts = [tab \in Tab |-> {}]
    /\ calls = [tab \in Tab |-> None]
    /\ recovery = [tab \in Tab |-> None]
    /\ relay = [i \in Invocation |-> None]
    /\ wallet = [i \in Invocation |-> None]
    /\ grants = [key \in Invocation \X Session |-> None]
    /\ posted = {}
    /\ launched = {}
    /\ told = {}
    /\ accepted = {}

Row(scope) == requests[scope]

Accepted(scope) == \E how \in {"acknowledged", "archived"} : <<scope, how>> \in accepted

\* sameScope, together with sameRelayBaseUrl
SameAccount(s) == session # None /\ AccountOf[session] = AccountOf[s]

RelayScope(i) == <<relay[i].session, relay[i].requestId>>

\* sessionStorage has one receipt per request id.
Keep(tab, receipt) ==
    receipts' = [receipts EXCEPT ![tab] =
        {r \in @ : r.requestId # receipt.requestId} \cup {receipt}]

\* Mutant: the receipt names the request the invocation is linked to, before
\* it is linked.
ReceiptOfInvocation(i) ==
    [ session |-> relay[i].session, requestId |-> invocations[i].requestId,
      subject |-> relay[i].subject, invocation |-> i, archived |-> FALSE ]

ReceiptOf(i) ==
    [ session |-> relay[i].session, requestId |-> relay[i].requestId,
      subject |-> relay[i].subject, invocation |-> i, archived |-> FALSE ]

\* Mutant: an expired or cancelled request is taken for a refused one.
ClosedIsRejected(i) ==
    IF relay[i].status = "closed" THEN Store!Rejected
    ELSE IF relay[i].status = "answered" THEN wallet[i] ELSE None

\* decodeMobileRelayResult: an approval, or a clean rejection.  No other final
\* status proves anything: not one that the relay closed, nor a rejection that
\* says the execution failed.
DecodedResult(i) ==
    IF relay[i].status = "answered" /\ wallet[i] # Store!NotSubmitted
    THEN wallet[i] ELSE None

Tell(scope, outcome) == told' = told \cup {<<scope, outcome>>}

\* An update whose failure the caller swallows.
TryUpdate(i, state, requestId) ==
    Store!UpdateInvocation(i, state, requestId) \/ UNCHANGED storeVars

------------------------------------------------------------------------------
(* The signing call of a tab: startRequest and completeMobileResult        *)

InCall(tab, step) == calls[tab] # None /\ calls[tab].step = step

SetCall(tab, call) ==
    /\ calls' = [calls EXCEPT ![tab] = call]
    /\ UNCHANGED <<session, recovery, remote, accepted>>

CallStep(tab, step) == SetCall(tab, [calls[tab] EXCEPT !.step = step])

CallTask(tab) == <<tab, "call">>

\* prepareDurableInvocation: nothing was sent yet.
Prepare(tab, i, subject) ==
    /\ calls[tab] = None
    /\ session # None
    /\ Store!PrepareInvocation(i, session, subject)
    /\ SetCall(tab, [ step |-> "hook", invocation |-> i, outcome |-> None, late |-> FALSE ])
    /\ UNCHANGED <<receipts, posted, launched, told>>

\* onInvocationPrepared returns and saveDurableMobileInvocationEnvelope ends.
Seal(tab) ==
    /\ InCall(tab, "hook")
    /\ Store!SaveMobileEnvelope(calls[tab].invocation)
    /\ CallStep(tab, "sealed")
    /\ UNCHANGED <<receipts, posted, launched, told>>

\* The callback throws, the envelope is not saved, or a fence refuses the
\* network or the contract of the session.
Refuse(tab) ==
    /\ InCall(tab, "hook") \/ InCall(tab, "sealed")
    /\ TryUpdate(calls[tab].invocation, "not-invoked", None)
    /\ SetCall(tab, None)
    /\ UNCHANGED <<receipts, posted, launched, told>>

\* Mutant: the request is sent while its envelope is being saved.
PostUnsealed(tab) ==
    /\ InCall(tab, "hook") \/ InCall(tab, "sealed")
    /\ posted' = posted \cup {calls[tab].invocation}
    /\ CallStep(tab, "posting")
    /\ UNCHANGED <<storeVars, receipts, launched, told>>

Post(tab) ==
    /\ InCall(tab, "sealed")
    /\ posted' = posted \cup {calls[tab].invocation}
    /\ CallStep(tab, "posting")
    /\ UNCHANGED <<storeVars, receipts, launched, told>>

\* Mutant: an unanswered POST is taken for one that was never sent.
PostFailsNotInvoked(tab) ==
    /\ InCall(tab, "posting")
    /\ TryUpdate(calls[tab].invocation, "not-invoked", None)
    /\ SetCall(tab, None)
    /\ UNCHANGED <<receipts, posted, launched, told>>

\* The POST fails or times out, or its receipt is invalid: the relay may have
\* created the request, or may still.
PostFails(tab) ==
    /\ InCall(tab, "posting")
    /\ TryUpdate(calls[tab].invocation, "unknown", None)
    /\ SetCall(tab, None)
    /\ UNCHANGED <<receipts, posted, launched, told>>

\* storePendingMobileRelayRequest, which may find sessionStorage full, and the
\* first transaction of saveDurableRequest
PostAnswered(tab) ==
    LET i == calls[tab].invocation IN
    /\ InCall(tab, "posting")
    /\ relay[i] # None
    /\ \/ /\ Keep(tab, ReceiptOf(i))
          /\ Store!SaveRequestRead(CallTask(tab), ReceiptOf(i))
          /\ CallStep(tab, "saving")
       \/ CallStep(tab, "unsaved") /\ UNCHANGED <<storeVars, receipts>>
    /\ UNCHANGED <<posted, launched, told>>

\* Mutant: a record that could not be written does not stop the call.
SaveCallOrGoOn(tab) ==
    /\ InCall(tab, "saving")
    /\ \/ Store!SaveRequestWrite(CallTask(tab)) /\ CallStep(tab, "linking")
       \/ Store!Abandon({CallTask(tab)}) /\ CallStep(tab, "linking")
    /\ UNCHANGED <<receipts, posted, launched, told>>

SaveCall(tab) ==
    /\ InCall(tab, "saving")
    /\ \/ Store!SaveRequestWrite(CallTask(tab)) /\ CallStep(tab, "linking")
       \/ Store!Abandon({CallTask(tab)}) /\ CallStep(tab, "unsaved")
    /\ UNCHANGED <<receipts, posted, launched, told>>

LinkCall(tab) ==
    LET i == calls[tab].invocation IN
    /\ InCall(tab, "linking")
    /\ Store!UpdateInvocation(i, "created", relay[i].requestId)
    /\ CallStep(tab, "launching")
    /\ UNCHANGED <<receipts, posted, launched, told>>

\* The receipt could not be fully recorded, or one of the callbacks that are
\* told of the created request throws.
RecordingFails(tab) ==
    LET i == calls[tab].invocation IN
    /\ InCall(tab, "unsaved") \/ InCall(tab, "linking") \/ InCall(tab, "launching")
    /\ TryUpdate(i, "unknown", relay[i].requestId)
    /\ SetCall(tab, None)
    /\ UNCHANGED <<receipts, posted, launched, told>>

\* The wallet app is opened, if the relay gave a link that has not expired.
Launch(tab) ==
    /\ InCall(tab, "launching")
    /\ launched' \in {launched, launched \cup {calls[tab].invocation}}
    /\ CallStep(tab, "polling")
    /\ UNCHANGED <<storeVars, receipts, posted, told>>

------------------------------------------------------------------------------
(* waitForRequestOutcome                                                   *)

Final(i) == relay[i].status # "pending"

\* A read, the last one too, sees a final status ...
PollFinal(tab) ==
    LET i == calls[tab].invocation IN
    /\ InCall(tab, "polling") \/ InCall(tab, "last")
    /\ Final(i)
    /\ SetCall(tab, [calls[tab] EXCEPT !.step = "completing",
                                       !.outcome = DecodedResult(i)])
    /\ UNCHANGED <<storeVars, receipts, posted, launched, told>>

\* ... or a pending one, or fails in a way that may be repeated ...
PollAgain(tab) ==
    /\ InCall(tab, "polling")
    /\ CallStep(tab, IF calls[tab].late THEN "last" ELSE "sleeping")
    /\ UNCHANGED <<storeVars, receipts, posted, launched, told>>

\* ... or fails for good; the last read is not repeated.
PollFails(tab) ==
    /\ InCall(tab, "polling") \/ InCall(tab, "last")
    /\ SetCall(tab, None)
    /\ UNCHANGED <<storeVars, receipts, posted, launched, told>>

\* Mutant: the deadline is counted from the last time the wait was woken.
AwakeRestarts(tab) ==
    /\ InCall(tab, "sleeping")
    /\ SetCall(tab, [calls[tab] EXCEPT !.step = "polling", !.late = FALSE])
    /\ UNCHANGED <<storeVars, receipts, posted, launched, told>>

\* The timer, the socket, the focus and the visibility of the tab end a sleep;
\* after the deadline one read is left.
Awake(tab) ==
    /\ InCall(tab, "sleeping")
    /\ CallStep(tab, IF calls[tab].late THEN "last" ELSE "polling")
    /\ UNCHANGED <<storeVars, receipts, posted, launched, told>>

\* The client's timeout, or the expiry of the request, whichever is earlier
DeadlinePasses(tab) ==
    /\ InCall(tab, "polling") \/ InCall(tab, "sleeping")
    /\ ~calls[tab].late
    /\ SetCall(tab, [calls[tab] EXCEPT !.late = TRUE])
    /\ UNCHANGED <<storeVars, receipts, posted, launched, told>>

\* completeMobileResult: a decoded outcome is saved before the dapp sees it.
CompleteCall(tab) ==
    LET scope == RelayScope(calls[tab].invocation)
        outcome == calls[tab].outcome
    IN
    /\ InCall(tab, "completing")
    /\ \/ outcome # None /\ Store!SaveFinal(scope, outcome) /\ Tell(scope, outcome)
       \/ UNCHANGED <<storeVars, told>>
    /\ SetCall(tab, None)
    /\ UNCHANGED <<receipts, posted, launched>>

CallNext(tab) ==
    \/ \E i \in Invocation, subject \in Subject : Prepare(tab, i, subject)
    \/ Seal(tab) \/ Refuse(tab) \/ Post(tab) \/ PostFails(tab) \/ PostAnswered(tab)
    \/ SaveCall(tab) \/ LinkCall(tab) \/ RecordingFails(tab) \/ Launch(tab)
    \/ PollFinal(tab) \/ PollAgain(tab) \/ PollFails(tab) \/ Awake(tab)
    \/ CompleteCall(tab)

------------------------------------------------------------------------------
(* Recovery operations of a tab                                            *)

InRecovery(tab, step) == recovery[tab] # None /\ recovery[tab].step = step

SetRecovery(tab, operation) ==
    /\ recovery' = [recovery EXCEPT ![tab] = operation]
    /\ UNCHANGED <<session, calls, relay, wallet, posted>>

RecoveryStep(tab, step) == SetRecovery(tab, [recovery[tab] EXCEPT !.step = step])

\* An operation reads the session once, when it starts.
Start(tab, step, i, scope) ==
    /\ recovery[tab] = None
    /\ SetRecovery(tab, [ step |-> step, invocation |-> i, scope |-> scope,
                          session |-> session, answer |-> None ])

RecoveryTask(tab) == <<tab, "recovery">>

\* Any step may fail: a lost or refused answer, an aborted or failed save.
RecoveryFails(tab) ==
    /\ recovery[tab] # None
    /\ Store!Abandon({RecoveryTask(tab)})
    /\ SetRecovery(tab, None)
    /\ UNCHANGED <<receipts, grants, launched, history>>

\* migrateCurrentTab, the start of every list, read, acknowledgement and
\* archive: save what this tab holds for the connected session.
MissingRows(tab) ==
    {r \in receipts[tab] : r.session = session /\ Row(Store!ScopeOf(r)) = None}

Migrate(tab, receipt) ==
    /\ receipt \in MissingRows(tab)
    /\ Start(tab, "migrating", None, None)
    /\ Store!SaveRequestRead(RecoveryTask(tab), receipt)
    /\ UNCHANGED <<receipts, grants, launched, history>>

Migrated(tab) ==
    /\ InRecovery(tab, "migrating")
    /\ Store!SaveRequestWrite(RecoveryTask(tab))
    /\ SetRecovery(tab, None)
    /\ UNCHANGED <<receipts, grants, launched, history>>

\* reconcileRecoverableInvocation, for an invocation without its record: only
\* its own session can ask the relay, and only what was sealed was sent.
Linked(i) ==
    /\ invocations[i].requestId # None
    /\ Row(<<invocations[i].session, invocations[i].requestId>>) # None

StartLookup(tab, i) ==
    /\ invocations[i] # None
    /\ ~Linked(i)
    /\ invocations[i].state # "not-invoked"
    /\ invocations[i].mobileRequest
    /\ session = invocations[i].session
    /\ Start(tab, "lookup", i, None)
    /\ UNCHANGED <<storeVars, receipts, grants, launched, history>>

\* reconcileMobileRelayInvocationReceipt
LookupAnswered(tab) ==
    LET i == recovery[tab].invocation IN
    /\ InRecovery(tab, "lookup")
    /\ relay[i] # None
    /\ Keep(tab, ReceiptOf(i))
    /\ Store!SaveRequestRead(RecoveryTask(tab), ReceiptOf(i))
    /\ RecoveryStep(tab, "saving")
    /\ UNCHANGED <<grants, launched, history>>

SaveLookup(tab) ==
    /\ InRecovery(tab, "saving")
    /\ Store!SaveRequestWrite(RecoveryTask(tab))
    /\ RecoveryStep(tab, "linking")
    /\ UNCHANGED <<receipts, grants, launched, history>>

LinkLookup(tab) ==
    LET i == recovery[tab].invocation IN
    /\ InRecovery(tab, "linking")
    /\ Store!UpdateInvocation(i, "created", relay[i].requestId)
    /\ SetRecovery(tab, None)
    /\ UNCHANGED <<receipts, grants, launched, history>>

\* exactRecord: the tab's receipts were migrated and the record exists.
Exact(tab, scope) ==
    /\ recovery[tab] = None
    /\ MissingRows(tab) = {}
    /\ Row(scope) # None

\* relaunchRecoverableInvocation: the read of the record said "pending" ...
StartRelaunch(tab, i) ==
    LET scope == <<invocations[i].session, invocations[i].requestId>> IN
    /\ invocations[i] # None
    /\ invocations[i].requestId # None
    /\ Exact(tab, scope)
    /\ ~Store!Settled(Row(scope))
    /\ session = scope[1]
    /\ ~Final(i)
    /\ Start(tab, "relaunching", i, scope)
    /\ UNCHANGED <<storeVars, receipts, grants, launched, history>>

\* ... and so does the relay, which issues another link to the same request.
Relaunch(tab) ==
    LET i == recovery[tab].invocation IN
    /\ InRecovery(tab, "relaunching")
    /\ ~Final(i)
    /\ launched' = launched \cup {i}
    /\ SetRecovery(tab, None)
    /\ UNCHANGED <<storeVars, receipts, grants, history>>

\* readRecoverableRequest replays a saved outcome without the wallet ...
Replay(tab, scope) ==
    /\ Exact(tab, scope)
    /\ Store!Settled(Row(scope))
    /\ Tell(scope, IF Row(scope).final # None THEN Row(scope).final
                                             ELSE Store!NotSubmitted)
    /\ UNCHANGED <<storeVars, session, tabVars, remote, posted, launched, accepted>>

\* ... and otherwise asks: its own session the relay, another session of the
\* account the wallet, through a grant.
StartRead(tab, scope) ==
    /\ Exact(tab, scope)
    /\ ~Store!Settled(Row(scope))
    /\ SameAccount(scope[1])
    /\ Start(tab, IF session = scope[1] THEN "asking" ELSE "minting",
             Row(scope).receipt.invocation, scope)
    /\ UNCHANGED <<storeVars, receipts, grants, launched, history>>

\* The relay's status decides the read, or a session that can recover
\* submissions asks the wallet as well, or the read ends without an outcome.
Recoverable(subject) == subject \in SubmitSubject \cap CommittedSubject

StatusAnswered(tab) ==
    LET i == recovery[tab].invocation IN
    /\ InRecovery(tab, "asking")
    /\ \/ /\ DecodedResult(i) # None
          /\ SetRecovery(tab, [recovery[tab] EXCEPT !.step = "read",
                                                    !.answer = DecodedResult(i)])
       \/ /\ DecodedResult(i) = None
          /\ Recoverable(relay[i].subject)
          /\ recovery[tab].session \in Capable
          /\ RecoveryStep(tab, "minting")
    /\ UNCHANGED <<storeVars, receipts, grants, launched, history>>

\* The status of the request is authoritative whatever is connected now.
SaveRead(tab) ==
    LET scope == recovery[tab].scope
        outcome == recovery[tab].answer
    IN
    /\ InRecovery(tab, "read")
    /\ Store!SaveFinal(scope, outcome)
    /\ Tell(scope, outcome)
    /\ SetRecovery(tab, None)
    /\ UNCHANGED <<receipts, grants, launched, accepted>>

------------------------------------------------------------------------------
(* performAuthorizedMobileRead: the session is compared again after every  *)
(* await, because a grant is sealed for the session that asked for it.     *)

Unchanged(tab) == session = recovery[tab].session

\* A grant that is still there is returned again by a second mint.
Mint(tab) ==
    LET key == <<recovery[tab].invocation, recovery[tab].session>> IN
    /\ InRecovery(tab, "minting")
    /\ Unchanged(tab)
    /\ grants' = [grants EXCEPT ![key] =
         IF @ = None THEN [status |-> "pending", payload |-> None] ELSE @]
    /\ RecoveryStep(tab, "minted")
    /\ UNCHANGED <<storeVars, receipts, launched, history>>

\* A pending grant is polled again or left for a later read, one that is
\* no more is given up: RecoveryFails.
GrantAnswered(tab) ==
    LET grant == grants[<<recovery[tab].invocation, recovery[tab].session>>] IN
    /\ InRecovery(tab, "minted")
    /\ Unchanged(tab)
    /\ grant # None
    /\ grant.status = "fulfilled"
    /\ SetRecovery(tab, [recovery[tab] EXCEPT !.step = "granted",
                                              !.answer = grant.payload])
    /\ UNCHANGED <<storeVars, receipts, grants, launched, history>>

SaveGranted(tab) ==
    LET scope == recovery[tab].scope
        answer == recovery[tab].answer
    IN
    /\ InRecovery(tab, "granted")
    /\ Unchanged(tab)
    /\ IF answer \in Snapshots THEN Store!SaveExternalRecovery(scope, answer)
                               ELSE Store!SaveFinal(scope, answer)
    /\ RecoveryStep(tab, "saved")
    /\ UNCHANGED <<receipts, grants, launched, history>>

\* What a saved answer tells: a final, an approval by evidence, or a proof
\* that nothing was broadcast; other evidence leaves the outcome unknown.
OutcomeOf(answer) ==
    IF answer \notin Snapshots \/ answer = Store!NotSubmitted THEN answer
    ELSE IF answer.status = "approved"
         THEN Store!Submitted([tx |-> answer.transactionHash, lowerCase |-> TRUE])
         ELSE None

TellGranted(tab) ==
    LET outcome == OutcomeOf(recovery[tab].answer) IN
    /\ InRecovery(tab, "saved")
    /\ Unchanged(tab)
    /\ IF outcome # None THEN Tell(recovery[tab].scope, outcome) ELSE told' = told
    /\ SetRecovery(tab, None)
    /\ UNCHANGED <<storeVars, receipts, grants, launched, accepted>>

------------------------------------------------------------------------------
(* Acknowledgement and archive never contact the wallet.                   *)

StartAcknowledge(tab, scope) ==
    /\ Exact(tab, scope)
    /\ Store!Settled(Row(scope))
    /\ Row(scope).state = "active"
    /\ Start(tab, "accepting", None, scope)
    /\ UNCHANGED <<storeVars, receipts, grants, launched, history>>

Accept(tab) ==
    LET scope == recovery[tab].scope IN
    /\ InRecovery(tab, "accepting")
    /\ Row(scope) # None
    /\ IF Row(scope).state = "acknowledged" THEN UNCHANGED storeVars
                                            ELSE Store!Transition(scope, "acknowledged")
    /\ accepted' = accepted \cup {<<scope, "acknowledged">>}
    /\ RecoveryStep(tab, "clearing")
    /\ UNCHANGED <<receipts, grants, launched, told>>

\* clearPendingMobileRelayRequest, of the original session's tab only
Clear(tab) ==
    LET scope == recovery[tab].scope IN
    /\ InRecovery(tab, "clearing")
    /\ receipts' = [receipts EXCEPT ![tab] =
         IF recovery[tab].session = scope[1]
         THEN {r \in @ : r.requestId # scope[2]} ELSE @]
    /\ SetRecovery(tab, None)
    /\ UNCHANGED <<storeVars, grants, launched, history>>

Archive(tab, scope) ==
    /\ Exact(tab, scope)
    /\ Store!Transition(scope, "archived")
    /\ accepted' = accepted \cup {<<scope, "archived">>}
    /\ Start(tab, "marking", None, scope)
    /\ UNCHANGED <<receipts, grants, launched, told>>

\* archivePendingMobileRelayRequest
Mark(tab) ==
    LET scope == recovery[tab].scope IN
    /\ InRecovery(tab, "marking")
    /\ receipts' = [receipts EXCEPT ![tab] =
         {IF session = scope[1] /\ Store!ScopeOf(r) = scope
          THEN [r EXCEPT !.archived = TRUE] ELSE r : r \in @}]
    /\ SetRecovery(tab, None)
    /\ UNCHANGED <<storeVars, grants, launched, history>>

RecoveryNext(tab) ==
    \/ \E receipt \in receipts[tab] : Migrate(tab, receipt)
    \/ Migrated(tab)
    \/ \E i \in Invocation : StartLookup(tab, i) \/ StartRelaunch(tab, i)
    \/ LookupAnswered(tab) \/ SaveLookup(tab) \/ LinkLookup(tab) \/ Relaunch(tab)
    \/ \E scope \in Store!Scope :
         Replay(tab, scope) \/ StartRead(tab, scope)
           \/ StartAcknowledge(tab, scope) \/ Archive(tab, scope)
    \/ StatusAnswered(tab) \/ SaveRead(tab)
    \/ Mint(tab) \/ GrantAnswered(tab) \/ SaveGranted(tab) \/ TellGranted(tab)
    \/ Accept(tab) \/ Clear(tab) \/ Mark(tab) \/ RecoveryFails(tab)

------------------------------------------------------------------------------
(* Sessions and tabs                                                       *)

\* Connecting publishes a session, that of a new pairing or one that was cleared
\* while its health was read.
Connect(s) ==
    /\ s # session
    /\ session' = s
    /\ UNCHANGED <<storeVars, tabVars, remote, posted, launched, history>>

Disconnect ==
    /\ session # None
    /\ session' = None
    /\ UNCHANGED <<storeVars, tabVars, remote, posted, launched, history>>

\* A reload keeps the tab's sessionStorage, closing the tab does not.
LeaveTab(tab) ==
    /\ calls[tab] # None \/ recovery[tab] # None \/ receipts[tab] # {}
    /\ Store!Abandon({CallTask(tab), RecoveryTask(tab)})
    /\ calls' = [calls EXCEPT ![tab] = None]
    /\ recovery' = [recovery EXCEPT ![tab] = None]
    /\ \E kept \in {receipts[tab], {}} : receipts' = [receipts EXCEPT ![tab] = kept]
    /\ UNCHANGED <<session, remote, posted, launched, history>>

------------------------------------------------------------------------------
(* The relay and the wallet (external)                                     *)

RemoteStep ==
    UNCHANGED <<storeVars, session, tabVars, posted, launched, history>>

\* The relay creates a request when its POST arrives, however late.
Admit(i) ==
    /\ i \in posted
    /\ relay[i] = None
    /\ invocations[i] # None
    /\ \E requestId \in RequestId :
         /\ \A j \in Invocation : relay[j] # None => relay[j].requestId # requestId
         /\ relay' = [relay EXCEPT ![i] =
              [ session |-> invocations[i].session, requestId |-> requestId,
                subject |-> invocations[i].subject, status |-> "pending" ]]
    /\ UNCHANGED <<wallet, grants>>
    /\ RemoteStep

\* The wallet, having fetched the request, is refused or executes it.
Decide(i, outcome) ==
    /\ relay[i] # None
    /\ wallet[i] = None
    /\ outcome \in Outcomes(relay[i].subject)
    /\ wallet' = [wallet EXCEPT ![i] = outcome]
    /\ UNCHANGED <<relay, grants>>
    /\ RemoteStep

\* The wallet's answer reaches the relay in time ...
Deliver(i) ==
    /\ relay[i] # None
    /\ relay[i].status = "pending"
    /\ wallet[i] # None
    /\ relay' = [relay EXCEPT ![i].status = "answered"]
    /\ UNCHANGED <<wallet, grants>>
    /\ RemoteStep

\* ... or the relay closes the request first: it is final for good.
Close(i) ==
    /\ relay[i] # None
    /\ relay[i].status = "pending"
    /\ relay' = [relay EXCEPT ![i].status = "closed"]
    /\ UNCHANGED <<wallet, grants>>
    /\ RemoteStep

\* Evidence of a submission claims no more than what happened.
Truthful(e, outcome) ==
    /\ e = Store!NotSubmitted => outcome = Store!NotSubmitted
    /\ Store!Identified(e) => outcome # None /\ outcome # Store!NotSubmitted
                              /\ Store!SubmissionOf(outcome, e.transactionHash)

\* To a session that can recover submissions the wallet redelivers evidence,
\* to any other one the approved result.
Redelivers(i, s) ==
    IF s \in Capable /\ Recoverable(relay[i].subject)
    THEN {e \in Snapshots : Truthful(e, wallet[i])}
    ELSE {wallet[i]} \ {None, Store!Rejected, Store!NotSubmitted}

Fulfil(i, s) ==
    /\ grants[<<i, s>>] # None
    /\ grants[<<i, s>>].status = "pending"
    /\ \E payload \in Redelivers(i, s) :
         grants' = [grants EXCEPT ![<<i, s>>] =
             [status |-> "fulfilled", payload |-> payload]]
    /\ UNCHANGED <<relay, wallet>>
    /\ RemoteStep

\* A grant is denied or expires.
CloseGrant(i, s) ==
    /\ grants[<<i, s>>] # None
    /\ grants[<<i, s>>].status = "pending"
    /\ grants' = [grants EXCEPT ![<<i, s>>] = None]
    /\ UNCHANGED <<relay, wallet>>
    /\ RemoteStep

RemoteNext ==
    \E i \in Invocation :
      \/ Admit(i) \/ Deliver(i) \/ Close(i)
      \/ \E outcome \in Outcome : Decide(i, outcome)
      \/ \E s \in Session : Fulfil(i, s) \/ CloseGrant(i, s)

Next ==
    \/ \E tab \in Tab :
         CallNext(tab) \/ DeadlinePasses(tab) \/ RecoveryNext(tab) \/ LeaveTab(tab)
    \/ \E s \in Session : Connect(s)
    \/ Disconnect
    \/ RemoteNext

Spec == Init /\ [][Next]_vars

\* Requests time out, IndexedDB transactions and callbacks end, the timers of a
\* wait and its deadline come.  No call need be made.
Continue(tab) == calls[tab] # None /\ CallNext(tab)

Fairness ==
    \A tab \in Tab : WF_vars(Continue(tab)) /\ WF_vars(DeadlinePasses(tab))

FairSpec == Spec /\ Fairness

------------------------------------------------------------------------------
(* Properties                                                              *)

\* "not-invoked" is the adapter's only proof that nothing was dispatched: it is
\* never recorded of an invocation whose creation request was sent, whatever
\* the call, lookups of other tabs and lost answers do.
NotInvokedIsTrue ==
    \A i \in Invocation :
      invocations[i] # None /\ invocations[i].state = "not-invoked" => i \notin posted

SameOutcome(a, b) ==
    \/ a = b
    \/ /\ a # Store!NotSubmitted /\ b # Store!NotSubmitted
       /\ a.hash # None /\ b.hash # None
       /\ a.hash.tx = b.hash.tx

\* What the dapp was told is what became of the request in the wallet, though
\* the relay closes requests that were executed and the same outcome comes by
\* the call, by reads and by grants of other sessions; and a later read of the
\* record repeats it until the dapp accepts it.
ToldIsTrue ==
    \A scope \in Store!Scope, outcome \in Outcome : <<scope, outcome>> \in told =>
      /\ \E i \in Invocation : /\ relay[i] # None
                               /\ RelayScope(i) = scope
                               /\ wallet[i] # None
                               /\ SameOutcome(wallet[i], outcome)
      /\ ~Accepted(scope) =>
           /\ Row(scope) # None
           /\ IF outcome = Store!NotSubmitted THEN Store!VerifiedNotSubmitted(Row(scope))
                                              ELSE Row(scope).final = outcome

\* The wallet app is never opened for a request that the browser could not
\* find again (storePendingMobileRelayRequest: "Persist before launching the
\* wallet"): its record exists until the dapp accepted it.
LaunchedIsRecorded ==
    \A i \in launched : Row(RelayScope(i)) # None \/ Accepted(RelayScope(i))

\* A request that the relay created and the dapp did not accept can be looked
\* up by its invocation: the sealed envelope was saved before it was sent, and
\* no later failure makes the adapter believe that nothing was.
AdmissionIsRecoverable ==
    \A i \in Invocation :
      relay[i] # None /\ ~Accepted(RelayScope(i)) =>
        /\ invocations[i] # None
        /\ invocations[i].state # "not-invoked"
        /\ invocations[i].mobileRequest

\* Every signing call returns to the dapp, though the relay may never answer,
\* wakes of the socket and of the tab's focus come without end, and a suspended
\* tab resumes after both deadlines (waitForRequestOutcome).
CallSettles == \A tab \in Tab : calls[tab] # None ~> calls[tab] = None
==============================================================================
