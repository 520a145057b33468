# Verification of the Infer wallet adapter

TLA+ models of `inferenco-wallet-adapter`, the library by which a web page (a
*dapp*) asks an Infer wallet to sign: Infer Desk over a loopback HTTP bridge,
Infer Wallet on a phone over a relay, or a provider injected in the page. The
library's own logic, and what is hard in it, is **recovery**: a signing request
leaves the page over an unreliable channel, the page may be closed, reloaded or
opened twice, the wallet session may be replaced, and still no request may be
taken for unsent when it was sent, no outcome may be lost or contradicted, and
no delivered one may be delivered as new. The models follow the code in
`src/src/`; comments in the modules name the functions.

## 1. The system

| Component | Source | State | Operations | What is hard |
|---|---|---|---|---|
| Execution evidence | `externalTransactionRecovery.ts` | one merged snapshot per submission | validate, merge | answers arrive in any order from several readers |
| Durable recovery store | `durableRecovery.ts` | IndexedDB stores `requests` and `invocations`, shared by all tabs | one transaction per operation; `saveDurableRequest` takes two | tabs interleave between transactions; pruning; a tab is closed in between |
| Desktop bridge requests | `bridge.ts`, `desktopRequests.ts` | receipts in each tab's sessionStorage | create, record, poll, complete, look up, read, acknowledge | a POST whose answer is lost; partial recording |
| Recovery operations | `recovery.ts` | reads in flight | migrate, reconcile, read, acknowledge, archive | session replaced during a read; two-sided acknowledgement |
| Recovery coordinator | `InferClient.ts` | `recoveryRun`, `recoveryRescan`, subscribers with what each has received | subscribe, unsubscribe, wake, scan, dispose | callbacks that re-enter; lost wakes |
| Client connection lifecycle | `InferClient.ts` | revision counters, the operations in progress, `disconnectEmitted` | connect, disconnect, health checks, peer events | superseded operations; duplicate events |
| Desktop session, pre-auth connect | `bridge.ts` | session in localStorage (two keys), waiters | start, poll, consume callback, revoke | bounded retries, callbacks racing polls |
| Mobile relay requests | `mobileRelay.ts`, `mobileRequests.ts`, `mobileSocket.ts` | receipts, read grants, waits of the calls | dispatch, wait, complete, reconcile, relaunch, grant, read | navigation away from the page; two deadlines; a relay that closes requests the wallet executed |
| Mobile pairing | `mobileRelay.ts`, `bridge.ts`, `InferClient.ts` | pending pairing and session in localStorage | connect, resume, wait, adopt, discard | several tabs wait for, adopt and discard one pairing |
| Mobile callback tab | `mobileReturnCoordinator.ts`, `InferClient.ts` | owned pairing and callback marker in sessionStorage | probe, answer, return | a probe with a timeout; the tab that is probed may be the prober |
| Injected provider requests | `InferClient.ts`, `nativeRecovery.ts`, `nativeNotSubmitted.ts`, `provider.ts` | evidence on the invocation row, the client's account generation | prepare, invoke, read, acknowledge, archive | account or network changes during awaits; answers that contradict each other |
| Token, URL, facades, encoding, conversion | the other files | little or none | pure computation or forwarding | |

The components call one another downwards: a signing call of `InferClient` goes
to `bridge.ts` (or the relay, or the provider), which writes to the store; the
coordinator and the dapp call `recovery.ts`, which reads the wallet through
`bridge.ts` and writes to the store. Tabs interact only through the store, the
session in localStorage and advisory broadcast messages.

## 2. Modules

```
ExternalTransactionRecovery     operators: valid and mergeable evidence, Merge
  RecoveryEvidence              one execution, its answers, what is retained
    RecoveryEvidenceProofs      (with the lemmas on the operators)
  DurableRecovery               the two stores, one action per transaction
    OperationLedger             abstract: what the store promises
    DurableRecoveryProofs
    DesktopRecovery             INSTANCE of the store, with tabs, sessions, Desk
      DesktopRecoveryProofs
    MobileRecovery              INSTANCE of the store, with tabs, sessions, relay, wallet
      MobileRecoveryProofs
InjectedRecovery                injected rows of the store, with tabs and a wallet
  InjectedRecoveryProofs
MobilePairing                   pending pairing, session, waiting tabs, callback tab
  MobilePairingProofs
RecoveryCoordinator             one client, its subscribers and its scan
  RecoveryCoordinatorProofs
ConnectionLifecycle             the stored session, the clients of all tabs, their signals
  ConnectionLifecycleProofs
MC*                             instances for TLC
```

* **ExternalTransactionRecovery** translates `validateExternalTransactionRecovery`
  (`ValidEvidence`) and `mergeExternalTransactionRecovery` (`Mergeable`, the
  negation of its `invalid()` calls, and `Merge`). Fields compared only for
  equality with the request are left out.
* **RecoveryEvidence** adds a truthful wallet (external) that executes one
  submission and answers reads; answers stay readable, so that they can be
  delivered late, twice and in any order.
* **DurableRecovery** is `durableRecovery.ts`. An IndexedDB transaction is one
  action and an aborted one changes nothing. `saveDurableRequest` is two actions,
  `SaveRequestRead` and `SaveRequestWrite`, with the read data kept in `saving`.
  Rows are named by their unique `scopeKey`. The clock `now` is what
  `pruneDurableEvidence` compares with. Hashes keep their spelling, because the
  code compares some of them letter by letter.
* **OperationLedger** is the abstract specification: an operation becomes known,
  may be identified, gets at most one answer or a proof of non-submission (never
  both), is delivered or set aside, and only then forgotten.
* **DesktopRecovery** composes tabs with the store. A signing call goes through
  the steps of `startDurableDesktopRequest` (hook, posting, saving, linking,
  polling, completing), a recovery operation through those of `recovery.ts`;
  every `await` is a step boundary, and failure branches (`PostFails`,
  `RecordingFails`, `PollFails`, `RecoveryFails`) do what the `catch` does,
  including updates whose failure is swallowed (`TryUpdate`). `LeaveTab` closes
  or reloads a tab at any point. The store is reached only through the actions
  of `DurableRecovery`. Infer Desk is external: it admits a sent request however
  late, may name its transaction, decides once, and may drop an acknowledged result.
* **MobileRecovery** is the same composition for the relay. A call prepares its
  invocation with the sealed envelope, creates the request (`PostFails` covers an
  answer that is lost, and `Admit` may create the request later all the same),
  records and launches it, and waits; the wait ends by an answer, by the earlier of
  its two deadlines, or not at all when the tab is closed. A lookup by the invocation
  finds what the relay created for it, and a relaunch issues another link to it. A session of
  the same account that did not send the request reads the wallet's result through
  a read grant, which it mints, waits for and opens; a grant that is denied or
  expires is simply gone. Relay and wallet are external and separate:
  the relay may close (expire, cancel, fail) what the wallet executed.
* **MobilePairing** has the shared values of localStorage (`pending`, `session`), of
  each tab its client, the pairing it owns and its callback marker, and one record
  in `operations` for each wait in progress (a connect that created or resumes a
  pairing, or a callback). A session is named by the pairing it came from. Each
  await of `waitForPairingOutcome` and of the probe is a step boundary, and
  `assertPendingPairing` is evaluated in the step that adopts.
* **InjectedRecovery** has the injected rows of the store themselves, because
  their operations are not those of the request records; an operation of
  `updateInjectedInvocationEvidence` is one transaction. `calls[tab]` is a signing
  call with the scope it was prepared in, `heard` (whether its client listened when
  its check began) and `fresh` (whether its revision still counts); account and network are
  read in two steps (`SeeAccount`, then `Invoke`, `Confirm` or `Return`, which need
  `Confirmed`), and a reply is saved in a step after its check. `client[tab]` is what a
  client does about changes of the wallet: `subscribe()` makes an ambient one listen to
  the account and then to the network, `disconnect()` advances its revision and silences
  both (`subscriptionRevision`) until it subscribes again, and `dispose()` silences them
  for good and lets the call in progress go on. A session cleared by another tab or by
  the wallet (`handleExternalSessionCleared`) touches neither revision. The wallet is
  external. It may answer anything the code accepts, and differently each time: it is
  the adapter that must not contradict itself.
* **RecoveryCoordinator** is the scan loop. The steps of
  `reconcileRecoverableRequests` are separated where the code awaits; the last
  test of the loop and the `finally` that resets `recoveryRun` are separate
  microtasks (`Test`, `End`), between which no event can be handled but another
  promise continuation can call the client. `live` is the account and network of the
  native wallet that the client is bound to, or `None`; `generation` counts the
  changes it hears of, and the scan keeps the one it captured (`fence`). The lookup of
  receipt-less invocations at the start of a pass is left to `DesktopRecovery` and
  `MobileRecovery`.
* **ConnectionLifecycle** is the connection half of `InferClient` with the session
  that `bridge.ts` keeps in localStorage. State of the code: `stored` (the two
  storage keys as one value), `client[t]` (the fields of the client in tab `t`,
  with `accountInfo` standing for `networkInfo`, which is set with it),
  `disconnecting[t]` (`disconnectOperation`), and `call`, one record for each
  asynchronous call: where it waits, the revision and the session it read when it
  began, and what its caller sees. A tab runs one event at a time; what two awaits
  enclose is one step, and continuations that are due run first (`Busy`). Signals
  between tabs are storage events in order per tab, and messages on the cleared
  channel, of which `bridgeMail` and `clientMail` count the copies under way to the
  two listeners of a tab. Infer Desk (external) answers a health check with what
  holds when the request arrives, and the answer may arrive later; it approves or
  rejects pre-auth requests, receives revocations, and its user may revoke a
  session at any time.

`PROJECT.json` maps each definition to the lines it models.

## 3. Runs

| Run | Instance | Shows |
|---|---|---|
| `RecoveryEvidence` | 2 transactions, 2 versions, up to 3 answers | `RetainedIsTrue`, `NothingErased`, `NeverStuck`: merging is truthful, independent of order and never refuses a true answer |
| `DurableSubmission` | one submission, 2 transactions in 2 spellings, 1 version, receipts with and without invocation | `OutcomeAgrees` between final, hash, evidence and state; `DebtKept` across the two transactions of a save; `UnknownWorkSurvives`; the store implements the ledger |
| `DesktopTabs` | 2 tabs, 1 session that is cleared and restored, 1 message (symmetric tabs), a clock of one tick | `NotInvokedIsTrue`, `ToldIsSaved`, `DeskAcknowledgedFirst` |
| `DesktopSessions` | 1 tab, 1 submission with identity and non-submission; two v1 sessions and a legacy one of its account, connected, cleared and restored in any order | `AdmissionIsRecoverable`, `ToldIsSaved` and `DeskAcknowledgedFirst` when sessions change during calls, reads and acknowledgements, and under fairness `AdmissionIsSettled` |
| `MobileRequests` | 1 tab, 1 submission, a capable session and another of the same account | `NotInvokedIsTrue`, `ToldIsTrue`, `LaunchedIsRecorded`, `AdmissionIsRecoverable`, and under fairness `CallSettles` |
| `MobilePairing` | 2 tabs, 2 pairings, 2 waits at a time (all symmetric) | `EndedIsNotAdopted`, `ApprovedIsNotLost`, `OriginalIsNotCovered` |
| `InjectedRequests` | an ambient and a bound tab, 2 accounts, 1 invocation, 2 transactions | `NotInvokedIsTrue`, `OutcomesAgree`, `AcknowledgedInOrder`, `InvokedInScope` |
| `Coordinator` | 1 request, 2 callbacks, 2 subscriptions each; unbound or bound to a wallet with 2 scopes and up to 2 changes | `ServedOnce`, `CalledWhileSubscribed`, `DeliveredInScope`, and under fairness `EveryoneIsServed` |
| `ConnectionTabs` | 2 tabs, one with a provider, 2 connects, 1 `getAccount`, 1 disconnect, 2 sessions, none of an earlier visit | `RetainedDoesNotWin`, `OneOpenConnect`, `NoConnectDuringDisconnect`, `LateConnectsPublishNothing` |
| `ConnectionLive` | 1 tab with a heartbeat, 1 connect, 1 disconnect, 1 disposal, 1 reload | `ConnectSettles`, `DisconnectFinishes`, `RevocationIsNoticed` |
| `ConnectionHeartbeat` | 1 tab with a heartbeat, 1 connect, 1 disconnect | the finding `RevocationIsReported` |
| `InjectedEvents` | an ambient tab, 2 accounts, 1 invocation | the finding `EventsInvalidate` |

`TypeOK` is an invariant of the desktop, mobile and injected runs; the other modules'
is proved only.

What the invariants mean:

* `OutcomeAgrees`: whatever order the six writers of a record run in, its final,
  hash and evidence name one transaction, non-submission excludes both others,
  only settled records are acknowledged and only open ones archived.
* `DebtKept`: an obligation to acknowledge at the wallet never becomes a waiver.
* `NotInvokedIsTrue`: `not-invoked`, the one proof that nothing was dispatched, is
  never recorded of a request that was sent.
* `ToldIsSaved`: the dapp is told only what Desk decided and what a later read
  repeats until the dapp accepts it.
* `DeskAcknowledgedFirst`: a record of a v1 session is hidden as acknowledged only
  after Desk acknowledged it.
* `AdmissionIsRecoverable`: an admitted and not yet accepted request always has an
  invocation to look it up with.
* `ToldIsTrue` (mobile): what the dapp is told is what became of the request in the
  wallet, though the relay closes requests that were executed and the outcome comes
  by the call, by reads and by grants of other sessions; a later read repeats it
  until the dapp accepts it.
* `LaunchedIsRecorded`: the wallet app, which replaces the page on a phone, is never
  opened for a request that the browser could not find again.
* `CallSettles`: a mobile call returns, though wakes of the socket and of the focus
  come without end and the relay may never answer.
* `EndedIsNotAdopted`: a pairing that was refused, replaced, expired or disconnected
  becomes neither the session nor the pending pairing again, in any tab.
* `ApprovedIsNotLost`: an approval is not lost with the tab that waited for it.
* `OriginalIsNotCovered`: the "return to the original tab" screen never covers the
  tab that owns the pairing.
* `OutcomesAgree` (injected): no two outcomes of an invocation are told, whatever a
  wallet answers to calls, reads and acknowledgements, and what was told stays.
* `AcknowledgedInOrder`: the wallet is told to drop only what is on record, and a
  row with an obligation is accepted locally only afterwards.
* `InvokedInScope`: a client that listens to changes when its check begins and when it
  ends never invokes a wallet whose account or network is not the one the call was
  prepared for, and returns a submission only in that scope, even when it was
  disconnected and subscribed anew in between. A client that does not listen may mix
  two scopes: see the second finding.
* `ServedOnce`: a subscription gets each outcome at most once, and exactly the
  marked ones.
* `DeliveredInScope`: a native wallet's subscriber is given the outcomes of the account
  and network that the wallet has then, though they may change, and change back,
  during every await between the list and the end of a callback.
* `LateConnectsPublishNothing`: a connect that was superseded, cancelled or
  disposed goes on in the background, may store a session, and still never sets
  the account of its client.
* `RetainedDoesNotWin`: the session that was stored before a new approval was asked
  for does not end the wait, whichever tab stores it again.
* `EveryoneIsServed`: a retained outcome reaches every subscriber, also the one that
  comes while a scan is past it or whose callback failed.
* `RevocationIsNoticed`: a heartbeat drops the account of a revoked session, unless
  another call has changed what is stored (a case that is listed below).
* `AdmissionIsSettled`: once sessions are no longer replaced for ever, an admitted
  request is settled, unless it is archived or no session of its account with
  invocation lookup is connected.

**Bounds.** Two transactions, two spellings and two versions are enough to
disagree; three answers are enough for an old one, a new one and an old one again
(`AnswerBound`). A clock of one or two ticks past zero retention ages lets
tombstones and archives expire at any point after they were written. In the
desktop runs one request is enough, because requests share only the session and
the sessionStorage key; two tabs are enough for each to be behind the other. `DesktopTabs` has a message,
which Desk rejects, as the only outcome: a final is decided once and handled alike
whatever it is, and `DesktopSessions` has them all. Of the
three sessions of `DesktopSessions` one makes the request, another of the same kind
recovers it, and the third has no lookup. All are of one account: the session of
another one only refuses to act on the request (`SameAccount`), as no session does.
`MaxClock = 0` there, so nothing is pruned in this run: `DesktopTabs` prunes, and for
`AdmissionIsRecoverable` the proof alone covers it. Two
subscriptions of one callback are enough for the old delivered set to be awaited
while the new one is in the map; one request is enough for the progress of the
scan, and its safety is proved for any number. Two changes of scope are a change and a
change back. In `MobileRequests` one tab is
enough because the calls, lookups and reads of several tabs meet in the records
only, and a tab may be closed and opened again with its old session's records; one
session can recover submissions and the other cannot, and stays once it is connected
(`SecondStays`: without this bound the run is too large). In `MobilePairing` two waits
are enough for one to adopt or discard what the other waits for, and two pairings
for one to replace the other. In `InjectedRequests` one network is enough, as
account and network differ only in the order they are read in; a second account
is what the wallet changes to, and two transactions let answers contradict
each other; its `VIEW` leaves out `subscribed`, a history that only `EventsInvalidate`
reads. Pruning of accepted records is composed in `DesktopRecovery` only. A session
that was cleared may be stored again, because a health check that was answered before
stores what it read (`bridge.ts:1364`). Invocation ids are random and never reused, so
that the runs of requests may stop (`CHECK_DEADLOCK FALSE`), as does the coordinator
once disposed.

In the connection runs one session is the retained one and one the new approval;
two connects are enough for one to supersede the other, in one tab or in two.
`MaxDisconnects`, `MaxDisposals` and `MaxReloads` bound what the dapp and the user
may repeat for ever; in `ConnectionLive` each is one. `ConnectionTabs` starts
without a session of an earlier visit: the first one approved becomes the retained
one, and the other runs start with either.
`MaxCopies = 1` merges copies of a signal that are under way to one listener at the
same time: the messages carry nothing, so that two of them do what one does
followed by a stutter, or by the one still under way. Session ids, connects and
disconnects are used up: these runs may stop, too.

**Fairness.** `DesktopSessions`: each request to Desk has a timeout and each
transaction ends, so that a started operation ends (weak fairness of
`RecoveryFails`). One that fails is tried again by the coordinator's wakes or the
dapp, and neither Desk nor the store fails for ever: strong fairness of starting a
migration, a lookup or a read, of an answer of Desk, of saving what was answered, and of
linking, each taken together and not per operation. Desk or its user decides. Closing
tabs, failing, connecting and disconnecting are not fair. A lookup of an invocation
that has an id but no record is only ever started by the dapp
(`reconcileRecoverableInvocation`), which the fairness of the starts includes. `MobileRequests`: requests to the relay time
out, IndexedDB transactions and callbacks end, and timers come (weak fairness of
`Continue` and `DeadlinePasses`); no call need be made, and neither the relay, the
wallet nor its user need ever answer. `Coordinator`: focus events recur, awaited promises settle, and neither
a list, nor the read of a request, nor a callback fails for ever (strong fairness for
each request and callback). The focus events are needed: the client's own wakes may be
lost (see below). `ConnectionLive` and `ConnectionHeartbeat`: timers fire, events
and messages are delivered, a request to Infer Desk ends because
`fetchJsonWithTimeout` aborts it, and the wait for an
approval has a deadline (weak fairness of each tab's continuations, `CallReturns`,
`HeartbeatReturns`, `FinishDisconnect`, `Tick` and the listeners). It is not
assumed that Infer Desk answers, that its user decides, or that an injected
provider returns: `connect()` of a provider has no timeout, and `ConnectSettles` is
checked without one.

## 4. Findings

**The heartbeat is not restarted** (`ConnectionHeartbeat`, code bug) after a
disconnect and a new connect of the same client: `handleExternalSessionCleared`
stops it (`InferClient.ts:840`) and only the constructor starts it.

**A disconnect silences the scope listeners** (`InjectedEvents`, code and
`docs/integration-contract.md:79` disagree). `disconnect()` increments
`subscriptionRevision` (`InferClient.ts:927`, 1160), and the listeners of an earlier
`subscribe()` return before they advance `injectedScopeRevision`. Connecting again does
not revive them. `InferWallet` subscribes at every connect, but the wallet-standard
facade only when the application registers its callbacks (`aip62.ts:157-170`): after a
disconnect and a new connect its client reads account and network one after the other
without noticing a change in between. The model's trace has seven states: subscribe to
both, disconnect, prepare, see the account, change it. The new `connect()` is what
refills the caches that `Prepare` reads, and is not a step of the model.

The models reach more states that a reviewer of the code would want to know of. No
run is kept for them, and the properties above are stated so that they hold
nevertheless:

* A tombstone is authoritative only while it exists. Tab A calls; its sessionStorage
  holds the receipt. Tab B acknowledges and removes only its own receipt. After 30
  days the tombstone is pruned; the next list or read in A migrates the receipt and
  creates a new active record of an acknowledged request (`recovery.ts:312`, comment
  at 1349).
* A cleared session comes back. The health check stores the session it read before
  its fetch (`bridge.ts:1364`), also after `disconnect()` cleared it, which
  `docs/api-reference.md:96` says removes it.
* "Infer Connect is complete" for an unverified pairing. `coordinateMobileCallbackTab`
  treats the timeout of its own polling as if the pairing were final, and shows the
  screen though nothing was verified (`CHANGELOG.md:71`).
* A connect that fails though the session is stored. If a callback tab or a second
  tab resumes the pairing first, the original tab's `connect()` rejects with
  "Mobile pairing was superseded".
* An approval read too late. It is discarded when it is read after the pairing's
  local `expiresAt`, or when another tab's newer pairing has replaced it; a garbled
  approval that is resumed stays pending until it expires. `ApprovedIsNotLost`
  counts the first two as ended.
* An outcome given twice. A bound client calls the callback and then finds that the
  wallet's account has changed: the outcome is not marked (`InferClient.ts:801`) and is
  offered again in the account it belongs to. `ServedOnce` counts what is marked; the
  callback must tolerate the repetition until it acknowledges.
* A call after leaving. The subscriber of a native wallet is called after one more
  check of the scope (`nativeRecovery.ts:197-205`), and may have left meanwhile. The
  model's callbacks are those of `InferClient`, which include that check.
* An acknowledgement that never succeeds. The row of an injected submission that
  holds only a hash, whose wallet has no acknowledgement capability, returns early
  (`recovery.ts:1226`) and can only be archived.
* A lost wake. `scheduleRecovery` sets `recoveryRescan` as long as `recoveryRun` is
  set, but the loop has made its last test a microtask before `finally` resets it
  (`InferClient.ts:752-753`). A subscription made in between waits for an unrelated
  wake.
* A disconnect that is told without a loss. A cleared message names no session; one
  that arrives after a later connect resets the new account and emits `disconnect`.
* A disconnect without end. With two tabs or more the cleared messages do not run
  out: `bridge.ts` of each tab passes on what it hears on the channel to the same
  channel (`bridge.ts:906-908`, 930), where the other hears it. `ConnectionTabs` has
  the cycle (`BridgeHears` in one tab enables it in the other). No property says that
  the signal ends, which it does with one tab only.
* The guard `disconnectEmitted` is reset when `connect` begins and not when it
  succeeds with a new approval (`CHANGELOG.md:494-496`, `InferClient.ts:993`): a
  late copy of an earlier disconnect in between sets it, and the connected client
  ignores the next one.
* A late account. `getAccount` has no revision check: `provider.account()` fills
  the cache also after a disconnect (`InferClient.ts:1128-1132`).
* A revocation that is not told. If the check of another call meets the revocation
  first, it clears the session silently (`bridge.ts:1377`), and the heartbeat has
  nothing left to ask about (`InferClient.ts:872`).
* The wrong session is removed. A 403/404 about an older session clears the one that
  was approved meanwhile (`bridge.ts:1377`).

## 5. Proofs

Checked by TLAPS for all values of the constants, under the named assumptions of
the modules (`EvidenceAssumption`, `RecoveryAssumption`, ...: absent values differ
from present ones, subsets are subsets, ages are naturals).

* `RecoveryEvidenceProofs`: `MergeIsValid` (merging accepted, mergeable snapshots gives
  an accepted one) and `MergeFields` (what the merged fields are), cited elsewhere;
  `TypeCorrect`, `RetainedTruth`, `NoErasure`,
  `NoBlocking`, all from one invariant: every answer ever given is still true of
  the execution (executions only progress), and what is retained agrees with the
  set of delivered answers. Truth alone is not inductive: that two answers never
  contradict each other follows from both being true of one execution.
* `DurableRecoveryProofs`: the inductive invariant is `TypeOK`, `RowAgrees` of every
  record, `DebtKept`, and what the latter needs of saves in progress: a waiver
  read earlier stems from a prepared invocation whose debt never changes. From it
  `OutcomeConsistent`, `DebtPreserved`, the action property `UnknownWorkKept` and
  `Refinement`: every step of the store is a step of the ledger or a stutter.

* `RecoveryCoordinatorProofs`: `TypeCorrect`, `EachOutcomeOnce`,
  `OnlySubscribersAreCalled`, `GivenInScope`. `ServedOnce` is not inductive: a callback may return
  to a subscription that has been renewed or dropped. The invariant adds that a past
  subscriber's marks agree too (`ServedAsDelivered`), and that the scan holds the
  map's set or an older one, and in the first case a request that is not in it
  (`CallIsFresh`). `GivenInScope` needs that what was read under a fence that is still
  the current generation is of the wallet's scope (`FenceAgrees`).

* `MobilePairingProofs`: `TypeCorrect`, `EndedStaysEnded`, `ApprovalKept`,
  `OriginalUncovered`. The invariant adds that what the relay has not created is known
  to nobody (`UncreatedIsUnknown`: a new id is fresh), that the pending pairing is not
  the session's (`PendingIsNew`: what replaces one ends only the other), that every
  created pairing is kept somewhere, approved or not yet (`CreatedIsKept`), and that no
  two tabs own one pairing (`OwnedByOne`: who answers a probe is not who asks).

* `ConnectionLifecycleProofs`: `TypeCorrect`, `OneConnect`, `NoneDuringDisconnect`,
  `RetainedLoses`, `LatePublishesNothing`. None of them is inductive on its own. The
  invariant adds `CallAgrees` (the form of each call at each place where it waits),
  `OperationsAgree` (the operation a client names is the one call of the tab whose
  revision is current and that has not been settled, and every other connect of the
  tab began at an earlier revision), and `RetainedIsOlder` (what a connect found
  stored was issued before the session it asks for, so that an approval is never the
  retained one). `ConnectionAssumption` says that tabs, calls and sessions differ
  from one another and from the markers the model uses.

* `InjectedRecoveryProofs`: `TypeCorrect`, `NeverInvoked`, `OneOutcome`, `WalletFirst`,
  `ScopeIsLive`. An outcome outlives its row, which may be pruned: the dapp was told
  it, a recovery read it, or a reply was saved. The invariant calls these claims and
  says that a row holds what is claimed of its invocation (`ClaimsAreHeld`) and that
  two claims of one invocation agree, row or no row (`ClaimsAgree`); ids are never
  used twice (`IdsAreKnown`). A recovery knows the method and the debt of the row it
  read (`RecoveriesKnow`), and a call whose client listened when it saw the account,
  still listens, and has heard of no change saw the account of the wallet (`HeardIsTrue`):
  what silences a client in between also ends the check (`Disconnect`) or is never
  undone (`Dispose`). `AbsentAssumption`: `None` is no record of the
  model.

* `DesktopRecoveryProofs`: `TypeCorrect`, `NeverInvoked`, `Told`, `DeskFirst`,
  `Recoverable`, `RecordsAgree`, `OpenWorkKept`. That every step is an
  operation of the store or leaves it alone holds by the way the actions are written
  (lemma `StepUsesStore`); it is used so that the invariant
  of `DurableRecoveryProofs`, read through an instance of that module, is a conjunct
  of this one and is not proved again; the lemmas `Same...` say that the two
  instances of the store are one. None of the properties is inductive. The invariant
  adds what each place that outlives a step knows of the request Desk holds: a
  receipt of a tab and a save between its two transactions are of an admission
  (`ReceiptsAreGenuine`, `SavesAgree`), a waiver of the acknowledgement is never of a
  v1 session (`KeepsDebt`: it goes from the invocation by the save to the row), a row's
  outcome is Desk's (`RowsAgree`), a call and a recovery operation between two awaits
  name an admission, and an outcome they hold is its outcome (`CallsKnow`,
  `RecoveriesKnow`). All this is stable because Desk takes nothing back (`StepGrows`).
  `RecordsAgree` and `OpenWorkKept` say of the composition what `OutcomeAgrees`,
  `DebtKept` and `UnknownWorkSurvives` say of the store alone.
  `StoreAssumption` is the assumptions of the store; `EntryAssumption`: `None` is not
  what Desk holds for a request.

* `MobileRecoveryProofs`: `TypeCorrect`, `NeverInvoked`, `Told`, `Launched`,
  `RecordedForLookup`, `RecordsAgree`. As on the desktop every step is an operation of the
  store or leaves it alone, and the store's invariant is a conjunct. But no single
  place holds the answer: a request is in the relay, what became of it in the wallet,
  and the outcome reaches the browser by the call, by a read and by grants of other
  sessions. The proof first shows that all of this only grows (`StepGrows`: what was
  posted, relay requests up to their status, decisions of the wallet, the outcomes
  and evidence of rows, the links from an invocation to its request), so that what a
  place knows stays true without it taking part in the step. The invariant then says
  what each place knows: a request in the relay was posted, and what was posted is
  sealed and never `not-invoked` (`RelayAgrees`, `PostedIsSealed`), a link names the
  invocation's own request and session (`LinksAgree`), calls and recoveries between
  two awaits name their request, and an outcome they hold is the wallet's
  (`CallsKnow`, `RecoveriesKnow`), one call serves an invocation (`OneCallEach`), and
  what is granted, received, saved, on a row, launched or told agrees with the wallet
  and the relay (`GrantsAgree`, `ReceiptsAreGenuine`, `SavesAreGenuine`, `RowsAgree`,
  `LaunchedAgrees`, `ToldAgrees`). The step lemmas say which variables an
  action of a tab may change, so that each conjunct looks only at the actions that
  disturb it. `StoreAssumption` is the assumptions of the store, `SnapshotAssumption`
  makes what a wallet reports acceptable evidence, and `EntryAssumption` says that
  `None` is no relay request, grant, call or recovery.

Every invariant and every safety action property that a run checks is stated by one of
these theorems. Only model-checked is what needs fairness: `AdmissionIsSettled`,
`CallSettles`, `EveryoneIsServed`, `ConnectSettles`, `DisconnectFinishes`
and `RevocationIsNoticed`; liveness and enabledness are beyond the
prover. The inductive invariants of the injected, desktop and mobile requests were
model-checked on the instances of the runs before they were proved.

## 6. Plan

1. *Done*: evidence, store, ledger, desktop requests with recovery, coordinator,
   connection lifecycle; mobile requests, pairing and callback tab; injected
   requests; proofs of evidence, store, ledger, coordinator, and the safety of the
   connection lifecycle and of pairing.
2. Proofs of the injected, the desktop and the mobile requests: *done*.
3. `PreauthConnect`: the bounded retries of `startPreauthConnect` and the callback
   URL, as a refinement of the two steps they are in `ConnectionLifecycle`.
4. Token precedence and URL adoption as pure operators against a reference.

## 7. Not modelled

Byte-level work: canonical encoding and commitments, signature checks,
encryption, SDK conversion. The models compare commitments and identities for
equality and take a validated result as valid. Storage that silently loses data,
a changed origin, and a wallet that lies are outside the documented guarantees.
`MobileRecovery` leaves out `resumeMobileRelayRequest`, which changes no record, and
`launchMobileRelayRecoveryRead`, which opens the wallet for a grant. `MobilePairing`
leaves out the branch of `coordinateMobileCallbackTab` for a request. In `InjectedRecovery` legacy sign-only
requests, which leave no record, are left out; two reads of a tab share one answer in
the code and are one operation in the model; it is assumed that a wallet announces a
change of its scope before it gives later answers.
`ConnectionLifecycle` leaves out the callback URL with its PKCE exchange (`storeCallbackSessionViaPkce`), mobile
pairing, the fallback through deep links (a wallet without a pre-auth route ends the
connect), `subscribe`, and `getNetwork`, which goes as `getAccount`. It takes the
retries of `startPreauthConnect` as one step, keeps one heartbeat check in flight
per tab, and a provider there has `network()`. Nothing else of the tab can come
between the write of a session and the continuation that returns it, but promise
continuations of other calls; that order is not distinguished.
The acknowledgement that is repeated after Desk dropped the result
(`recovery.ts:1331`) is reachable in `DesktopRecovery` but depends on the wallet's
retention and has no property.
