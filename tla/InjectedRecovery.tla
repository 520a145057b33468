--------------------------- MODULE InjectedRecovery ---------------------------
(***************************************************************************)
(* Requests to a wallet that is injected into the page, or registered in   *)
(* it, from the signing call to the acknowledgement of its outcome:        *)
(*                                                                         *)
(*   InferClient.ts      prepareInjectedSigning, assertLiveInjectedScope,  *)
(*                       signMessage, signTransaction, submitNormalized,   *)
(*                       subscribe                                         *)
(*   durableRecovery.ts  the injected rows of the store "invocations":     *)
(*                       updateInjectedInvocationEvidence, ...             *)
(*   recovery.ts         readInjectedInvocation, acknowledgeNativeResult   *)
(*   nativeRecovery.ts, nativeNotSubmitted.ts, provider.ts                 *)
(*                                                                         *)
(* Every await is a step boundary and a store operation is one IndexedDB   *)
(* transaction.  A bound tab uses one selected native wallet, whose        *)
(* generation changes with its account or network; the others use what     *)
(* the page detects.  The wallet is external: it answers only about what   *)
(* it was given, but whatever it likes, and differently each time; it      *)
(* announces a change of its scope before it answers anything later.  What *)
(* a check can only refuse is part of the failing steps, as is all that    *)
(* follows the dispose() of a bound tab.  An application that replaces a   *)
(* disposed client goes on with another tab of the model.  Rows of         *)
(* adapters that recorded no acknowledgement obligation are left out.      *)
(***************************************************************************)
CONSTANTS
    None,
    Tab,         \* tabs of the origin
    Bound,       \* those whose client is bound to a native provider
    Account, Network,
    Invocation,  \* ids given to invocations
    Tx,          \* transactions, named by their hash
    Output       \* outputs of the sign-only methods

ASSUME InjectedAssumption ==
    /\ Bound \subseteq Tab
    /\ None \notin Account \cup Invocation \cup Tx \cup Output

VARIABLES
    rows,       \* [Invocation -> Row or None]
    prepared,   \* history: ids ever prepared (ids are random, never reused)
    live,       \* the account and network of the wallet
    client,     \* per tab, what its client has done about scope changes
    calls,      \* per tab, the signing call in progress, or None
    recovery,   \* per tab, the recovery operation in progress, or None
    invoked,    \* invocations that reached the wallet
    acked,      \* invocations the wallet was told to forget
    told        \* history: outcomes given to the dapp, by invocation

callVars == <<prepared, calls, invoked>>
recoveryVars == <<recovery, acked>>
vars == <<rows, live, client, callVars, recoveryVars, told>>

------------------------------------------------------------------------------
(* Data                                                                    *)

Scope == [ account : Account, network : Network ]

Method == {"sign", "submit"}    \* the two sign-only methods are alike

Results(method) == IF method = "submit" THEN Tx ELSE Output

Rejected == [ status |-> "rejected", result |-> None ]

Approved(result) == [ status |-> "approved", result |-> result ]

NotSubmitted == [ status |-> "not-submitted", result |-> None ]

NotInvoked == [ status |-> "not-invoked", result |-> None ]

FinalsOf(method) == {Rejected} \cup {Approved(r) : r \in Results(method)}

Final == FinalsOf("sign") \cup FinalsOf("submit")

Outcome == Final \cup {NotSubmitted, NotInvoked}

Row ==                          \* DurableInvocation, transport "injected"
    [ scope : Scope, method : Method,
      required : BOOLEAN,       \* remoteAcknowledgementRequired
      state : {"prepared", "unknown", "not-invoked"},
      final : Final \cup {None}, hash : Tx \cup {None},
      notSubmitted : BOOLEAN,   \* nativeNotSubmitted
      delivery : {"active", "acknowledged", "archived"} ]

Call ==
    [ step : {"hook", "invoked", "failing", "replied", "confirmed", "saved"},
      invocation : Invocation, scope : Scope, method : Method,
      seen : Account \cup {None},  \* account() has answered, network() has not
      fresh : BOOLEAN,             \* no change since the check (bound: the call) began
      heard : BOOLEAN,             \* its client was listening when seen
      reply : Final \cup {None} ]

Recovery ==
    [ step : {"asking", "acknowledging", "reconciling", "accepting"},
      invocation : Invocation,
      copy : Row,                  \* the row as the operation has read it
      acknowledging : BOOLEAN,
      hash : Tx \cup {None} ]      \* reconciledHash

Listened == {"account", "network"}

Client ==
    [ listening : SUBSET Listened, \* changes that it takes notice of
      subscribed : BOOLEAN,        \* history: subscribe() has ended on this page
      disposed : BOOLEAN ]

ASSUME AbsentAssumption == None \notin Row \cup Call \cup Recovery \cup Outcome

TypeOK ==
    /\ rows \in [Invocation -> Row \cup {None}]
    /\ \A i \in Invocation : rows[i] # None =>
         rows[i].final \in FinalsOf(rows[i].method) \cup {None}
    /\ prepared \subseteq Invocation
    /\ live \in Scope
    /\ client \in [Tab -> Client]
    /\ calls \in [Tab -> Call \cup {None}]
    /\ recovery \in [Tab -> Recovery \cup {None}]
    /\ invoked \subseteq Invocation
    /\ acked \subseteq Invocation
    /\ told \subseteq Invocation \X Outcome

\* createInferNativeRecoveryFeatures awaits its listeners before any operation.
NewClient(tab) ==
    [ listening |-> IF tab \in Bound THEN Listened ELSE {},
      subscribed |-> tab \in Bound, disposed |-> FALSE ]

Init ==
    /\ rows = [i \in Invocation |-> None]
    /\ prepared = {}
    /\ live \in Scope
    /\ client = [tab \in Tab |-> NewClient(tab)]
    /\ calls = [tab \in Tab |-> None]
    /\ recovery = [tab \in Tab |-> None]
    /\ invoked = {}
    /\ acked = {}
    /\ told = {}

------------------------------------------------------------------------------
(* The store                                                               *)

\* Mutant: the identity that an uncertain reply established is not compared.
CanSaveFinalOfAnyHash(row, final) ==
    /\ row # None
    /\ row.state # "not-invoked"
    /\ row.delivery = "active"
    /\ row.final \in {None, final}
    /\ ~row.notSubmitted

\* updateInjectedInvocationEvidence, by what changes: a final ...
CanSaveFinal(row, final) ==
    /\ row # None
    /\ row.state # "not-invoked"
    /\ row.delivery = "active"
    /\ row.final \in {None, final}
    /\ row.hash # None => final = Approved(row.hash)
    /\ ~row.notSubmitted

\* ... a proof that nothing was submitted ...
CanSaveProof(row) ==
    /\ row # None
    /\ row.method = "submit"
    /\ row.state # "not-invoked"
    /\ row.delivery = "active"
    /\ row.final = None /\ row.hash = None

\* ... or the delivery.
CanDeliver(row, delivery) ==
    /\ row # None
    /\ row.state # "not-invoked"
    /\ row.delivery \in {"active", delivery}
    /\ delivery = "acknowledged" <=> row.final # None \/ row.notSubmitted

\* saveDurableTransactionHash, whatever the delivery
CanSaveHash(row, tx) ==
    /\ row # None
    /\ row.method = "submit"
    /\ ~row.notSubmitted
    /\ row.hash \in {None, tx}
    /\ row.final \in {None, Approved(tx)}

SaveFinal(i, final) ==
    /\ CanSaveFinal(rows[i], final)
    /\ rows' = [rows EXCEPT ![i].final = final]

SaveProof(i) ==
    /\ CanSaveProof(rows[i])
    /\ rows' = [rows EXCEPT ![i].notSubmitted = TRUE]

SaveHash(i, tx) ==
    /\ CanSaveHash(rows[i], tx)
    /\ rows' = [rows EXCEPT ![i].hash = tx]

Deliver(i, delivery) ==
    /\ CanDeliver(rows[i], delivery)
    /\ rows' = [rows EXCEPT ![i].delivery = delivery]

\* updateDurableInvocation, whose failure every caller swallows
TryUpdate(i, state) ==
    \/ /\ rows[i] # None
       /\ rows[i].state \in {"prepared", "unknown", state}
       /\ rows' = [rows EXCEPT ![i].state = state]
    \/ UNCHANGED rows

Tell(i, outcome) == told' = told \cup {<<i, outcome>>}

------------------------------------------------------------------------------
(* The signing call of a tab                                               *)

InCall(tab, step) == calls[tab] # None /\ calls[tab].step = step

SetCall(tab, call) ==
    /\ calls' = [calls EXCEPT ![tab] = call]
    /\ UNCHANGED <<live, client, recoveryVars>>

\* The account and the network come from the caches of the client, which
\* nobody may have updated, or for a bound tab from two answers.
Prepare(tab, i, method, scope, required) ==
    /\ calls[tab] = None
    /\ i \notin prepared
    /\ prepared' = prepared \cup {i}
    /\ tab \in Bound => method = "submit" /\ required
    /\ rows' = [rows EXCEPT ![i] =
         [ scope |-> scope, method |-> method, required |-> required,
           state |-> "prepared", final |-> None, hash |-> None,
           notSubmitted |-> FALSE, delivery |-> "active" ]]
    /\ SetCall(tab, [ step |-> "hook", invocation |-> i, scope |-> scope,
                      method |-> method, seen |-> None, fresh |-> TRUE,
                      heard |-> FALSE, reply |-> None ])
    /\ UNCHANGED <<invoked, told>>

\* assertLiveInjectedScope notes the revision and calls account(), then
\* network(); the fence of a bound tab was captured when the call began.
SeeAccount(tab) ==
    /\ \/ InCall(tab, "hook")
       \/ /\ InCall(tab, "replied") \/ InCall(tab, "saved")
          /\ calls[tab].method = "submit"
    /\ calls[tab].seen = None
    /\ SetCall(tab, [calls[tab] EXCEPT
         !.seen = live.account,
         !.fresh = tab \notin Bound \/ @,
         !.heard = client[tab].listening = Listened])
    /\ UNCHANGED <<rows, prepared, invoked, told>>

\* network() answers, and the checks pass.
Confirmed(tab) ==
    /\ calls[tab].fresh
    /\ calls[tab].seen = calls[tab].scope.account
    /\ live.network = calls[tab].scope.network

Checked(tab, step) == [calls[tab] EXCEPT !.step = step, !.seen = None, !.heard = FALSE]

\* The call reaches the wallet; that of a bound tab may be refused on the way.
Invoke(tab) ==
    /\ InCall(tab, "hook")
    /\ Confirmed(tab)
    /\ \E reached \in {TRUE, tab \notin Bound} :
         invoked' = IF reached THEN invoked \cup {calls[tab].invocation} ELSE invoked
    /\ SetCall(tab, Checked(tab, "invoked"))
    /\ UNCHANGED <<rows, prepared, told>>

\* The hook throws, the scope or the provider changed, a restriction cannot be
\* kept, or the transaction has expired.
Refuse(tab) ==
    /\ InCall(tab, "hook")
    /\ TryUpdate(calls[tab].invocation, "not-invoked")
    /\ Tell(calls[tab].invocation, NotInvoked)
    /\ SetCall(tab, None)
    /\ UNCHANGED <<prepared, invoked>>

\* Mutant: a provider that throws has not been invoked.
ThrowsNotInvoked(tab) ==
    /\ InCall(tab, "invoked")
    /\ TryUpdate(calls[tab].invocation, "not-invoked")
    /\ Tell(calls[tab].invocation, NotInvoked)
    /\ SetCall(tab, None)
    /\ UNCHANGED <<prepared, invoked>>

\* The provider throws, and the error of a submission may name a transaction.
Throws(tab) ==
    LET i == calls[tab].invocation IN
    /\ InCall(tab, "invoked")
    /\ TryUpdate(i, "unknown")
    /\ \/ SetCall(tab, None)
       \/ /\ i \in invoked /\ calls[tab].method = "submit"
          /\ \E tx \in Tx : SetCall(tab, [calls[tab] EXCEPT
                              !.step = "failing", !.reply = Approved(tx)])
    /\ UNCHANGED <<prepared, invoked, told>>

\* Mutant: what is saved is the error, not the hash that it carries.
SaveThrownError(tab) ==
    /\ InCall(tab, "failing")
    /\ SaveHash(calls[tab].invocation, calls[tab].reply) \/ UNCHANGED rows
    /\ SetCall(tab, None)
    /\ UNCHANGED <<prepared, invoked, told>>

SaveThrown(tab) ==
    /\ InCall(tab, "failing")
    /\ SaveHash(calls[tab].invocation, calls[tab].reply.result) \/ UNCHANGED rows
    /\ SetCall(tab, None)
    /\ UNCHANGED <<prepared, invoked, told>>

Replies(tab) ==
    /\ InCall(tab, "invoked")
    /\ calls[tab].invocation \in invoked
    /\ \E final \in FinalsOf(calls[tab].method) :
         SetCall(tab, [calls[tab] EXCEPT !.step = "replied", !.reply = final])
    /\ UNCHANGED <<rows, prepared, invoked, told>>

\* The reply is malformed, the scope has changed, or the final of a sign-only
\* method cannot be saved.
Discard(tab) ==
    /\ InCall(tab, "replied")
    /\ TryUpdate(calls[tab].invocation, "unknown")
    /\ SetCall(tab, None)
    /\ UNCHANGED <<prepared, invoked, told>>

\* A submission counts only in the scope it was prepared for.
Confirm(tab) ==
    /\ InCall(tab, "replied")
    /\ calls[tab].method = "submit"
    /\ Confirmed(tab)
    /\ SetCall(tab, Checked(tab, "confirmed"))
    /\ UNCHANGED <<rows, prepared, invoked, told>>

\* Only an approved submission is checked once more before it is returned.
SaveReply(tab) ==
    LET i == calls[tab].invocation
        reply == calls[tab].reply
        submit == calls[tab].method = "submit" IN
    /\ InCall(tab, IF submit THEN "confirmed" ELSE "replied")
    /\ SaveFinal(i, reply)
    /\ IF submit /\ reply # Rejected
       THEN SetCall(tab, [calls[tab] EXCEPT !.step = "saved"]) /\ UNCHANGED told
       ELSE Tell(i, reply) /\ SetCall(tab, None)
    /\ UNCHANGED <<prepared, invoked>>

Return(tab) ==
    /\ InCall(tab, "saved")
    /\ Confirmed(tab)
    /\ Tell(calls[tab].invocation, calls[tab].reply)
    /\ SetCall(tab, None)
    /\ UNCHANGED <<rows, prepared, invoked>>

\* The final of a submission cannot be saved, or its last check fails.
Withhold(tab) ==
    /\ InCall(tab, "confirmed") \/ InCall(tab, "saved")
    /\ SetCall(tab, None)
    /\ UNCHANGED <<rows, prepared, invoked, told>>

CallStep(tab) ==
    \/ \E i \in Invocation, method \in Method, scope \in Scope, required \in BOOLEAN :
         Prepare(tab, i, method, scope, required)
    \/ SeeAccount(tab) \/ Invoke(tab) \/ Refuse(tab)
    \/ Throws(tab) \/ SaveThrown(tab) \/ Replies(tab) \/ Discard(tab)
    \/ Confirm(tab) \/ SaveReply(tab) \/ Return(tab) \/ Withhold(tab)

------------------------------------------------------------------------------
(* Recovery                                                                *)

InRecovery(tab, step) == recovery[tab] # None /\ recovery[tab].step = step

SetRecovery(tab, operation) ==
    /\ recovery' = [recovery EXCEPT ![tab] = operation]
    /\ UNCHANGED <<live, client, callVars>>

RecoveryStep(tab, step) == SetRecovery(tab, [recovery[tab] EXCEPT !.step = step])

Start(tab, i, step, acknowledging) ==
    SetRecovery(tab, [ step |-> step, invocation |-> i, copy |-> rows[i],
                       acknowledging |-> acknowledging, hash |-> None ])

\* After the row is saved a last check of the authority may withhold it.
MayTell(i, outcome) == Tell(i, outcome) \/ UNCHANGED told

\* readInjectedInvocation: two reads of a tab share one answer (inFlight).
StartRead(tab, i) ==
    /\ recovery[tab] = None
    /\ rows[i] # None
    /\ IF rows[i].final # None /\ tab \notin Bound
       THEN Tell(i, rows[i].final) /\ UNCHANGED recovery
                                   /\ UNCHANGED <<live, client, callVars>>
       ELSE Start(tab, i, "asking", FALSE) /\ UNCHANGED told
    /\ UNCHANGED <<rows, acked>>

Asked(tab) == InRecovery(tab, "asking") /\ recovery[tab].invocation \in invoked

\* The wallet proves that nothing was submitted.
AnswerNotSubmitted(tab) ==
    LET i == recovery[tab].invocation
        copy == recovery[tab].copy IN
    /\ Asked(tab)
    /\ copy.method = "submit"
    /\ IF copy.delivery = "acknowledged" THEN copy.notSubmitted /\ UNCHANGED rows
                                         ELSE SaveProof(i)
    /\ IF recovery[tab].acknowledging
       THEN copy.notSubmitted /\ RecoveryStep(tab, "acknowledging") /\ UNCHANGED told
       ELSE SetRecovery(tab, None) /\ MayTell(i, NotSubmitted)
    /\ UNCHANGED acked

\* Mutant: nothing is owed to a wallet that sent its reply itself.
OwedForProof(row) == row.notSubmitted

\* The obligation is that of the wallet the request was prepared for, also when
\* the one of today cannot take an acknowledgement: then it is refused.
Owed(row) == row.notSubmitted \/ row.required

Acknowledging(row) == IF Owed(row) THEN "acknowledging" ELSE "accepting"

\* The request is pending or its outcome unknown; the wallet may name the
\* transaction, and say that it was committed.  An acknowledgement goes on with
\* the hash, which it saves as a final only if the wallet is to be told.
AnswerUnresolved(tab) ==
    LET i == recovery[tab].invocation
        copy == recovery[tab].copy IN
    /\ Asked(tab)
    /\ ~copy.notSubmitted
    /\ \/ SetRecovery(tab, None) /\ UNCHANGED rows
       \/ \E tx \in Tx :
            /\ SaveHash(i, tx)
            /\ \/ SetRecovery(tab, None)
               \/ /\ recovery[tab].acknowledging
                  /\ SetRecovery(tab, [recovery[tab] EXCEPT
                       !.step = Acknowledging(copy), !.hash = tx])
    /\ UNCHANGED <<acked, told>>

\* The wallet answers with a final.  For an acknowledgement it comes too late.
AnswerFinal(tab) ==
    LET i == recovery[tab].invocation
        copy == recovery[tab].copy IN
    /\ Asked(tab)
    /\ ~copy.notSubmitted
    /\ \E final \in FinalsOf(copy.method) :
         /\ IF copy.final = None THEN SaveFinal(i, final)
                                 ELSE final = copy.final /\ UNCHANGED rows
         /\ IF recovery[tab].acknowledging THEN UNCHANGED told ELSE MayTell(i, final)
    /\ SetRecovery(tab, None)
    /\ UNCHANGED acked

\* acknowledgeRecoverableRequest and acknowledgeNativeResult
StartAcknowledge(tab, i) ==
    LET row == rows[i] IN
    /\ recovery[tab] = None
    /\ row # None
    /\ row.delivery # "acknowledged"
    /\ \/ /\ row.notSubmitted \/ (row.final = None /\ row.hash # None)
          /\ Start(tab, i, "asking", TRUE)
       \/ row.final # None /\ Start(tab, i, Acknowledging(row), TRUE)
    /\ UNCHANGED <<rows, acked, told>>

\* The wallet drops what it retains of the invocation.
WalletAcknowledges(tab) ==
    /\ InRecovery(tab, "acknowledging")
    /\ recovery[tab].invocation \in invoked
    /\ acked' = acked \cup {recovery[tab].invocation}
    /\ RecoveryStep(tab, IF recovery[tab].hash # None THEN "reconciling" ELSE "accepting")
    /\ UNCHANGED <<rows, told>>

SaveReconciled(tab) ==
    /\ InRecovery(tab, "reconciling")
    /\ SaveFinal(recovery[tab].invocation, Approved(recovery[tab].hash))
    /\ RecoveryStep(tab, "accepting")
    /\ UNCHANGED <<acked, told>>

Accept(tab) ==
    /\ InRecovery(tab, "accepting")
    /\ Deliver(recovery[tab].invocation, "acknowledged")
    /\ SetRecovery(tab, None)
    /\ UNCHANGED <<acked, told>>

\* The provider is another one or has another scope, an answer contradicts what
\* is stored or does not come, or a store operation aborts.
RecoveryFails(tab) ==
    /\ recovery[tab] # None
    /\ SetRecovery(tab, None)
    /\ UNCHANGED <<rows, acked, told>>

RecoveryOf(tab) ==
    \/ \E i \in Invocation : StartRead(tab, i) \/ StartAcknowledge(tab, i)
    \/ AnswerNotSubmitted(tab) \/ AnswerUnresolved(tab) \/ AnswerFinal(tab)
    \/ WalletAcknowledges(tab) \/ SaveReconciled(tab)
    \/ Accept(tab) \/ RecoveryFails(tab)

\* archiveRecoverableRequest, by any tab
Archive(i) ==
    /\ Deliver(i, "archived")
    /\ UNCHANGED <<live, client, callVars, recoveryVars, told>>

\* pruneDurableEvidence, when the record is old enough
Prune(i) ==
    /\ rows[i] # None
    /\ rows[i].delivery # "active"
    /\ rows' = [rows EXCEPT ![i] = None]
    /\ UNCHANGED <<live, client, callVars, recoveryVars, told>>

------------------------------------------------------------------------------
(* The wallet and the tabs                                                 *)

\* injectedScopeRevision, or the generation of a bound tab, has passed: the
\* next check of an ambient call notes the new one.
Bumped(tabs) ==
    calls' = [tab \in Tab |->
        IF tab \in tabs /\ calls[tab] # None /\ (tab \in Bound \/ calls[tab].seen # None)
        THEN [calls[tab] EXCEPT !.fresh = FALSE] ELSE calls[tab]]

\* The user switches the account or the network of the wallet.
ChangeScope(scope, what) ==
    /\ scope # live
    /\ what = {w \in Listened : (w = "account" /\ scope.account # live.account)
                             \/ (w = "network" /\ scope.network # live.network)}
    /\ live' = scope
    /\ Bumped({tab \in Tab : client[tab].listening \cap what # {}})
    /\ UNCHANGED <<rows, client, prepared, invoked, recoveryVars, told>>

\* subscribe() awaits one listener after the other.
Subscribe(tab) ==
    LET both == "account" \in client[tab].listening IN
    /\ tab \notin Bound
    /\ ~client[tab].disposed
    /\ client[tab].listening # Listened
    /\ client' = [client EXCEPT
         ![tab].listening = IF both THEN Listened ELSE {"account"},
         ![tab].subscribed = @ \/ both]
    /\ UNCHANGED <<rows, live, callVars, recoveryVars, told>>

\* Mutant: the listeners are silenced, but the call in progress is not told.
DisconnectUnbumped(tab) ==
    /\ tab \notin Bound
    /\ client' = [client EXCEPT ![tab].listening = {}]
    /\ UNCHANGED <<rows, live, callVars, recoveryVars, told>>

\* disconnect() invalidates the check of a call in progress, and silences the
\* listeners there are (subscriptionRevision): connect() does not bring them
\* back, only another subscribe() does.  A session that is cleared by another
\* tab or by the wallet leaves both alone.
Disconnect(tab) ==
    /\ tab \notin Bound
    /\ client' = [client EXCEPT ![tab].listening = {}]
    /\ Bumped({tab})
    /\ UNCHANGED <<rows, live, prepared, invoked, recoveryVars, told>>

\* dispose() silences them for good, and lets a call in progress go on.
Dispose(tab) ==
    /\ tab \notin Bound
    /\ client' = [client EXCEPT ![tab].listening = {}, ![tab].disposed = TRUE]
    /\ UNCHANGED <<rows, live, callVars, recoveryVars, told>>

\* The tab is closed or reloaded.
LeaveTab(tab) ==
    /\ calls' = [calls EXCEPT ![tab] = None]
    /\ recovery' = [recovery EXCEPT ![tab] = None]
    /\ client' = [client EXCEPT ![tab] = NewClient(tab)]
    /\ UNCHANGED <<rows, live, prepared, invoked, acked, told>>

Next ==
    \/ \E tab \in Tab : \/ CallStep(tab) \/ RecoveryOf(tab) \/ LeaveTab(tab)
                        \/ Subscribe(tab) \/ Disconnect(tab) \/ Dispose(tab)
    \/ \E i \in Invocation : Archive(i) \/ Prune(i)
    \/ \E scope \in Scope, what \in SUBSET Listened : ChangeScope(scope, what)

Spec == Init /\ [][Next]_vars

------------------------------------------------------------------------------
(* Properties                                                              *)

\* What the dapp is told not to have been invoked, or is listed so, never
\* reached the wallet, whatever fails and whichever update is lost
\* (notInvokedError, listRecoverableInvocations).
NotInvokedIsTrue ==
    \A i \in invoked : /\ <<i, NotInvoked>> \notin told
                       /\ rows[i] # None => rows[i].state # "not-invoked"

\* A retained final, a transaction and a proof that nothing was submitted.
RowAgrees(row) ==
    /\ row.hash # None => row.final \in {None, Approved(row.hash)}
    /\ row.notSubmitted => row.final = None /\ row.hash = None

Retains(row, outcome) ==
    \/ row.final = outcome
    \/ row.notSubmitted /\ outcome = NotSubmitted
    \/ row.state # "unknown" /\ outcome = NotInvoked

\* Whatever a wallet answers, and however the answers to the call, to the reads
\* and to the acknowledgements of several tabs are interleaved: no two outcomes
\* of an invocation are told, and what was told stays on record
\* (updateInjectedInvocationEvidence, saveDurableTransactionHash).
OutcomesAgree ==
    /\ \A i \in Invocation : rows[i] # None => RowAgrees(rows[i])
    /\ \A t \in told : /\ \A u \in told : t[1] = u[1] => t = u
                       /\ rows[t[1]] # None => Retains(rows[t[1]], t[2])

\* A retained outcome is accepted in order: it is on record when the wallet is
\* told to drop it, and one whose wallet requires to be told is only accepted
\* locally after that, although a lookup, a conflicting answer, an archive or a
\* prune of another tab may come in between (docs/api-reference.md: "A
\* disappeared or downgraded peer cannot clear a recorded obligation").
AcknowledgedInOrder ==
    \A i \in Invocation : rows[i] # None =>
      /\ i \in acked =>
           rows[i].final # None \/ rows[i].hash # None \/ rows[i].notSubmitted
      /\ rows[i].delivery = "acknowledged" /\ (rows[i].required \/ rows[i].notSubmitted) =>
           i \in acked

\* The call of the tab reaches the wallet, or returns its submission.
Dispatches(tab) ==
    /\ calls[tab] # None
    /\ \/ calls[tab].invocation \in invoked' \ invoked
       \/ calls[tab].step = "saved" /\ calls'[tab] = None /\ told' # told

\* A client that listens when account() answers, and still does at the end of
\* its check, never invokes a wallet whose account or network is not the
\* prepared one, and returns a submission only in that scope, although network()
\* answers later and it may be disconnected, and subscribed anew, in between.
InvokedInScope ==
    [][\A tab \in Tab :
         Dispatches(tab) /\ calls[tab].heard /\ client[tab].listening = Listened
           => live = calls[tab].scope]_vars

------------------------------------------------------------------------------
(* What the documentation says and the code does not do                    *)

\* "account/network events during those reads also invalidate preparation"
\* (docs/integration-contract.md), for an application that has subscribed to
\* them, as cedra:onAccountChange does once.
EventsInvalidate ==
    [][\A tab \in Tab :
         /\ calls[tab] # None /\ calls[tab].seen # None
         /\ client[tab].subscribed /\ ~client[tab].disposed
         /\ live' # live
         => ~calls'[tab].fresh]_vars
==============================================================================
