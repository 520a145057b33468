------------------------- MODULE ConnectionLifecycle -------------------------
(***************************************************************************)
(* The wallet session of one browser origin and the InferClients that use  *)
(* it, one in each tab (src/InferClient.ts: connect, disconnect, dispose,  *)
(* getAccount, the liveness heartbeat; src/bridge.ts: the stored session,  *)
(* its health check, and the session-ready and session-cleared signals).   *)
(*                                                                         *)
(* A tab handles one event at a time: the code between two awaits is one   *)
(* step, and continuations that are due run before the next event (Busy).  *)
(* Requests to the wallet are answered late, once, or not at all.          *)
(*                                                                         *)
(* accountInfo stands for networkInfo too, which is set and reset with it. *)
(* Left out: the callback URL, mobile pairing, and the fallback through    *)
(* deep links when the wallet has no pre-auth route (such a connect fails  *)
(* here).  A heartbeat check outlasts no tick: at most one is in flight.   *)
(***************************************************************************)
EXTENDS Naturals, Sequences

CONSTANTS
    Tab,
    ProviderTab,      \* tabs in which the wallet has injected a provider
    HeartbeatTab,     \* tabs with sessionLivenessIntervalMs > 0
    Session,          \* session ids the wallet may issue
    ProviderAccount,  \* the account of the injected provider
    ConnectCall,      \* bound: calls of connect()
    AccountCall,      \* bound: calls of getAccount()
    MaxDisconnects,   \* bound: calls of disconnect(), in all tabs
    MaxDisposals,     \* bound: calls of dispose()
    MaxReloads,       \* bound: reloads
    MaxCopies,        \* bound: copies of one signal on its way to one listener
    None

ASSUME ConnectionAssumption ==
    /\ ProviderTab \subseteq Tab /\ HeartbeatTab \subseteq Tab
    /\ None \notin Tab \cup Session \cup ConnectCall \cup AccountCall \cup {ProviderAccount}
    /\ Session \cap {"none", "pending", "rejected"} = {}
    /\ ConnectCall \cap AccountCall = {} /\ Tab \cap (ConnectCall \cup AccountCall) = {}
    /\ MaxDisconnects \in Nat /\ MaxDisposals \in Nat /\ MaxReloads \in Nat
    /\ MaxCopies \in Nat \ {0}

VARIABLES
    stored,         \* the session in localStorage, shared by the tabs
    wallet,         \* what has become of each session at the wallet
    request,        \* the pre-auth request of each connect call at the wallet
    client,         \* the InferClient of each tab
    disconnecting,  \* its disconnectOperation
    call,           \* the asynchronous calls of the clients
    events,         \* storage events on their way to each tab
    bridgeMail,     \* session-cleared messages on their way to bridge.ts
    clientMail,     \* and to the InferClient of each tab
    spent           \* the disconnects, disposals and reloads so far

channels == <<bridgeMail, clientMail>>
vars == <<stored, wallet, request, client, disconnecting, call, events,
          channels, spent>>

------------------------------------------------------------------------------
(* Data                                                                    *)

Account == Session \cup {ProviderAccount}

Call == ConnectCall \cup AccountCall \cup Tab  \* a tab names its heartbeat check

Client ==
    [ account : Account \cup {None},                  \* accountInfo
      health : {"disconnected", "checking", "connected", "unreachable",
                "reconnect-required"},
      disconnectEmitted : BOOLEAN,
      heartbeat : BOOLEAN,                            \* livenessHandle
      revision : Nat,                                 \* connectionRevision
      operation : ConnectCall \cup {None},            \* connectionOperation
      disposed : BOOLEAN ]

CallState ==
    [ step : {"idle", "provider", "network", "checking", "starting", "waiting",
              "woken", "done"},
      tab : Tab \cup {None},
      revision : Nat,
      known : Session \cup {None},   \* stored at the start: checked, then ignored
      answer : {None, "live", "gone"} \cup Session,
      result : {"none", "open", "resolved", "rejected"} ]  \* what its caller sees

Unused == [ step |-> "idle", tab |-> None, revision |-> 0, known |-> None,
            answer |-> None, result |-> "none" ]

Settled(result) == [Unused EXCEPT !.step = "done", !.result = result]

TypeOK ==
    /\ stored \in Session \cup {None}
    /\ wallet \in [Session -> {"unissued", "live", "revoked"}]
    /\ request \in [ConnectCall -> {"none", "pending", "rejected"} \cup Session]
    /\ client \in [Tab -> Client]
    /\ disconnecting \in
         [Tab -> [step : {"idle", "revoking", "revoked"}, session : Session \cup {None}]]
    /\ call \in [Call -> CallState]
    /\ events \in [Tab -> Seq(Session \cup {None})]
    /\ bridgeMail \in [Tab -> 0..MaxCopies]
    /\ clientMail \in [Tab -> 0..MaxCopies]
    /\ spent \in [disconnects : 0..MaxDisconnects, disposals : 0..MaxDisposals,
                  reloads : 0..MaxReloads]

NotDisconnecting == [step |-> "idle", session |-> None]

\* The constructor, for what localStorage holds at that time.
NewClient(t, session) ==
    [ account |-> None,
      health |-> IF session = None THEN "disconnected" ELSE "checking",
      disconnectEmitted |-> FALSE, heartbeat |-> t \in HeartbeatTab,
      revision |-> 0, operation |-> None, disposed |-> FALSE ]

\* An earlier visit may have left a session, which the wallet may have revoked.
Init ==
    /\ stored \in Session \cup {None}
    /\ wallet \in [Session -> {"unissued", "live", "revoked"}]
    /\ \A s \in Session : wallet[s] = "unissued" <=> s # stored
    /\ request = [c \in ConnectCall |-> "none"]
    /\ client = [t \in Tab |-> NewClient(t, stored)]
    /\ disconnecting = [t \in Tab |-> NotDisconnecting]
    /\ call = [c \in Call |-> Unused]
    /\ events = [t \in Tab |-> <<>>]
    /\ bridgeMail = [t \in Tab |-> 0]
    /\ clientMail = [t \in Tab |-> 0]
    /\ spent = [disconnects |-> 0, disposals |-> 0, reloads |-> 0]

------------------------------------------------------------------------------
(* bridge.ts: storage and signals                                          *)

\* Setting a new value tells the other tabs, in this order per tab.
Announce(t, session) ==
    events' = [u \in Tab |-> IF u = t \/ session = stored THEN events[u]
                             ELSE Append(events[u], session)]

Write(t, session) == stored' = session /\ Announce(t, session)

\* resolvePendingExternalSessionWaiters: what the calls of t wait for is here,
\* unless it is the session that was stored before they asked for a new one.
Woken(t, session) ==
    [c \in Call |->
       IF call[c].step = "waiting" /\ call[c].tab = t /\ call[c].known # session
       THEN [call[c] EXCEPT !.step = "woken", !.answer = session]
       ELSE call[c]]

\* handleExternalSessionCleared
Cleared(k) ==
    IF k.disconnectEmitted THEN k
    ELSE [k EXCEPT !.disconnectEmitted = TRUE, !.heartbeat = FALSE,
                   !.account = None, !.health = "disconnected"]

OneMore(n) == IF n = MaxCopies THEN n ELSE n + 1

\* The posts of broadcastExternalDisconnect.  A BroadcastChannel hears every
\* post but its own: bridge.ts hears the other tabs, and the client, which has
\* a channel of its own until it is disposed, hears its own tab as well.
\* unread is what bridge.ts of t has still to hear.
Post(t, unread) ==
    /\ bridgeMail' = [u \in Tab |-> IF u = t THEN unread ELSE OneMore(bridgeMail[u])]
    /\ clientMail' = [u \in Tab |-> IF client[u].disposed THEN clientMail[u]
                                    ELSE OneMore(clientMail[u])]

\* The same-window event of broadcastExternalDisconnect.
Dispatched(k) == IF k.disposed THEN k ELSE Cleared(k)

\* A call that waited has its session, or disconnect() has nothing to await:
\* this continues before the tab takes another event.
Busy(t) ==
    \/ \E c \in Call : call[c].step = "woken" /\ call[c].tab = t
    \/ disconnecting[t].step = "revoking" /\ disconnecting[t].session = None
       /\ t \notin ProviderTab

------------------------------------------------------------------------------
(* connect                                                                 *)

\* Mutant: only a disposed client drops late completions.
CurrentUnlessDisposed(c) == ~client[call[c].tab].disposed

\* assertCurrent: neither superseded nor disposed.
Current(c) ==
    LET k == client[call[c].tab] IN
    ~k.disposed /\ call[c].revision = k.revision

\* The call fails; one that was cancelled has been rejected before.
Reject(c, calls) ==
    LET t == call[c].tab IN
    /\ call' = [calls EXCEPT ![c] = Settled("rejected")]
    /\ client' = [client EXCEPT
         ![t].operation = IF @ = c THEN None ELSE @]

\* The synchronous part of connect, up to its first await.
Begins(t, c) ==
    /\ call[c].step = "idle"
    /\ client' = [client EXCEPT ![t].revision = @ + 1,
                                ![t].disconnectEmitted = FALSE,
                                ![t].operation = c]
    /\ call' = [call EXCEPT ![c] =
         [ step |-> IF t \in ProviderTab THEN "provider"
                    ELSE IF stored # None THEN "checking" ELSE "starting",
           tab |-> t,
           revision |-> client'[t].revision,
           known |-> IF t \in ProviderTab THEN None ELSE stored,
           answer |-> None,
           result |-> "open" ]]
    /\ UNCHANGED <<stored, wallet, request, disconnecting, events, channels, spent>>

\* Mutants: an open call is not shared; a disconnect in progress is no obstacle.
ConnectUnshared(t, c) ==
    /\ ~client[t].disposed
    /\ disconnecting[t].step = "idle"
    /\ Begins(t, c)

ConnectWhileDisconnecting(t, c) ==
    /\ ~client[t].disposed
    /\ client[t].operation = None
    /\ Begins(t, c)

\* A call that finds another one pending shares it, and one made during
\* disconnect() or after dispose() is rejected: neither changes anything.
Connect(t, c) ==
    /\ ~client[t].disposed
    /\ disconnecting[t].step = "idle"
    /\ client[t].operation = None
    /\ Begins(t, c)

\* provider.connect() and then provider.network() answer; the account is
\* published once both are known.
ProviderConnects(c, succeeds) ==
    LET t == call[c].tab IN
    /\ c \in ConnectCall
    /\ call[c].step \in {"provider", "network"}
    /\ IF ~succeeds \/ ~Current(c) THEN Reject(c, call)
       ELSE IF call[c].step = "provider"
            THEN call' = [call EXCEPT ![c].step = "network"] /\ UNCHANGED client
            ELSE /\ call' = [call EXCEPT ![c] = Settled("resolved")]
                 /\ client' = [client EXCEPT ![t].account = ProviderAccount,
                                             ![t].operation = None]
    /\ UNCHANGED <<stored, wallet, request, disconnecting, events, channels, spent>>

\* connectResultFromExternalSession
Connected(k, session) ==
    [k EXCEPT !.account = session, !.health = "connected", !.operation = None]

------------------------------------------------------------------------------
(* checkExternalConnectionHealth, awaited by connect, getAccount and the    *)
(* heartbeat: what it stores or clears follows from the answer about the    *)
(* session that was read before the request.                                *)

\* The wallet answers GET /session/{id}; the tab has not got the answer yet.
AnswerCheck(c) ==
    /\ call[c].step = "checking"
    /\ call[c].answer = None
    /\ call' = [call EXCEPT ![c].answer =
         IF wallet[call[c].known] = "live" THEN "live" ELSE "gone"]
    /\ UNCHANGED <<stored, wallet, request, client, disconnecting, events, channels, spent>>

\* The answer arrives, or none that can be used.
Receives(c, outcome) ==
    LET t == call[c].tab IN
    /\ call[c].step = "checking"
    /\ outcome \in {"live", "gone"} => call[c].answer = outcome
    /\ CASE outcome = "live" -> Write(t, call[c].known)
         [] outcome = "gone" -> Write(t, None)
         [] outcome = "unreachable" -> UNCHANGED <<stored, events>>

CallsAfter(c, outcome) ==
    IF outcome = "live" THEN Woken(call[c].tab, call[c].known) ELSE call

ConnectChecked(c, outcome) ==
    LET t == call[c].tab
        calls == CallsAfter(c, outcome)
    IN
    /\ c \in ConnectCall
    /\ Receives(c, outcome)
    /\ IF ~Current(c) THEN Reject(c, calls)
       ELSE IF outcome = "live"
            THEN /\ call' = [calls EXCEPT ![c] = Settled("resolved")]
                 /\ client' = [client EXCEPT ![t] =
                      [Connected(@, call[c].known) EXCEPT !.disconnectEmitted = FALSE]]
            ELSE /\ call' = [calls EXCEPT ![c].step = "starting", ![c].answer = None]
                 /\ UNCHANGED client
    /\ UNCHANGED <<wallet, request, disconnecting, channels, spent>>

\* An account that is known is returned at once and changes nothing.
GetAccount(t, c) ==
    /\ client[t].account = None
    /\ t \in ProviderTab \/ stored # None
    /\ call[c].step = "idle"
    /\ call' = [call EXCEPT ![c] =
         [Unused EXCEPT !.step = IF t \in ProviderTab THEN "provider" ELSE "checking",
                        !.tab = t,
                        !.known = IF t \in ProviderTab THEN None ELSE stored,
                        !.result = "open"]]
    /\ UNCHANGED <<stored, wallet, request, client, disconnecting, events, channels, spent>>

AccountChecked(c, outcome) ==
    LET t == call[c].tab IN
    /\ c \in AccountCall
    /\ Receives(c, outcome)
    /\ call' = [CallsAfter(c, outcome) EXCEPT
         ![c] = Settled(IF outcome = "live" THEN "resolved" ELSE "rejected")]
    /\ client' = [client EXCEPT
         ![t].account = IF outcome = "live" THEN call[c].known ELSE @]
    /\ UNCHANGED <<wallet, request, disconnecting, channels, spent>>

\* provider.account()
ProviderAccounts(c, succeeds) ==
    LET t == call[c].tab IN
    /\ c \in AccountCall
    /\ call[c].step = "provider"
    /\ call' = [call EXCEPT
         ![c] = Settled(IF succeeds THEN "resolved" ELSE "rejected")]
    /\ client' = [client EXCEPT
         ![t].account = IF succeeds THEN ProviderAccount ELSE @]
    /\ UNCHANGED <<stored, wallet, request, disconnecting, events, channels, spent>>

\* pollSessionLiveness begins; without a session nothing is asked.
Tick(t) ==
    /\ client[t].heartbeat
    /\ call[t].step = "idle"
    /\ IF stored = None
       THEN client' = [client EXCEPT ![t].health = "disconnected"] /\ UNCHANGED call
       ELSE /\ call' = [call EXCEPT ![t] =
                 [Unused EXCEPT !.step = "checking", !.tab = t, !.known = stored]]
            /\ UNCHANGED client
    /\ UNCHANGED <<stored, wallet, request, disconnecting, events, channels, spent>>

HealthOf(outcome) ==
    CASE outcome = "live" -> "connected"
      [] outcome = "gone" -> "reconnect-required"
      [] outcome = "unreachable" -> "unreachable"

\* Mutant: a rejected session is reported, and the account kept.
HeartbeatReports(t, outcome) ==
    /\ Receives(t, outcome)
    /\ call' = [CallsAfter(t, outcome) EXCEPT ![t] = Unused]
    /\ client' = [client EXCEPT ![t].health = HealthOf(outcome)]
    /\ UNCHANGED <<wallet, request, disconnecting, channels, spent>>

\* checkConnectionHealth and the rest of pollSessionLiveness
HeartbeatChecked(t, outcome) ==
    LET checked == [client[t] EXCEPT
          !.health = HealthOf(outcome),
          !.account = IF outcome = "live" THEN @ ELSE None]
    IN
    /\ Receives(t, outcome)
    /\ call' = [CallsAfter(t, outcome) EXCEPT ![t] = Unused]
    /\ client' = [client EXCEPT ![t] = IF outcome = "gone" THEN Cleared(checked) ELSE checked]
    /\ UNCHANGED <<wallet, request, disconnecting, channels, spent>>

------------------------------------------------------------------------------
(* startPreauthConnect and pollPreauthUntilResolved: a new approval.  The   *)
(* poll and the wait for other tabs go on when the connect is superseded.   *)

PreauthStarts(c) ==
    /\ call[c].step = "starting"
    /\ request' = [request EXCEPT ![c] = "pending"]
    /\ IF ~Current(c) THEN Reject(c, call)
       ELSE /\ call' = [call EXCEPT ![c] =
                 IF stored \in {None, @.known} THEN [@ EXCEPT !.step = "waiting"]
                 ELSE [@ EXCEPT !.step = "woken", !.answer = stored]]
            /\ UNCHANGED client
    /\ UNCHANGED <<stored, wallet, disconnecting, events, channels, spent>>

\* Mutant: the wait for an approval has no deadline.
PreauthFailsToStart(c) ==
    /\ call[c].step = "starting"
    /\ Reject(c, call)
    /\ UNCHANGED <<stored, wallet, request, disconnecting, events, channels, spent>>

\* The route is missing or blocked, the poll fails, or its deadline passes.
PreauthFails(c) ==
    /\ call[c].step \in {"starting", "waiting"}
    /\ Reject(c, call)
    /\ UNCHANGED <<stored, wallet, request, disconnecting, events, channels, spent>>

WalletDecides(c, decision) ==
    /\ request[c] = "pending"
    /\ request' = [request EXCEPT ![c] = decision]
    /\ \/ decision = "rejected" /\ UNCHANGED wallet
       \/ /\ decision \in Session
          /\ wallet[decision] = "unissued"
          /\ wallet' = [wallet EXCEPT ![decision] = "live"]
    /\ UNCHANGED <<stored, client, disconnecting, call, events, channels, spent>>

PollApproved(c) ==
    LET t == call[c].tab
        session == request[c]
    IN
    /\ call[c].step = "waiting"
    /\ session \in Session
    /\ request' = [request EXCEPT ![c] = "none"]
    /\ Write(t, session)
    /\ call' = [Woken(t, session) EXCEPT ![c].step = "woken", ![c].answer = session]
    /\ UNCHANGED <<wallet, client, disconnecting, channels, spent>>

PollRejected(c) ==
    /\ call[c].step = "waiting"
    /\ request[c] = "rejected"
    /\ Reject(c, call)
    /\ UNCHANGED <<stored, wallet, request, disconnecting, events, channels, spent>>

\* Mutant: the interval takes whatever is stored.
WaiterReadsAny(c) ==
    /\ call[c].step = "waiting"
    /\ stored # None
    /\ call' = [call EXCEPT ![c].step = "woken", ![c].answer = stored]
    /\ UNCHANGED <<stored, wallet, request, client, disconnecting, events, channels, spent>>

\* The interval of waitForExternalSession.
WaiterReads(c) ==
    /\ call[c].step = "waiting"
    /\ stored \notin {None, call[c].known}
    /\ call' = [call EXCEPT ![c].step = "woken", ![c].answer = stored]
    /\ UNCHANGED <<stored, wallet, request, client, disconnecting, events, channels, spent>>

Resume(c) ==
    LET t == call[c].tab IN
    /\ call[c].step = "woken"
    /\ IF ~Current(c) THEN Reject(c, call)
       ELSE /\ call' = [call EXCEPT ![c] = Settled("resolved")]
            /\ client' = [client EXCEPT ![t] = Connected(@, call[c].answer)]
    /\ UNCHANGED <<stored, wallet, request, disconnecting, events, channels, spent>>

------------------------------------------------------------------------------
(* disconnect, dispose, reload                                             *)

\* invalidateConnection
Invalidated(k) == [k EXCEPT !.revision = @ + 1, !.operation = None]

Cancelled(t) ==
    [c \in Call |-> IF c = client[t].operation
                    THEN [call[c] EXCEPT !.result = "rejected"] ELSE call[c]]

\* A repeated call shares the one in progress.
Disconnect(t) ==
    /\ disconnecting[t].step = "idle"
    /\ spent.disconnects < MaxDisconnects
    /\ spent' = [spent EXCEPT !.disconnects = @ + 1]
    /\ call' = Cancelled(t)
    /\ client' = [client EXCEPT ![t] =
         [Invalidated(@) EXCEPT !.disconnectEmitted = FALSE]]
    /\ disconnecting' = [disconnecting EXCEPT ![t] =
         [step |-> "revoking", session |-> stored]]
    /\ UNCHANGED <<stored, wallet, request, events, channels>>

\* The DELETE reaches the wallet.
RevokeArrives(t) ==
    LET session == disconnecting[t].session IN
    /\ disconnecting[t].step = "revoking"
    /\ session # None
    /\ disconnecting' = [disconnecting EXCEPT ![t].step = "revoked"]
    /\ wallet' = [wallet EXCEPT ![session] = "revoked"]
    /\ UNCHANGED <<stored, request, client, call, events, channels, spent>>

\* Mutant: the cleanup is left out when the wallet has not confirmed.
FinishRevoked(t) ==
    /\ disconnecting[t].step = "revoked"
    /\ disconnecting' = [disconnecting EXCEPT ![t] = NotDisconnecting]
    /\ Write(t, None)
    /\ Post(t, bridgeMail[t])
    /\ client' = [client EXCEPT ![t] = Cleared(@)]
    /\ UNCHANGED <<wallet, request, call, spent>>

\* The finally block, whether revocation succeeded or not.
FinishDisconnect(t) ==
    /\ disconnecting[t].step # "idle"
    /\ disconnecting' = [disconnecting EXCEPT ![t] = NotDisconnecting]
    /\ Write(t, None)
    /\ Post(t, bridgeMail[t])
    /\ client' = [client EXCEPT ![t] = Cleared(@)]
    /\ UNCHANGED <<wallet, request, call, spent>>

Dispose(t) ==
    /\ ~client[t].disposed
    /\ spent.disposals < MaxDisposals
    /\ spent' = [spent EXCEPT !.disposals = @ + 1]
    /\ call' = Cancelled(t)
    /\ client' = [client EXCEPT ![t] =
         [Invalidated(@) EXCEPT !.disposed = TRUE, !.account = None, !.heartbeat = FALSE]]
    /\ clientMail' = [clientMail EXCEPT ![t] = 0]
    /\ UNCHANGED <<stored, wallet, request, disconnecting, events, bridgeMail>>

\* The page is reloaded: its calls, listeners and undelivered events are gone.
Reload(t) ==
    /\ spent.reloads < MaxReloads
    /\ spent' = [spent EXCEPT !.reloads = @ + 1]
    /\ client' = [client EXCEPT ![t] = NewClient(t, stored)]
    /\ disconnecting' = [disconnecting EXCEPT ![t] = NotDisconnecting]
    /\ call' = [c \in Call |->
         IF call[c].tab # t THEN call[c]
         ELSE IF c \in Tab THEN Unused ELSE Settled("rejected")]
    /\ events' = [events EXCEPT ![t] = <<>>]
    /\ bridgeMail' = [bridgeMail EXCEPT ![t] = 0]
    /\ clientMail' = [clientMail EXCEPT ![t] = 0]
    /\ UNCHANGED <<stored, wallet, request>>

\* The user revokes a session in the wallet.
WalletRevokes(session) ==
    /\ wallet[session] = "live"
    /\ wallet' = [wallet EXCEPT ![session] = "revoked"]
    /\ UNCHANGED <<stored, request, client, disconnecting, call, events, channels, spent>>

------------------------------------------------------------------------------
(* Listeners                                                               *)

\* Another tab has stored a session.
SessionStored(t) ==
    /\ events[t] # <<>> /\ Head(events[t]) # None
    /\ call' = Woken(t, Head(events[t]))
    /\ events' = [events EXCEPT ![t] = Tail(@)]
    /\ UNCHANGED <<stored, wallet, request, client, disconnecting, channels, spent>>

\* Another tab has cleared it: broadcastExternalDisconnect.
SessionRemoved(t) ==
    /\ events[t] # <<>> /\ Head(events[t]) = None
    /\ events' = [events EXCEPT ![t] = Tail(@)]
    /\ Post(t, bridgeMail[t])
    /\ client' = [client EXCEPT ![t] = Dispatched(@)]
    /\ UNCHANGED <<stored, wallet, request, disconnecting, call, spent>>

\* bridge.ts hears the message, and passes it on in the same way.
BridgeHears(t) ==
    /\ bridgeMail[t] > 0
    /\ Post(t, bridgeMail[t] - 1)
    /\ client' = [client EXCEPT ![t] = Dispatched(@)]
    /\ UNCHANGED <<stored, wallet, request, disconnecting, call, events, spent>>

\* onPeerDisconnect
ClientHears(t) ==
    /\ clientMail[t] > 0
    /\ clientMail' = [clientMail EXCEPT ![t] = @ - 1]
    /\ client' = [client EXCEPT ![t] = Cleared(@)]
    /\ UNCHANGED <<stored, wallet, request, disconnecting, call, events, bridgeMail, spent>>

------------------------------------------------------------------------------

Outcome == {"live", "gone", "unreachable"}

\* A call goes on with what it awaited.
CallReturns(c) ==
    \/ \E outcome \in Outcome : ConnectChecked(c, outcome) \/ AccountChecked(c, outcome)
    \/ \E succeeds \in BOOLEAN : ProviderConnects(c, succeeds) \/ ProviderAccounts(c, succeeds)
    \/ /\ c \in ConnectCall
       /\ \/ PreauthStarts(c)
          \/ PreauthFails(c)
          \/ PollApproved(c)
          \/ PollRejected(c)
          \/ WaiterReads(c)

HeartbeatReturns(t) == \E outcome \in Outcome : HeartbeatChecked(t, outcome)

Hears(t) == SessionStored(t) \/ SessionRemoved(t) \/ BridgeHears(t) \/ ClientHears(t)

Continue(t) ==
    \/ \E c \in ConnectCall : call[c].tab = t /\ Resume(c)
    \/ Busy(t) /\ FinishDisconnect(t)

TabStep(t) ==
    \/ \E c \in ConnectCall : Connect(t, c)
    \/ \E c \in AccountCall : GetAccount(t, c)
    \/ \E c \in ConnectCall \cup AccountCall : call[c].tab = t /\ CallReturns(c)
    \/ Tick(t)
    \/ HeartbeatReturns(t)
    \/ Disconnect(t)
    \/ FinishDisconnect(t)
    \/ Dispose(t)
    \/ Reload(t)
    \/ Hears(t)

WalletStep ==
    \/ \E c \in Call : AnswerCheck(c)
    \/ \E c \in ConnectCall, decision \in Session \cup {"rejected"} :
         WalletDecides(c, decision)
    \/ \E t \in Tab : RevokeArrives(t)
    \/ \E session \in Session : WalletRevokes(session)

Next ==
    \/ \E t \in Tab : Continue(t)
    \/ \E t \in Tab : ~Busy(t) /\ TabStep(t)
    \/ WalletStep

Spec == Init /\ [][Next]_vars

\* Timers, answers and deliveries are not put off for ever: every request to
\* the wallet has a timeout (fetchJsonWithTimeout) and the wait for approval a
\* deadline.  A provider that never answers is not timed out.
Fairness ==
    /\ \A t \in Tab :
         /\ WF_vars(Continue(t))
         /\ WF_vars(~Busy(t) /\ (SessionStored(t) \/ SessionRemoved(t)))
         /\ WF_vars(~Busy(t) /\ BridgeHears(t))
         /\ WF_vars(~Busy(t) /\ ClientHears(t))
         /\ WF_vars(~Busy(t) /\ Tick(t))
         /\ WF_vars(~Busy(t) /\ HeartbeatReturns(t))
         /\ WF_vars(~Busy(t) /\ FinishDisconnect(t))
    /\ \A c \in ConnectCall \cup AccountCall :
         WF_vars(call[c].tab # None /\ ~Busy(call[c].tab) /\ CallReturns(c)
                 /\ call[c].step \notin {"provider", "network"})

FairSpec == Spec /\ Fairness

------------------------------------------------------------------------------
(* Properties                                                              *)

\* Overlapping callers share one connect(): no two calls of a tab are open, so
\* the user is not asked twice (docs/RECOVERY_STATUS_AND_CONNECTION_SETTLEMENT
\* .md: "One pending InferClient.connect() operation per client").
OneOpenConnect ==
    \A c, d \in ConnectCall :
      call[c].result = "open" /\ call[d].result = "open" /\ c # d =>
        call[c].tab # call[d].tab

\* No connect is under way while disconnect() cleans up, so that the cleanup
\* cannot remove the session of a connect that followed it ("A pending
\* disconnect rejects a new connect until its cleanup finishes").
NoConnectDuringDisconnect ==
    \A t \in Tab : disconnecting[t].step # "idle" => client[t].operation = None

AccountPending(t) ==
    \E c \in AccountCall : call[c].tab = t /\ call[c].step # "idle"

\* Whatever a connect awaited before disconnect(), dispose() or its end, its
\* late continuation puts no account into the client, neither when it fetched
\* the session itself nor when another tab has stored one since.
LateConnectsPublishNothing ==
    [][\A t \in Tab : client[t].operation = None /\ ~AccountPending(t) =>
         client'[t].account \in {client[t].account, None}]_vars

\* "Reconnect may retain an unreachable session [...]. It must not win a fresh
\* approval wait, even if re-emitted by a peer tab" (waitForExternalSession).
RetainedDoesNotWin ==
    \A c \in ConnectCall : call[c].step = "woken" => call[c].answer # call[c].known

\* connect() settles, whatever the wallet and other tabs do or fail to do.
ConnectSettles ==
    \A c \in ConnectCall : call[c].result = "open" ~> call[c].result # "open"

\* disconnect() settles also when the wallet never answers.
DisconnectFinishes ==
    \A t \in Tab : disconnecting[t].step # "idle" ~> disconnecting[t].step = "idle"

\* While its heartbeat beats, a client does not keep an account whose session
\* the wallet has revoked: unless a check by another call has changed what is
\* stored, which is what the heartbeat asks about.
RevocationIsNoticed ==
    \A t \in Tab, s \in Session :
      client[t].account = s /\ wallet[s] = "revoked" /\ client[t].heartbeat
        ~> client[t].account # s \/ stored # s

------------------------------------------------------------------------------
(* What the documentation says and the code does not do                    *)

\* "On a 403/404 (wallet revoked the session) the new disconnect event fires"
\* (docs/configuration.md, sessionLivenessIntervalMs).
RevocationIsReported ==
    \A t \in HeartbeatTab, s \in Session :
      client[t].account = s /\ wallet[s] = "revoked" ~> client[t].account # s
==============================================================================
