---------------------- MODULE ConnectionLifecycleProofs ----------------------
(* Whatever the wallet answers, other tabs store and clear, and connect,     *)
(* disconnect, dispose and reload interrupt: for any number of tabs,         *)
(* sessions and calls, one connect of a client is open at a time, none while *)
(* it disconnects, and a superseded one publishes no account.                *)
EXTENDS ConnectionLifecycle, TLAPS

\* A call that was not made has no caller; a check knows what it asks about; one
\* that waited has a session, and not the one that was stored when it began.
CallAgrees(x) ==
    /\ x.step = "idle" => x.result = "none"
    /\ x.step = "checking" => x.known # None
    /\ x.step = "woken" => x.answer \in Session /\ x.answer # x.known

\* The pending operation of a client is the one open call of its tab; a call
\* that goes on although it is not is of an earlier revision.
OperationsAgree ==
    /\ \A t \in Tab : client[t].operation # None =>
         /\ call[client[t].operation].tab = t
         /\ call[client[t].operation].result = "open"
    /\ \A c \in ConnectCall : call[c].result = "open" =>
         call[c].tab \in Tab /\ client[call[c].tab].operation = c
    /\ \A c \in ConnectCall : call[c].tab \in Tab =>
         /\ call[c].revision <= client[call[c].tab].revision
         /\ call[c].revision = client[call[c].tab].revision =>
              client[call[c].tab].operation = c

\* What a connect found stored was issued before the session it asks for.
RetainedIsOlder ==
    /\ stored # None => wallet[stored] # "unissued"
    /\ \A c \in Call : call[c].known # None => wallet[call[c].known] # "unissued"
    /\ \A c \in ConnectCall :
         /\ request[c] \in Session =>
              wallet[request[c]] # "unissued" /\ request[c] # call[c].known
         /\ call[c].step = "idle" => request[c] = "none"

Inv ==
    /\ TypeOK
    /\ \A c \in Call : CallAgrees(call[c])
    /\ OperationsAgree
    /\ NoConnectDuringDisconnect
    /\ RetainedIsOlder

------------------------------------------------------------------------------
(* Records                                                                   *)

SameGeneration(k, l) == k.revision = l.revision /\ k.operation = l.operation

LEMMA ClearedIsClient ==
    ASSUME NEW k \in Client
    PROVE  /\ Cleared(k) \in Client
           /\ SameGeneration(Cleared(k), k)
           /\ Cleared(k).account \in {k.account, None}
           /\ Dispatched(k) \in Client
           /\ SameGeneration(Dispatched(k), k)
           /\ Dispatched(k).account \in {k.account, None}
<1> DEFINE a == [k EXCEPT !.disconnectEmitted = TRUE]
           b == [a EXCEPT !.heartbeat = FALSE]
           d == [b EXCEPT !.account = None]
           e == [d EXCEPT !.health = "disconnected"]
<1>1. a \in Client /\ SameGeneration(a, k)
  BY DEF Client, SameGeneration
<1>2. b \in Client /\ SameGeneration(b, a)
  <2> HIDE DEF a
  <2> QED
    BY <1>1 DEF Client, SameGeneration
<1>3. d \in Client /\ SameGeneration(d, b) /\ d.account = None
  <2> HIDE DEF b
  <2> QED
    BY <1>2 DEF Client, SameGeneration
<1>4. e \in Client /\ SameGeneration(e, d) /\ e.account = None
  <2> HIDE DEF d
  <2> QED
    BY <1>3 DEF Client, SameGeneration
<1>5. [k EXCEPT !.disconnectEmitted = TRUE, !.heartbeat = FALSE,
                !.account = None, !.health = "disconnected"] = e
  BY DEF Client
<1> HIDE DEF e
<1>6. e \in Client /\ SameGeneration(e, k) /\ e.account = None
  BY <1>1, <1>2, <1>3, <1>4 DEF SameGeneration
<1>7. Cleared(k) = k \/ Cleared(k) = e
  BY <1>5 DEF Cleared
<1>8. Dispatched(k) = k \/ Dispatched(k) = Cleared(k)
  BY DEF Dispatched
<1> QED
  BY <1>6, <1>7, <1>8 DEF SameGeneration

\* invalidateConnection and what comes after it
LEMMA InvalidatedIsClient ==
    ASSUME NEW k \in Client
    PROVE  LET i == Invalidated(k)
               disconnected == [i EXCEPT !.disconnectEmitted = FALSE]
               disposed == [i EXCEPT !.disposed = TRUE, !.account = None,
                                     !.heartbeat = FALSE]
           IN /\ i.revision = k.revision + 1 /\ i.operation = None
              /\ disconnected \in Client /\ SameGeneration(disconnected, i)
              /\ disconnected.account = k.account
              /\ disposed \in Client /\ SameGeneration(disposed, i)
              /\ disposed.account = None
<1> DEFINE i == Invalidated(k)
           n == k.revision + 1
<1>1. n \in Nat
  BY DEF Client
<1>2. i = [k EXCEPT !.revision = n, !.operation = None]
  BY DEF Invalidated
<1> HIDE DEF n, i
<1>3. i \in Client /\ i.revision = n /\ i.operation = None /\ i.account = k.account
  BY <1>1, <1>2 DEF Client
<1>4. LET d == [i EXCEPT !.disconnectEmitted = FALSE] IN
      d \in Client /\ SameGeneration(d, i) /\ d.account = i.account
  BY <1>3 DEF Client, SameGeneration
<1>5. LET d == [i EXCEPT !.disposed = TRUE, !.account = None, !.heartbeat = FALSE] IN
      d \in Client /\ SameGeneration(d, i) /\ d.account = None
  BY <1>3 DEF Client, SameGeneration
<1> QED
  BY <1>3, <1>4, <1>5 DEF i, n

LEMMA ConnectedIsClient ==
    ASSUME NEW k \in Client, NEW s \in Session
    PROVE  LET l == Connected(k, s)
               m == [l EXCEPT !.disconnectEmitted = FALSE]
           IN /\ l \in Client /\ l.revision = k.revision /\ l.operation = None
              /\ m \in Client /\ SameGeneration(m, l)
<1> DEFINE l == Connected(k, s)
<1>1. l \in Client /\ l.revision = k.revision /\ l.operation = None
  BY DEF Connected, Client, Account
<1> HIDE DEF l
<1>2. LET m == [l EXCEPT !.disconnectEmitted = FALSE] IN
      m \in Client /\ SameGeneration(m, l)
  BY <1>1 DEF Client, SameGeneration
<1> QED
  BY <1>1, <1>2 DEF l

LEMMA NewClientIsClient ==
    ASSUME NEW t \in Tab, NEW s \in Session \cup {None}
    PROVE  /\ NewClient(t, s) \in Client
           /\ NewClient(t, s).revision = 0
           /\ NewClient(t, s).operation = None
           /\ NewClient(t, s).account = None
BY DEF NewClient, Client

LEMMA SettledIsCall ==
    /\ Unused \in CallState /\ CallAgrees(Unused)
    /\ Unused.tab = None /\ Unused.known = None /\ Unused.result = "none"
    /\ \A result \in {"resolved", "rejected"} :
         LET x == Settled(result) IN
         /\ x \in CallState /\ CallAgrees(x) /\ x.step = "done"
         /\ x.tab = None /\ x.known = None /\ x.result = result
BY DEF Unused, Settled, CallState, CallAgrees

\* The same call, waiting for something else.
Kept(x, y) ==
    /\ y.tab = x.tab /\ y.revision = x.revision
    /\ y.known = x.known /\ y.result = x.result
    /\ y.step = "idle" <=> x.step = "idle"

LEMMA WokenIsCall ==
    ASSUME NEW x \in CallState, x.step # "idle", NEW s \in Session, s # x.known
    PROVE  LET y == [x EXCEPT !.step = "woken", !.answer = s] IN
           y \in CallState /\ CallAgrees(y) /\ Kept(x, y)
BY DEF CallState, CallAgrees, Kept

LEMMA WokenCalls ==
    ASSUME call \in [Call -> CallState], \A c \in Call : CallAgrees(call[c]),
           NEW t, NEW s \in Session
    PROVE  /\ Woken(t, s) \in [Call -> CallState]
           /\ \A c \in Call : CallAgrees(Woken(t, s)[c]) /\ Kept(call[c], Woken(t, s)[c])
           /\ \A c \in Call : call[c].step # "waiting" => Woken(t, s)[c] = call[c]
<1>1. ASSUME NEW c \in Call
      PROVE  /\ Woken(t, s)[c] \in CallState
             /\ CallAgrees(Woken(t, s)[c])
             /\ Kept(call[c], Woken(t, s)[c])
  <2>1. CASE call[c].step = "waiting" /\ call[c].tab = t /\ call[c].known # s
    <3>1. Woken(t, s)[c] = [call[c] EXCEPT !.step = "woken", !.answer = s]
      BY <2>1 DEF Woken
    <3>2. call[c] \in CallState /\ call[c].step # "idle"
      BY <2>1
    <3> QED
      BY <2>1, <3>1, <3>2, WokenIsCall
  <2>2. CASE ~(call[c].step = "waiting" /\ call[c].tab = t /\ call[c].known # s)
    <3>1. Woken(t, s)[c] = call[c]
      BY <2>2 DEF Woken
    <3> QED
      BY <3>1 DEF Kept
  <2> QED
    BY <2>1, <2>2
<1> QED
  BY <1>1 DEF Woken

------------------------------------------------------------------------------
(* What a step does to the clients and the connect calls                     *)

ClientsAndCalls ==
    /\ client' \in [Tab -> Client]
    /\ call' \in [Call -> CallState]
    /\ \A c \in Call : CallAgrees(call'[c])
    /\ \A c \in Call : call'[c].known \in {call[c].known, stored, None}

\* No call begins or ends.
Quiet ==
    /\ \A t \in Tab : SameGeneration(client'[t], client[t])
    /\ \A c \in ConnectCall : Kept(call[c], call'[c])

\* One ends.
Ends(c) ==
    /\ call[c].tab \in Tab
    /\ call'[c] \in {Settled("resolved"), Settled("rejected")}
    /\ \A d \in ConnectCall \ {c} : Kept(call[d], call'[d])
    /\ \A t \in Tab :
         /\ client'[t].revision = client[t].revision
         /\ client'[t].operation = IF client[t].operation = c THEN None
                                   ELSE client[t].operation

LEMMA QuietAgrees ==
    ASSUME TypeOK, OperationsAgree, Quiet
    PROVE  OperationsAgree'
<1>1. \A t \in Tab : client[t].operation \in ConnectCall \cup {None}
  BY DEF TypeOK, Client
<1> QED
  BY <1>1 DEF OperationsAgree, Quiet, SameGeneration, Kept

LEMMA EndsAgrees ==
    ASSUME TypeOK, OperationsAgree, NEW c \in ConnectCall, Ends(c)
    PROVE  OperationsAgree'
<1>1. \A t \in Tab : client[t].operation \in ConnectCall \cup {None}
  BY DEF TypeOK, Client
<1>2. call'[c].tab = None /\ call'[c].result \in {"resolved", "rejected"}
  BY SettledIsCall DEF Ends
<1>3. None \notin Tab /\ None \notin ConnectCall
  BY ConnectionAssumption
<1>4. \A t \in Tab : client'[t].operation # None =>
        /\ client'[t].operation = client[t].operation
        /\ client[t].operation \in ConnectCall \ {c}
  BY <1>1 DEF Ends
<1>5. \A d \in ConnectCall \ {c} : Kept(call[d], call'[d])
  BY DEF Ends
<1>6. \A t \in Tab : client'[t].revision = client[t].revision
        /\ (client[t].operation # c => client'[t].operation = client[t].operation)
  BY DEF Ends
<1>7. \A t \in Tab : client'[t].operation # None =>
         /\ call'[client'[t].operation].tab = t
         /\ call'[client'[t].operation].result = "open"
  BY <1>4, <1>5 DEF OperationsAgree, Kept
<1>8. \A d \in ConnectCall : call'[d].result = "open" =>
         call'[d].tab \in Tab /\ client'[call'[d].tab].operation = d
  BY <1>2, <1>5, <1>6 DEF OperationsAgree, Kept
<1>9. \A d \in ConnectCall : call'[d].tab \in Tab =>
         /\ call'[d].revision <= client'[call'[d].tab].revision
         /\ call'[d].revision = client'[call'[d].tab].revision =>
              client'[call'[d].tab].operation = d
  BY <1>2, <1>3, <1>5, <1>6 DEF OperationsAgree, Kept
<1> QED
  BY <1>7, <1>8, <1>9 DEF OperationsAgree

\* Nothing is stored that was not issued, and the request of a call is settled
\* only after it began.
Issued ==
    /\ UNCHANGED wallet
    /\ stored' \in {stored, None} \/ (stored' \in Session /\ wallet[stored'] # "unissued")
    /\ \A c \in ConnectCall :
         request'[c] = request[c] \/ (call[c].step # "idle" /\ request'[c] \notin Session)

LEMMA OlderKeeps ==
    ASSUME Inv, ClientsAndCalls, Issued,
           \A c \in ConnectCall :
             /\ call'[c].known \in {call[c].known, None}
             /\ call'[c].step = "idle" => call[c].step = "idle"
    PROVE  RetainedIsOlder'
<1>1. None \notin Session
  BY ConnectionAssumption
<1>2. \A c \in ConnectCall : c \in Call
  BY DEF Call
<1>3. stored' # None => wallet'[stored'] # "unissued"
  BY DEF Inv, Issued, RetainedIsOlder
<1>4. \A c \in Call : call'[c].known # None => wallet'[call'[c].known] # "unissued"
  BY DEF Inv, Issued, RetainedIsOlder, ClientsAndCalls
<1>5. ASSUME NEW c \in ConnectCall, request'[c] \in Session
      PROVE  wallet'[request'[c]] # "unissued" /\ request'[c] # call'[c].known
  BY <1>1, <1>2, <1>5 DEF Inv, Issued, RetainedIsOlder, ClientsAndCalls
<1>6. ASSUME NEW c \in ConnectCall, call'[c].step = "idle"
      PROVE  request'[c] = "none"
  BY <1>6 DEF Inv, Issued, RetainedIsOlder
<1> QED
  BY <1>3, <1>4, <1>5, <1>6 DEF RetainedIsOlder

LEMMA MovedInv ==
    ASSUME Inv, TypeOK', ClientsAndCalls, Issued,
           Quiet \/ \E c \in ConnectCall : Ends(c),
           \A t \in Tab : disconnecting'[t].step # "idle" => disconnecting[t].step # "idle"
    PROVE  Inv'
<1>1. OperationsAgree'
  BY QuietAgrees, EndsAgrees DEF Inv
<1>2. \A t \in Tab : client'[t].operation \in {client[t].operation, None}
  BY DEF Quiet, Ends, SameGeneration
<1>3. NoConnectDuringDisconnect'
  BY <1>2 DEF Inv, NoConnectDuringDisconnect
<1>4. \A c \in ConnectCall :
        /\ call'[c].known \in {call[c].known, None}
        /\ call'[c].step = "idle" => call[c].step = "idle"
  BY SettledIsCall DEF Quiet, Ends, Kept
<1>5. RetainedIsOlder'
  BY <1>4, OlderKeeps
<1> QED
  BY <1>1, <1>3, <1>5 DEF Inv, ClientsAndCalls

------------------------------------------------------------------------------
(* The common parts of the steps                                             *)

\* calls are the calls after other ones have been woken.
Wakened(calls) ==
    /\ calls \in [Call -> CallState]
    /\ \A c \in Call : CallAgrees(calls[c]) /\ Kept(call[c], calls[c])

LEMMA CallIsWakened == ASSUME Inv PROVE Wakened(call)
BY DEF Inv, TypeOK, Wakened, Kept

LEMMA CheckWakes ==
    ASSUME Inv, NEW c \in Call, call[c].step = "checking", NEW outcome
    PROVE  /\ Wakened(CallsAfter(c, outcome))
           /\ CallsAfter(c, outcome)[c] = call[c]
           /\ call[c].known \in Session
<1>1. call[c].known \in Session
  BY DEF Inv, TypeOK, CallState, CallAgrees
<1> QED
  BY <1>1, CallIsWakened, WokenCalls DEF Inv, TypeOK, CallsAfter, Wakened

LEMMA CurrentIsPending ==
    ASSUME Inv, NEW c \in ConnectCall, call[c].tab \in Tab, Current(c)
    PROVE  client[call[c].tab].operation = c
BY DEF Inv, OperationsAgree, Current

LEMMA SettledEnds ==
    ASSUME Inv, NEW c \in ConnectCall, call[c].tab \in Tab,
           NEW calls, Wakened(calls),
           NEW result \in {"resolved", "rejected"},
           call' = [calls EXCEPT ![c] = Settled(result)],
           NEW k \in Client,
           client' = [client EXCEPT ![call[c].tab] = k],
           k.revision = client[call[c].tab].revision,
           k.operation = IF client[call[c].tab].operation = c THEN None
                         ELSE client[call[c].tab].operation
    PROVE  ClientsAndCalls /\ Ends(c)
<1>1. c \in Call /\ \A d \in ConnectCall : d \in Call
  BY DEF Call
<1>2. call'[c] = Settled(result) /\ \A d \in Call \ {c} : call'[d] = calls[d]
  BY <1>1 DEF Wakened
<1>3. call' \in [Call -> CallState] /\ \A d \in Call : CallAgrees(call'[d])
  BY <1>1, <1>2, SettledIsCall DEF Wakened
<1>4. \A d \in Call : call'[d].known \in {call[d].known, None}
  BY <1>2, SettledIsCall DEF Wakened, Kept
<1>5. client' \in [Tab -> Client]
  BY DEF Inv, TypeOK
<1>6. \A t \in Tab : client[t].operation = c => t = call[c].tab
  BY ConnectionAssumption DEF Inv, OperationsAgree
<1>7. ASSUME NEW t \in Tab
      PROVE  /\ client'[t].revision = client[t].revision
             /\ client'[t].operation = IF client[t].operation = c THEN None
                                       ELSE client[t].operation
  <2>1. CASE t = call[c].tab
    BY <2>1 DEF Inv, TypeOK
  <2>2. CASE t # call[c].tab
    BY <1>6, <2>2 DEF Inv, TypeOK
  <2> QED
    BY <2>1, <2>2
<1>8. \A d \in ConnectCall \ {c} : Kept(call[d], call'[d])
  BY <1>1, <1>2 DEF Wakened
<1>9. call'[c] \in {Settled("resolved"), Settled("rejected")}
  BY <1>2
<1> QED
  BY <1>3, <1>4, <1>5, <1>7, <1>8, <1>9 DEF ClientsAndCalls, Ends

LEMMA RejectEnds ==
    ASSUME Inv, NEW c \in ConnectCall, call[c].tab \in Tab,
           NEW calls, Wakened(calls), Reject(c, calls)
    PROVE  ClientsAndCalls /\ Ends(c)
<1> DEFINE t == call[c].tab
           o == IF client[t].operation = c THEN None ELSE client[t].operation
           k == [client[t] EXCEPT !.operation = o]
<1>1. client[t] \in Client
  BY DEF Inv, TypeOK
<1>2. o \in ConnectCall \cup {None}
  BY <1>1 DEF Client
<1>3. client' = [client EXCEPT ![t] = k] /\ call' = [calls EXCEPT ![c] = Settled("rejected")]
  BY DEF Reject
<1>4. k \in Client /\ k.revision = client[t].revision /\ k.operation = o
  <2> HIDE DEF o
  <2> QED
    BY <1>1, <1>2 DEF Client
<1> QED
  <2> HIDE DEF k
  <2> QED
    BY <1>3, <1>4, SettledEnds

\* Call c goes on to x, or is not a connect.
LEMMA MovesQuietly ==
    ASSUME Inv, NEW c \in Call, NEW calls, Wakened(calls),
           NEW x \in CallState, CallAgrees(x),
           call' = [calls EXCEPT ![c] = x],
           c \in ConnectCall => Kept(call[c], x),
           x.known \in {call[c].known, stored, None},
           client' \in [Tab -> Client],
           \A t \in Tab : SameGeneration(client'[t], client[t])
    PROVE  ClientsAndCalls /\ Quiet
<1>1. call'[c] = x /\ \A d \in Call \ {c} : call'[d] = calls[d]
  BY DEF Wakened
<1>2. call' \in [Call -> CallState] /\ \A d \in Call : CallAgrees(call'[d])
  BY <1>1 DEF Wakened
<1>3. \A d \in Call : call'[d].known \in {call[d].known, stored, None}
  BY <1>1 DEF Wakened, Kept
<1>4. \A d \in ConnectCall : Kept(call[d], call'[d])
  BY <1>1 DEF Wakened, Call
<1> QED
  BY <1>2, <1>3, <1>4 DEF ClientsAndCalls, Quiet

\* No call does anything, or some are woken.
LEMMA OnlyWakes ==
    ASSUME Inv, Wakened(call'), client' \in [Tab -> Client],
           \A t \in Tab : SameGeneration(client'[t], client[t])
    PROVE  ClientsAndCalls /\ Quiet
BY DEF Wakened, Kept, ClientsAndCalls, Quiet, Call

\* The client of one tab becomes k.
LEMMA OneClient ==
    ASSUME Inv, NEW t \in Tab, NEW k \in Client, SameGeneration(k, client[t]),
           client' = [client EXCEPT ![t] = k]
    PROVE  /\ client' \in [Tab -> Client]
           /\ \A u \in Tab : SameGeneration(client'[u], client[u])
BY DEF Inv, TypeOK, SameGeneration

LEMMA NoClient ==
    ASSUME Inv, UNCHANGED client
    PROVE  /\ client' \in [Tab -> Client]
           /\ \A u \in Tab : SameGeneration(client'[u], client[u])
BY DEF Inv, TypeOK, SameGeneration

LEMMA WriteKeepsTypes ==
    ASSUME TypeOK, NEW t, NEW s \in Session \cup {None}, Write(t, s)
    PROVE  /\ stored' = s
           /\ events' \in [Tab -> Seq(Session \cup {None})]
<1>1. \A u \in Tab : Append(events[u], s) \in Seq(Session \cup {None})
  BY DEF TypeOK
<1> QED
  BY <1>1 DEF TypeOK, Write, Announce

LEMMA PostKeepsTypes ==
    ASSUME TypeOK, NEW t, NEW n \in 0..MaxCopies, Post(t, n)
    PROVE  /\ bridgeMail' \in [Tab -> 0..MaxCopies]
           /\ clientMail' \in [Tab -> 0..MaxCopies]
<1>1. \A m \in 0..MaxCopies : OneMore(m) \in 0..MaxCopies
  BY ConnectionAssumption DEF OneMore
<1> QED
  BY <1>1 DEF TypeOK, Post

------------------------------------------------------------------------------
(* The steps of connect                                                      *)

LEMMA LocalInv ==
    ASSUME Inv, ClientsAndCalls, Quiet \/ \E c \in ConnectCall : Ends(c),
           UNCHANGED <<stored, wallet, request, disconnecting, events, channels, spent>>
    PROVE  Inv'
<1>1. TypeOK'
  BY DEF Inv, TypeOK, ClientsAndCalls, channels
<1>2. Issued
  BY DEF Issued
<1> QED
  BY <1>1, <1>2, MovedInv

LEMMA ProviderConnectsInv ==
    ASSUME Inv, NEW c \in ConnectCall, call[c].tab \in Tab,
           NEW succeeds \in BOOLEAN, ProviderConnects(c, succeeds)
    PROVE  Inv'
<1> DEFINE t == call[c].tab
<1>0. c \in Call /\ call[c] \in CallState /\ client[t] \in Client
  BY DEF Inv, TypeOK, Call
<1>1. CASE Reject(c, call)
  BY <1>1, CallIsWakened, RejectEnds, LocalInv DEF ProviderConnects
<1>2. CASE call[c].step = "provider" /\ call' = [call EXCEPT ![c].step = "network"]
           /\ UNCHANGED client
  <2> DEFINE x == [call[c] EXCEPT !.step = "network"]
  <2>1. x \in CallState /\ CallAgrees(x) /\ Kept(call[c], x)
    BY <1>0, <1>2 DEF CallState, CallAgrees, Kept
  <2>2. call' = [call EXCEPT ![c] = x]
    BY <1>2
  <2>3. x.known = call[c].known
    BY <2>1 DEF Kept
  <2> HIDE DEF x
  <2>4. ClientsAndCalls /\ Quiet
    BY <1>0, <1>2, <2>1, <2>2, <2>3, CallIsWakened, NoClient, MovesQuietly
  <2> QED
    BY <2>4, LocalInv DEF ProviderConnects
<1>3. CASE /\ Current(c)
           /\ call' = [call EXCEPT ![c] = Settled("resolved")]
           /\ client' = [client EXCEPT ![t].account = ProviderAccount, ![t].operation = None]
  <2> DEFINE k == [client[t] EXCEPT !.account = ProviderAccount, !.operation = None]
  <2>1. k \in Client /\ k.revision = client[t].revision /\ k.operation = None
    BY <1>0 DEF Client, Account
  <2>2. client' = [client EXCEPT ![t] = k]
    BY <1>3
  <2>3. client[t].operation = c
    BY <1>3, CurrentIsPending
  <2> HIDE DEF k
  <2>4. ClientsAndCalls /\ Ends(c)
    BY <1>3, <2>1, <2>2, <2>3, CallIsWakened, SettledEnds
  <2> QED
    BY <2>4, LocalInv DEF ProviderConnects
<1> QED
  BY <1>1, <1>2, <1>3 DEF ProviderConnects

\* A connect that has the session it is to return.
LEMMA ConnectedEnds ==
    ASSUME Inv, NEW c \in ConnectCall, call[c].tab \in Tab, Current(c),
           NEW calls, Wakened(calls), NEW s \in Session, NEW k,
           k \in {Connected(client[call[c].tab], s),
                  [Connected(client[call[c].tab], s) EXCEPT !.disconnectEmitted = FALSE]},
           call' = [calls EXCEPT ![c] = Settled("resolved")],
           client' = [client EXCEPT ![call[c].tab] = k]
    PROVE  ClientsAndCalls /\ Ends(c)
<1>1. client[call[c].tab] \in Client
  BY DEF Inv, TypeOK
<1>2. k \in Client /\ k.revision = client[call[c].tab].revision /\ k.operation = None
  <2> DEFINE l == Connected(client[call[c].tab], s)
             m == [l EXCEPT !.disconnectEmitted = FALSE]
  <2>1. /\ l \in Client /\ l.revision = client[call[c].tab].revision /\ l.operation = None
        /\ m \in Client /\ SameGeneration(m, l)
    BY <1>1, ConnectedIsClient
  <2>2. k = l \/ k = m
    OBVIOUS
  <2> HIDE DEF l, m
  <2> QED
    BY <2>1, <2>2 DEF SameGeneration
<1>3. client[call[c].tab].operation = c
  BY CurrentIsPending
<1> QED
  BY <1>2, <1>3, SettledEnds

\* What the answer to a check may do to what is stored.
LEMMA ReceivesKeeps ==
    ASSUME Inv, NEW c \in Call, NEW outcome \in Outcome, Receives(c, outcome)
    PROVE  /\ stored' \in Session \cup {None}
           /\ stored' \in {stored, None} \/ (stored' \in Session /\ wallet[stored'] # "unissued")
           /\ events' \in [Tab -> Seq(Session \cup {None})]
<1>0. call[c].known \in Session
  BY CheckWakes DEF Receives
<1>1. CASE outcome = "live"
  <2>1. Write(call[c].tab, call[c].known)
    BY <1>1 DEF Receives
  <2>2. wallet[call[c].known] # "unissued"
    BY <1>0, ConnectionAssumption DEF Inv, RetainedIsOlder
  <2> QED
    BY <1>0, <2>1, <2>2, WriteKeepsTypes DEF Inv
<1>2. CASE outcome = "gone"
  <2>1. Write(call[c].tab, None)
    BY <1>2 DEF Receives
  <2> QED
    BY <2>1, WriteKeepsTypes DEF Inv
<1>3. CASE outcome = "unreachable"
  BY <1>3 DEF Receives, Inv, TypeOK
<1> QED
  BY <1>1, <1>2, <1>3 DEF Outcome

LEMMA ReceivedInv ==
    ASSUME Inv, ClientsAndCalls, Quiet \/ \E c \in ConnectCall : Ends(c),
           NEW c \in Call, NEW outcome \in Outcome, Receives(c, outcome),
           UNCHANGED <<wallet, request, disconnecting, channels, spent>>
    PROVE  Inv'
<1>1. TypeOK'
  BY ReceivesKeeps DEF Inv, TypeOK, ClientsAndCalls, channels
<1>2. Issued
  BY ReceivesKeeps DEF Issued
<1> QED
  BY <1>1, <1>2, MovedInv

LEMMA ConnectCheckedInv ==
    ASSUME Inv, NEW c \in ConnectCall, call[c].tab \in Tab,
           NEW outcome \in Outcome, ConnectChecked(c, outcome)
    PROVE  Inv'
<1> DEFINE t == call[c].tab
           calls == CallsAfter(c, outcome)
<1>0. c \in Call /\ call[c] \in CallState
  BY DEF Inv, TypeOK, Call
<1>1. Receives(c, outcome) /\ call[c].step = "checking"
  BY DEF ConnectChecked, Receives
<1>2. Wakened(calls) /\ calls[c] = call[c] /\ call[c].known \in Session
  BY <1>0, <1>1, CheckWakes
<1>3. ASSUME Reject(c, calls) PROVE ClientsAndCalls /\ Ends(c)
  BY <1>2, <1>3, RejectEnds
<1>4. ASSUME /\ Current(c)
             /\ call' = [calls EXCEPT ![c] = Settled("resolved")]
             /\ client' = [client EXCEPT ![t] =
                  [Connected(@, call[c].known) EXCEPT !.disconnectEmitted = FALSE]]
      PROVE  ClientsAndCalls /\ Ends(c)
  <2> DEFINE k == [Connected(client[t], call[c].known) EXCEPT !.disconnectEmitted = FALSE]
  <2>1. client' = [client EXCEPT ![t] = k]
    BY <1>4
  <2> HIDE DEF calls
  <2> QED
    BY <1>2, <1>4, <2>1, ConnectedEnds
<1>5. ASSUME call' = [calls EXCEPT ![c].step = "starting", ![c].answer = None],
             UNCHANGED client
      PROVE  ClientsAndCalls /\ Quiet
  <2> DEFINE x == [calls[c] EXCEPT !.step = "starting", !.answer = None]
  <2>1. x \in CallState /\ CallAgrees(x) /\ Kept(call[c], x)
    BY <1>0, <1>1, <1>2 DEF CallState, CallAgrees, Kept
  <2>2. call' = [calls EXCEPT ![c] = x]
    <3> HIDE DEF calls
    <3>1. c \in DOMAIN calls
      BY <1>0, <1>2 DEF Wakened
    <3> QED
      BY <1>5, <3>1
  <2>3. x.known = call[c].known
    BY <2>1 DEF Kept
  <2> HIDE DEF x, calls
  <2> QED
    BY <1>0, <1>2, <1>5, <2>1, <2>2, <2>3, NoClient, MovesQuietly
<1>6. ClientsAndCalls /\ (Quiet \/ Ends(c))
  BY <1>3, <1>4, <1>5 DEF ConnectChecked
<1> QED
  BY <1>0, <1>1, <1>6, ReceivedInv DEF ConnectChecked

\* The wait for an approval, and its end.
LEMMA PreauthInv ==
    ASSUME Inv, NEW c \in ConnectCall, call[c].tab \in Tab,
           PreauthStarts(c) \/ PreauthFails(c) \/ PollRejected(c)
    PROVE  Inv'
<1> DEFINE t == call[c].tab
           waiting == [call[c] EXCEPT !.step = "waiting"]
           woken == [call[c] EXCEPT !.step = "woken", !.answer = stored]
<1>0. c \in Call /\ call[c] \in CallState /\ call[c].step # "idle"
  BY DEF Inv, TypeOK, Call, PreauthStarts, PreauthFails, PollRejected
<1>1. ASSUME Reject(c, call)
      PROVE  ClientsAndCalls /\ (Quiet \/ Ends(c))
  BY <1>1, CallIsWakened, RejectEnds
<1>2. waiting \in CallState /\ CallAgrees(waiting) /\ Kept(call[c], waiting)
  BY <1>0 DEF CallState, CallAgrees, Kept
<1>3. ASSUME stored \notin {None, call[c].known}
      PROVE  woken \in CallState /\ CallAgrees(woken) /\ Kept(call[c], woken)
  <2>1. stored \in Session
    BY <1>3 DEF Inv, TypeOK
  <2> QED
    BY <1>0, <1>3, <2>1, WokenIsCall
<1>4. ASSUME UNCHANGED client,
             call' = [call EXCEPT ![c] =
               IF stored \in {None, @.known} THEN [@ EXCEPT !.step = "waiting"]
               ELSE [@ EXCEPT !.step = "woken", !.answer = stored]]
      PROVE  ClientsAndCalls /\ (Quiet \/ Ends(c))
  <2> DEFINE x == IF stored \in {None, call[c].known} THEN waiting ELSE woken
  <2>1. call' = [call EXCEPT ![c] = x]
    BY <1>4
  <2>2. x \in CallState /\ CallAgrees(x) /\ Kept(call[c], x)
    <3> HIDE DEF waiting, woken
    <3> QED
      BY <1>2, <1>3
  <2>3. x.known = call[c].known
    BY <2>2 DEF Kept
  <2> HIDE DEF x
  <2> QED
    BY <1>0, <1>4, <2>1, <2>2, <2>3, CallIsWakened, NoClient, MovesQuietly
<1>5. ClientsAndCalls /\ (Quiet \/ Ends(c))
  BY <1>1, <1>4 DEF PreauthStarts, PreauthFails, PollRejected
<1>6. /\ UNCHANGED <<stored, wallet, disconnecting, events, channels, spent>>
      /\ request' = request \/ request' = [request EXCEPT ![c] = "pending"]
  BY DEF PreauthStarts, PreauthFails, PollRejected
<1>7. TypeOK'
  BY <1>5, <1>6 DEF Inv, TypeOK, ClientsAndCalls, channels
<1>8. Issued
  BY <1>0, <1>6, ConnectionAssumption DEF Issued, Inv, TypeOK
<1> QED
  BY <1>5, <1>6, <1>7, <1>8, MovedInv

LEMMA PollApprovedInv ==
    ASSUME Inv, NEW c \in ConnectCall, call[c].tab \in Tab, PollApproved(c)
    PROVE  Inv'
<1> DEFINE t == call[c].tab
           session == request[c]
           x == [Woken(t, session)[c] EXCEPT !.step = "woken", !.answer = session]
<1>0. /\ c \in Call /\ call[c] \in CallState /\ call[c].step = "waiting" /\ session \in Session
      /\ wallet[session] # "unissued" /\ session # call[c].known
  BY DEF Inv, TypeOK, Call, PollApproved, RetainedIsOlder
<1>1. Wakened(Woken(t, session))
  BY <1>0, WokenCalls DEF Inv, TypeOK, Wakened
<1>2. x \in CallState /\ CallAgrees(x) /\ Kept(call[c], x)
  <2> DEFINE w == Woken(t, session)[c]
  <2>1. w \in CallState /\ Kept(call[c], w) /\ w.known = call[c].known /\ w.step # "idle"
    BY <1>0, <1>1 DEF Wakened, Kept
  <2> HIDE DEF w
  <2>2. LET y == [w EXCEPT !.step = "woken", !.answer = session] IN
        y \in CallState /\ CallAgrees(y) /\ Kept(w, y)
    BY <1>0, <2>1, WokenIsCall
  <2> QED
    BY <2>1, <2>2 DEF Kept, w
<1>3. call' = [Woken(t, session) EXCEPT ![c] = x]
  <2>1. call' = [Woken(t, session) EXCEPT ![c].step = "woken", ![c].answer = session]
    BY DEF PollApproved
  <2> DEFINE calls == Woken(t, session)
  <2>2. c \in DOMAIN calls
    BY <1>0, <1>1 DEF Wakened
  <2> HIDE DEF calls
  <2> QED
    BY <2>1, <2>2 DEF calls
<1>4. x.known = call[c].known
  BY <1>2 DEF Kept
<1>5. ClientsAndCalls /\ Quiet
  <2>1. UNCHANGED client
    BY DEF PollApproved
  <2> HIDE DEF x
  <2> QED
    BY <1>0, <1>1, <1>2, <1>3, <1>4, <2>1, NoClient, MovesQuietly
<1>6. /\ stored' = session /\ events' \in [Tab -> Seq(Session \cup {None})]
      /\ request' = [request EXCEPT ![c] = "none"]
      /\ UNCHANGED <<wallet, disconnecting, channels, spent>>
  BY <1>0, WriteKeepsTypes DEF Inv, PollApproved
<1>7. TypeOK'
  BY <1>0, <1>5, <1>6 DEF Inv, TypeOK, ClientsAndCalls, channels
<1>8. Issued
  BY <1>0, <1>6, ConnectionAssumption DEF Issued, Inv, TypeOK
<1> QED
  BY <1>5, <1>6, <1>7, <1>8, MovedInv

LEMMA WaiterReadsInv ==
    ASSUME Inv, NEW c \in ConnectCall, WaiterReads(c)
    PROVE  Inv'
<1> DEFINE x == [call[c] EXCEPT !.step = "woken", !.answer = stored]
<1>1. /\ c \in Call /\ call[c] \in CallState /\ call[c].step = "waiting"
      /\ stored \in Session /\ stored # call[c].known
      /\ UNCHANGED client
  BY DEF Inv, TypeOK, Call, WaiterReads
<1>2. x \in CallState /\ CallAgrees(x) /\ Kept(call[c], x)
  BY <1>1, WokenIsCall
<1>3. call' = [call EXCEPT ![c] = x]
  BY DEF WaiterReads
<1>4. x.known = call[c].known
  BY <1>2 DEF Kept
<1>5. ClientsAndCalls /\ Quiet
  <2> HIDE DEF x
  <2> QED
    BY <1>1, <1>2, <1>3, <1>4, CallIsWakened, NoClient, MovesQuietly
<1> QED
  BY <1>5, LocalInv DEF WaiterReads

LEMMA ResumeInv ==
    ASSUME Inv, NEW c \in ConnectCall, call[c].tab \in Tab, Resume(c)
    PROVE  Inv'
<1> DEFINE t == call[c].tab
           k == Connected(client[t], call[c].answer)
<1>1. call[c].answer \in Session
  BY DEF Inv, CallAgrees, Call, Resume
<1>2. ASSUME Reject(c, call) PROVE ClientsAndCalls /\ Ends(c)
  BY <1>2, CallIsWakened, RejectEnds
<1>3. ASSUME Current(c), call' = [call EXCEPT ![c] = Settled("resolved")],
             client' = [client EXCEPT ![t] = Connected(@, call[c].answer)]
      PROVE  ClientsAndCalls /\ Ends(c)
  <2>1. client' = [client EXCEPT ![t] = k]
    BY <1>3
  <2> QED
    BY <1>1, <1>3, <2>1, CallIsWakened, ConnectedEnds
<1>4. ClientsAndCalls /\ Ends(c)
  BY <1>2, <1>3 DEF Resume
<1> QED
  BY <1>4, LocalInv DEF Resume

LEMMA BeginsInv ==
    ASSUME Inv, NEW t \in Tab, NEW c \in ConnectCall, Connect(t, c)
    PROVE  Inv'
<1> DEFINE n == client[t].revision + 1
           k == [client[t] EXCEPT !.revision = n, !.disconnectEmitted = FALSE,
                                  !.operation = c]
           x == [ step |-> IF t \in ProviderTab THEN "provider"
                           ELSE IF stored # None THEN "checking" ELSE "starting",
                  tab |-> t, revision |-> n,
                  known |-> IF t \in ProviderTab THEN None ELSE stored,
                  answer |-> None, result |-> "open" ]
<1>0. /\ c \in Call /\ client[t] \in Client /\ n \in Nat /\ client[t].operation = None
      /\ call[c].step = "idle" /\ request[c] = "none"
  BY DEF Inv, TypeOK, Call, Client, Connect, Begins, RetainedIsOlder
<1>1. k \in Client /\ k.revision = n /\ k.operation = c
  <2> HIDE DEF n
  <2> QED
    BY <1>0 DEF Client
<1>2. client' = [client EXCEPT ![t] = k]
  BY DEF Connect, Begins
<1>3. client'[t] = k /\ client' \in [Tab -> Client]
      /\ \A u \in Tab \ {t} : client'[u] = client[u]
  <2> HIDE DEF k
  <2> QED
    BY <1>1, <1>2 DEF Inv, TypeOK
<1>4. call' = [call EXCEPT ![c] = x]
  BY <1>1, <1>3 DEF Connect, Begins
<1>5. x.step # "idle" /\ x.tab = t /\ x.revision = n /\ x.result = "open"
      /\ x.known \in {None, stored}
  OBVIOUS
<1>6. x \in CallState /\ CallAgrees(x)
  <2>1. stored \in Session \cup {None}
    BY DEF Inv, TypeOK
  <2> HIDE DEF n
  <2> QED
    BY <1>0, <2>1 DEF CallState, CallAgrees
<1> HIDE DEF k, x
<1>7. call'[c] = x /\ \A d \in Call \ {c} : call'[d] = call[d]
  BY <1>0, <1>4 DEF Inv, TypeOK
<1>8. ClientsAndCalls
  BY <1>0, <1>3, <1>4, <1>5, <1>6, <1>7 DEF Inv, TypeOK, ClientsAndCalls
<1>9. UNCHANGED <<stored, wallet, request, disconnecting, events, channels, spent>>
  BY DEF Connect, Begins
<1>10. TypeOK'
  BY <1>8, <1>9 DEF Inv, TypeOK, ClientsAndCalls, channels
<1>11. OperationsAgree'
  <2>1. \A d \in ConnectCall : d \in Call
    BY DEF Call
  <2>2. \A d \in ConnectCall \ {c} : call'[d] = call[d]
    BY <1>7, <2>1
  <2>3. \A u \in Tab : client[u].operation \in ConnectCall \cup {None}
                       /\ client[u].revision \in Nat
    BY DEF Inv, TypeOK, Client
  <2>4. \A d \in ConnectCall : call[d].revision \in Nat
    BY <2>1 DEF Inv, TypeOK, CallState
  <2>5. \A u \in Tab : client[u].operation # c
    <3>1. \A u \in Tab : client[u].operation = c => call[c].result = "open" /\ u = call[c].tab
      BY ConnectionAssumption DEF Inv, OperationsAgree
    <3>2. ASSUME call[c].result = "open"
          PROVE  FALSE
      BY <1>0, <3>2 DEF Inv, CallAgrees
    <3> QED
      BY <3>1, <3>2
  <2>6. \A u \in Tab : client'[u].operation # None =>
          /\ call'[client'[u].operation].tab = u
          /\ call'[client'[u].operation].result = "open"
    BY <1>1, <1>3, <1>5, <1>7, <2>2, <2>3, <2>5 DEF Inv, OperationsAgree
  <2>7. \A d \in ConnectCall : call'[d].result = "open" =>
          call'[d].tab \in Tab /\ client'[call'[d].tab].operation = d
    BY <1>0, <1>1, <1>3, <1>5, <1>7, <2>2, ConnectionAssumption DEF Inv, OperationsAgree
  <2>8. ASSUME NEW d \in ConnectCall \ {c}, call[d].tab = t
        PROVE  call[d].revision < n
    BY <1>0, <2>3, <2>4, <2>8, ConnectionAssumption DEF Inv, OperationsAgree
  <2>9. ASSUME NEW d \in ConnectCall, call'[d].tab \in Tab
        PROVE  /\ call'[d].revision <= client'[call'[d].tab].revision
               /\ call'[d].revision = client'[call'[d].tab].revision =>
                    client'[call'[d].tab].operation = d
    <3>1. CASE d = c
      BY <1>0, <1>1, <1>3, <1>5, <1>7, <3>1
    <3>2. CASE d # c /\ call[d].tab = t
      BY <1>0, <1>1, <1>3, <2>2, <2>4, <2>8, <3>2
    <3>3. CASE d # c /\ call[d].tab # t
      BY <1>3, <2>2, <2>9, <3>3 DEF Inv, OperationsAgree
    <3> QED
      BY <3>1, <3>2, <3>3
  <2> QED
    BY <2>6, <2>7, <2>9 DEF OperationsAgree
<1>12. NoConnectDuringDisconnect'
  BY <1>3, <1>9 DEF Connect, Inv, NoConnectDuringDisconnect
<1>13. RetainedIsOlder'
  BY <1>0, <1>5, <1>7, <1>8, <1>9, ConnectionAssumption
  DEF Inv, RetainedIsOlder, ClientsAndCalls, Call
<1> QED
  BY <1>8, <1>10, <1>11, <1>12, <1>13 DEF Inv, ClientsAndCalls

------------------------------------------------------------------------------
(* getAccount and the heartbeat                                              *)

\* A call that is no connect starts, goes on, or is over.
LEMMA OtherCallMoves ==
    ASSUME Inv, NEW c \in AccountCall \cup Tab, NEW calls, Wakened(calls),
           NEW x \in CallState, CallAgrees(x),
           call' = [calls EXCEPT ![c] = x],
           x.known \in {call[c].known, stored, None},
           client' \in [Tab -> Client],
           \A t \in Tab : SameGeneration(client'[t], client[t])
    PROVE  ClientsAndCalls /\ Quiet
<1>1. c \in Call /\ c \notin ConnectCall
  BY ConnectionAssumption DEF Call
<1> QED
  BY <1>1, MovesQuietly

LEMMA AnswerCheckInv ==
    ASSUME Inv, NEW c \in Call, AnswerCheck(c)
    PROVE  Inv'
<1> DEFINE answer == IF wallet[call[c].known] = "live" THEN "live" ELSE "gone"
           x == [call[c] EXCEPT !.answer = answer]
<1>1. call[c] \in CallState /\ call[c].step = "checking" /\ CallAgrees(call[c])
  BY DEF Inv, TypeOK, AnswerCheck
<1>2. x \in CallState /\ CallAgrees(x) /\ Kept(call[c], x)
  BY <1>1 DEF CallState, CallAgrees, Kept
<1>3. call' = [call EXCEPT ![c] = x] /\ UNCHANGED client
  BY DEF AnswerCheck
<1>4. x.known = call[c].known
  BY <1>2 DEF Kept
<1>5. ClientsAndCalls /\ Quiet
  <2> HIDE DEF x
  <2> QED
    BY <1>2, <1>3, <1>4, CallIsWakened, NoClient, MovesQuietly
<1> QED
  BY <1>5, LocalInv DEF AnswerCheck

LEMMA NewCheck ==
    ASSUME NEW t \in Tab, NEW s \in Session,
           NEW x, x = [Unused EXCEPT !.step = "checking", !.tab = t, !.known = s]
    PROVE  x \in CallState /\ CallAgrees(x) /\ x.known = s
<1>1. x \in CallState
  BY DEF Unused, CallState
<1>2. x.step = "checking" /\ x.known = s
  BY DEF Unused
<1> QED
  BY <1>1, <1>2, ConnectionAssumption DEF CallAgrees

LEMMA NewAccountCall ==
    ASSUME NEW t \in Tab, NEW step \in {"checking", "provider"},
           NEW s \in Session \cup {None}, step = "checking" => s # None
    PROVE  LET x == [Unused EXCEPT !.step = step, !.tab = t, !.known = s,
                                   !.result = "open"]
           IN x \in CallState /\ CallAgrees(x) /\ x.known = s
<1> DEFINE x == [Unused EXCEPT !.step = step, !.tab = t, !.known = s, !.result = "open"]
<1>1. x \in CallState
  BY DEF Unused, CallState
<1>2. x.step = step /\ x.known = s
  BY DEF Unused
<1> HIDE DEF x
<1>3. CallAgrees(x)
  BY <1>2 DEF CallAgrees
<1> QED
  BY <1>1, <1>2, <1>3 DEF x

LEMMA GetAccountInv ==
    ASSUME Inv, NEW t \in Tab, NEW c \in AccountCall, GetAccount(t, c)
    PROVE  Inv'
<1> DEFINE step == IF t \in ProviderTab THEN "provider" ELSE "checking"
           known == IF t \in ProviderTab THEN None ELSE stored
           x == [Unused EXCEPT !.step = step, !.tab = t, !.known = known,
                               !.result = "open"]
<1>1. /\ step \in {"checking", "provider"} /\ known \in Session \cup {None}
      /\ step = "checking" => known # None
      /\ known \in {stored, None}
  BY DEF GetAccount, Inv, TypeOK
<1>2. call' = [call EXCEPT ![c] = x] /\ UNCHANGED client
  BY DEF GetAccount
<1> HIDE DEF step, known
<1>3. x \in CallState /\ CallAgrees(x) /\ x.known = known
  BY <1>1, NewAccountCall
<1> HIDE DEF x
<1>4. ClientsAndCalls /\ Quiet
  BY <1>1, <1>2, <1>3, CallIsWakened, NoClient, OtherCallMoves
<1> QED
  BY <1>4, LocalInv DEF GetAccount

\* An account may be published by getAccount.
LEMMA AccountIsClient ==
    ASSUME Inv, NEW t \in Tab, NEW a \in Account \cup {None},
           client' = [client EXCEPT ![t].account = a]
    PROVE  /\ client' \in [Tab -> Client]
           /\ \A u \in Tab : SameGeneration(client'[u], client[u])
<1> DEFINE k == [client[t] EXCEPT !.account = a]
<1>1. client[t] \in Client
  BY DEF Inv, TypeOK
<1>2. k \in Client /\ SameGeneration(k, client[t])
  BY <1>1 DEF Client, SameGeneration
<1>3. client' = [client EXCEPT ![t] = k]
  OBVIOUS
<1> HIDE DEF k
<1> QED
  BY <1>2, <1>3, OneClient

LEMMA AccountCheckedInv ==
    ASSUME Inv, NEW c \in AccountCall, call[c].tab \in Tab,
           NEW outcome \in Outcome, AccountChecked(c, outcome)
    PROVE  Inv'
<1> DEFINE t == call[c].tab
           a == IF outcome = "live" THEN call[c].known ELSE client[t].account
           result == IF outcome = "live" THEN "resolved" ELSE "rejected"
           x == Settled(result)
           calls == CallsAfter(c, outcome)
<1>1. c \in Call /\ Receives(c, outcome) /\ call[c].step = "checking"
      /\ client[t] \in Client
  BY DEF AccountChecked, Receives, Call, Inv, TypeOK
<1>2. Wakened(calls) /\ call[c].known \in Session
  BY <1>1, CheckWakes
<1>3. a \in Account \cup {None}
  BY <1>1, <1>2 DEF Client, Account
<1>4. client' = [client EXCEPT ![t].account = a]
  BY DEF AccountChecked
<1>5. x \in CallState /\ CallAgrees(x) /\ x.known = None
  BY SettledIsCall
<1>6. call' = [calls EXCEPT ![c] = x]
  BY DEF AccountChecked
<1>7. ClientsAndCalls /\ Quiet
  <2> HIDE DEF a, x, calls
  <2>1. client' \in [Tab -> Client] /\ \A u \in Tab : SameGeneration(client'[u], client[u])
    BY <1>3, <1>4, AccountIsClient
  <2> QED
    BY <1>2, <1>5, <1>6, <2>1, OtherCallMoves
<1> QED
  BY <1>1, <1>7, ReceivedInv DEF AccountChecked

LEMMA ProviderAccountsInv ==
    ASSUME Inv, NEW c \in AccountCall, call[c].tab \in Tab,
           NEW succeeds \in BOOLEAN, ProviderAccounts(c, succeeds)
    PROVE  Inv'
<1> DEFINE t == call[c].tab
           a == IF succeeds THEN ProviderAccount ELSE client[t].account
           x == Settled(IF succeeds THEN "resolved" ELSE "rejected")
<1>1. client[t] \in Client
  BY DEF Inv, TypeOK
<1>2. a \in Account \cup {None}
  BY <1>1 DEF Client, Account
<1>3. client' = [client EXCEPT ![t].account = a]
  BY DEF ProviderAccounts
<1>4. x \in CallState /\ CallAgrees(x) /\ x.known = None
  BY SettledIsCall
<1>5. call' = [call EXCEPT ![c] = x]
  BY DEF ProviderAccounts
<1>6. ClientsAndCalls /\ Quiet
  <2> HIDE DEF a, x
  <2>1. client' \in [Tab -> Client] /\ \A u \in Tab : SameGeneration(client'[u], client[u])
    BY <1>2, <1>3, AccountIsClient
  <2> QED
    BY <1>4, <1>5, <2>1, CallIsWakened, OtherCallMoves
<1> QED
  BY <1>6, LocalInv DEF ProviderAccounts

LEMMA TickInv ==
    ASSUME Inv, NEW t \in Tab, Tick(t)
    PROVE  Inv'
<1>1. CASE stored = None
  <2> DEFINE k == [client[t] EXCEPT !.health = "disconnected"]
  <2>1. client[t] \in Client
    BY DEF Inv, TypeOK
  <2>2. k \in Client /\ SameGeneration(k, client[t])
    BY <2>1 DEF Client, SameGeneration
  <2>3. client' = [client EXCEPT ![t] = k] /\ UNCHANGED call
    BY <1>1 DEF Tick
  <2> HIDE DEF k
  <2>4. ClientsAndCalls /\ Quiet
    BY <2>2, <2>3, OneClient, CallIsWakened, OnlyWakes
  <2> QED
    BY <2>4, LocalInv DEF Tick
<1>2. CASE stored # None
  <2> DEFINE x == [Unused EXCEPT !.step = "checking", !.tab = t, !.known = stored]
  <2>1. stored \in Session
    BY <1>2 DEF Inv, TypeOK
  <2>2. x \in CallState /\ CallAgrees(x) /\ x.known = stored
    BY <2>1, NewCheck
  <2>3. call' = [call EXCEPT ![t] = x] /\ UNCHANGED client
    BY <1>2 DEF Tick
  <2> HIDE DEF x
  <2>4. ClientsAndCalls /\ Quiet
    BY <2>2, <2>3, CallIsWakened, NoClient, OtherCallMoves
  <2> QED
    BY <2>4, LocalInv DEF Tick
<1> QED
  BY <1>1, <1>2

LEMMA CheckedIsClient ==
    ASSUME NEW k \in Client, NEW outcome \in Outcome
    PROVE  LET l == [k EXCEPT !.health = HealthOf(outcome),
                              !.account = IF outcome = "live" THEN @ ELSE None]
           IN l \in Client /\ SameGeneration(l, k) /\ l.account \in {k.account, None}
<1> DEFINE a == IF outcome = "live" THEN k.account ELSE None
           h == HealthOf(outcome)
<1>1. a \in Account \cup {None} /\ a \in {k.account, None}
  BY DEF Client
<1>2. h \in {"connected", "unreachable", "reconnect-required"}
  BY DEF HealthOf, Outcome
<1> HIDE DEF a, h
<1>3. LET l == [k EXCEPT !.health = h, !.account = a] IN
      l \in Client /\ SameGeneration(l, k) /\ l.account = a
  BY <1>1, <1>2 DEF Client, SameGeneration
<1> QED
  BY <1>1, <1>3 DEF a, h

LEMMA HeartbeatInv ==
    ASSUME Inv, NEW t \in Tab, NEW outcome \in Outcome, HeartbeatChecked(t, outcome)
    PROVE  Inv'
<1> DEFINE checked == [client[t] EXCEPT !.health = HealthOf(outcome),
                                        !.account = IF outcome = "live" THEN @ ELSE None]
           k == IF outcome = "gone" THEN Cleared(checked) ELSE checked
           calls == CallsAfter(t, outcome)
<1>1. t \in Call /\ Receives(t, outcome) /\ call[t].step = "checking"
      /\ client[t] \in Client
  BY DEF HeartbeatChecked, Receives, Call, Inv, TypeOK
<1>2. Wakened(calls)
  BY <1>1, CheckWakes
<1>3. checked \in Client /\ SameGeneration(checked, client[t])
  BY <1>1, CheckedIsClient
<1>4. client' = [client EXCEPT ![t] = k] /\ call' = [calls EXCEPT ![t] = Unused]
  BY DEF HeartbeatChecked
<1> HIDE DEF checked
<1>5. k \in Client /\ SameGeneration(k, client[t])
  BY <1>3, ClearedIsClient DEF SameGeneration
<1> HIDE DEF k, calls
<1>6. ClientsAndCalls /\ Quiet
  BY <1>2, <1>4, <1>5, OneClient, SettledIsCall, OtherCallMoves
<1> QED
  BY <1>1, <1>6, ReceivedInv DEF HeartbeatChecked

------------------------------------------------------------------------------
(* disconnect, dispose and reload                                            *)

LEMMA CancelledAgrees ==
    ASSUME Inv, NEW t \in Tab, call' = Cancelled(t),
           NEW k \in Client, client' = [client EXCEPT ![t] = k],
           k.revision = client[t].revision + 1, k.operation = None
    PROVE  /\ ClientsAndCalls
           /\ OperationsAgree'
           /\ client'[t].operation = None
           /\ \A u \in Tab : client'[u].operation \in {client[u].operation, None}
           /\ \A c \in ConnectCall : call'[c].known = call[c].known /\ call'[c].step = call[c].step
<1> DEFINE o == client[t].operation
           x(c) == [call[c] EXCEPT !.result = "rejected"]
<1>0. /\ client'[t] = k /\ client' \in [Tab -> Client]
      /\ \A u \in Tab \ {t} : client'[u] = client[u]
  BY DEF Inv, TypeOK
<1>1. /\ \A u \in Tab : client[u].operation \in ConnectCall \cup {None}
                        /\ client[u].revision \in Nat
      /\ \A c \in Call : call[c] \in CallState /\ call[c].revision \in Nat
      /\ \A c \in ConnectCall : c \in Call
      /\ None \notin Tab /\ None \notin ConnectCall
  BY ConnectionAssumption DEF Inv, TypeOK, Client, CallState, Call
<1>2. ASSUME NEW c \in Call
      PROVE  /\ call'[c] \in CallState
             /\ call'[c].tab = call[c].tab /\ call'[c].revision = call[c].revision
             /\ call'[c].known = call[c].known /\ call'[c].step = call[c].step
             /\ call'[c].answer = call[c].answer
             /\ call'[c].result = IF c = o THEN "rejected" ELSE call[c].result
  <2>1. CASE c = o
    <3>1. call'[c] = x(c)
      BY <2>1 DEF Cancelled
    <3> QED
      BY <1>1, <2>1, <3>1 DEF CallState
  <2>2. CASE c # o
    <3>1. call'[c] = call[c]
      BY <2>2 DEF Cancelled
    <3> QED
      BY <1>1, <2>2, <3>1
  <2> QED
    BY <2>1, <2>2
<1>3. call' \in [Call -> CallState]
  BY <1>2 DEF Cancelled
<1>4. \A c \in Call : CallAgrees(call'[c])
  <2>1. ASSUME NEW c \in Call, c = o
        PROVE  call[c].step # "idle"
    <3>1. o # None
      BY <2>1, ConnectionAssumption DEF Call
    <3>2. call[c].result = "open"
      BY <2>1, <3>1 DEF Inv, OperationsAgree
    <3> QED
      BY <3>2 DEF Inv, CallAgrees
  <2> QED
    BY <1>2, <2>1 DEF Inv, CallAgrees
<1>5. ClientsAndCalls
  BY <1>0, <1>2, <1>3, <1>4 DEF ClientsAndCalls
<1>6. \A u \in Tab : client'[u].operation # None =>
        u # t /\ client'[u].operation = client[u].operation
  BY <1>0
<1>7. ASSUME NEW u \in Tab, client'[u].operation # None
      PROVE  /\ call'[client'[u].operation].tab = u
             /\ call'[client'[u].operation].result = "open"
  <2>1. u # t /\ client'[u].operation = client[u].operation
    BY <1>6, <1>7
  <2>2. client[u].operation \in Call /\ client[u].operation # o
    BY <1>1, <1>7, <2>1 DEF Inv, OperationsAgree
  <2> QED
    BY <1>2, <1>7, <2>1, <2>2 DEF Inv, OperationsAgree
<1>8. ASSUME NEW c \in ConnectCall, call'[c].result = "open"
      PROVE  call'[c].tab \in Tab /\ client'[call'[c].tab].operation = c
  <2>1. c # o /\ call[c].result = "open"
    BY <1>1, <1>2, <1>8
  <2>2. call[c].tab \in Tab /\ client[call[c].tab].operation = c
    BY <2>1 DEF Inv, OperationsAgree
  <2> QED
    BY <1>0, <1>1, <1>2, <2>1, <2>2
<1>9. ASSUME NEW c \in ConnectCall, call'[c].tab \in Tab
      PROVE  /\ call'[c].revision <= client'[call'[c].tab].revision
             /\ call'[c].revision = client'[call'[c].tab].revision =>
                  client'[call'[c].tab].operation = c
  <2>1. call'[c].tab = call[c].tab /\ call'[c].revision = call[c].revision
        /\ call[c].revision \in Nat
    BY <1>1, <1>2
  <2>2. CASE call[c].tab = t
    BY <1>0, <1>1, <1>9, <2>1, <2>2 DEF Inv, OperationsAgree
  <2>3. CASE call[c].tab # t
    BY <1>0, <1>9, <2>1, <2>3 DEF Inv, OperationsAgree
  <2> QED
    BY <2>2, <2>3
<1>10. OperationsAgree'
  BY <1>7, <1>8, <1>9 DEF OperationsAgree
<1> QED
  BY <1>0, <1>1, <1>2, <1>5, <1>10

LEMMA DisconnectInv ==
    ASSUME Inv, NEW t \in Tab, Disconnect(t)
    PROVE  Inv'
<1> DEFINE k == [Invalidated(client[t]) EXCEPT !.disconnectEmitted = FALSE]
<1>1. client[t] \in Client
  BY DEF Inv, TypeOK
<1>2. k \in Client /\ k.revision = client[t].revision + 1 /\ k.operation = None
  BY <1>1, InvalidatedIsClient DEF SameGeneration
<1>3. client' = [client EXCEPT ![t] = k] /\ call' = Cancelled(t)
  BY DEF Disconnect
<1> HIDE DEF k
<1>4. /\ ClientsAndCalls /\ OperationsAgree'
      /\ client'[t].operation = None
      /\ \A u \in Tab : client'[u].operation \in {client[u].operation, None}
      /\ \A c \in ConnectCall : call'[c].known = call[c].known /\ call'[c].step = call[c].step
  BY <1>2, <1>3, CancelledAgrees
<1>5. /\ UNCHANGED <<stored, wallet, request, events, channels>>
      /\ disconnecting' = [disconnecting EXCEPT ![t] = [step |-> "revoking", session |-> stored]]
  BY DEF Disconnect
<1>6. spent' \in [disconnects : 0..MaxDisconnects, disposals : 0..MaxDisposals,
                  reloads : 0..MaxReloads]
  <2> DEFINE n == spent.disconnects + 1
  <2>1. n \in 0..MaxDisconnects
    BY ConnectionAssumption DEF Disconnect, Inv, TypeOK
  <2>2. spent' = [spent EXCEPT !.disconnects = n]
    BY DEF Disconnect
  <2> HIDE DEF n
  <2> QED
    BY <2>1, <2>2 DEF Inv, TypeOK
<1>7. TypeOK'
  BY <1>4, <1>5, <1>6 DEF Inv, TypeOK, ClientsAndCalls, channels
<1>8. NoConnectDuringDisconnect'
  BY <1>4, <1>5 DEF Inv, TypeOK, NoConnectDuringDisconnect
<1>9. RetainedIsOlder'
  BY <1>4, <1>5, OlderKeeps DEF Issued
<1> QED
  BY <1>4, <1>7, <1>8, <1>9 DEF Inv, ClientsAndCalls

LEMMA DisposeInv ==
    ASSUME Inv, NEW t \in Tab, Dispose(t)
    PROVE  Inv'
<1> DEFINE k == [Invalidated(client[t]) EXCEPT !.disposed = TRUE, !.account = None,
                                               !.heartbeat = FALSE]
<1>1. client[t] \in Client
  BY DEF Inv, TypeOK
<1>2. k \in Client /\ k.revision = client[t].revision + 1 /\ k.operation = None
  BY <1>1, InvalidatedIsClient DEF SameGeneration
<1>3. client' = [client EXCEPT ![t] = k] /\ call' = Cancelled(t)
  BY DEF Dispose
<1> HIDE DEF k
<1>4. /\ ClientsAndCalls /\ OperationsAgree'
      /\ \A u \in Tab : client'[u].operation \in {client[u].operation, None}
      /\ \A c \in ConnectCall : call'[c].known = call[c].known /\ call'[c].step = call[c].step
  BY <1>2, <1>3, CancelledAgrees
<1>5. /\ UNCHANGED <<stored, wallet, request, disconnecting, events, bridgeMail>>
      /\ clientMail' = [clientMail EXCEPT ![t] = 0]
  BY DEF Dispose
<1>6. spent' \in [disconnects : 0..MaxDisconnects, disposals : 0..MaxDisposals,
                  reloads : 0..MaxReloads]
  <2> DEFINE n == spent.disposals + 1
  <2>1. n \in 0..MaxDisposals
    BY ConnectionAssumption DEF Dispose, Inv, TypeOK
  <2>2. spent' = [spent EXCEPT !.disposals = n]
    BY DEF Dispose
  <2> HIDE DEF n
  <2> QED
    BY <2>1, <2>2 DEF Inv, TypeOK
<1>7. TypeOK'
  BY <1>4, <1>5, <1>6, ConnectionAssumption DEF Inv, TypeOK, ClientsAndCalls
<1>8. NoConnectDuringDisconnect'
  BY <1>4, <1>5 DEF Inv, NoConnectDuringDisconnect
<1>9. RetainedIsOlder'
  BY <1>4, <1>5, OlderKeeps DEF Issued
<1> QED
  BY <1>4, <1>7, <1>8, <1>9 DEF Inv, ClientsAndCalls

LEMMA ReloadInv ==
    ASSUME Inv, NEW t \in Tab, Reload(t)
    PROVE  Inv'
<1> DEFINE k == NewClient(t, stored)
<1>1. k \in Client /\ k.revision = 0 /\ k.operation = None
  BY NewClientIsClient DEF Inv, TypeOK
<1>2. client' = [client EXCEPT ![t] = k]
  BY DEF Reload
<1> HIDE DEF k
<1>3. /\ client'[t] = k /\ client' \in [Tab -> Client]
      /\ \A u \in Tab \ {t} : client'[u] = client[u]
  BY <1>1, <1>2 DEF Inv, TypeOK
<1>4. /\ \A c \in ConnectCall : c \in Call /\ c \notin Tab
      /\ \A u \in Tab : client[u].operation \in ConnectCall \cup {None}
      /\ None \notin Tab
  BY ConnectionAssumption DEF Call, Inv, TypeOK, Client
<1>5. ASSUME NEW c \in Call
      PROVE  /\ call[c].tab # t => call'[c] = call[c]
             /\ call[c].tab = t => call'[c] \in {Unused, Settled("rejected")}
             /\ call[c].tab = t /\ c \notin Tab => call'[c] = Settled("rejected")
  BY DEF Reload
<1>6. /\ call' \in [Call -> CallState]
      /\ \A c \in Call : CallAgrees(call'[c]) /\ call'[c].known \in {call[c].known, None}
  <2>1. ASSUME NEW c \in Call
        PROVE  call'[c] \in CallState /\ CallAgrees(call'[c])
               /\ call'[c].known \in {call[c].known, None}
    BY <1>5, SettledIsCall DEF Inv, TypeOK
  <2> QED
    BY <2>1 DEF Reload
<1>7. ClientsAndCalls
  BY <1>3, <1>6 DEF ClientsAndCalls
<1>8. ASSUME NEW c \in ConnectCall
      PROVE  \/ call[c].tab # t /\ call'[c] = call[c]
             \/ call'[c].tab = None /\ call'[c].result = "rejected" /\ call'[c].step = "done"
  BY <1>4, <1>5, SettledIsCall
<1>9. OperationsAgree'
  <2>1. ASSUME NEW u \in Tab, client'[u].operation # None
        PROVE  /\ call'[client'[u].operation].tab = u
               /\ call'[client'[u].operation].result = "open"
    <3>1. u # t /\ client'[u] = client[u] /\ client[u].operation \in ConnectCall
      BY <1>1, <1>3, <1>4, <2>1
    <3>2. call[client[u].operation].tab = u /\ call[client[u].operation].result = "open"
      BY <2>1, <3>1 DEF Inv, OperationsAgree
    <3>3. call'[client[u].operation] = call[client[u].operation]
      BY <1>4, <1>5, <3>1, <3>2
    <3> QED
      BY <3>1, <3>2, <3>3
  <2>2. ASSUME NEW c \in ConnectCall, call'[c].result = "open"
        PROVE  call'[c].tab \in Tab /\ client'[call'[c].tab].operation = c
    BY <1>3, <1>8, <2>2 DEF Inv, OperationsAgree
  <2>3. ASSUME NEW c \in ConnectCall, call'[c].tab \in Tab
        PROVE  /\ call'[c].revision <= client'[call'[c].tab].revision
               /\ call'[c].revision = client'[call'[c].tab].revision =>
                    client'[call'[c].tab].operation = c
    BY <1>3, <1>4, <1>8, <2>3 DEF Inv, OperationsAgree
  <2> QED
    BY <2>1, <2>2, <2>3 DEF OperationsAgree
<1>10. /\ UNCHANGED <<stored, wallet, request>>
       /\ disconnecting' = [disconnecting EXCEPT ![t] = NotDisconnecting]
       /\ events' = [events EXCEPT ![t] = <<>>]
       /\ bridgeMail' = [bridgeMail EXCEPT ![t] = 0]
       /\ clientMail' = [clientMail EXCEPT ![t] = 0]
  BY DEF Reload
<1>11. spent' \in [disconnects : 0..MaxDisconnects, disposals : 0..MaxDisposals,
                   reloads : 0..MaxReloads]
  <2> DEFINE n == spent.reloads + 1
  <2>1. n \in 0..MaxReloads
    BY ConnectionAssumption DEF Reload, Inv, TypeOK
  <2>2. spent' = [spent EXCEPT !.reloads = n]
    BY DEF Reload
  <2> HIDE DEF n
  <2> QED
    BY <2>1, <2>2 DEF Inv, TypeOK
<1>12. TypeOK'
  <2>1. 0 \in 0..MaxCopies /\ <<>> \in Seq(Session \cup {None})
    BY ConnectionAssumption
  <2> QED
    BY <1>7, <1>10, <1>11, <2>1 DEF Inv, TypeOK, ClientsAndCalls, NotDisconnecting
<1>13. NoConnectDuringDisconnect'
  BY <1>1, <1>3, <1>10 DEF Inv, TypeOK, NoConnectDuringDisconnect, NotDisconnecting
<1>14. RetainedIsOlder'
  <2>1. \A c \in ConnectCall :
          /\ call'[c].known \in {call[c].known, None}
          /\ call'[c].step = "idle" => call[c].step = "idle"
    BY <1>4, <1>6, <1>8
  <2> QED
    BY <1>7, <1>10, <2>1, OlderKeeps DEF Issued
<1> QED
  BY <1>7, <1>9, <1>12, <1>13, <1>14 DEF Inv, ClientsAndCalls

\* The cleanup of disconnect clears the session, tells the other tabs, and
\* resets the client.
LEMMA FinishDisconnectInv ==
    ASSUME Inv, NEW t \in Tab, FinishDisconnect(t)
    PROVE  Inv'
<1> DEFINE k == Cleared(client[t])
<1>1. client[t] \in Client
  BY DEF Inv, TypeOK
<1>2. k \in Client /\ SameGeneration(k, client[t])
  BY <1>1, ClearedIsClient
<1>3. client' = [client EXCEPT ![t] = k] /\ UNCHANGED call
  BY DEF FinishDisconnect
<1> HIDE DEF k
<1>4. ClientsAndCalls /\ Quiet
  BY <1>2, <1>3, OneClient, CallIsWakened, OnlyWakes
<1>5. /\ stored' = None
      /\ events' \in [Tab -> Seq(Session \cup {None})]
      /\ bridgeMail' \in [Tab -> 0..MaxCopies] /\ clientMail' \in [Tab -> 0..MaxCopies]
  BY WriteKeepsTypes, PostKeepsTypes DEF FinishDisconnect, Inv, TypeOK
<1>6. /\ UNCHANGED <<wallet, request, spent>>
      /\ disconnecting' = [disconnecting EXCEPT ![t] = NotDisconnecting]
  BY DEF FinishDisconnect
<1>7. TypeOK'
  BY <1>4, <1>5, <1>6 DEF Inv, TypeOK, ClientsAndCalls, NotDisconnecting
<1>8. \A u \in Tab : disconnecting'[u].step # "idle" => disconnecting[u].step # "idle"
  BY <1>6 DEF Inv, TypeOK, NotDisconnecting
<1>9. Issued
  BY <1>5, <1>6 DEF Issued
<1> QED
  BY <1>4, <1>7, <1>8, <1>9, MovedInv

------------------------------------------------------------------------------
(* The listeners and the wallet                                              *)

LEMMA SessionStoredInv ==
    ASSUME Inv, NEW t \in Tab, SessionStored(t)
    PROVE  Inv'
<1> DEFINE s == Head(events[t])
<1>1. events[t] \in Seq(Session \cup {None}) /\ events[t] # <<>> /\ s # None
  BY DEF SessionStored, Inv, TypeOK
<1>2. s \in Session /\ Tail(events[t]) \in Seq(Session \cup {None})
  BY <1>1
<1>3. call' = Woken(t, s) /\ UNCHANGED client
  BY DEF SessionStored
<1> HIDE DEF s
<1>4. Wakened(call')
  BY <1>2, <1>3, WokenCalls DEF Inv, TypeOK, Wakened
<1>5. ClientsAndCalls /\ Quiet
  BY <1>3, <1>4, NoClient, OnlyWakes
<1>6. /\ UNCHANGED <<stored, wallet, request, disconnecting, channels, spent>>
      /\ events' = [events EXCEPT ![t] = Tail(@)]
  BY DEF SessionStored
<1>7. TypeOK'
  BY <1>2, <1>5, <1>6 DEF Inv, TypeOK, ClientsAndCalls, channels
<1>8. Issued
  BY <1>6 DEF Issued
<1> QED
  BY <1>5, <1>6, <1>7, <1>8, MovedInv

\* The steps of the listeners that hear of a disconnect.
LEMMA HearsInv ==
    ASSUME Inv, NEW t \in Tab, SessionRemoved(t) \/ BridgeHears(t) \/ ClientHears(t)
    PROVE  Inv'
<1>1. client[t] \in Client
  BY DEF Inv, TypeOK
<1>2. PICK k \in {Cleared(client[t]), Dispatched(client[t])} : client' = [client EXCEPT ![t] = k]
  BY DEF SessionRemoved, BridgeHears, ClientHears
<1>3. k \in Client /\ SameGeneration(k, client[t])
  BY <1>1, <1>2, ClearedIsClient
<1>4. UNCHANGED <<stored, wallet, request, disconnecting, call, spent>>
  BY DEF SessionRemoved, BridgeHears, ClientHears
<1>5. ClientsAndCalls /\ Quiet
  BY <1>2, <1>3, <1>4, OneClient, CallIsWakened, OnlyWakes
<1>6. events' \in [Tab -> Seq(Session \cup {None})]
  <2>1. CASE SessionRemoved(t)
    <3>1. Tail(events[t]) \in Seq(Session \cup {None})
      BY <2>1 DEF SessionRemoved, Inv, TypeOK
    <3> QED
      BY <2>1, <3>1 DEF SessionRemoved, Inv, TypeOK
  <2>2. CASE BridgeHears(t) \/ ClientHears(t)
    BY <2>2 DEF BridgeHears, ClientHears, Inv, TypeOK
  <2> QED
    BY <2>1, <2>2
<1>7. bridgeMail' \in [Tab -> 0..MaxCopies] /\ clientMail' \in [Tab -> 0..MaxCopies]
  <2>1. bridgeMail[t] \in 0..MaxCopies /\ clientMail[t] \in 0..MaxCopies
    BY DEF Inv, TypeOK
  <2>2. CASE SessionRemoved(t)
    BY <2>1, <2>2, PostKeepsTypes DEF SessionRemoved, Inv
  <2>3. CASE BridgeHears(t)
    <3>1. bridgeMail[t] - 1 \in 0..MaxCopies
      BY <2>1, <2>3, ConnectionAssumption DEF BridgeHears
    <3> QED
      BY <2>3, <3>1, PostKeepsTypes DEF BridgeHears, Inv
  <2>4. CASE ClientHears(t)
    <3>1. clientMail[t] - 1 \in 0..MaxCopies
      BY <2>1, <2>4, ConnectionAssumption DEF ClientHears
    <3> QED
      BY <2>4, <3>1 DEF ClientHears, Inv, TypeOK
  <2> QED
    BY <2>2, <2>3, <2>4
<1>8. TypeOK'
  BY <1>4, <1>5, <1>6, <1>7 DEF Inv, TypeOK, ClientsAndCalls
<1>9. Issued
  BY <1>4 DEF Issued
<1> QED
  BY <1>4, <1>5, <1>8, <1>9, MovedInv

LEMMA WalletInv == ASSUME Inv, WalletStep PROVE Inv'
<1>1. ASSUME NEW c \in ConnectCall, NEW decision \in Session \cup {"rejected"},
             WalletDecides(c, decision)
      PROVE  Inv'
  <2>1. /\ UNCHANGED <<stored, client, disconnecting, call, events, channels, spent>>
        /\ request' = [request EXCEPT ![c] = decision]
        /\ request[c] = "pending"
        /\ UNCHANGED wallet
           \/ (wallet[decision] = "unissued" /\ wallet' = [wallet EXCEPT ![decision] = "live"])
        /\ decision \in Session => wallet[decision] = "unissued" /\ wallet'[decision] = "live"
    BY <1>1, ConnectionAssumption DEF WalletDecides, Inv, TypeOK
  <2>2. TypeOK'
    BY <2>1 DEF Inv, TypeOK, channels
  <2>3. (\A d \in Call : CallAgrees(call'[d])) /\ OperationsAgree' /\ NoConnectDuringDisconnect'
    BY <2>1 DEF Inv, OperationsAgree, NoConnectDuringDisconnect
  <2>4. \A s \in Session : wallet[s] # "unissued" => wallet'[s] # "unissued"
    BY <2>1 DEF Inv, TypeOK
  <2>5. \A d \in ConnectCall : d \in Call
    BY DEF Call
  <2>6. \A d \in Call : call[d].known \in Session \cup {None}
    BY DEF Inv, TypeOK, CallState
  <2>7. call[c].step # "idle"
    BY <2>1 DEF Inv, RetainedIsOlder
  <2>8. (stored' # None => wallet'[stored'] # "unissued")
        /\ \A d \in Call : call'[d].known # None => wallet'[call'[d].known] # "unissued"
    BY <2>1, <2>4, <2>6 DEF Inv, TypeOK, RetainedIsOlder
  <2>9. ASSUME NEW d \in ConnectCall
        PROVE  /\ request'[d] \in Session =>
                    wallet'[request'[d]] # "unissued" /\ request'[d] # call'[d].known
               /\ call'[d].step = "idle" => request'[d] = "none"
    <3>1. CASE d = c
      <4>1. request'[d] = decision /\ call'[d] = call[d]
        BY <2>1, <3>1 DEF Inv, TypeOK
      <4>2. decision \in Session => call[d].known # decision
        BY <2>1, <2>5, ConnectionAssumption DEF Inv, RetainedIsOlder
      <4> QED
        BY <2>1, <2>7, <3>1, <4>1, <4>2
    <3>2. CASE d # c
      <4>1. request'[d] = request[d] /\ call'[d] = call[d]
        BY <2>1, <3>2 DEF Inv, TypeOK
      <4> QED
        BY <2>4, <4>1 DEF Inv, RetainedIsOlder
    <3> QED
      BY <3>1, <3>2
  <2>10. RetainedIsOlder'
    BY <2>8, <2>9 DEF RetainedIsOlder
  <2> QED
    BY <2>2, <2>3, <2>10 DEF Inv
<1>2. ASSUME UNCHANGED <<stored, request, client, call, events, channels, spent>>,
             wallet' \in [Session -> {"unissued", "live", "revoked"}],
             \A s \in Session : wallet[s] # "unissued" => wallet'[s] # "unissued",
             disconnecting' \in
               [Tab -> [step : {"idle", "revoking", "revoked"}, session : Session \cup {None}]],
             \A t \in Tab : disconnecting'[t].step # "idle" => disconnecting[t].step # "idle"
      PROVE  Inv'
  <2>1. TypeOK'
    BY <1>2 DEF Inv, TypeOK, channels
  <2>2. (\A d \in Call : CallAgrees(call'[d])) /\ OperationsAgree' /\ NoConnectDuringDisconnect'
    BY <1>2 DEF Inv, OperationsAgree, NoConnectDuringDisconnect
  <2>3. \A d \in Call : call[d].known \in Session \cup {None}
    BY DEF Inv, TypeOK, CallState
  <2>4. RetainedIsOlder'
    BY <1>2, <2>3 DEF Inv, TypeOK, RetainedIsOlder
  <2> QED
    BY <1>2, <2>1, <2>2, <2>4 DEF Inv
<1>3. ASSUME NEW t \in Tab, RevokeArrives(t) PROVE Inv'
  <2>1. disconnecting[t].session \in Session
    BY <1>3 DEF RevokeArrives, Inv, TypeOK
  <2> DEFINE s == disconnecting[t].session
             d == [disconnecting[t] EXCEPT !.step = "revoked"]
  <2>2. /\ wallet' = [wallet EXCEPT ![s] = "revoked"]
        /\ disconnecting' = [disconnecting EXCEPT ![t] = d]
        /\ disconnecting[t].step = "revoking"
    BY <1>3 DEF RevokeArrives
  <2>3. d \in [step : {"idle", "revoking", "revoked"}, session : Session \cup {None}]
    BY DEF Inv, TypeOK
  <2> HIDE DEF s, d
  <2>4. disconnecting' \in
          [Tab -> [step : {"idle", "revoking", "revoked"}, session : Session \cup {None}]]
    BY <2>2, <2>3 DEF Inv, TypeOK
  <2>5. wallet' \in [Session -> {"unissued", "live", "revoked"}]
        /\ \A u \in Session : wallet[u] # "unissued" => wallet'[u] # "unissued"
    BY <2>1, <2>2 DEF Inv, TypeOK, s
  <2>6. \A u \in Tab : disconnecting'[u].step # "idle" => disconnecting[u].step # "idle"
    BY <2>2 DEF Inv, TypeOK
  <2> QED
    BY <1>2, <1>3, <2>4, <2>5, <2>6 DEF RevokeArrives
<1>4. ASSUME NEW s \in Session, WalletRevokes(s) PROVE Inv'
  <2>1. wallet' = [wallet EXCEPT ![s] = "revoked"]
        /\ UNCHANGED <<stored, request, client, disconnecting, call, events, channels, spent>>
    BY <1>4 DEF WalletRevokes
  <2>2. wallet' \in [Session -> {"unissued", "live", "revoked"}]
        /\ \A u \in Session : wallet[u] # "unissued" => wallet'[u] # "unissued"
    BY <2>1 DEF Inv, TypeOK
  <2> QED
    BY <1>2, <2>1, <2>2 DEF Inv, TypeOK
<1> QED
  BY <1>1, <1>3, <1>4, AnswerCheckInv DEF WalletStep

------------------------------------------------------------------------------

LEMMA InitInv == Init => Inv
<1> SUFFICES ASSUME Init PROVE Inv
  OBVIOUS
<1>1. client \in [Tab -> Client] /\ \A t \in Tab : client[t].operation = None
  BY NewClientIsClient DEF Init
<1>2. /\ call \in [Call -> CallState]
      /\ \A c \in Call : CallAgrees(call[c])
      /\ \A c \in Call : call[c].tab = None /\ call[c].known = None /\ call[c].result = "none"
  BY SettledIsCall DEF Init
<1>3. spent \in [disconnects : 0..MaxDisconnects, disposals : 0..MaxDisposals,
                 reloads : 0..MaxReloads]
  BY ConnectionAssumption DEF Init
<1>4. /\ disconnecting \in
           [Tab -> [step : {"idle", "revoking", "revoked"}, session : Session \cup {None}]]
      /\ events \in [Tab -> Seq(Session \cup {None})]
      /\ bridgeMail \in [Tab -> 0..MaxCopies] /\ clientMail \in [Tab -> 0..MaxCopies]
      /\ request \in [ConnectCall -> {"none", "pending", "rejected"} \cup Session]
  BY ConnectionAssumption DEF Init, NotDisconnecting
<1>5. TypeOK
  BY <1>1, <1>2, <1>3, <1>4 DEF Init, TypeOK
<1>6. OperationsAgree /\ NoConnectDuringDisconnect
  BY <1>1, <1>2, ConnectionAssumption
  DEF Init, OperationsAgree, NoConnectDuringDisconnect, NotDisconnecting, Call
<1>7. RetainedIsOlder
  BY <1>2, ConnectionAssumption DEF Init, RetainedIsOlder
<1> QED
  BY <1>2, <1>5, <1>6, <1>7 DEF Inv

LEMMA CallReturnsInv ==
    ASSUME Inv, NEW c \in ConnectCall \cup AccountCall, call[c].tab \in Tab, CallReturns(c)
    PROVE  Inv'
<1>1. CASE \E outcome \in Outcome : ConnectChecked(c, outcome)
  BY <1>1, ConnectCheckedInv DEF ConnectChecked
<1>2. CASE \E outcome \in Outcome : AccountChecked(c, outcome)
  BY <1>2, AccountCheckedInv DEF AccountChecked
<1>3. CASE \E succeeds \in BOOLEAN : ProviderConnects(c, succeeds)
  BY <1>3, ProviderConnectsInv DEF ProviderConnects
<1>4. CASE \E succeeds \in BOOLEAN : ProviderAccounts(c, succeeds)
  BY <1>4, ProviderAccountsInv DEF ProviderAccounts
<1>5. CASE c \in ConnectCall /\ (PreauthStarts(c) \/ PreauthFails(c) \/ PollRejected(c))
  BY <1>5, PreauthInv
<1>6. CASE c \in ConnectCall /\ (PollApproved(c) \/ WaiterReads(c))
  BY <1>6, PollApprovedInv, WaiterReadsInv
<1> QED
  BY <1>1, <1>2, <1>3, <1>4, <1>5, <1>6 DEF CallReturns

LEMMA TabInv == ASSUME Inv, NEW t \in Tab, Continue(t) \/ TabStep(t) PROVE Inv'
<1>1. CASE \E c \in ConnectCall : call[c].tab = t /\ Resume(c)
  BY <1>1, ResumeInv
<1>2. CASE \E c \in ConnectCall : Connect(t, c)
  BY <1>2, BeginsInv
<1>3. CASE \E c \in AccountCall : GetAccount(t, c)
  BY <1>3, GetAccountInv
<1>4. CASE \E c \in ConnectCall \cup AccountCall : call[c].tab = t /\ CallReturns(c)
  BY <1>4, CallReturnsInv
<1>5. CASE Tick(t) \/ HeartbeatReturns(t)
  BY <1>5, TickInv, HeartbeatInv DEF HeartbeatReturns
<1>6. CASE Disconnect(t) \/ FinishDisconnect(t) \/ Dispose(t) \/ Reload(t)
  BY <1>6, DisconnectInv, FinishDisconnectInv, DisposeInv, ReloadInv
<1>7. CASE Hears(t)
  BY <1>7, SessionStoredInv, HearsInv DEF Hears
<1> QED
  BY <1>1, <1>2, <1>3, <1>4, <1>5, <1>6, <1>7 DEF Continue, TabStep

LEMMA StutterInv == ASSUME Inv, UNCHANGED vars PROVE Inv'
<1>1. UNCHANGED <<stored, wallet, request, client, disconnecting, call, events,
                  bridgeMail, clientMail, spent>>
  BY DEF vars, channels
<1>2. TypeOK'
  BY <1>1 DEF Inv, TypeOK
<1>3. (\A c \in Call : CallAgrees(call'[c])) /\ OperationsAgree' /\ NoConnectDuringDisconnect'
      /\ RetainedIsOlder'
  BY <1>1 DEF Inv, OperationsAgree, NoConnectDuringDisconnect, RetainedIsOlder
<1> QED
  BY <1>2, <1>3 DEF Inv

LEMMA Invariance == Spec => []Inv
<1>1. ASSUME Inv, [Next]_vars PROVE Inv'
  BY <1>1, TabInv, WalletInv, StutterInv DEF Next
<1> QED
  BY <1>1, InitInv, PTL DEF Spec

------------------------------------------------------------------------------

\* The variables keep their types: what is stored is a session, what a client
\* has as its account one of the sessions or the provider's, and what a call
\* that was woken returns a session and never an answer to a check.
THEOREM TypeCorrect == Spec => []TypeOK
<1>1. Inv => TypeOK
  BY DEF Inv
<1> QED
  BY <1>1, Invariance, PTL

\* However many callers, tabs, disconnects and reloads there are, one connect of
\* a client is open at a time (connect shares connectionOperation).
THEOREM OneConnect == Spec => []OneOpenConnect
<1>1. Inv => OneOpenConnect
  BY DEF Inv, OperationsAgree, OneOpenConnect
<1> QED
  BY <1>1, Invariance, PTL

\* A connect that a disconnect finds is cancelled, and none begins before its
\* cleanup is over (disconnectOnce, connect).
THEOREM NoneDuringDisconnect == Spec => []NoConnectDuringDisconnect
<1>1. Inv => NoConnectDuringDisconnect
  BY DEF Inv
<1> QED
  BY <1>1, Invariance, PTL

\* The session that a connect found stored does not end its wait for a new one,
\* whichever tab stores it again (waitForExternalSession).
THEOREM RetainedLoses == Spec => []RetainedDoesNotWin
<1>1. Inv => RetainedDoesNotWin
  BY DEF Inv, CallAgrees, RetainedDoesNotWin, Call
<1> QED
  BY <1>1, Invariance, PTL

------------------------------------------------------------------------------
(* Who publishes an account                                                  *)

Publishes(t) == client'[t].account \notin {client[t].account, None}

\* A step that changes one client publishes for that one only.
LEMMA OneClientPublishes ==
    ASSUME Inv, NEW t \in Tab, NEW u \in Tab, NEW k,
           client' = [client EXCEPT ![u] = k],
           Publishes(t)
    PROVE  t = u /\ k.account \notin {client[t].account, None}
BY DEF Inv, TypeOK, Publishes

LEMMA RejectPublishesNothing ==
    ASSUME Inv, NEW c \in ConnectCall, call[c].tab \in Tab, NEW calls, Reject(c, calls),
           NEW t \in Tab
    PROVE  ~Publishes(t)
<1> DEFINE u == call[c].tab
           k == [client[u] EXCEPT !.operation = IF @ = c THEN None ELSE @]
<1>1. k.account = client[u].account
  BY DEF Inv, TypeOK, Client
<1>2. client' = [client EXCEPT ![u] = k]
  BY DEF Reject
<1> HIDE DEF k
<1> QED
  BY <1>1, <1>2, OneClientPublishes

LEMMA ConnectPublishes ==
    ASSUME Inv, NEW c \in ConnectCall, call[c].tab \in Tab, NEW t \in Tab, Publishes(t),
           CallReturns(c) \/ Resume(c)
    PROVE  client[t].operation # None
<1> DEFINE u == call[c].tab
<1>1. ASSUME Current(c), NEW k, client' = [client EXCEPT ![u] = k]
      PROVE  client[t].operation # None
  BY <1>1, OneClientPublishes, CurrentIsPending, ConnectionAssumption
<1>2. CASE UNCHANGED client
  BY <1>2 DEF Publishes
<1>3. CASE \E calls : Reject(c, calls)
  BY <1>3, RejectPublishesNothing
<1>4. CASE \E outcome \in Outcome : ConnectChecked(c, outcome)
  <2>1. PICK outcome \in Outcome : ConnectChecked(c, outcome)
    BY <1>4
  <2>2. CASE Current(c) /\ outcome = "live"
    <3> DEFINE k == [Connected(client[u], call[c].known) EXCEPT !.disconnectEmitted = FALSE]
    <3>1. client' = [client EXCEPT ![u] = k]
      BY <2>1, <2>2 DEF ConnectChecked
    <3> HIDE DEF k
    <3> QED
      BY <1>1, <2>2, <3>1
  <2> QED
    BY <1>2, <1>3, <2>1, <2>2 DEF ConnectChecked
<1>5. CASE \E succeeds \in BOOLEAN : ProviderConnects(c, succeeds)
  <2>1. PICK succeeds \in BOOLEAN : ProviderConnects(c, succeeds)
    BY <1>5
  <2>2. CASE /\ Current(c)
             /\ client' = [client EXCEPT ![u].account = ProviderAccount, ![u].operation = None]
    <3> DEFINE k == [client[u] EXCEPT !.account = ProviderAccount, !.operation = None]
    <3>1. client' = [client EXCEPT ![u] = k]
      BY <2>2
    <3> HIDE DEF k
    <3> QED
      BY <1>1, <2>2, <3>1
  <2> QED
    BY <1>2, <1>3, <2>1, <2>2 DEF ProviderConnects
<1>6. CASE Resume(c)
  <2>1. CASE Current(c)
    <3> DEFINE k == Connected(client[u], call[c].answer)
    <3>1. client' = [client EXCEPT ![u] = k]
      BY <1>6, <2>1 DEF Resume
    <3> HIDE DEF k
    <3> QED
      BY <1>1, <2>1, <3>1
  <2> QED
    BY <1>3, <1>6, <2>1 DEF Resume
<1>7. CASE PreauthStarts(c) \/ PreauthFails(c) \/ PollApproved(c) \/ PollRejected(c)
           \/ WaiterReads(c)
  BY <1>2, <1>3, <1>7 DEF PreauthStarts, PreauthFails, PollApproved, PollRejected, WaiterReads
<1>8. c \notin AccountCall
  BY ConnectionAssumption
<1> QED
  BY <1>4, <1>5, <1>6, <1>7, <1>8 DEF CallReturns, AccountChecked, ProviderAccounts

LEMMA AccountPublishes ==
    ASSUME Inv, NEW c \in AccountCall, call[c].tab \in Tab, NEW t \in Tab, Publishes(t),
           CallReturns(c)
    PROVE  AccountPending(t)
<1> DEFINE u == call[c].tab
<1>0. c \notin ConnectCall
  BY ConnectionAssumption
<1>1. call[c].step # "idle" /\ \E a : client' = [client EXCEPT ![u].account = a]
  BY <1>0 DEF CallReturns, ConnectChecked, ProviderConnects, AccountChecked,
     ProviderAccounts, Receives
<1>2. PICK a : client' = [client EXCEPT ![u].account = a]
  BY <1>1
<1> DEFINE k == [client[u] EXCEPT !.account = a]
<1>3. client' = [client EXCEPT ![u] = k]
  BY <1>2
<1> HIDE DEF k
<1>4. t = u
  BY <1>3, OneClientPublishes
<1> QED
  BY <1>1, <1>4 DEF AccountPending

\* Everything else a tab does.
LEMMA NothingElsePublishes ==
    ASSUME Inv, NEW u \in Tab, NEW t \in Tab,
           \/ \E c \in ConnectCall : Connect(u, c)
           \/ \E c \in AccountCall : GetAccount(u, c)
           \/ Tick(u) \/ HeartbeatReturns(u)
           \/ Disconnect(u) \/ FinishDisconnect(u) \/ Dispose(u) \/ Reload(u) \/ Hears(u)
    PROVE  ~Publishes(t)
<1> DEFINE k0 == client[u]
<1>0. k0 \in Client
  BY DEF Inv, TypeOK
<1>1. ASSUME NEW k, client' = [client EXCEPT ![u] = k], k.account \in {k0.account, None}
      PROVE  ~Publishes(t)
  BY <1>1, OneClientPublishes
<1>2. CASE UNCHANGED client
  BY <1>2 DEF Publishes
<1>3. CASE \E c \in ConnectCall : Connect(u, c)
  <2>1. PICK c \in ConnectCall : Connect(u, c)
    BY <1>3
  <2> DEFINE k == [k0 EXCEPT !.revision = @ + 1, !.disconnectEmitted = FALSE, !.operation = c]
  <2>2. client' = [client EXCEPT ![u] = k]
    BY <2>1 DEF Connect, Begins
  <2>3. k.account = k0.account
    BY <1>0 DEF Client
  <2> HIDE DEF k
  <2> QED
    BY <1>1, <2>2, <2>3
<1>4. CASE Tick(u)
  <2> DEFINE k == [k0 EXCEPT !.health = "disconnected"]
  <2>1. client' = [client EXCEPT ![u] = k] \/ UNCHANGED client
    BY <1>4 DEF Tick
  <2>2. k.account = k0.account
    BY <1>0 DEF Client
  <2> HIDE DEF k
  <2> QED
    BY <1>1, <1>2, <2>1, <2>2
<1>5. CASE HeartbeatReturns(u)
  <2>1. PICK outcome \in Outcome : HeartbeatChecked(u, outcome)
    BY <1>5 DEF HeartbeatReturns
  <2> DEFINE checked == [k0 EXCEPT !.health = HealthOf(outcome),
                                   !.account = IF outcome = "live" THEN @ ELSE None]
             k == IF outcome = "gone" THEN Cleared(checked) ELSE checked
  <2>2. client' = [client EXCEPT ![u] = k]
    BY <2>1 DEF HeartbeatChecked
  <2>3. checked \in Client /\ checked.account \in {k0.account, None}
    BY <1>0, CheckedIsClient
  <2> HIDE DEF checked
  <2>4. k.account \in {k0.account, None}
    BY <2>3, ClearedIsClient
  <2> HIDE DEF k
  <2> QED
    BY <1>1, <2>2, <2>4
<1>6. CASE Disconnect(u) \/ Dispose(u)
  <2> DEFINE k == [Invalidated(k0) EXCEPT !.disconnectEmitted = FALSE]
             l == [Invalidated(k0) EXCEPT !.disposed = TRUE, !.account = None,
                                          !.heartbeat = FALSE]
  <2>1. client' = [client EXCEPT ![u] = k] \/ client' = [client EXCEPT ![u] = l]
    BY <1>6 DEF Disconnect, Dispose
  <2>2. k.account = k0.account /\ l.account = None
    BY <1>0, InvalidatedIsClient
  <2> HIDE DEF k, l
  <2> QED
    BY <1>1, <2>1, <2>2
<1>7. CASE FinishDisconnect(u) \/ Hears(u)
  <2>1. UNCHANGED client \/ client' = [client EXCEPT ![u] = Cleared(k0)]
        \/ client' = [client EXCEPT ![u] = Dispatched(k0)]
    BY <1>7 DEF FinishDisconnect, Hears, SessionStored, SessionRemoved, BridgeHears, ClientHears
  <2> QED
    BY <1>0, <1>1, <1>2, <2>1, ClearedIsClient
<1>8. CASE Reload(u)
  <2>1. client' = [client EXCEPT ![u] = NewClient(u, stored)]
    BY <1>8 DEF Reload
  <2>2. NewClient(u, stored).account = None
    BY NewClientIsClient DEF Inv, TypeOK
  <2> QED
    BY <1>1, <2>1, <2>2
<1> QED
  BY <1>2, <1>3, <1>4, <1>5, <1>6, <1>7, <1>8 DEF GetAccount

\* A connect that was superseded, cancelled by disconnect() or dispose(), or is
\* over sets no account, whatever it still awaits (connectOnce, assertCurrent).
THEOREM LatePublishesNothing == Spec => LateConnectsPublishNothing
<1>1. ASSUME Inv, Next, NEW t \in Tab, client[t].operation = None, ~AccountPending(t)
      PROVE  ~Publishes(t)
  <2>1. CASE WalletStep
    BY <2>1 DEF WalletStep, AnswerCheck, WalletDecides, RevokeArrives, WalletRevokes, Publishes
  <2>2. ASSUME NEW u \in Tab, Continue(u) \/ TabStep(u)
        PROVE  ~Publishes(t)
    <3>1. CASE \E c \in ConnectCall : call[c].tab = u /\ (Resume(c) \/ CallReturns(c))
      BY <1>1, <3>1, ConnectPublishes
    <3>2. CASE \E c \in AccountCall : call[c].tab = u /\ CallReturns(c)
      BY <1>1, <3>2, AccountPublishes
    <3> QED
      BY <1>1, <2>2, <3>1, <3>2, NothingElsePublishes DEF Continue, TabStep
  <2> QED
    BY <1>1, <2>1, <2>2 DEF Next
<1>2. ASSUME Inv, [Next]_vars
      PROVE  [\A t \in Tab : client[t].operation = None /\ ~AccountPending(t) =>
                client'[t].account \in {client[t].account, None}]_vars
  BY <1>1, <1>2 DEF Publishes
<1> QED
  BY <1>2, Invariance, PTL DEF Spec, LateConnectsPublishNothing
==============================================================================
