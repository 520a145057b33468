------------------------- MODULE RecoveryCoordinator -------------------------
(***************************************************************************)
(* How one InferClient gives saved outcomes to its subscribers             *)
(* (src/InferClient.ts: subscribeRecoveredOutcomes, dispose,               *)
(* scheduleRecovery, reconcileRecoverableRequests).                        *)
(*                                                                         *)
(* One scan runs at a time.  A wake that finds a scan running asks it for  *)
(* another pass.  Each await of the scan is a step boundary; the records   *)
(* change meanwhile, by this tab or others, and the dapp's callbacks may   *)
(* subscribe, unsubscribe, acknowledge or dispose.                         *)
(*                                                                         *)
(* A client that is bound to a native wallet (src/nativeRecovery.ts) shows *)
(* the requests of the account and network that the wallet has at the      *)
(* moment.  It hears of their changes before the wallet answers anything   *)
(* later; what a scan read before a change is not offered after it.        *)
(*                                                                         *)
(* Between the end of a pass and the end of the scan there are only        *)
(* microtasks: events (focus, storage, BroadcastChannel messages) cannot   *)
(* come in there, calls from other promise continuations can.              *)
(***************************************************************************)
EXTENDS Naturals, FiniteSets

CONSTANTS
    Request,           \* recoverable requests of the origin
    Callback,          \* outcome callbacks of the dapp
    MaxSubscriptions,  \* bound on the subscriptions of one callback
    Scope,             \* accounts and networks of the native wallet
    ScopeOf,           \* [Request -> Scope]
    MaxGeneration,     \* bound on the changes of its scope
    None

ASSUME CoordinatorAssumption ==
    /\ None \notin Request \cup Callback \cup Scope
    /\ ScopeOf \in [Request -> Scope]
    /\ MaxGeneration \in Nat
    /\ MaxSubscriptions \in Nat \ {0}

VARIABLES
    live,           \* the scope of the wallet, None for an unbound client
    generation,     \* how often the client heard of a change
    record,         \* the durable record of each request
    changed,        \* a record change is being announced to this client
    subscriptions,  \* per callback, how many times it was subscribed
    subscribers,    \* keys of recoveredSubscribers
    delivered,      \* its values, per callback
    scan,           \* recoveryRun, or None
    rescan,         \* recoveryRescan
    disposed,
    served          \* history: deliveries that succeeded, per subscription

subscriberVars == <<subscriptions, subscribers, delivered, served>>
clientVars == <<subscriberVars, scan, rescan, disposed>>
wallet == <<live, generation>>
vars == <<wallet, record, changed, clientVars>>

Scan ==
    [ step : {"list", "next", "reading", "checking", "offering", "calling",
              "testing", "ending"},
      todo : SUBSET Request,            \* the rest of the listed requests
      request : Request \cup {None},
      fence : Nat,                      \* the generation it is read in
      visited : SUBSET Callback,        \* subscribers already iterated over
      callback : Callback \cup {None},  \* the one being awaited
      subscription : Nat ]              \* and which of its delivered sets

Pass == [ step |-> "list", todo |-> {}, request |-> None, fence |-> 0,
          visited |-> {}, callback |-> None, subscription |-> 0 ]

TypeOK ==
    /\ live \in Scope \cup {None}
    /\ generation \in 0..MaxGeneration
    /\ record \in [Request -> {"open", "final", "acknowledged"}]
    /\ changed \in BOOLEAN
    /\ subscriptions \in [Callback -> 0..MaxSubscriptions]
    /\ subscribers \subseteq Callback
    /\ delivered \in [Callback -> SUBSET Request]
    /\ scan \in Scan \cup {None}
    /\ rescan \in BOOLEAN
    /\ disposed \in BOOLEAN
    /\ served \in [Callback -> [Request -> Nat]]

Init ==
    /\ live \in Scope \cup {None}
    /\ generation = 0
    /\ record \in [Request -> {"open", "final"}]
    /\ changed = FALSE
    /\ subscriptions = [cb \in Callback |-> 0]
    /\ subscribers = {}
    /\ delivered = [cb \in Callback |-> {}]
    /\ scan = None
    /\ rescan = FALSE
    /\ disposed = FALSE
    /\ served = [cb \in Callback |-> [r \in Request |-> 0]]

------------------------------------------------------------------------------
(* The client's interface and its wakes                                    *)

\* scheduleRecovery, for a client with these subscribers
Schedule(now) ==
    IF disposed \/ now = {} THEN UNCHANGED <<scan, rescan>>
    ELSE IF scan # None THEN rescan' = TRUE /\ scan' = scan
                        ELSE rescan' = FALSE /\ scan' = Pass

InScan(step) == scan # None /\ scan.step = step

\* No event is handled between the last await of a scan and its end.
EventsHandled == ~InScan("testing") /\ ~InScan("ending")

\* Also after dispose, to no effect.
Subscribe(cb) ==
    /\ subscriptions[cb] < MaxSubscriptions
    /\ subscriptions' = [subscriptions EXCEPT ![cb] = @ + 1]
    /\ subscribers' = subscribers \cup {cb}
    /\ delivered' = [delivered EXCEPT ![cb] = {}]
    /\ served' = [served EXCEPT ![cb] = [r \in Request |-> 0]]
    /\ Schedule(subscribers')
    /\ UNCHANGED <<wallet, record, changed, disposed>>

\* A subscriber that leaves and returns during an iteration is new to it.
Unsubscribe(cb) ==
    /\ cb \in subscribers
    /\ subscribers' = subscribers \ {cb}
    /\ scan' = IF scan = None THEN None ELSE [scan EXCEPT !.visited = @ \ {cb}]
    /\ UNCHANGED <<wallet, record, changed, subscriptions, delivered, served, rescan, disposed>>

Dispose ==
    /\ ~disposed
    /\ disposed' = TRUE
    /\ subscribers' = {}
    /\ changed' = FALSE
    /\ scan' = IF scan = None THEN None ELSE [scan EXCEPT !.visited = {}]
    /\ UNCHANGED <<wallet, record, subscriptions, delivered, served, rescan>>

Wake ==
    /\ EventsHandled
    /\ Schedule(subscribers)
    /\ UNCHANGED <<wallet, record, subscriberVars, disposed>>

\* The message of announceRecordChange arrives.
Announced ==
    /\ changed
    /\ changed' = FALSE
    /\ Wake

\* focus, pageshow, visibilitychange
Focus ==
    /\ ~disposed
    /\ changed' = changed
    /\ Wake

\* Another tab, or another call of this one, saves or acknowledges an outcome.
Settle(r) ==
    /\ record[r] = "open"
    /\ record' = [record EXCEPT ![r] = "final"]
    /\ changed' = ~disposed
    /\ UNCHANGED <<wallet, clientVars>>

Acknowledge(r) ==
    /\ record[r] = "final"
    /\ record' = [record EXCEPT ![r] = "acknowledged"]
    /\ changed' = ~disposed
    /\ UNCHANGED <<wallet, clientVars>>

\* The wallet changes its account or network and says so (accountEvents,
\* networkEvents of createNativeRecovery).
ChangeScope(scope) ==
    /\ live # None
    /\ scope # live
    /\ generation < MaxGeneration
    /\ live' = scope
    /\ generation' = generation + 1
    /\ UNCHANGED <<record, changed, clientVars>>

------------------------------------------------------------------------------
(* The scan                                                                *)

Goto(step) == scan' = [scan EXCEPT !.step = step]

ScanOnly == UNCHANGED <<wallet, record, changed, subscriberVars, rescan, disposed>>

\* assertBoundNativeHandle, assertScope
InScope(r) == live \in {None, ScopeOf[r]}

\* nativeFence: the wallet has the scope it had when the request was read.
Fenced == scan.fence = generation

\* listRecoverableRequests returns the active records, those of the wallet's
\* scope to a bound client.
Active == {r \in Request : record[r] # "acknowledged"}

Listed == {r \in Active : InScope(r)}

List ==
    /\ InScan("list")
    /\ scan' = [scan EXCEPT !.step = "next", !.todo = Listed]
    /\ ScanOnly

\* boundNativeInvocations asks the wallet for each row: it leaves out those whose
\* check fails, and compares the others with scopes of different moments.
ListInPart ==
    /\ InScan("list")
    /\ live # None
    /\ \E todo \in SUBSET Active : scan' = [scan EXCEPT !.step = "next", !.todo = todo]
    /\ ScanOnly

ListFails ==
    /\ InScan("list")
    /\ Goto("testing")
    /\ ScanOnly

NextRequest ==
    /\ InScan("next")
    /\ ~disposed
    /\ subscribers # {}
    /\ \E r \in scan.todo :
         scan' = [scan EXCEPT !.step = "reading", !.request = r, !.todo = @ \ {r},
                              !.fence = generation]
    /\ ScanOnly

EndPass ==
    /\ InScan("next")
    /\ scan.todo = {} \/ disposed \/ subscribers = {}
    /\ Goto("testing")
    /\ ScanOnly

\* readRecoverableRequest: a saved final is replayed, also of an acknowledged
\* record; an open one may be settled by the wallet's answer.
Read ==
    /\ InScan("reading")
    /\ InScope(scan.request)
    /\ Fenced
    /\ \/ record[scan.request] # "open" /\ UNCHANGED <<record, changed>>
       \/ /\ record[scan.request] = "open"
          /\ record' = [record EXCEPT ![scan.request] = "final"]
          /\ changed' = ~disposed
    /\ Goto("checking")
    /\ UNCHANGED <<wallet, subscriberVars, rescan, disposed>>

\* Pending, unknown, or an error, of this read or of the second list; what the
\* wallet answered may have been saved all the same (Settle).
ReadFails ==
    /\ InScan("reading") \/ InScan("checking")
    /\ Goto("next")
    /\ ScanOnly

\* The list is read again: another tab may have accepted the outcome.
Check ==
    /\ InScan("checking")
    /\ scan' = IF Fenced /\ scan.request \in Listed
               THEN [scan EXCEPT !.step = "offering", !.visited = {}]
               ELSE [scan EXCEPT !.step = "next"]
    /\ ScanOnly

Remaining == subscribers \ scan.visited

Visited(cb) == [scan EXCEPT !.visited = @ \cup {cb}]

Calling(cb) == [Visited(cb) EXCEPT !.step = "calling", !.callback = cb,
                                   !.subscription = subscriptions[cb]]

\* Mutants: what was delivered, whether the client is disposed, or whether the
\* scope changed, is not asked.
OfferAgain(cb) ==
    /\ InScan("offering")
    /\ cb \in Remaining
    /\ scan' = IF disposed \/ ~Fenced THEN Visited(cb) ELSE Calling(cb)
    /\ ScanOnly

OfferAfterDispose(cb) ==
    /\ InScan("offering")
    /\ cb \in Remaining
    /\ scan' = IF scan.request \in delivered[cb] \/ ~Fenced
               THEN Visited(cb) ELSE Calling(cb)
    /\ ScanOnly

OfferUnfenced(cb) ==
    /\ InScan("offering")
    /\ cb \in Remaining
    /\ scan' = IF scan.request \in delivered[cb] \/ disposed
               THEN Visited(cb) ELSE Calling(cb)
    /\ ScanOnly

\* The iteration reaches a subscriber; one that has the outcome is skipped, all
\* are once the scope has changed.
Offer(cb) ==
    /\ InScan("offering")
    /\ cb \in Remaining
    /\ scan' = IF scan.request \in delivered[cb] \/ disposed \/ ~Fenced
               THEN Visited(cb) ELSE Calling(cb)
    /\ ScanOnly

OfferedToAll ==
    /\ InScan("offering")
    /\ Remaining = {}
    /\ Goto("next")
    /\ ScanOnly

\* The iteration holds the delivered set of the subscription it called: it is
\* no longer in the map if the callback subscribed again meanwhile.  If the scope
\* changed meanwhile, the outcome is not marked and will be offered again.
CallbackReturns ==
    LET cb == scan.callback IN
    /\ InScan("calling")
    /\ IF Fenced /\ scan.subscription = subscriptions[cb]
       THEN /\ delivered' = [delivered EXCEPT ![cb] = @ \cup {scan.request}]
            /\ served' = [served EXCEPT ![cb][scan.request] = @ + 1]
       ELSE UNCHANGED <<delivered, served>>
    /\ Goto("offering")
    /\ UNCHANGED <<wallet, record, changed, subscriptions, subscribers, rescan, disposed>>

CallbackThrows ==
    /\ InScan("calling")
    /\ Goto("offering")
    /\ ScanOnly

\* The test of the do-while loop
Test ==
    /\ InScan("testing")
    /\ IF rescan /\ ~disposed
       THEN scan' = Pass /\ rescan' = FALSE
       ELSE Goto("ending") /\ rescan' = rescan
    /\ UNCHANGED <<wallet, record, changed, subscriberVars, disposed>>

\* Mutant: a scan that has ended still counts as running.
EndKeepsRun ==
    /\ InScan("ending")
    /\ scan' = scan
    /\ ScanOnly

\* The finally callback, a later microtask
End ==
    /\ InScan("ending")
    /\ scan' = None
    /\ ScanOnly

ScanStep ==
    \/ List \/ NextRequest \/ EndPass \/ Read \/ Check
    \/ (\E cb \in Callback : Offer(cb)) \/ OfferedToAll
    \/ CallbackReturns \/ Test \/ End

Failure == ListFails \/ ListInPart \/ ReadFails \/ CallbackThrows

Others ==
    \/ \E cb \in Callback : Subscribe(cb) \/ Unsubscribe(cb)
    \/ Dispose
    \/ Announced
    \/ \E scope \in Scope : ChangeScope(scope)
    \/ \E r \in Request : Settle(r) \/ Acknowledge(r)

Next == ScanStep \/ Failure \/ Others \/ Focus

Spec == Init /\ [][Next]_vars

\* The dapp's window gets the focus again and again, every promise the scan
\* awaits is settled, and neither the lists, nor the reads of a request, nor a
\* callback fail for ever.
Fairness ==
    /\ WF_vars(ScanStep \/ Failure)
    /\ SF_vars(List)
    /\ \A r \in Request :
         /\ SF_vars(Read /\ scan.request = r)
         /\ SF_vars(Check /\ scan.request = r)
         /\ \A cb \in Callback :
              SF_vars(CallbackReturns /\ scan.request = r /\ scan.callback = cb)
    /\ WF_vars(Announced)
    /\ WF_vars(Focus)

FairSpec == Spec /\ Fairness

------------------------------------------------------------------------------
(* Properties                                                              *)

\* A subscriber receives each outcome once (docs/mobile-relay.md), however
\* often the scan is woken, other subscribers fail, and subscriptions are
\* renewed while a callback is awaited.
ServedOnce ==
    \A cb \in Callback, r \in Request :
      /\ served[cb][r] <= 1
      /\ cb \in subscribers => (served[cb][r] = 1 <=> r \in delivered[cb])

\* No callback is called that was unsubscribed, nor after dispose, although
\* both may happen while the scan awaits another callback, and a callback may
\* subscribe again after it disposed of the client.
CalledWhileSubscribed ==
    [][ InScan("calling")' /\ ~InScan("calling") =>
          scan'.callback \in subscribers /\ ~disposed ]_vars

\* A native wallet's subscriber is given the outcomes of the account and network
\* that the wallet has then, and only those count as given, although the scope may
\* change, and change back, during each of the awaits between the list and the
\* end of the callback (createNativeRecovery).
DeliveredInScope ==
    [][ /\ InScan("calling")' /\ ~InScan("calling") => InScope(scan'.request)
        /\ \A cb \in Callback :
             \A r \in delivered'[cb] \ delivered[cb] : InScope(r) ]_vars

\* Every retained outcome reaches every subscriber, also the one that comes
\* while a scan is past it or whose callback failed.
EveryoneIsServed ==
    \A cb \in Callback, r \in Request :
      cb \in subscribers /\ record[r] = "final" /\ InScope(r) ~>
        \/ served[cb][r] > 0
        \/ cb \notin subscribers \/ disposed
        \/ record[r] = "acknowledged"
        \/ ~InScope(r)
==============================================================================
