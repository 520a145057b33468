---------------------- MODULE RecoveryCoordinatorProofs ----------------------
(* Whatever wakes, subscribes, fails or is disposed, and in whatever order:  *)
(* a subscription gets each outcome once, for any number of requests,        *)
(* callbacks and subscriptions.                                              *)
EXTENDS RecoveryCoordinator, TLAPS

USE DEF wallet

\* While a callback is awaited, no later one of the same subscription can have
\* delivered its request: what the scan holds may be older than the map, never
\* newer, and if it is the map's the request is not in it yet.
CallIsFresh ==
    InScan("calling") =>
      /\ scan.request \in Request
      /\ scan.callback \in Callback
      /\ scan.subscription <= subscriptions[scan.callback]
      /\ scan.subscription = subscriptions[scan.callback] =>
           scan.request \notin delivered[scan.callback]

\* Between the reading of a request and the offers, the request is known.
ScanIsAt ==
    scan # None /\ scan.step \in {"reading", "checking", "offering"} =>
      scan.request \in Request

\* Stronger than ServedOnce, which does not say what a past subscriber holds:
\* it may be awaited still.
ServedAsDelivered ==
    \A cb \in Callback, r \in Request :
      served[cb][r] = IF r \in delivered[cb] THEN 1 ELSE 0

Inv == TypeOK /\ ScanIsAt /\ CallIsFresh /\ ServedAsDelivered

\* What is read with the current fence is of the wallet's scope.
FenceAgrees ==
    scan # None =>
      /\ scan.fence <= generation
      /\ scan.step \in {"checking", "offering", "calling"} /\ Fenced =>
           InScope(scan.request)

LEMMA PassIsScan == Pass \in Scan /\ Pass.step = "list"
BY DEF Pass, Scan

Step == {"list", "next", "reading", "checking", "offering", "calling", "testing", "ending"}

LEMMA MovedIsScan ==
    ASSUME NEW s \in Scan, NEW step \in Step
    PROVE  LET moved == [s EXCEPT !.step = step] IN
           /\ moved \in Scan /\ moved.step = step
           /\ moved.request = s.request /\ moved.fence = s.fence
BY DEF Scan, Step

LEMMA InitInv == Init => Inv
<1> SUFFICES ASSUME Init PROVE Inv
  OBVIOUS
<1>1. subscriptions \in [Callback -> 0..MaxSubscriptions]
  BY CoordinatorAssumption DEF Init
<1>2. served \in [Callback -> [Request -> Nat]]
  BY DEF Init
<1>3. TypeOK
  <2>1. generation \in 0..MaxGeneration
    BY CoordinatorAssumption DEF Init
  <2> QED
    BY <1>1, <1>2, <2>1 DEF Init, TypeOK
<1>4. ScanIsAt /\ CallIsFresh
  BY DEF Init, ScanIsAt, CallIsFresh, InScan
<1>5. ServedAsDelivered
  BY DEF Init, ServedAsDelivered
<1> QED
  BY <1>3, <1>4, <1>5 DEF Inv

\* A wake starts a pass or leaves the scan where it is.
LEMMA ScheduleKeeps ==
    ASSUME TypeOK, NEW now, Schedule(now)
    PROVE  /\ scan' \in Scan \cup {None} /\ rescan' \in BOOLEAN
           /\ scan' # scan => scan'.step = "list"
<1> QED
  BY PassIsScan DEF TypeOK, Schedule

\* What the steps of the scan do to the scan alone.
LEMMA ScanOnlyKeeps ==
    ASSUME Inv, ScanOnly, scan' \in Scan \cup {None}, ScanIsAt', CallIsFresh'
    PROVE  Inv'
<1> QED
  BY DEF Inv, TypeOK, ScanOnly, subscriberVars, ServedAsDelivered

\* A step that does not call anyone, and does not change what was delivered.
LEMMA QuietKeeps ==
    ASSUME TypeOK, CallIsFresh, UNCHANGED subscriberVars,
           scan' = scan \/ scan' = None \/ scan'.step # "calling"
    PROVE  CallIsFresh'
<1> QED
  BY DEF CallIsFresh, InScan, subscriberVars

------------------------------------------------------------------------------

LEMMA SubscribeInv ==
    ASSUME Inv, NEW cb \in Callback, Subscribe(cb)
    PROVE  Inv'
<1> USE DEF Inv
<1>1. scan' \in Scan \cup {None} /\ rescan' \in BOOLEAN
      /\ (scan' # scan => scan'.step = "list")
  BY ScheduleKeeps DEF Subscribe
<1>2. TypeOK'
  <2>1. subscriptions' \in [Callback -> 0..MaxSubscriptions]
    BY CoordinatorAssumption DEF TypeOK, Subscribe
  <2>2. served' \in [Callback -> [Request -> Nat]]
    BY DEF TypeOK, Subscribe
  <2> QED
    BY <1>1, <2>1, <2>2 DEF TypeOK, Subscribe
<1>3. ScanIsAt'
  BY <1>1 DEF ScanIsAt
<1>4. CallIsFresh'
  <2>1. ASSUME InScan("calling")'
        PROVE  scan' = scan /\ InScan("calling")
    BY <1>1, <2>1 DEF InScan
  <2>2. ASSUME InScan("calling")', scan.callback = cb
        PROVE  scan.subscription <= subscriptions[cb] /\ subscriptions'[cb] = subscriptions[cb] + 1
               /\ scan.subscription \in Nat /\ subscriptions[cb] \in Nat
    BY <2>1, <2>2 DEF CallIsFresh, Subscribe, TypeOK, InScan, Scan
  <2>3. ASSUME InScan("calling")', scan.callback # cb
        PROVE  subscriptions'[scan.callback] = subscriptions[scan.callback]
               /\ delivered'[scan.callback] = delivered[scan.callback]
    BY <2>1, <2>3 DEF CallIsFresh, Subscribe, TypeOK
  <2> QED
    BY <2>1, <2>2, <2>3 DEF CallIsFresh
<1>5. ServedAsDelivered'
  BY DEF ServedAsDelivered, Subscribe, TypeOK
<1> QED
  BY <1>2, <1>3, <1>4, <1>5

LEMMA OthersInv == ASSUME Inv, Others PROVE Inv'
<1> USE DEF Inv
<1>1. ASSUME NEW cb \in Callback, Unsubscribe(cb) PROVE Inv'
  <2>1. scan # None => scan' \in Scan /\ scan'.step = scan.step
          /\ scan'.request = scan.request /\ scan'.callback = scan.callback
          /\ scan'.subscription = scan.subscription
    BY <1>1 DEF Unsubscribe, TypeOK, Scan
  <2>2. TypeOK'
    BY <1>1, <2>1 DEF Unsubscribe, TypeOK
  <2>3. ScanIsAt' /\ CallIsFresh'
    BY <1>1, <2>1 DEF Unsubscribe, ScanIsAt, CallIsFresh, InScan
  <2>4. ServedAsDelivered'
    BY <1>1 DEF Unsubscribe, ServedAsDelivered
  <2> QED
    BY <2>2, <2>3, <2>4
<1>2. ASSUME Dispose PROVE Inv'
  <2>1. scan # None => scan' \in Scan /\ scan'.step = scan.step
          /\ scan'.request = scan.request /\ scan'.callback = scan.callback
          /\ scan'.subscription = scan.subscription
    BY <1>2 DEF Dispose, TypeOK, Scan
  <2>2. TypeOK'
    BY <1>2, <2>1 DEF Dispose, TypeOK
  <2>3. ScanIsAt' /\ CallIsFresh'
    BY <1>2, <2>1 DEF Dispose, ScanIsAt, CallIsFresh, InScan
  <2>4. ServedAsDelivered'
    BY <1>2 DEF Dispose, ServedAsDelivered
  <2> QED
    BY <2>2, <2>3, <2>4
<1>3. ASSUME Wake, changed' \in BOOLEAN PROVE Inv'
  <2>1. scan' \in Scan \cup {None} /\ rescan' \in BOOLEAN
        /\ (scan' # scan => scan'.step = "list")
    BY <1>3, ScheduleKeeps DEF Wake
  <2>2. TypeOK' /\ ScanIsAt' /\ ServedAsDelivered'
    BY <1>3, <2>1 DEF Wake, TypeOK, ScanIsAt, ServedAsDelivered, subscriberVars
  <2>3. CallIsFresh'
    BY <1>3, <2>1, QuietKeeps DEF Wake
  <2> QED
    BY <2>2, <2>3
<1>6. ASSUME NEW scope \in Scope, ChangeScope(scope) PROVE Inv'
  BY <1>6, CoordinatorAssumption DEF ChangeScope, TypeOK, ScanIsAt, CallIsFresh, InScan,
     ServedAsDelivered, clientVars, subscriberVars
<1>4. ASSUME NEW r \in Request, Settle(r) \/ Acknowledge(r) PROVE Inv'
  BY <1>4 DEF Settle, Acknowledge, TypeOK, ScanIsAt, CallIsFresh, InScan,
     ServedAsDelivered, clientVars, subscriberVars
<1>5. ASSUME Announced PROVE Inv'
  BY <1>3, <1>5 DEF Announced
<1> QED
  BY <1>1, <1>2, <1>4, <1>5, <1>6, SubscribeInv DEF Others

------------------------------------------------------------------------------

\* The steps that only move the scan, except Offer.
LEMMA MoveInv ==
    ASSUME Inv, List \/ ListFails \/ ListInPart \/ NextRequest \/ EndPass \/ ReadFails
                \/ Check \/ OfferedToAll \/ CallbackThrows \/ End
    PROVE  Inv'
<1> USE DEF Inv
<1>1. ScanOnly
  BY DEF List, ListFails, ListInPart, NextRequest, EndPass, ReadFails, Check, OfferedToAll,
     CallbackThrows, End
<1>2. scan' \in Scan \cup {None}
  <2>1. CASE List \/ ListInPart
    <3>1. PICK todo \in SUBSET Active : scan' = [scan EXCEPT !.step = "next", !.todo = todo]
      <4>1. Listed \in SUBSET Active
        BY DEF Listed
      <4> QED
        BY <2>1, <4>1 DEF List, ListInPart
    <3>2. [scan EXCEPT !.todo = todo] \in Scan
      BY <2>1 DEF List, ListInPart, InScan, TypeOK, Scan, Active
    <3>3. scan' = [[scan EXCEPT !.todo = todo] EXCEPT !.step = "next"]
      BY <2>1, <3>1 DEF List, ListInPart, InScan, TypeOK, Scan
    <3> QED
      BY <3>2, <3>3, MovedIsScan DEF Step
  <2>2. CASE NextRequest
    <3>1. PICK r \in scan.todo :
            scan' = [scan EXCEPT !.step = "reading", !.request = r, !.todo = @ \ {r},
                                 !.fence = generation]
      BY <2>2 DEF NextRequest
    <3>2. scan \in Scan /\ r \in Request /\ generation \in Nat
      <4>1. scan \in Scan
        BY <2>2 DEF NextRequest, InScan, TypeOK
      <4>2. generation \in Nat
        BY CoordinatorAssumption DEF TypeOK
      <4> QED
        BY <3>1, <4>1, <4>2 DEF Scan
    <3>3. [scan EXCEPT !.request = r] \in Scan
      BY <3>2 DEF Scan
    <3>4. [[scan EXCEPT !.request = r] EXCEPT !.todo = @ \ {r}] \in Scan
      BY <3>3 DEF Scan
    <3>5. [[[scan EXCEPT !.request = r] EXCEPT !.todo = @ \ {r}] EXCEPT !.fence = generation]
            \in Scan
      BY <3>2, <3>4 DEF Scan
    <3>6. scan' = [[[[scan EXCEPT !.request = r] EXCEPT !.todo = @ \ {r}]
                      EXCEPT !.fence = generation] EXCEPT !.step = "reading"]
      BY <3>1, <3>2 DEF Scan
    <3> QED
      BY <3>5, <3>6, MovedIsScan DEF Step
  <2>3. CASE Check
    <3>1. [scan EXCEPT !.visited = {}] \in Scan
      BY <2>3 DEF Check, InScan, TypeOK, Scan
    <3>2. [scan EXCEPT !.step = "offering", !.visited = {}]
            = [[scan EXCEPT !.visited = {}] EXCEPT !.step = "offering"]
      BY <2>3 DEF Check, InScan, TypeOK, Scan
    <3> QED
      BY <2>3, <3>1, <3>2, MovedIsScan DEF Check, InScan, TypeOK, Step
  <2>4. CASE ListFails \/ EndPass \/ ReadFails \/ OfferedToAll \/ CallbackThrows
    <3>1. scan \in Scan
      BY <2>4 DEF ListFails, EndPass, ReadFails, OfferedToAll, CallbackThrows, InScan, TypeOK
    <3>2. \E step \in Step : scan' = [scan EXCEPT !.step = step]
      BY <2>4 DEF ListFails, EndPass, ReadFails, OfferedToAll, CallbackThrows, Goto, Step
    <3> QED
      BY <3>1, <3>2, MovedIsScan
  <2> QED
    BY <2>1, <2>2, <2>3, <2>4 DEF End
<1>3. scan' = None \/ scan'.step # "calling"
  BY DEF TypeOK, List, ListFails, ListInPart, NextRequest, EndPass, ReadFails, Check,
     OfferedToAll, CallbackThrows, End, Goto, InScan, Scan
<1>4. ScanIsAt'
  BY DEF ScanIsAt, CallIsFresh, TypeOK, List, ListFails, ListInPart, NextRequest, EndPass, ReadFails,
     Check, OfferedToAll, CallbackThrows, End, Goto, InScan, Scan
<1>5. CallIsFresh'
  BY <1>1, <1>3, QuietKeeps DEF ScanOnly
<1> QED
  BY <1>1, <1>2, <1>4, <1>5, ScanOnlyKeeps

LEMMA OfferInv ==
    ASSUME Inv, NEW cb \in Callback, Offer(cb)
    PROVE  Inv'
<1> USE DEF Inv
<1>1. CASE scan.request \in delivered[cb] \/ disposed \/ ~Fenced
  <2>1. scan' \in Scan /\ scan'.step = "offering" /\ scan'.request = scan.request
    BY <1>1 DEF Offer, Visited, TypeOK, Scan, InScan
  <2>2. ScanIsAt' /\ CallIsFresh'
    BY <2>1 DEF Offer, ScanIsAt, CallIsFresh, InScan
  <2> QED
    BY <2>1, <2>2, ScanOnlyKeeps DEF Offer
<1>2. CASE scan.request \notin delivered[cb] /\ ~disposed /\ Fenced
  <2>1. scan' = Calling(cb)
    BY <1>2 DEF Offer
  <2>2. Visited(cb) \in Scan /\ Visited(cb).request = scan.request
    BY DEF Offer, Visited, TypeOK, Scan, InScan
  <2>3. /\ scan' \in Scan /\ scan'.step = "calling" /\ scan'.request = scan.request
        /\ scan'.callback = cb /\ scan'.subscription = subscriptions[cb]
    <3> DEFINE v == Visited(cb)
               n == subscriptions[cb]
               w == [v EXCEPT !.callback = cb]
               x == [w EXCEPT !.subscription = n]
    <3>1. n \in Nat
      BY CoordinatorAssumption DEF TypeOK
    <3>2. scan' = [v EXCEPT !.step = "calling", !.callback = cb, !.subscription = n]
      BY <2>1 DEF Calling
    <3>3. v \in Scan /\ v.request = scan.request
      BY <2>2
    <3> HIDE DEF v, n
    <3>4. w \in Scan /\ w.request = v.request /\ w.callback = cb
      BY <3>3 DEF Scan
    <3>5. x \in Scan /\ x.request = v.request /\ x.callback = cb /\ x.subscription = n
      BY <3>1, <3>4 DEF Scan
    <3>6. scan' = [x EXCEPT !.step = "calling"]
      BY <3>2, <3>3 DEF Scan
    <3>7. scan' \in Scan /\ scan'.step = "calling" /\ scan'.request = x.request
          /\ scan'.callback = x.callback /\ scan'.subscription = x.subscription
      BY <3>5, <3>6 DEF Scan
    <3> QED
      BY <3>3, <3>5, <3>7 DEF n
  <2>4. scan.request \in Request
    BY DEF Offer, ScanIsAt, InScan
  <2>5. ScanIsAt' /\ CallIsFresh'
    BY <1>2, <2>3, <2>4 DEF ScanIsAt, CallIsFresh, Offer, ScanOnly, subscriberVars, TypeOK
  <2> QED
    BY <2>3, <2>5, ScanOnlyKeeps DEF Offer
<1> QED
  BY <1>1, <1>2

LEMMA CallbackReturnsInv == ASSUME Inv, CallbackReturns PROVE Inv'
<1> USE DEF Inv
<1> DEFINE cb == scan.callback
           r == scan.request
<1>1. cb \in Callback /\ r \in Request
  BY DEF CallbackReturns, CallIsFresh
<1>2. scan' \in Scan /\ scan'.step = "offering" /\ scan'.request = r
  BY DEF CallbackReturns, Goto, TypeOK, Scan, InScan
<1>3. ScanIsAt' /\ CallIsFresh'
  BY <1>1, <1>2 DEF ScanIsAt, CallIsFresh, InScan
<1>4. CASE Fenced /\ scan.subscription = subscriptions[cb]
  <2>1. r \notin delivered[cb]
    BY <1>4 DEF CallbackReturns, CallIsFresh
  <2>2. served[cb][r] = 0
    BY <1>1, <2>1 DEF ServedAsDelivered
  <2>3. /\ delivered' = [delivered EXCEPT ![cb] = @ \cup {r}]
        /\ served' = [served EXCEPT ![cb][r] = @ + 1]
    BY <1>4 DEF CallbackReturns
  <2>4. delivered' \in [Callback -> SUBSET Request] /\ served' \in [Callback -> [Request -> Nat]]
    BY <1>1, <2>3 DEF TypeOK
  <2>5. ServedAsDelivered'
    BY <1>1, <2>2, <2>3 DEF ServedAsDelivered, TypeOK
  <2> QED
    BY <1>2, <1>3, <2>4, <2>5 DEF CallbackReturns, TypeOK
<1>5. CASE ~(Fenced /\ scan.subscription = subscriptions[cb])
  BY <1>2, <1>3, <1>5 DEF CallbackReturns, TypeOK, ServedAsDelivered
<1> QED
  BY <1>4, <1>5

LEMMA NextInv == ASSUME Inv, [Next]_vars PROVE Inv'
<1>1. CASE Others
  BY <1>1, OthersInv
<1>2. CASE Focus
  <2>1. Wake /\ changed' \in BOOLEAN
    BY <1>2 DEF Focus, Inv, TypeOK
  <2>2. scan' \in Scan \cup {None} /\ rescan' \in BOOLEAN
        /\ (scan' # scan => scan'.step = "list")
    BY <2>1, ScheduleKeeps DEF Wake, Inv
  <2>3. TypeOK' /\ ScanIsAt' /\ ServedAsDelivered'
    BY <2>1, <2>2 DEF Inv, Wake, TypeOK, ScanIsAt, ServedAsDelivered, subscriberVars
  <2>4. CallIsFresh'
    BY <2>1, <2>2, QuietKeeps DEF Wake, Inv
  <2> QED
    BY <2>3, <2>4 DEF Inv
<1>3. CASE Read
  <2>1. scan' \in Scan /\ scan'.step = "checking" /\ scan'.request = scan.request
    BY <1>3 DEF Inv, Read, Goto, TypeOK, Scan, InScan
  <2>2. TypeOK' /\ ServedAsDelivered'
    BY <1>3, <2>1 DEF Inv, Read, TypeOK, ServedAsDelivered, subscriberVars
  <2>3. ScanIsAt' /\ CallIsFresh'
    BY <1>3, <2>1 DEF Inv, Read, ScanIsAt, CallIsFresh, InScan
  <2> QED
    BY <2>2, <2>3 DEF Inv
<1>4. CASE Test
  <2>1. scan' \in Scan /\ scan'.step \in {"list", "ending"} /\ rescan' \in BOOLEAN
    <3>1. scan \in Scan
      BY <1>4 DEF Inv, Test, TypeOK, InScan
    <3>2. [scan EXCEPT !.step = "ending"] \in Scan /\ [scan EXCEPT !.step = "ending"].step = "ending"
      BY <3>1, MovedIsScan DEF Step
    <3> QED
      BY <1>4, <3>2, PassIsScan DEF Inv, Test, Goto, TypeOK
  <2> QED
    BY <1>4, <2>1 DEF Inv, Test, TypeOK, ScanIsAt, CallIsFresh, InScan,
       ServedAsDelivered, subscriberVars
<1>5. CASE UNCHANGED vars
  BY <1>5 DEF Inv, vars, clientVars, subscriberVars, TypeOK, ScanIsAt, CallIsFresh,
     InScan, ServedAsDelivered
<1> QED
  BY <1>1, <1>2, <1>3, <1>4, <1>5, MoveInv, OfferInv, CallbackReturnsInv
  DEF Next, ScanStep, Failure

\* The fence is captured before the read and can only fall behind.
LEMMA FenceInv == ASSUME Inv, FenceAgrees, [Next]_vars PROVE FenceAgrees'
<1> USE DEF Inv
<1>1. generation \in Nat
  BY CoordinatorAssumption DEF TypeOK
<1>2. CASE UNCHANGED <<wallet, scan>>
  BY <1>2 DEF FenceAgrees, Fenced, InScope
<1>3. ASSUME NEW scope \in Scope, ChangeScope(scope) PROVE FenceAgrees'
  <2>1. scan' = scan /\ generation' = generation + 1
    BY <1>3 DEF ChangeScope, clientVars
  <2>2. scan # None => scan.fence \in Nat
    BY DEF TypeOK, Scan
  <2> QED
    BY <1>1, <2>1, <2>2 DEF FenceAgrees, Fenced
<1>4. ASSUME UNCHANGED wallet, scan' # scan => scan' = Pass
      PROVE  FenceAgrees'
  BY <1>1, <1>2, <1>4 DEF Pass, FenceAgrees
<1>5. ASSUME UNCHANGED wallet,
             scan' # None =>
               /\ scan # None
               /\ scan'.fence = scan.fence /\ scan'.request = scan.request
               /\ scan'.step \in {"checking", "offering", "calling"} =>
                    \/ scan.step \in {"checking", "offering", "calling"}
                    \/ InScope(scan.request)
      PROVE  FenceAgrees'
  BY <1>5 DEF FenceAgrees, Fenced, InScope
<1>6. ASSUME Wake, UNCHANGED wallet PROVE FenceAgrees'
  BY <1>4, <1>6 DEF Wake, Schedule
<1>7. ASSUME NEW cb \in Callback, Subscribe(cb) PROVE FenceAgrees'
  BY <1>4, <1>7 DEF Subscribe, Schedule
<1>8. ASSUME Dispose \/ \E cb \in Callback : Unsubscribe(cb) PROVE FenceAgrees'
  <2>1. scan # None => scan \in Scan
    BY DEF TypeOK
  <2> QED
    BY <1>5, <1>8, <2>1 DEF Dispose, Unsubscribe, Scan
<1>9. ASSUME NextRequest PROVE FenceAgrees'
  <2>1. scan \in Scan
    BY <1>9 DEF NextRequest, InScan, TypeOK
  <2>2. scan'.fence = generation /\ scan'.step = "reading"
    BY <1>9, <2>1 DEF NextRequest, Scan
  <2> QED
    BY <1>1, <1>9, <2>2 DEF NextRequest, ScanOnly, FenceAgrees
<1>10. ASSUME NEW cb \in Callback, Offer(cb) PROVE FenceAgrees'
  <2>1. scan \in Scan /\ scan.step = "offering" /\ scan # None
    BY <1>10 DEF Offer, InScan, TypeOK
  <2>2. /\ Visited(cb).fence = scan.fence /\ Visited(cb).request = scan.request
        /\ Calling(cb).fence = scan.fence /\ Calling(cb).request = scan.request
    BY <2>1 DEF Visited, Calling, Scan
  <2>3. scan' \in {Visited(cb), Calling(cb)}
    BY <1>10 DEF Offer
  <2> QED
    BY <1>5, <1>10, <2>1, <2>2, <2>3 DEF Offer, ScanOnly
<1>11. ASSUME \/ List \/ ListFails \/ ListInPart \/ EndPass \/ Read \/ ReadFails \/ Check
              \/ OfferedToAll \/ CallbackReturns \/ CallbackThrows
       PROVE  FenceAgrees'
  <2>1. scan \in Scan /\ scan # None
    BY <1>11 DEF List, ListFails, ListInPart, EndPass, Read, ReadFails, Check, OfferedToAll,
       CallbackReturns, CallbackThrows, InScan, TypeOK
  <2>2. /\ scan'.fence = scan.fence /\ scan'.request = scan.request
        /\ scan'.step \in {"checking", "offering", "calling"} =>
             \/ scan.step \in {"checking", "offering", "calling"}
             \/ InScope(scan.request)
    BY <1>11, <2>1 DEF List, ListFails, ListInPart, EndPass, Read, ReadFails, Check,
       OfferedToAll, CallbackReturns, CallbackThrows, Goto, InScan, Scan
  <2>3. UNCHANGED wallet
    BY <1>11 DEF List, ListFails, ListInPart, EndPass, Read, ReadFails, Check,
       OfferedToAll, CallbackReturns, CallbackThrows, ScanOnly
  <2> QED
    BY <1>5, <2>1, <2>2, <2>3
<1>12. ASSUME Test \/ End PROVE FenceAgrees'
  <2>1. CASE scan' = Pass \/ scan' = None
    BY <1>4, <1>12, <2>1 DEF Test, End, ScanOnly, FenceAgrees
  <2>2. CASE Test /\ Goto("ending")
    <3>1. scan \in Scan /\ scan # None
      BY <2>2 DEF Test, InScan, TypeOK
    <3>2. /\ scan'.fence = scan.fence /\ scan'.request = scan.request
          /\ scan'.step = "ending"
      BY <2>2, <3>1 DEF Goto, Scan
    <3> QED
      BY <1>5, <2>2, <3>1, <3>2 DEF Test
  <2> QED
    BY <1>12, <2>1, <2>2 DEF Test, End
<1>13. ASSUME NEW r \in Request, Settle(r) \/ Acknowledge(r) PROVE FenceAgrees'
  BY <1>2, <1>13 DEF Settle, Acknowledge, clientVars
<1>14. CASE UNCHANGED vars
  BY <1>2, <1>14 DEF vars, clientVars
<1> QED
  BY <1>3, <1>6, <1>7, <1>8, <1>9, <1>10, <1>11, <1>12, <1>13, <1>14
  DEF Next, ScanStep, Failure, Others, Announced, Focus, Wake

LEMMA Invariance == Spec => [](Inv /\ FenceAgrees)
<1>1. Init => FenceAgrees
  BY DEF Init, FenceAgrees
<1> QED
  BY <1>1, InitInv, NextInv, FenceInv, PTL DEF Spec

------------------------------------------------------------------------------

\* The variables of the coordinator keep their types.
THEOREM TypeCorrect == Spec => []TypeOK
<1>1. Inv => TypeOK
  BY DEF Inv
<1> QED
  BY <1>1, Invariance, PTL

\* A subscription is given each retained outcome once, however often the scan is
\* woken, callbacks fail, and subscriptions are renewed while one is awaited
\* (reconcileRecoverableRequests, subscribeRecoveredOutcomes).
THEOREM EachOutcomeOnce == Spec => []ServedOnce
<1>1. Inv => ServedOnce
  BY DEF Inv, ServedOnce, ServedAsDelivered
<1> QED
  BY <1>1, Invariance, PTL

\* Only Offer begins to call anyone.
LEMMA OnlyOfferCalls ==
    ASSUME Inv, Next, InScan("calling")', ~InScan("calling")
    PROVE  \E cb \in Callback : Offer(cb)
<1>2. scan' # scan
  BY DEF InScan
<1>3. ~\E cb \in Callback : Subscribe(cb)
  BY <1>2, ScheduleKeeps DEF Inv, Subscribe, InScan
<1>4. ~(Announced \/ Focus)
  BY <1>2, ScheduleKeeps DEF Inv, Announced, Focus, Wake, InScan
<1>5. ~(Dispose \/ \E cb \in Callback : Unsubscribe(cb))
  BY DEF Inv, TypeOK, Dispose, Unsubscribe, InScan, Scan
<1>6. ~(\/ \E r \in Request : Settle(r) \/ Acknowledge(r)
        \/ \E scope \in Scope : ChangeScope(scope))
  BY <1>2 DEF Settle, Acknowledge, ChangeScope, clientVars
<1>7. ~(\/ List \/ ListFails \/ ListInPart \/ NextRequest \/ EndPass \/ Read \/ ReadFails
        \/ Check \/ OfferedToAll \/ CallbackReturns \/ CallbackThrows \/ Test \/ End)
  BY PassIsScan DEF Inv, TypeOK, List, ListFails, ListInPart, NextRequest, EndPass, Read,
     ReadFails, Check, OfferedToAll, CallbackReturns, CallbackThrows, Test, End,
     Goto, InScan, Scan
<1> QED
  BY <1>3, <1>4, <1>5, <1>6, <1>7 DEF Next, ScanStep, Failure, Others

\* Nobody is called after unsubscribing or after dispose.
THEOREM OnlySubscribersAreCalled == Spec => CalledWhileSubscribed
<1>1. ASSUME Inv, Next, InScan("calling")', ~InScan("calling")
      PROVE  scan'.callback \in subscribers /\ ~disposed
  <2>1. PICK cb \in Callback : Offer(cb)
    BY <1>1, OnlyOfferCalls
  <2>2. scan \in Scan /\ scan.step = "offering"
    BY <1>1, <2>1 DEF Inv, TypeOK, Offer, InScan
  <2>3. cb \in subscribers
    BY <2>1 DEF Offer, Remaining
  <2>4. Visited(cb).step # "calling" /\ Calling(cb).callback = cb
    BY <2>2 DEF Visited, Calling, Scan
  <2>5. scan' = Calling(cb) /\ ~disposed
    BY <1>1, <2>1, <2>4 DEF Offer, InScan
  <2> QED
    BY <2>3, <2>4, <2>5
<1>2. ASSUME Inv, [Next]_vars
      PROVE  [InScan("calling")' /\ ~InScan("calling") =>
                scan'.callback \in subscribers /\ ~disposed]_vars
  BY <1>1, <1>2
<1> QED
  BY <1>2, Invariance, PTL DEF Spec, CalledWhileSubscribed

\* What a subscriber of a native wallet is given is of the account and network the
\* wallet has then (reconcileRecoverableRequests, nativeFence).
THEOREM GivenInScope == Spec => DeliveredInScope
<1>1. ASSUME Inv, FenceAgrees, Next, InScan("calling")', ~InScan("calling")
      PROVE  InScope(scan'.request)
  <2>1. PICK cb \in Callback : Offer(cb)
    BY <1>1, OnlyOfferCalls
  <2>2. scan \in Scan /\ scan # None /\ scan.step = "offering"
    BY <1>1, <2>1 DEF Inv, TypeOK, Offer, InScan
  <2>3. scan' = Calling(cb) /\ Fenced
    BY <1>1, <2>1, <2>2 DEF Offer, InScan, Visited, Scan
  <2>4. scan'.request = scan.request
    BY <2>2, <2>3 DEF Calling, Visited, Scan
  <2> QED
    BY <1>1, <2>2, <2>3, <2>4 DEF FenceAgrees
<1>2. ASSUME Inv, FenceAgrees, Next, NEW cb \in Callback,
             NEW r \in delivered'[cb] \ delivered[cb]
      PROVE  InScope(r)
  <2>1. delivered' # delivered
    OBVIOUS
  <2>2. CASE CallbackReturns
    <3>1. scan # None /\ scan.step = "calling" /\ Fenced /\ r = scan.request
      BY <1>2, <2>1, <2>2 DEF CallbackReturns, InScan, Inv, TypeOK
    <3> QED
      BY <1>2, <3>1 DEF FenceAgrees
  <2>3. CASE \E other \in Callback : Subscribe(other)
    BY <1>2, <2>3 DEF Subscribe, Inv, TypeOK
  <2>4. CASE ~CallbackReturns /\ ~\E other \in Callback : Subscribe(other)
    BY <1>2, <2>1, <2>4 DEF Next, ScanStep, Failure, Others, Unsubscribe, Dispose, Announced,
       Focus, Wake, ChangeScope, Settle, Acknowledge, clientVars, List, NextRequest, EndPass,
       Read, Check, Offer, OfferedToAll, Test, End, ListFails, ListInPart, ReadFails,
       CallbackThrows, ScanOnly, subscriberVars
  <2> QED
    BY <2>2, <2>3, <2>4
<1>3. ASSUME Inv, FenceAgrees, [Next]_vars
      PROVE  [ /\ InScan("calling")' /\ ~InScan("calling") => InScope(scan'.request)
               /\ \A cb \in Callback :
                    \A r \in delivered'[cb] \ delivered[cb] : InScope(r) ]_vars
  BY <1>1, <1>2, <1>3
<1> QED
  BY <1>3, Invariance, PTL DEF Spec, DeliveredInScope
==============================================================================
