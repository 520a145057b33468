----------------------------- MODULE MobilePairing -----------------------------
(***************************************************************************)
(* Connecting a mobile browser with Infer Wallet: the pairing that a tab   *)
(* creates at the relay, the tabs that wait for its approval, and the tab  *)
(* in which the wallet opens the callback URL.                             *)
(*                                                                         *)
(*   mobileRelay.ts  connectViaMobileRelay, resumeMobileRelaySession,      *)
(*                   waitForPairingOutcome, sessionFromApprovedPairing     *)
(*   mobileReturnCoordinator.ts                                            *)
(*   bridge.ts       the pending pairing, the callback marker              *)
(*   InferClient.ts  connect, coordinateMobileCallbackTab, disconnect      *)
(*                                                                         *)
(* The pending pairing and the session are in localStorage, which the tabs *)
(* share; what a tab owns and its callback marker are in its               *)
(* sessionStorage.  Every await on the network, a timer or a channel is a  *)
(* step boundary.  A session is named by the pairing it came from.  An     *)
(* expired pairing is discarded by whoever reads it next, hence by nobody  *)
(* adopted: it is removed when it expires.  The relay and the wallet are   *)
(* external, modelled as the adapter uses them.                            *)
(***************************************************************************)
CONSTANTS
    None,
    Tab,         \* tabs of the origin
    Pairing,     \* ids the relay gives to pairings
    Operation    \* bound on the waits of all tabs at one time

VARIABLES
    pending,     \* readPendingMobilePairing()
    session,     \* readExternalSession()
    client,      \* per tab, its InferClient
    leaving,     \* tabs with a disconnectOperation
    owned,       \* per tab, OWNED_PAIRING_KEY
    marker,      \* per tab, readCallbackMarker()
    operations,  \* [Operation -> a connectOnce or a callback, or None]
    relay,       \* [Pairing -> its status at the relay]
    ended        \* history: pairings refused, replaced, expired or disconnected

local == <<pending, session, ended>>
tabVars == <<client, leaving, owned, marker>>
vars == <<local, tabVars, operations, relay>>

------------------------------------------------------------------------------
(* Data                                                                    *)

\* "refused" is rejected, expired, cancelled, revoked or failed; a "garbled"
\* approval cannot be decrypted, or has another contract version.
Status == {"none", "pending", "approved", "refused", "garbled"}

Wait ==
    [ tab : Tab,
      kind : {"create", "resume", "callback"},
      step : {"creating", "polling", "last", "probing"},
      pairing : Pairing \cup {None},
      stale : BOOLEAN,      \* its connectionRevision has passed
      answered : BOOLEAN ]  \* another tab answered its probe

TypeOK ==
    /\ pending \in Pairing \cup {None}
    /\ session \in Pairing \cup {None}
    /\ client \in [Tab -> {"closed", "live", "disposed"}]
    /\ leaving \subseteq Tab
    /\ owned \in [Tab -> Pairing \cup {None}]
    /\ marker \in [Tab -> Pairing \cup {None}]
    /\ operations \in [Operation -> Wait \cup {None}]
    /\ \A op \in Operation : operations[op] # None =>
         (operations[op].pairing = None <=> operations[op].step = "creating")
    /\ relay \in [Pairing -> Status]
    /\ ended \subseteq Pairing

ASSUME PairingAssumption == None \notin Pairing \cup Wait

Init ==
    /\ pending = None
    /\ session = None
    /\ client = [tab \in Tab |-> "closed"]
    /\ leaving = {}
    /\ owned = [tab \in Tab |-> None]
    /\ marker = [tab \in Tab |-> None]
    /\ operations = [op \in Operation |-> None]
    /\ relay = [p \in Pairing |-> "none"]
    /\ ended = {}

NewWait(tab, kind, p) ==
    [ tab |-> tab, kind |-> kind, step |-> IF p = None THEN "creating" ELSE "polling",
      pairing |-> p, stale |-> FALSE, answered |-> FALSE ]

In(op, steps) == operations[op] # None /\ operations[op].step \in steps

Of(tab, op) == operations[op] # None /\ operations[op].tab = tab

Final(p) == relay[p] \notin {"none", "pending"}

\* Whatever was pending or stored and is so no more
End(gone) == ended' = ended \cup (gone \ {None})

\* The wait of a connect() call is over.  That of a callback goes on to look
\* for the original tab if the pairing came to an end.
Settle(op, final) ==
    operations' = [operations EXCEPT ![op] =
        IF final /\ @.kind = "callback" /\ client[@.tab] = "live"
        THEN [@ EXCEPT !.step = "probing"] ELSE None]

\* The polling loop clears the callback marker at a final read; after the last
\* read only a resumed pairing that is over does.
ClearMarker(op, over) ==
    marker' = [marker EXCEPT ![operations[op].tab] =
        IF /\ @ = operations[op].pairing
           /\ In(op, {"polling"}) \/ (over /\ operations[op].kind # "create")
        THEN None ELSE @]

------------------------------------------------------------------------------
(* connect()                                                               *)

Unsettled(tab) ==
    \E op \in Operation : /\ Of(tab, op)
                          /\ operations[op].kind # "callback"
                          /\ ~operations[op].stale

\* connectOnce resumes the pending pairing, or returns the stored session, or
\* creates a pairing.
Connect(tab, op) ==
    /\ client[tab] = "live"
    /\ tab \notin leaving
    /\ ~Unsettled(tab)
    /\ operations[op] = None
    /\ pending # None \/ session = None
    /\ operations' = [operations EXCEPT ![op] =
         NewWait(tab, IF pending = None THEN "create" ELSE "resume", pending)]
    /\ UNCHANGED <<local, tabVars, relay>>

\* The relay answered; the new pairing replaces the one of another tab.
Created(op, p) ==
    /\ In(op, {"creating"})
    /\ ~operations[op].stale
    /\ relay[p] = "none"
    /\ relay' = [relay EXCEPT ![p] = "pending"]
    /\ pending' = p
    /\ End({pending})
    /\ owned' = [owned EXCEPT ![operations[op].tab] = p]
    /\ operations' = [operations EXCEPT ![op].pairing = p, ![op].step = "polling"]
    /\ UNCHANGED <<session, client, leaving, marker>>

\* The relay refused or did not answer, or the call was cancelled meanwhile.
CreationFails(op) ==
    /\ In(op, {"creating"})
    /\ Settle(op, FALSE)
    /\ UNCHANGED <<local, tabVars, relay>>

------------------------------------------------------------------------------
(* waitForPairingOutcome: it reads the pairing again and again until the   *)
(* deadline and then once more, so that a suspended tab reads it at least  *)
(* once.  A pairing that is over stays so: the answer is as of its arrival.*)

\* assertCurrent, before and after every read
Superseded(op) ==
    /\ In(op, {"polling"})
    /\ operations[op].stale
    /\ Settle(op, FALSE)
    /\ UNCHANGED <<local, tabVars, relay>>

\* A read is refused for good, or its answer is not about this pairing.
ReadFails(op) ==
    /\ In(op, {"polling"})
    /\ Settle(op, FALSE)
    /\ UNCHANGED <<local, tabVars, relay>>

DeadlinePasses(op) ==
    /\ In(op, {"polling"})
    /\ operations' = [operations EXCEPT ![op].step = "last"]
    /\ UNCHANGED <<local, tabVars, relay>>

\* Mutant: the pairing is given up with the wait.
TimesOutForgetting(op) ==
    /\ In(op, {"last"})
    /\ pending' = None
    /\ Settle(op, TRUE)
    /\ UNCHANGED <<session, ended, tabVars, relay>>

\* The last read fails or finds the pairing pending.  The error has the code
\* of an expired pairing: a callback takes it for the end of the pairing.
TimesOut(op) ==
    /\ In(op, {"last"})
    /\ Settle(op, TRUE)
    /\ UNCHANGED <<local, tabVars, relay>>

\* A read finds the pairing over, and the call was not cancelled.
ReadFinal(op) ==
    /\ In(op, {"polling", "last"})
    /\ ~operations[op].stale
    /\ Final(operations[op].pairing)

\* Mutant: assertPendingPairing is left out.
AdoptAnyway(op) ==
    LET p == operations[op].pairing IN
    /\ ReadFinal(op)
    /\ relay[p] = "approved"
    /\ session' = p
    /\ pending' = None
    /\ End({session, pending} \ {p})
    /\ ClearMarker(op, TRUE)
    /\ Settle(op, TRUE)
    /\ UNCHANGED <<client, leaving, owned, relay>>

\* assertPendingPairing: the pairing is still the pending one ...
Adopt(op) ==
    LET p == operations[op].pairing IN
    /\ ReadFinal(op)
    /\ pending = p
    /\ relay[p] = "approved"
    /\ session' = p
    /\ pending' = None
    /\ End({session})
    /\ ClearMarker(op, TRUE)
    /\ Settle(op, TRUE)
    /\ UNCHANGED <<client, leaving, owned, relay>>

\* ... which a refusal ends, whereas a garbled approval stays to be resumed by
\* all but the call that created it ...
Discard(op) ==
    LET p == operations[op].pairing IN
    /\ ReadFinal(op)
    /\ pending = p
    /\ relay[p] # "approved"
    /\ IF relay[p] = "garbled" /\ operations[op].kind # "create"
       THEN UNCHANGED <<pending, ended>>
       ELSE pending' = None /\ End({p})
    /\ ClearMarker(op, relay[p] = "refused")
    /\ \E final \in {FALSE, relay[p] = "refused"} : Settle(op, final)
    /\ UNCHANGED <<session, client, leaving, owned, relay>>

\* ... or another tab has adopted, replaced or cancelled it, or it has expired.
NotPending(op) ==
    /\ ReadFinal(op)
    /\ pending # operations[op].pairing
    /\ ClearMarker(op, FALSE)
    /\ Settle(op, FALSE)
    /\ UNCHANGED <<local, client, leaving, owned, relay>>

------------------------------------------------------------------------------
(* The callback tab looks for the original tab                             *)

\* ownsInThisTab
Owns(tab, p) ==
    /\ client[tab] = "live"
    /\ owned[tab] = p
    /\ pending = p \/ session # None

\* Mutant: a tab answers its own probe.
AnswersItself(op, tab) ==
    /\ In(op, {"probing"})
    /\ Owns(tab, operations[op].pairing)
    /\ operations' = [operations EXCEPT ![op].answered = TRUE]
    /\ UNCHANGED <<local, tabVars, relay>>

OwnerAnswers(op, tab) ==
    /\ In(op, {"probing"})
    /\ tab # operations[op].tab
    /\ Owns(tab, operations[op].pairing)
    /\ operations' = [operations EXCEPT ![op].answered = TRUE]
    /\ UNCHANGED <<local, tabVars, relay>>

\* The answer arrives, and the page is covered by "Return to the original tab",
\* or the timer of hasLiveOriginalMobileTab is first.
ProbeEnds(op) ==
    /\ In(op, {"probing"})
    /\ operations' = [operations EXCEPT ![op] = None]
    /\ UNCHANGED <<local, tabVars, relay>>

Step(op) ==
    \/ \E p \in Pairing : Created(op, p)
    \/ CreationFails(op) \/ Superseded(op)
    \/ ReadFails(op) \/ DeadlinePasses(op) \/ TimesOut(op)
    \/ Adopt(op) \/ Discard(op) \/ NotPending(op)
    \/ ProbeEnds(op)

------------------------------------------------------------------------------
(* disconnect(), dispose(), tabs                                           *)

\* invalidateConnection: the dapp's call is rejected at once, what it started
\* goes on until it notices.
Invalidated(tab) ==
    [op \in Operation |->
        IF Of(tab, op) /\ operations[op].kind # "callback"
        THEN [operations[op] EXCEPT !.stale = TRUE] ELSE operations[op]]

Disconnect(tab) ==
    /\ client[tab] # "closed"
    /\ tab \notin leaving
    /\ leaving' = leaving \cup {tab}
    /\ operations' = Invalidated(tab)
    /\ UNCHANGED <<local, client, owned, marker, relay>>

\* The relay has answered the revocation or not.
FinishDisconnect(tab) ==
    /\ tab \in leaving
    /\ leaving' = leaving \ {tab}
    /\ session' = None
    /\ pending' = None
    /\ End({session, pending})
    /\ UNCHANGED <<client, owned, marker, operations, relay>>

Dispose(tab) ==
    /\ client[tab] = "live"
    /\ client' = [client EXCEPT ![tab] = "disposed"]
    /\ operations' = Invalidated(tab)
    /\ UNCHANGED <<local, leaving, owned, marker, relay>>

\* A page loads in the tab with callback marker p: coordinateMobileCallbackTab
\* resumes the pairing if it is the pending one.
Load(tab, p) ==
    LET kept == [op \in Operation |-> IF Of(tab, op) THEN None ELSE operations[op]] IN
    /\ client' = [client EXCEPT ![tab] = "live"]
    /\ leaving' = leaving \ {tab}
    /\ marker' = [marker EXCEPT ![tab] = p]
    /\ IF p # None /\ p = pending
       THEN \E op \in Operation :
              /\ kept[op] = None
              /\ operations' = [kept EXCEPT ![op] = NewWait(tab, "callback", p)]
       ELSE operations' = kept
    /\ UNCHANGED <<local, owned, relay>>

Open(tab) == client[tab] = "closed" /\ Load(tab, None)

\* sessionStorage survives a reload.
Reload(tab) == client[tab] # "closed" /\ Load(tab, marker[tab])

\* The wallet opens the callback URL, in a new tab or in one of the origin; of
\* a pairing that is not pending the page only loads.
OpenCallback(tab) == pending # None /\ Final(pending) /\ Load(tab, pending)

CloseTab(tab) ==
    /\ client[tab] # "closed"
    /\ client' = [client EXCEPT ![tab] = "closed"]
    /\ leaving' = leaving \ {tab}
    /\ owned' = [owned EXCEPT ![tab] = None]
    /\ marker' = [marker EXCEPT ![tab] = None]
    /\ operations' = [op \in Operation |-> IF Of(tab, op) THEN None ELSE operations[op]]
    /\ UNCHANGED <<local, relay>>

\* expiresAt of the pending pairing has passed.
Expire ==
    /\ pending # None
    /\ pending' = None
    /\ End({pending})
    /\ UNCHANGED <<session, tabVars, operations, relay>>

\* The wallet or the relay (external) decides; the decision is final.
Decide(p) ==
    /\ relay[p] = "pending"
    /\ \E status \in Status \ {"none", "pending"} : relay' = [relay EXCEPT ![p] = status]
    /\ UNCHANGED <<local, tabVars, operations>>

Next ==
    \/ \E op \in Operation :
         \/ Step(op)
         \/ \E tab \in Tab : Connect(tab, op) \/ OwnerAnswers(op, tab)
    \/ \E tab \in Tab :
         \/ Disconnect(tab) \/ FinishDisconnect(tab) \/ Dispose(tab)
         \/ Open(tab) \/ Reload(tab) \/ OpenCallback(tab) \/ CloseTab(tab)
    \/ \E p \in Pairing : Decide(p)
    \/ Expire

Spec == Init /\ [][Next]_vars

------------------------------------------------------------------------------
(* Properties                                                              *)

\* A pairing that was refused or replaced, has expired or was disconnected never
\* becomes the session again, nor the pending pairing, though several tabs wait
\* for it, read its approval and are cancelled at different times
\* (assertPendingPairing).
EndedIsNotAdopted == session \notin ended /\ pending \notin ended

\* An approval is not lost: whatever waits time out, fail or are cancelled and
\* whichever tab is closed or reloaded, the pairing stays to be resumed by the
\* next connect(), or is the session (waitForPairingOutcome: "The saved pairing
\* remains available for a future retry").
ApprovedIsNotLost ==
    \A p \in Pairing : relay[p] = "approved" => p \in ended \cup {pending, session}

\* "Return to the original tab" never covers the original tab itself, even when
\* the wallet returns to it or it is reloaded with its callback marker: what is
\* answered is the probe of another tab.
OriginalIsNotCovered ==
    \A op \in Operation :
      operations[op] # None /\ operations[op].answered =>
        owned[operations[op].tab] # operations[op].pairing
==============================================================================
