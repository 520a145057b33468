-------------------------- MODULE MobilePairingProofs --------------------------
(* The safety of MobilePairing for any number of tabs, pairings and waits.    *)
(* Each of its properties needs the same three facts: a pairing that the      *)
(* relay has not created is known to nobody, one that it has created is kept  *)
(* somewhere, and no two tabs own the same pairing.                           *)
EXTENDS MobilePairing, TLAPS

\* What the relay has not created is in no storage, owned by no tab and awaited
\* by nobody.
UncreatedIsUnknown ==
    \A p \in Pairing : relay[p] = "none" =>
      /\ p \notin ended \cup {pending, session}
      /\ \A tab \in Tab : owned[tab] # p
      /\ \A op \in Operation : operations[op] # None => operations[op].pairing # p

\* The pairing that is pending is not the one the session came from.
PendingIsNew == pending # None => pending # session

\* Stronger than ApprovedIsNotLost: the approval may come later.
CreatedIsKept ==
    \A p \in Pairing : relay[p] # "none" => p \in ended \cup {pending, session}

OwnedByOne ==
    \A tab, other \in Tab : owned[tab] # None /\ owned[tab] = owned[other] => tab = other

AnsweredAreProbing ==
    \A op \in Operation :
      operations[op] # None /\ operations[op].answered => operations[op].step = "probing"

StorageInv == EndedIsNotAdopted /\ PendingIsNew /\ CreatedIsKept

TabInv == OwnedByOne /\ AnsweredAreProbing /\ OriginalIsNotCovered

Inv == TypeOK /\ UncreatedIsUnknown /\ StorageInv /\ TabInv

------------------------------------------------------------------------------
(* What the steps share                                                    *)

NoneIsNone == None \notin Pairing /\ None \notin Wait

LEMMA Absent == NoneIsNone
BY PairingAssumption DEF NoneIsNone

\* Each wait was there before, with its tab, pairing and answer, or is a new one
\* for the pending pairing or for one still to be created.
WaitsAreKnown ==
    /\ operations' \in [Operation -> Wait \cup {None}]
    /\ \A op \in Operation : operations'[op] # None =>
         /\ operations'[op].pairing = None <=> operations'[op].step = "creating"
         /\ \/ /\ operations[op] # None
               /\ operations'[op].tab = operations[op].tab
               /\ operations'[op].pairing = operations[op].pairing
               /\ operations'[op].answered =>
                    operations[op].answered /\ operations'[op].step = operations[op].step
            \/ operations'[op].pairing \in {pending, None} /\ ~operations'[op].answered

\* The tabs own what they owned, or less.
OwnedShrinks ==
    /\ owned' \in [Tab -> Pairing \cup {None}]
    /\ \A tab \in Tab : owned'[tab] \in {owned[tab], None}

OtherTypes ==
    /\ client' \in [Tab -> {"closed", "live", "disposed"}]
    /\ leaving' \subseteq Tab
    /\ marker' \in [Tab -> Pairing \cup {None}]

\* The storage moves what it holds and takes in nothing the relay has not made.
StorageMoves ==
    /\ pending' \in {pending, None}
    /\ session' \in {session, pending, None}
    /\ ended' \subseteq ended \cup ({session, pending} \ {None})
    /\ relay' \in [Pairing -> Status]
    /\ \A p \in Pairing : relay'[p] = "none" <=> relay[p] = "none"

LEMMA MovesKeepUnknown ==
    ASSUME Inv, WaitsAreKnown, OwnedShrinks, StorageMoves
    PROVE  UncreatedIsUnknown'
<1> SUFFICES ASSUME NEW p \in Pairing, relay'[p] = "none"
             PROVE  /\ p \notin ended' \cup {pending', session'}
                    /\ \A tab \in Tab : owned'[tab] # p
                    /\ \A op \in Operation :
                         operations'[op] # None => operations'[op].pairing # p
  BY DEF UncreatedIsUnknown
<1>1. /\ relay[p] = "none" /\ p # None
      /\ p \notin ended \cup {pending, session}
      /\ \A tab \in Tab : owned[tab] # p
      /\ \A op \in Operation : operations[op] # None => operations[op].pairing # p
  BY Absent DEF Inv, StorageMoves, UncreatedIsUnknown, NoneIsNone
<1>2. p \notin ended' \cup {pending', session'}
  BY <1>1 DEF StorageMoves
<1>3. \A tab \in Tab : owned'[tab] # p
  BY <1>1 DEF OwnedShrinks
<1>4. \A op \in Operation : operations'[op] # None => operations'[op].pairing # p
  BY <1>1 DEF WaitsAreKnown
<1> QED
  BY <1>2, <1>3, <1>4

LEMMA KnownWaitsKeepTabs ==
    ASSUME Inv, WaitsAreKnown, OwnedShrinks
    PROVE  TabInv'
<1>1. OwnedByOne'
  BY DEF Inv, TabInv, OwnedByOne, OwnedShrinks
<1>2. AnsweredAreProbing'
  BY DEF Inv, TabInv, AnsweredAreProbing, WaitsAreKnown
<1>3. ASSUME NEW op \in Operation, operations'[op] # None, operations'[op].answered
      PROVE  owned'[operations'[op].tab] # operations'[op].pairing
  <2>1. operations[op] # None /\ operations[op].answered
    BY <1>3 DEF WaitsAreKnown
  <2>2. /\ operations'[op].tab = operations[op].tab
        /\ operations'[op].pairing = operations[op].pairing
    BY <1>3 DEF WaitsAreKnown
  <2>3. owned[operations[op].tab] # operations[op].pairing
    BY <2>1 DEF Inv, TabInv, OriginalIsNotCovered
  <2>4. operations'[op].step = "probing"
    BY <1>2, <1>3 DEF AnsweredAreProbing
  <2>5. operations'[op].pairing # None
    BY <1>3, <2>4 DEF WaitsAreKnown
  <2>6. operations'[op].tab \in Tab
    BY <1>3 DEF WaitsAreKnown, Wait
  <2> QED
    BY <2>2, <2>3, <2>5, <2>6 DEF OwnedShrinks
<1> QED
  BY <1>1, <1>2, <1>3 DEF TabInv, OriginalIsNotCovered

\* Every step but the creation of a pairing and the answer to a probe: waits
\* begin, go on and end, tabs come and go, and the storage moves what it holds.
LEMMA MovesKeep ==
    ASSUME Inv, WaitsAreKnown, OwnedShrinks, OtherTypes, StorageMoves, StorageInv'
    PROVE  Inv'
<1>1. TypeOK'
  BY DEF Inv, TypeOK, WaitsAreKnown, OwnedShrinks, OtherTypes, StorageMoves
<1> QED
  BY <1>1, MovesKeepUnknown, KnownWaitsKeepTabs DEF Inv

\* ... or does not move at all.
LEMMA QuietKeeps ==
    ASSUME Inv, WaitsAreKnown, OwnedShrinks, OtherTypes, UNCHANGED local,
           relay' \in [Pairing -> Status],
           \A p \in Pairing : relay'[p] = "none" <=> relay[p] = "none"
    PROVE  Inv'
<1>1. StorageMoves
  BY DEF StorageMoves, local
<1>2. EndedIsNotAdopted' /\ PendingIsNew'
  BY DEF Inv, StorageInv, EndedIsNotAdopted, PendingIsNew, local
<1>3. CreatedIsKept'
  BY DEF Inv, StorageInv, CreatedIsKept, local
<1> QED
  BY <1>1, <1>2, <1>3, MovesKeep DEF StorageInv

------------------------------------------------------------------------------
(* What a step does to the waits                                           *)

LEMMA SameWaits ==
    ASSUME Inv, UNCHANGED operations
    PROVE  WaitsAreKnown
BY DEF Inv, TypeOK, WaitsAreKnown

\* The one wait that a step ends, moves or begins.
LEMMA OneWait ==
    ASSUME Inv, NEW op \in Operation, NEW wait \in Wait \cup {None},
           operations' = [operations EXCEPT ![op] = wait],
           wait # None =>
             /\ wait.pairing = None <=> wait.step = "creating"
             /\ \/ /\ operations[op] # None
                   /\ wait.tab = operations[op].tab
                   /\ wait.pairing = operations[op].pairing
                   /\ ~wait.answered
                \/ wait.pairing \in {pending, None} /\ ~wait.answered
    PROVE  WaitsAreKnown
BY DEF Inv, TypeOK, WaitsAreKnown

\* Waits end with their tab, or notice later that they were superseded.
LEMMA FewerWaits ==
    ASSUME Inv, operations' \in [Operation -> Wait \cup {None}],
           \A op \in Operation : operations'[op] # None =>
             /\ operations[op] # None
             /\ operations'[op] = [operations[op] EXCEPT !.stale = operations'[op].stale]
    PROVE  WaitsAreKnown
<1> SUFFICES ASSUME NEW op \in Operation, operations'[op] # None
             PROVE  /\ operations'[op].pairing = None <=> operations'[op].step = "creating"
                    /\ operations[op] # None
                    /\ operations'[op].tab = operations[op].tab
                    /\ operations'[op].pairing = operations[op].pairing
                    /\ operations'[op].step = operations[op].step
                    /\ operations'[op].answered = operations[op].answered
  BY DEF WaitsAreKnown
<1>1. operations[op] \in Wait
  BY DEF Inv, TypeOK
<1>2. operations[op].pairing = None <=> operations[op].step = "creating"
  BY DEF Inv, TypeOK
<1> QED
  BY <1>1, <1>2 DEF Wait

\* The wait that takes a step is at its place and unanswered.
LEMMA InIsWait ==
    ASSUME Inv, NEW op \in Operation, NEW steps \in SUBSET {"creating", "polling", "last"},
           In(op, steps)
    PROVE  /\ operations[op] \in Wait
           /\ operations[op] # None
           /\ operations[op].step \in steps
           /\ ~operations[op].answered
           /\ operations[op].pairing = None <=> operations[op].step = "creating"
<1>1. operations[op] \in Wait /\ operations[op] # None /\ operations[op].step \in steps
  BY DEF Inv, TypeOK, In
<1>2. ~operations[op].answered
  BY <1>1 DEF Inv, TabInv, AnsweredAreProbing
<1> QED
  BY <1>1, <1>2 DEF Inv, TypeOK

LEMMA SettledWaits ==
    ASSUME Inv, NEW op \in Operation, NEW final \in BOOLEAN, Settle(op, final),
           In(op, {"polling", "last"}) \/ (In(op, {"creating"}) /\ ~final)
    PROVE  WaitsAreKnown
<1>1. /\ operations[op] \in Wait /\ operations[op] # None
      /\ ~operations[op].answered
      /\ final => operations[op].pairing # None
  BY InIsWait
<1> DEFINE probing == [operations[op] EXCEPT !.step = "probing"]
<1>2. /\ probing \in Wait
      /\ probing.tab = operations[op].tab
      /\ probing.pairing = operations[op].pairing
      /\ probing.step = "probing"
      /\ ~probing.answered
  BY <1>1 DEF Wait
<1> HIDE DEF probing
<1>3. CASE operations' = [operations EXCEPT ![op] = None]
  BY <1>3, OneWait
<1>4. CASE operations' = [operations EXCEPT ![op] = probing] /\ final
  BY <1>1, <1>2, <1>4, OneWait
<1> QED
  BY <1>3, <1>4 DEF Settle, probing

LEMMA NewWaitIsWait ==
    ASSUME TypeOK, NEW tab \in Tab, NEW kind \in {"create", "resume", "callback"},
           NEW p \in Pairing \cup {None}
    PROVE  LET wait == NewWait(tab, kind, p) IN
           /\ wait \in Wait
           /\ wait.pairing = p
           /\ wait.pairing = None <=> wait.step = "creating"
           /\ ~wait.answered
BY DEF NewWait, Wait

LEMMA MarkerType ==
    ASSUME Inv, NEW op \in Operation, NEW over, ClearMarker(op, over)
    PROVE  marker' \in [Tab -> Pairing \cup {None}]
BY DEF Inv, TypeOK, ClearMarker

LEMMA SameOwned ==
    ASSUME Inv, UNCHANGED owned
    PROVE  OwnedShrinks
BY DEF Inv, TypeOK, OwnedShrinks

------------------------------------------------------------------------------
(* The initial state and the steps                                         *)

LEMMA InitInv == Init => Inv
<1> SUFFICES ASSUME Init PROVE Inv
  OBVIOUS
<1>1. TypeOK
  BY DEF Init, TypeOK, Status
<1>2. UncreatedIsUnknown
  BY Absent DEF Init, UncreatedIsUnknown, NoneIsNone
<1>3. StorageInv
  BY DEF Init, StorageInv, EndedIsNotAdopted, PendingIsNew, CreatedIsKept
<1>4. TabInv
  BY DEF Init, TabInv, OwnedByOne, AnsweredAreProbing, OriginalIsNotCovered
<1> QED
  BY <1>1, <1>2, <1>3, <1>4 DEF Inv

LEMMA ConnectKeeps ==
    ASSUME Inv, NEW tab \in Tab, NEW op \in Operation, Connect(tab, op)
    PROVE  Inv'
<1> DEFINE kind == IF pending = None THEN "create" ELSE "resume"
<1>1. pending \in Pairing \cup {None}
  BY DEF Inv, TypeOK
<1>2. operations' = [operations EXCEPT ![op] = NewWait(tab, kind, pending)]
  BY DEF Connect
<1>3. WaitsAreKnown
  <2>1. /\ NewWait(tab, kind, pending) \in Wait
        /\ NewWait(tab, kind, pending).pairing = pending
        /\ NewWait(tab, kind, pending).pairing = None
             <=> NewWait(tab, kind, pending).step = "creating"
        /\ ~NewWait(tab, kind, pending).answered
    BY <1>1, NewWaitIsWait DEF Inv
  <2> QED
    BY <1>2, <2>1, OneWait
<1>4. OtherTypes /\ relay' \in [Pairing -> Status]
  BY DEF Connect, tabVars, Inv, TypeOK, OtherTypes
<1> QED
  BY <1>3, <1>4, SameOwned, QuietKeeps DEF Connect, tabVars

\* The new pairing was unknown, so that it can be neither ended nor stored nor
\* owned, and no wait for it answered.
LEMMA CreatedKeeps ==
    ASSUME Inv, NEW op \in Operation, NEW p \in Pairing, Created(op, p)
    PROVE  Inv'
<1> DEFINE wait == [operations[op] EXCEPT !.pairing = p, !.step = "polling"]
           tab == operations[op].tab
<1>1. /\ operations[op] \in Wait /\ operations[op] # None
      /\ ~operations[op].answered /\ operations[op].step = "creating"
  BY InIsWait DEF Created
<1>2. /\ p # None /\ p \notin ended \cup {pending, session}
      /\ \A other \in Tab : owned[other] # p
      /\ \A other \in Operation : operations[other] # None => operations[other].pairing # p
  BY Absent DEF Created, Inv, UncreatedIsUnknown, NoneIsNone
<1>3. /\ wait \in Wait /\ wait # None /\ wait.pairing = p /\ wait.step = "polling"
      /\ ~wait.answered /\ wait.tab = tab /\ tab \in Tab
  BY <1>1, Absent DEF Wait, NoneIsNone
<1>4. operations' = [operations EXCEPT ![op] = wait]
  BY DEF Created, Inv, TypeOK
<1> HIDE DEF wait
<1>5. /\ relay' = [relay EXCEPT ![p] = "pending"]
      /\ pending' = p /\ ended' = ended \cup ({pending} \ {None})
      /\ owned' = [owned EXCEPT ![tab] = p]
      /\ UNCHANGED <<session, client, leaving, marker>>
  BY DEF Created, End
<1> HIDE DEF tab
<1>6. TypeOK'
  <2>1. \A other \in Operation : operations'[other] # None =>
          (operations'[other].pairing = None <=> operations'[other].step = "creating")
    BY <1>2, <1>3, <1>4 DEF Inv, TypeOK
  <2> QED
    BY <1>3, <1>4, <1>5, <2>1 DEF Inv, TypeOK, Status
<1>7. UncreatedIsUnknown'
  <2> SUFFICES ASSUME NEW q \in Pairing, relay'[q] = "none"
               PROVE  /\ q \notin ended' \cup {pending', session'}
                      /\ \A other \in Tab : owned'[other] # q
                      /\ \A other \in Operation :
                           operations'[other] # None => operations'[other].pairing # q
    BY DEF UncreatedIsUnknown
  <2>1. q # p /\ relay[q] = "none"
    BY <1>5 DEF Inv, TypeOK
  <2>2. /\ q \notin ended \cup {pending, session}
        /\ \A other \in Tab : owned[other] # q
        /\ \A other \in Operation :
             operations[other] # None => operations[other].pairing # q
    BY <2>1 DEF Inv, UncreatedIsUnknown
  <2> QED
    BY <1>3, <1>4, <1>5, <2>1, <2>2 DEF Inv, TypeOK
<1>8. StorageInv'
  <2>1. EndedIsNotAdopted' /\ PendingIsNew'
    BY <1>2, <1>5, Absent
    DEF Inv, TypeOK, StorageInv, EndedIsNotAdopted, PendingIsNew, NoneIsNone
  <2>2. CreatedIsKept'
    BY <1>5, Absent DEF Inv, TypeOK, StorageInv, CreatedIsKept, NoneIsNone
  <2> QED
    BY <2>1, <2>2 DEF StorageInv
<1>9. TabInv'
  <2>1. OwnedByOne'
    BY <1>2, <1>3, <1>5 DEF Inv, TypeOK, TabInv, OwnedByOne
  <2>2. AnsweredAreProbing'
    BY <1>3, <1>4 DEF Inv, TypeOK, TabInv, AnsweredAreProbing
  <2>3. ASSUME NEW other \in Operation, operations'[other] # None,
               operations'[other].answered
        PROVE  owned'[operations'[other].tab] # operations'[other].pairing
    <3>1. other # op /\ operations'[other] = operations[other]
      BY <1>3, <1>4, <2>3 DEF Inv, TypeOK
    <3>2. owned[operations[other].tab] # operations[other].pairing
      BY <2>3, <3>1 DEF Inv, TabInv, OriginalIsNotCovered
    <3>3. operations[other].pairing # p
      BY <1>2, <2>3, <3>1
    <3>4. operations[other] \in Wait /\ operations[other].tab \in Tab
      BY <2>3, <3>1 DEF Inv, TypeOK, Wait
    <3> QED
      BY <1>3, <1>5, <3>1, <3>2, <3>3, <3>4 DEF Inv, TypeOK
  <2> QED
    BY <2>1, <2>2, <2>3 DEF TabInv, OriginalIsNotCovered
<1> QED
  BY <1>6, <1>7, <1>8, <1>9 DEF Inv

\* A wait ends, or goes on to probe, and nothing else happens.
LEMMA GivingUpKeeps ==
    ASSUME Inv, NEW op \in Operation,
           CreationFails(op) \/ Superseded(op) \/ ReadFails(op) \/ TimesOut(op)
    PROVE  Inv'
<1>1. PICK final \in BOOLEAN :
        /\ Settle(op, final)
        /\ In(op, {"polling", "last"}) \/ (In(op, {"creating"}) /\ ~final)
  BY DEF CreationFails, Superseded, ReadFails, TimesOut, In
<1>2. WaitsAreKnown
  BY <1>1, SettledWaits
<1>3. UNCHANGED <<local, tabVars, relay>>
  BY DEF CreationFails, Superseded, ReadFails, TimesOut
<1>4. OtherTypes /\ relay' \in [Pairing -> Status] /\ UNCHANGED owned
  BY <1>3 DEF Inv, TypeOK, OtherTypes, tabVars
<1> QED
  BY <1>2, <1>3, <1>4, SameOwned, QuietKeeps

LEMMA DeadlineKeeps ==
    ASSUME Inv, NEW op \in Operation, DeadlinePasses(op)
    PROVE  Inv'
<1> DEFINE wait == [operations[op] EXCEPT !.step = "last"]
<1>1. /\ operations[op] \in Wait /\ operations[op] # None
      /\ ~operations[op].answered /\ operations[op].pairing # None
  BY InIsWait DEF DeadlinePasses
<1>2. /\ wait \in Wait /\ wait.tab = operations[op].tab
      /\ wait.pairing = operations[op].pairing /\ wait.step = "last" /\ ~wait.answered
  BY <1>1 DEF Wait
<1>3. operations' = [operations EXCEPT ![op] = wait]
  BY DEF DeadlinePasses
<1> HIDE DEF wait
<1>4. WaitsAreKnown
  BY <1>1, <1>2, <1>3, OneWait
<1>5. /\ OtherTypes /\ relay' \in [Pairing -> Status] /\ UNCHANGED <<owned, local>>
      /\ UNCHANGED relay
  BY DEF DeadlinePasses, Inv, TypeOK, OtherTypes, tabVars
<1> QED
  BY <1>4, <1>5, SameOwned, QuietKeeps

\* assertPendingPairing: what is adopted is pending, hence not ended, and what it
\* replaces ends.
LEMMA AdoptKeeps ==
    ASSUME Inv, NEW op \in Operation, Adopt(op)
    PROVE  Inv'
<1>1. WaitsAreKnown
  BY SettledWaits DEF Adopt, ReadFinal
<1>2. OtherTypes
  BY MarkerType DEF Adopt, OtherTypes, Inv, TypeOK
<1>3. pending # None /\ session' = pending /\ pending' = None
  BY InIsWait DEF Adopt, ReadFinal, In
<1>4. ended' = ended \cup ({session} \ {None}) /\ UNCHANGED <<owned, relay>>
  BY DEF Adopt, End
<1>5. StorageMoves
  BY <1>3, <1>4 DEF Inv, TypeOK, StorageMoves
<1>6. StorageInv'
  <2>1. EndedIsNotAdopted' /\ PendingIsNew'
    BY <1>3, <1>4, Absent
    DEF Inv, TypeOK, StorageInv, EndedIsNotAdopted, PendingIsNew, NoneIsNone
  <2>2. CreatedIsKept'
    BY <1>3, <1>4, Absent DEF Inv, StorageInv, CreatedIsKept, NoneIsNone
  <2> QED
    BY <2>1, <2>2 DEF StorageInv
<1> QED
  BY <1>1, <1>2, <1>4, <1>5, <1>6, SameOwned, MovesKeep

\* The pending pairing is given up: refused, expired, cancelled by disconnect().
LEMMA GoneKeeps ==
    ASSUME Inv, WaitsAreKnown, OtherTypes, UNCHANGED <<owned, relay>>,
           pending' = None, session' \in {session, None},
           ended' = ended \cup ({pending, IF session' = session THEN None ELSE session}
                                  \ {None})
    PROVE  Inv'
<1>1. StorageMoves
  BY DEF Inv, TypeOK, StorageMoves
<1>2. EndedIsNotAdopted' /\ PendingIsNew'
  BY Absent DEF Inv, TypeOK, StorageInv, EndedIsNotAdopted, PendingIsNew, NoneIsNone
<1>3. CreatedIsKept'
  BY Absent DEF Inv, StorageInv, CreatedIsKept, NoneIsNone
<1> QED
  BY <1>1, <1>2, <1>3, SameOwned, MovesKeep DEF StorageInv

LEMMA DiscardKeeps ==
    ASSUME Inv, NEW op \in Operation, Discard(op)
    PROVE  Inv'
<1>1. PICK final \in BOOLEAN : Settle(op, final)
  BY DEF Discard
<1>2. WaitsAreKnown
  BY <1>1, SettledWaits DEF Discard, ReadFinal
<1>3. OtherTypes /\ UNCHANGED <<owned, relay, session>>
  BY MarkerType DEF Discard, OtherTypes, Inv, TypeOK
<1>4. CASE UNCHANGED <<pending, ended>>
  BY <1>2, <1>3, <1>4, SameOwned, QuietKeeps DEF local, Inv, TypeOK
<1>5. CASE pending' = None /\ ended' = ended \cup ({pending} \ {None})
  BY <1>2, <1>3, <1>5, GoneKeeps
<1> QED
  BY <1>4, <1>5 DEF Discard, End

LEMMA NotPendingKeeps ==
    ASSUME Inv, NEW op \in Operation, NotPending(op)
    PROVE  Inv'
<1>1. WaitsAreKnown
  BY SettledWaits DEF NotPending, ReadFinal
<1>2. OtherTypes /\ relay' \in [Pairing -> Status]
  BY MarkerType DEF NotPending, OtherTypes, Inv, TypeOK
<1> QED
  BY <1>1, <1>2, SameOwned, QuietKeeps DEF NotPending

LEMMA ProbeEndsKeeps ==
    ASSUME Inv, NEW op \in Operation, ProbeEnds(op)
    PROVE  Inv'
<1>1. WaitsAreKnown
  BY OneWait DEF ProbeEnds
<1>2. OtherTypes /\ relay' \in [Pairing -> Status] /\ UNCHANGED owned
  BY DEF ProbeEnds, OtherTypes, Inv, TypeOK, tabVars
<1> QED
  BY <1>1, <1>2, SameOwned, QuietKeeps DEF ProbeEnds

\* Another tab answers, which owns the pairing, so that the callback tab does not.
LEMMA OwnerAnswersKeeps ==
    ASSUME Inv, NEW op \in Operation, NEW tab \in Tab, OwnerAnswers(op, tab)
    PROVE  Inv'
<1> DEFINE wait == [operations[op] EXCEPT !.answered = TRUE]
<1>1. operations[op] \in Wait /\ operations[op] # None /\ operations[op].step = "probing"
  BY DEF OwnerAnswers, In, Inv, TypeOK
<1>2. operations[op].pairing # None
  BY <1>1 DEF Inv, TypeOK
<1>3. /\ wait \in Wait /\ wait # None /\ wait.step = "probing"
      /\ wait.pairing = operations[op].pairing /\ wait.tab = operations[op].tab
      /\ wait.tab \in Tab
  BY <1>1, Absent DEF Wait, NoneIsNone
<1>4. operations' = [operations EXCEPT ![op] = wait]
  BY DEF OwnerAnswers
<1> HIDE DEF wait
<1>5. UNCHANGED <<local, tabVars, relay>>
  BY DEF OwnerAnswers
<1>6. owned[wait.tab] # wait.pairing
  BY <1>2, <1>3 DEF OwnerAnswers, Owns, Inv, TabInv, OwnedByOne
<1>7. TypeOK'
  <2>1. \A other \in Operation : operations'[other] # None =>
          (operations'[other].pairing = None <=> operations'[other].step = "creating")
    BY <1>2, <1>3, <1>4 DEF Inv, TypeOK
  <2> QED
    BY <1>3, <1>4, <1>5, <2>1 DEF Inv, TypeOK, local, tabVars
<1>8. UncreatedIsUnknown'
  BY <1>1, <1>3, <1>4, <1>5 DEF Inv, TypeOK, UncreatedIsUnknown, local, tabVars
<1>9. StorageInv'
  BY <1>5 DEF Inv, StorageInv, EndedIsNotAdopted, PendingIsNew, CreatedIsKept, local
<1>10. OwnedByOne' /\ AnsweredAreProbing'
  BY <1>3, <1>4, <1>5 DEF Inv, TypeOK, TabInv, OwnedByOne, AnsweredAreProbing, tabVars
<1>11. OriginalIsNotCovered'
  BY <1>3, <1>4, <1>5, <1>6 DEF Inv, TypeOK, TabInv, OriginalIsNotCovered, tabVars
<1> QED
  BY <1>7, <1>8, <1>9, <1>10, <1>11 DEF Inv, TabInv

LEMMA InvalidatedWaits ==
    ASSUME Inv, NEW tab \in Tab, operations' = Invalidated(tab)
    PROVE  WaitsAreKnown
<1>1. ASSUME NEW op \in Operation, operations[op] # None
      PROVE  /\ [operations[op] EXCEPT !.stale = TRUE] \in Wait
             /\ operations[op] = [operations[op] EXCEPT !.stale = operations[op].stale]
             /\ [operations[op] EXCEPT !.stale = TRUE].stale = TRUE
  BY <1>1 DEF Inv, TypeOK, Wait
<1>2. \A op \in Operation :
        operations'[op] = IF Of(tab, op) /\ operations[op].kind # "callback"
                          THEN [operations[op] EXCEPT !.stale = TRUE] ELSE operations[op]
  BY DEF Invalidated
<1>3. operations' \in [Operation -> Wait \cup {None}]
  BY <1>1 DEF Invalidated, Of, Inv, TypeOK
<1> QED
  BY <1>1, <1>2, <1>3, FewerWaits DEF Of

LEMMA LeavingKeeps ==
    ASSUME Inv, NEW tab \in Tab, Disconnect(tab) \/ Dispose(tab)
    PROVE  Inv'
<1>1. WaitsAreKnown
  BY InvalidatedWaits DEF Disconnect, Dispose
<1>2. /\ OtherTypes /\ relay' \in [Pairing -> Status]
      /\ UNCHANGED <<owned, local, relay>>
  BY DEF Disconnect, Dispose, OtherTypes, Inv, TypeOK
<1> QED
  BY <1>1, <1>2, SameOwned, QuietKeeps

LEMMA FinishDisconnectKeeps ==
    ASSUME Inv, NEW tab \in Tab, FinishDisconnect(tab)
    PROVE  Inv'
<1>1. WaitsAreKnown
  BY SameWaits DEF FinishDisconnect
<1>2. OtherTypes /\ UNCHANGED <<owned, relay>>
  BY DEF FinishDisconnect, OtherTypes, Inv, TypeOK
<1>3. /\ pending' = None /\ session' = None
      /\ ended' = ended \cup ({session, pending} \ {None})
  BY DEF FinishDisconnect, End
<1> QED
  BY <1>1, <1>2, <1>3, GoneKeeps

LEMMA ExpireKeeps ==
    ASSUME Inv, Expire
    PROVE  Inv'
<1>1. WaitsAreKnown
  BY SameWaits DEF Expire
<1>2. OtherTypes /\ UNCHANGED <<owned, relay, session>>
  BY DEF Expire, OtherTypes, Inv, TypeOK, tabVars
<1>3. pending' = None /\ ended' = ended \cup ({pending} \ {None})
  BY DEF Expire, End
<1> QED
  BY <1>1, <1>2, <1>3, GoneKeeps

LEMMA LoadKeeps ==
    ASSUME Inv, NEW tab \in Tab, NEW p \in Pairing \cup {None}, Load(tab, p)
    PROVE  Inv'
<1> DEFINE kept == [op \in Operation |-> IF Of(tab, op) THEN None ELSE operations[op]]
<1>1. /\ kept \in [Operation -> Wait \cup {None}]
      /\ \A op \in Operation : kept[op] # None => kept[op] = operations[op]
  BY DEF Inv, TypeOK
<1>2. \/ operations' = kept
      \/ /\ p # None /\ p = pending
         /\ \E op \in Operation :
              operations' = [kept EXCEPT ![op] = NewWait(tab, "callback", p)]
  BY DEF Load
<1> HIDE DEF kept
<1>3. ASSUME operations' = kept PROVE WaitsAreKnown
  <2>1. \A op \in Operation : operations'[op] # None =>
          /\ operations'[op] = operations[op]
          /\ operations[op].pairing = None <=> operations[op].step = "creating"
    BY <1>1, <1>3 DEF Inv, TypeOK
  <2> QED
    BY <1>1, <1>3, <2>1 DEF WaitsAreKnown
<1>4. ASSUME p = pending, p # None, NEW op \in Operation,
             operations' = [kept EXCEPT ![op] = NewWait(tab, "callback", p)]
      PROVE  WaitsAreKnown
  <2>1. /\ NewWait(tab, "callback", p) \in Wait
        /\ NewWait(tab, "callback", p).pairing = p
        /\ NewWait(tab, "callback", p).step # "creating"
        /\ ~NewWait(tab, "callback", p).answered
    BY <1>4, NewWaitIsWait DEF Inv
  <2> QED
    BY <1>1, <1>4, <2>1 DEF Inv, TypeOK, WaitsAreKnown
<1>5. WaitsAreKnown
  BY <1>2, <1>3, <1>4
<1>6. /\ OtherTypes /\ relay' \in [Pairing -> Status]
      /\ UNCHANGED <<owned, local, relay>>
  BY DEF Load, OtherTypes, Inv, TypeOK
<1> QED
  BY <1>5, <1>6, SameOwned, QuietKeeps

LEMMA CloseKeeps ==
    ASSUME Inv, NEW tab \in Tab, CloseTab(tab)
    PROVE  Inv'
<1>1. WaitsAreKnown
  BY DEF CloseTab, Inv, TypeOK, WaitsAreKnown
<1>2. OwnedShrinks
  BY DEF CloseTab, Inv, TypeOK, OwnedShrinks
<1>3. OtherTypes /\ relay' \in [Pairing -> Status] /\ UNCHANGED <<local, relay>>
  BY DEF CloseTab, OtherTypes, Inv, TypeOK
<1> QED
  BY <1>1, <1>2, <1>3, QuietKeeps

LEMMA DecideKeeps ==
    ASSUME Inv, NEW p \in Pairing, Decide(p)
    PROVE  Inv'
<1>1. WaitsAreKnown
  BY SameWaits DEF Decide
<1>2. OtherTypes /\ UNCHANGED <<owned, local>>
  BY DEF Decide, OtherTypes, Inv, TypeOK, tabVars
<1>3. /\ relay' \in [Pairing -> Status]
      /\ \A q \in Pairing : relay'[q] = "none" <=> relay[q] = "none"
  BY DEF Decide, Inv, TypeOK, Status
<1> QED
  BY <1>1, <1>2, <1>3, SameOwned, QuietKeeps

LEMMA StutterKeeps ==
    ASSUME Inv, UNCHANGED vars
    PROVE  Inv'
<1>1. WaitsAreKnown
  BY SameWaits DEF vars
<1>2. /\ OtherTypes /\ UNCHANGED <<owned, local, relay>> /\ relay' \in [Pairing -> Status]
  BY DEF vars, tabVars, OtherTypes, Inv, TypeOK
<1> QED
  BY <1>1, <1>2, SameOwned, QuietKeeps

LEMMA NextKeeps == Inv /\ [Next]_vars => Inv'
<1> SUFFICES ASSUME Inv, [Next]_vars PROVE Inv'
  OBVIOUS
<1>1. ASSUME NEW op \in Operation, Step(op) PROVE Inv'
  BY <1>1, CreatedKeeps, GivingUpKeeps, DeadlineKeeps, AdoptKeeps, DiscardKeeps,
     NotPendingKeeps, ProbeEndsKeeps DEF Step
<1>2. ASSUME NEW op \in Operation, NEW tab \in Tab, Connect(tab, op) \/ OwnerAnswers(op, tab)
      PROVE  Inv'
  BY <1>2, ConnectKeeps, OwnerAnswersKeeps
<1>3. ASSUME NEW tab \in Tab, Open(tab) \/ Reload(tab) \/ OpenCallback(tab)
      PROVE  Inv'
  <2>1. PICK p \in Pairing \cup {None} : Load(tab, p)
    BY <1>3 DEF Open, Reload, OpenCallback, Inv, TypeOK
  <2> QED
    BY <2>1, LoadKeeps
<1>4. ASSUME NEW tab \in Tab,
             \/ Disconnect(tab) \/ FinishDisconnect(tab) \/ Dispose(tab)
             \/ CloseTab(tab)
      PROVE  Inv'
  BY <1>4, LeavingKeeps, FinishDisconnectKeeps, CloseKeeps
<1> QED
  BY <1>1, <1>2, <1>3, <1>4, DecideKeeps, ExpireKeeps, StutterKeeps DEF Next

THEOREM Invariant == Spec => []Inv
BY InitInv, NextKeeps, PTL DEF Spec

------------------------------------------------------------------------------
(* Theorems                                                                *)

\* The state has its declared form in every reachable state.
THEOREM TypeCorrect == Spec => []TypeOK
<1>1. Inv => TypeOK
  BY DEF Inv
<1> QED
  BY <1>1, Invariant, PTL

\* A pairing that came to an end in one tab is adopted by none, however many tabs
\* wait for it and read its approval late (assertPendingPairing).
THEOREM EndedStaysEnded == Spec => []EndedIsNotAdopted
<1>1. Inv => EndedIsNotAdopted
  BY DEF Inv, StorageInv
<1> QED
  BY <1>1, Invariant, PTL

\* An approved pairing is the session, is pending to be resumed, or came to an
\* end, whatever waits for it time out, fail, are cancelled or closed.
THEOREM ApprovalKept == Spec => []ApprovedIsNotLost
<1>1. Inv => ApprovedIsNotLost
  BY DEF Inv, StorageInv, CreatedIsKept, ApprovedIsNotLost
<1> QED
  BY <1>1, Invariant, PTL

\* The tab that owns a pairing is never told to return to the original tab
\* (hasLiveOriginalMobileTab).
THEOREM OriginalUncovered == Spec => []OriginalIsNotCovered
<1>1. Inv => OriginalIsNotCovered
  BY DEF Inv, TabInv
<1> QED
  BY <1>1, Invariant, PTL
==============================================================================
